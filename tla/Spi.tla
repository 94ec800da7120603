-------------------------------- MODULE Spi ---------------------------------
(***************************************************************************)
(* The SPI port, polled (spi_hw_poll.c).  SPIF is set at the end of a      *)
(* transfer; it is cleared by an access to SPDR after a read of SPSR that  *)
(* saw it set.                                                             *)
(***************************************************************************)
EXTENDS Gpio

CONSTANTS Answers  \* bytes the other end may send

ASSUME AnswersAssumption == Answers \subseteq 0..255

VARIABLES spi,    \* the registers: [spe, mstr, spr, x2, cmode, spif, seen, shifting, spdr]
          asked,  \* what spi_hw_poll_init and spi_hw_poll_clock_mode_set asked for
          answer, \* the byte the other end sent last
          got     \* the byte spi_hw_poll_recv returned, -1 for none

bus == <<spi, asked, answer, got>>

Send(b) == [op |-> "send", pin |-> "none", val |-> b]
Wait == [op |-> "wait", pin |-> "none", val |-> 0]
Recv == [op |-> "recv", pin |-> "none", val |-> 0]

(* fault: the wait is left out *)
SendOpsAtOnce(b) == <<Send(b)>>

(* fault: the end of the transfer before is awaited *)
SendOpsWaitFirst(b) == <<Wait, Send(b)>>

(* spi_hw_poll_send of one byte: SPDR is written, SPIF awaited. *)
SendOps(b) == <<Send(b), Wait>>

(* spi_hw_poll_sendc, f_sendc and f_send of the bus. *)
BusSendOps(b) == SendOps(b)

BusInit == /\ spi = [spe |-> FALSE, mstr |-> FALSE, spr |-> 0, x2 |-> 0, cmode |-> 0,
                     spif |-> FALSE, seen |-> FALSE, shifting |-> FALSE, spdr |-> 0]
           /\ asked = [master |-> FALSE, speed |-> 0, cmode |-> 0]
           /\ answer = -1 /\ got = -1

(* fault: bit 2 of the speed is not moved to SPI2X *)
DoubledNot(speed) == 0

(* (speed & 0x04) >> 2 *)
Doubled(speed) == (speed \div 4) % 2

spi_hw_poll_init(master, speed) ==
    /\ todo = <<>>
    /\ spi' = [spi EXCEPT !.spe = TRUE, !.mstr = master, !.spr = speed % 4,
                          !.x2 = Doubled(speed), !.cmode = 0]
    /\ ddr' = IF master THEN (ddr \cup {"sck", "mosi", "ss"}) \ {"miso"}
                        ELSE (ddr \ {"sck", "mosi", "ss"}) \cup {"miso"}
    /\ asked' = [master |-> master, speed |-> speed, cmode |-> 0]
    /\ UNCHANGED <<port, held, todo, answer, got>>

(* The bits are or-ed to the 0 left by spi_hw_poll_init. *)
spi_hw_poll_clock_mode_set(m) ==
    /\ todo = <<>> /\ asked.cmode = 0
    /\ spi' = [spi EXCEPT !.cmode = m % 4]
    /\ asked' = [asked EXCEPT !.cmode = m]
    /\ UNCHANGED <<gpio, answer, got>>

(* SPDR is accessed: SPIF is cleared when it has been seen. *)
Accessed == [spi EXCEPT !.spif = @ /\ ~spi.seen, !.seen = FALSE]

SendByte == /\ Doing("send") /\ Becomes(<<>>)
            /\ spi' = [Accessed EXCEPT !.spdr = Head(todo).val, !.shifting = spi.spe]
            /\ UNCHANGED <<asked, answer, got>>

(* while (bit_is_clear(SPSR, SPIF)) *)
AwaitEnd == /\ Doing("wait") /\ spi.spif /\ Becomes(<<>>)
            /\ spi' = [spi EXCEPT !.seen = TRUE]
            /\ UNCHANGED <<asked, answer, got>>

(* spi_hw_poll_recv of one byte; it waits for SPIF and starts no transfer. *)
RecvByte == /\ Doing("recv") /\ spi.spif /\ Becomes(<<>>)
            /\ got' = spi.spdr
            /\ spi' = [spi EXCEPT !.spif = FALSE, !.seen = FALSE]
            /\ UNCHANGED <<asked, answer>>

(* A transfer ends: a master clocks it. *)
Shifted(b) == /\ spi.shifting /\ spi.mstr
              /\ spi' = [spi EXCEPT !.shifting = FALSE, !.spif = TRUE, !.spdr = b]
              /\ answer' = b
              /\ UNCHANGED <<gpio, asked, got>>

(* Divider of the clock, by SPR and SPI2X (datasheet). *)
SpiDivider == IF spi.x2 = 1 THEN <<2, 8, 32, 64>>[spi.spr + 1] ELSE <<4, 16, 64, 128>>[spi.spr + 1]

(* e_spi_speed names the divider: F4, F16, F64, F128, F2, F8, F32. *)
SpeedName(s) == <<4, 16, 64, 128, 2, 8, 32>>[s + 1]

-----------------------------------------------------------------------------
(* The port runs at the speed its enumeration names and in the mode asked   *)
(* for (spi_hw_poll_init, spi_hw_poll_clock_mode_set).                      *)
SpiAsAsked == spi.spe => /\ SpiDivider = SpeedName(asked.speed)
                         /\ spi.cmode = asked.cmode /\ spi.mstr = asked.master
=============================================================================
