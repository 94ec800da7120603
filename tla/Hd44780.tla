------------------------------ MODULE Hd44780 -------------------------------
(***************************************************************************)
(* The character display HD44780 (dev_hd44780.c, 4 bit mode without the    *)
(* R/W line, as shipped) and its driver.                                   *)
(*                                                                         *)
(* The driver never asks whether the display is busy; it waits.  The       *)
(* display executes an instruction when E falls.                           *)
(***************************************************************************)
EXTENDS Gpio, FiniteSetsExt

CONSTANTS Cells,      \* addresses of the display memory
          Chars,      \* characters written
          GpioTimes,  \* how long setting a line may take, in us
          Fast,       \* of these, the times of a fast clock; the others are
                      \* those of a clock of about 1 MHz or less
          Lines, Font, \* lines and font of struct dev_hd44780_ctx
          MaxText     \* characters of a text (bound)

ASSUME LcdAssumption == /\ Cells \in 1..128 /\ Chars \subseteq 0..255
                        /\ GpioTimes \subseteq Nat /\ Fast \subseteq GpioTimes
                        /\ \A us \in GpioTimes \ Fast : us >= 5
                        /\ Lines \in Nat /\ Font \in 0..1 /\ MaxText \in Nat

VARIABLES lcdCall,  \* the call of the driver that ran last
          gpioUs,   \* how long setting a line takes
          disp,     \* the display
          screen,   \* what the calls so far should have made of it: [ram, addr]
          rushed,   \* the call wrote to a busy display
          missed,   \* a write was lost
          torn      \* a reset of the microcontroller left it half a byte, not 3

lcd == <<lcdCall, gpioUs, disp, screen, rushed, missed, torn>>

Space == 32
Blank == [a \in 0..Cells - 1 |-> Space]
DataLine(x) == <<"d0", "d1", "d2", "d3">>[x + 1]
Bit(v, x) == (v \div 2^x) % 2

-----------------------------------------------------------------------------
(* The driver. *)

FunctionSet(dl, lines, font) == 32 + 16 * dl + 8 * lines + 4 * font
DisplayControl(on, cursor, blink) == 8 + 4 * on + 2 * cursor + blink
EntryMode(inc, shift) == 4 + 2 * inc + shift

Latch == <<Low("e"), Delay(1), High("e"), Delay(1), Low("e")>>

(* The data lines from 3 to 0, then the latch. *)
NibbleOps(v) ==
    [i \in 1..4 |-> IF Bit(v, 4 - i) = 1 THEN High(DataLine(4 - i)) ELSE Low(DataLine(4 - i))]
    \o Latch

Nibble(v) == [op |-> "nibble", pin |-> "none", val |-> v]

(* fault: the low nibble goes first *)
WriteOpsSwapped(v, line) == <<IF line = "rs" THEN High("rs") ELSE Low("rs"),
                              Nibble(v % 16), Nibble(v \div 16)>>

WriteOps(v, line) == <<IF line = "rs" THEN High("rs") ELSE Low("rs"),
                       Nibble(v \div 16), Nibble(v % 16)>>

Write(v, line) == [op |-> "write", pin |-> line, val |-> v]
Cmd(v) == <<Write(v, "none"), Delay(40)>>

(* fault: cleared like any other command *)
ClrscrShort == Cmd(1)

Clrscr == Cmd(1) \o <<Delay(1700)>>
Goto(a) == Cmd(128 + a)

(* The loop of hd44780_puts repeats the write; the wait of hd44780_putc,    *)
(* the second statement of a macro, comes once, after it.                   *)
Puts(s) == [i \in 1..Len(s) |-> Write(s[i], "rs")] \o <<Delay(40)>>

LineUp(x) == <<Output(DataLine(x)), High(DataLine(x))>>

InitOps ==
    <<Output("rs"), Output("e"), Low("rs"), Low("e")>>
    \o LineUp(3) \o LineUp(2) \o LineUp(1) \o LineUp(0)
    \o <<Delay(50000), Low("d3"), Low("d2")>>
    \o Latch \o <<Delay(5000)>> \o Latch \o <<Delay(100), Low("d0")>> \o Latch \o <<Delay(10)>>
    \o Cmd(FunctionSet(0, IF Lines >= 2 THEN 1 ELSE 0, Font))
    \o Cmd(DisplayControl(1, 0, 0)) \o Clrscr \o Cmd(EntryMode(1, 0))

-----------------------------------------------------------------------------
(* The display.  cold counts the function sets that still take long after   *)
(* power on, until it is in 4 bit mode; busy is in us; the low data lines,  *)
(* not connected, read as 0 (bound).                                        *)
WarmUp == 40000
PowerOn == [wide |-> TRUE, half |-> -1, busy |-> WarmUp, cold |-> 2, addr |-> 0, inc |-> 1,
            on |-> 0, two |-> 0, ram |-> [a \in 0..Cells - 1 |-> -1]]

Later(d, us) == [d EXCEPT !.busy = IF @ > us THEN @ - us ELSE 0]

Execute(d, data, b) ==
    CASE data -> [d EXCEPT !.ram[d.addr] = b, !.busy = 37,
                           !.addr = (@ + Cells + 2 * d.inc - 1) % Cells]
      [] ~data /\ b >= 128 -> [d EXCEPT !.addr = (b - 128) % Cells, !.busy = 37]
      [] ~data /\ b \in 32..63 ->
            [d EXCEPT !.wide = Bit(b, 4) = 1, !.two = Bit(b, 3),
                      !.cold = IF Bit(b, 4) = 1 /\ @ > 0 THEN @ - 1 ELSE 0,
                      !.busy = CASE d.cold = 2 -> 4100 [] d.cold = 1 -> 100 [] OTHER -> 37]
      [] ~data /\ b \in 8..15 -> [d EXCEPT !.on = Bit(b, 2), !.busy = 37]
      [] ~data /\ b \in 4..7 -> [d EXCEPT !.inc = Bit(b, 1), !.busy = 37]
      [] ~data /\ b \in 2..3 -> [d EXCEPT !.addr = 0, !.busy = 1520]
      [] ~data /\ b = 1 -> [d EXCEPT !.ram = Blank, !.addr = 0, !.inc = 1, !.busy = 1520]
      [] OTHER -> d

(* What E falling makes of the display when it takes the nibble v. *)
Taken(d, data, v) ==
    CASE d.wide -> Execute(d, data, 16 * v)
      [] ~d.wide /\ d.half = -1 -> [d EXCEPT !.half = v]
      [] OTHER -> Execute([d EXCEPT !.half = -1], data, 16 * d.half + v)

OnLines(p) == LET b(x) == IF DataLine(x) \in p THEN 2^x ELSE 0 IN b(0) + b(1) + b(2) + b(3)

Falls == "e" \in port /\ "e" \notin port'

LcdInit == /\ lcdCall = "none" /\ gpioUs \in GpioTimes
           /\ disp = PowerOn /\ screen = [ram |-> Blank, addr |-> 0]
           /\ rushed = FALSE /\ missed = FALSE /\ torn = FALSE

(* A line is set. *)
SetLine ==
    /\ Store
    /\ LET d == Later(disp, gpioUs)
           t == Taken(d, "rs" \in port, OnLines(port))
       IN IF ~Falls THEN disp' = d /\ UNCHANGED <<rushed, missed>>
          ELSE IF d.busy = 0 THEN disp' = t /\ UNCHANGED <<rushed, missed>>
          ELSE /\ rushed' = TRUE
               /\ \/ disp' = t /\ UNCHANGED missed
                  \/ disp' = d /\ missed' = TRUE
    /\ UNCHANGED <<lcdCall, gpioUs, screen, torn>>

(* The steps of a call. *)
LcdStep ==
    \/ SetLine
    \/ Pause /\ disp' = Later(disp, Head(todo).val)
             /\ UNCHANGED <<lcdCall, gpioUs, screen, rushed, missed, torn>>
    \/ (Load \/ Configure) /\ UNCHANGED lcd
    \/ Doing("write") /\ Becomes(WriteOps(Head(todo).val, Head(todo).pin)) /\ UNCHANGED lcd
    \/ Doing("nibble") /\ Becomes(NibbleOps(Head(todo).val)) /\ UNCHANGED lcd

LcdBegin(c, ops, s) ==
    /\ todo = <<>> /\ todo' = ops /\ lcdCall' = c /\ screen' = s /\ rushed' = FALSE
    /\ UNCHANGED <<port, ddr, held, gpioUs, disp, missed, torn>>

hd44780_init == /\ lcdCall = "none"
                /\ LcdBegin("init", InitOps, [ram |-> Blank, addr |-> 0])

Strings == UNION {[1..n -> Chars] : n \in 1..MaxText}

(* What the characters of s make of a screen: a cell holds the last that    *)
(* came to it.                                                              *)
Typed(sc, s) ==
    LET at(a) == {i \in 1..Len(s) : (sc.addr + i - 1) % Cells = a}
    IN [ram |-> [a \in 0..Cells - 1 |-> IF at(a) = {} THEN sc.ram[a] ELSE s[Max(at(a))]],
        addr |-> (sc.addr + Len(s)) % Cells]

(* The other calls.  A program whose display lost a write, or that          *)
(* initialised one with half a byte, does nothing more with it (bound).     *)
LcdCalls ==
    /\ lcdCall # "none" /\ ~missed /\ ~torn
    /\ \/ LcdBegin("clrscr", Clrscr, [ram |-> Blank, addr |-> 0])
       \/ \E a \in 0..Cells - 1 : LcdBegin("goto", Goto(a), [screen EXCEPT !.addr = a])
       \/ \E s \in Strings : LcdBegin("puts", Puts(s), Typed(screen, s))

-----------------------------------------------------------------------------
(* The waits are long enough for the instruction before: never with a slow  *)
(* clock, and with a fast one only in the calls that do not wait, which are *)
(* hd44780_init after its last latch and hd44780_puts between characters.   *)
NotWhileBusy == rushed => gpioUs \in Fast /\ lcdCall \in {"init", "puts"}

(* The waits are always long enough.                                        *)
NeverRushed == ~rushed

(* Between calls the display shows what the calls wrote, on, with the       *)
(* cursor where the calls left it (hd44780_init, hd44780_write), with two   *)
(* exceptions.  A write to a busy display may have been lost: NotWhileBusy  *)
(* says when.  And a reset of the microcontroller may have left the display *)
(* the first half of a byte: hd44780_init latches 3, 3 and 2                *)
(* (dev_hd44780.c:43-53), the display takes the first for the rest of that  *)
(* byte and the others for 0x32, and stays half a byte behind, unless the   *)
(* half that it had is a 3 too.                                             *)
TextShown ==
    lcdCall # "none" /\ todo = <<>> /\ ~missed /\ ~torn =>
        /\ disp.ram = screen.ram /\ disp.addr = screen.addr
        /\ disp.on = 1 /\ disp.inc = 1 /\ ~disp.wide /\ disp.half = -1 /\ disp.busy = 0
=============================================================================
