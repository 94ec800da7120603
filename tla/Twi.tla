-------------------------------- MODULE Twi ---------------------------------
(***************************************************************************)
(* The two-wire master: twi.c and twi_common.c, on the TWI peripheral and  *)
(* a bus with devices (both external).                                     *)
(*                                                                         *)
(* TWI_vect is ISR_BLOCK and one action.  _twi_mx is one action as well:   *)
(* a program calls twi_sync before it starts another transaction, and no   *)
(* interrupt is raised between that and the write of TWCR that ends        *)
(* _twi_mx.  Data are told apart by their place in the buffer, from 1.     *)
(***************************************************************************)
EXTENDS Integers, Sequences

CONSTANTS Ctx, NULL,           \* the contexts; the null pointer
          Addr,                \* device addresses
          Present,             \* the addresses of the devices on the bus
          ScanFirst, ScanLast, \* 0x60 and 0x6f in twi_search_devices
          Freq,                \* the e_twi_scl_freq values the program uses
          LenMod,              \* 2^16: len is a uint16_t
          Lens,                \* the lengths the program asks for (bound)
          StopFlags,           \* the values of E_TWI_BIT_SEND_STOP in a_flag
          Garbage,             \* the values of E_TWI_BIT_REPEATED_START before twi_minit
          Faults,              \* what can go wrong on the bus
          Disciplined,         \* after a repeated START the same context goes on
          MaxCalls             \* transactions and searches of the program (bound)

ASSUME NullAssumption == NULL \notin Ctx
ASSUME AddrAssumption == /\ Addr \subseteq Nat /\ Present \subseteq Addr /\ 0 \in Addr
                         /\ {ScanFirst, ScanLast} \subseteq Nat /\ ScanFirst..ScanLast \subseteq Addr
ASSUME LenAssumption == LenMod \in Nat \ {0} /\ Lens \subseteq 0 .. LenMod - 1
ASSUME FlagAssumption == /\ StopFlags \subseteq BOOLEAN /\ Garbage \subseteq BOOLEAN
                         /\ Disciplined \in BOOLEAN
ASSUME FaultAssumption == Faults \subseteq {"nack", "arb_lost", "bus_error", "addressed"}
ASSUME CallsAssumption == MaxCalls \in Nat

VARIABLES ctx,     \* the contexts
          ready,   \* the contexts twi_minit was called for
          g,       \* g_bus_ctx
          twint, twsr, twdr, ie, ea,  \* TWINT, TWSR & 0xf8, TWDR, TWIE and TWEA
          twbr,    \* the frequency that TWBR is set up for
          phase,   \* what the peripheral does
          owned,   \* the peripheral holds the bus
          wire,    \* the bytes a device accepted in this transaction
          buf,     \* what this transaction stored: the byte for each place, in order
          pc,      \* the step of the program
          req,     \* the call it makes or made last
          dev, found, \* i and a_dev in twi_search_devices
          calls    \* calls made

hw == <<twint, twsr, twdr, ie, ea, phase, owned>>
program == <<ready, pc, req, dev, found, calls>>
vars == <<hw, program, ctx, g, twbr, wire, buf>>

Errors == 0..5
Context == [addr : Addr, rw : {"w", "r"}, len : 0 .. LenMod - 1, xdata : Nat, freq : Freq,
            busy : BOOLEAN, rs : BOOLEAN, stop : BOOLEAN, err : Errors]
Status == {"none", "START", "REP_START", "MT_SLA_ACK", "MT_SLA_NACK", "MT_DATA_ACK",
           "MT_DATA_NACK", "ARB_LOST", "MR_SLA_ACK", "MR_SLA_NACK", "MR_DATA_ACK",
           "MR_DATA_NACK", "BUS_ERROR", "SR_SLA_ACK"}
Phase == {"none", "start", "addr", "tx", "rx", "stop", "stop_start"}

TypeOK == /\ ctx \in [Ctx -> Context]
          /\ ready \subseteq Ctx
          /\ g \in Ctx \cup {NULL}
          /\ {twint, ie, ea, owned} \subseteq BOOLEAN
          /\ twsr \in Status
          /\ twdr.kind \in {"sla", "data"}
          /\ twbr \in Freq
          /\ phase \in Phase
          /\ wire \in Seq(Nat) /\ buf \in Seq(Nat)
          /\ pc \in {"idle", "sync", "scan", "scan_sync"}
          /\ req \in [ctx : Ctx, rw : {"w", "r"}, len : 0 .. LenMod - 1, addr : Addr]
          /\ dev \in Nat /\ found \subseteq Addr
          /\ calls \in 0..MaxCalls

Init == /\ ctx \in [Ctx -> {[addr |-> 0, rw |-> "w", len |-> 0, xdata |-> 1, freq |-> f,
                             busy |-> FALSE, rs |-> r, stop |-> FALSE, err |-> 0] :
                                f \in Freq, r \in Garbage}]
        /\ ready = {}
        /\ g = NULL
        /\ twint = FALSE /\ twsr = "none" /\ twdr = [kind |-> "data", value |-> 0]
        /\ ie = FALSE /\ ea = FALSE
        /\ twbr \in Freq
        /\ phase = "none" /\ owned = FALSE
        /\ wire = <<>> /\ buf = <<>>
        /\ pc = "idle"
        /\ req \in [ctx : Ctx, rw : {"w"}, len : {0}, addr : {0}]
        /\ dev = 0 /\ found = {}
        /\ calls = 0

-----------------------------------------------------------------------------
(* The peripheral.  A write of TWCR with TWINT set clears the flag and      *)
(* starts what STO, STA or the status call for.                             *)

Continue == CASE twsr \in {"START", "REP_START"} -> "addr"
              [] twsr \in {"MT_SLA_ACK", "MT_DATA_ACK"} -> "tx"
              [] twsr \in {"MR_SLA_ACK", "MR_DATA_ACK"} -> "rx"
              [] OTHER -> "none"

WriteTWCR(sto, sta, int, tweIE, tweEA) ==
    /\ ie' = tweIE
    /\ ea' = tweEA
    /\ IF int
       THEN /\ twint' = FALSE
            /\ phase' = IF sto THEN "stop"
                        ELSE IF sta THEN IF phase = "stop" THEN "stop_start" ELSE "start"
                        ELSE Continue
       ELSE UNCHANGED <<twint, phase>>

(* The peripheral is done and reports status s. *)
Report(s) == /\ twint' = TRUE
             /\ twsr' = s
             /\ phase' = "none"
             /\ UNCHANGED <<program, ctx, g, ie, ea, twbr>>

HwStart == /\ phase = "start"
           /\ owned' = TRUE
           /\ Report(IF owned THEN "REP_START" ELSE "START")
           /\ UNCHANGED <<twdr, wire, buf>>

(* SLA+R/W is on the wire. *)
HwAddr == /\ phase = "addr"
          /\ \/ /\ twdr.value.addr \in Present
                /\ Report(IF twdr.value.rw = "w" THEN "MT_SLA_ACK" ELSE "MR_SLA_ACK")
             \/ /\ twdr.value.addr \notin Present \/ "nack" \in Faults
                /\ Report(IF twdr.value.rw = "w" THEN "MT_SLA_NACK" ELSE "MR_SLA_NACK")
          /\ UNCHANGED <<twdr, owned, wire, buf>>

HwTx == /\ phase = "tx"
        /\ \/ Report("MT_DATA_ACK") /\ wire' = Append(wire, twdr.value)
           \/ "nack" \in Faults /\ Report("MT_DATA_NACK") /\ UNCHANGED wire
        /\ UNCHANGED <<twdr, owned, buf>>

(* A device sends its next byte; wire counts them. *)
ByteComes == /\ phase = "rx"
             /\ twdr' = [kind |-> "data", value |-> Len(wire) + 1]
             /\ wire' = Append(wire, Len(wire) + 1)

HwRx == /\ ByteComes
        /\ Report(IF ea THEN "MR_DATA_ACK" ELSE "MR_DATA_NACK")
        /\ UNCHANGED <<owned, buf>>

HwStop == /\ phase \in {"stop", "stop_start"}
          /\ owned' = FALSE
          /\ phase' = IF phase = "stop" THEN "none" ELSE "start"
          /\ UNCHANGED <<twint, twsr, twdr, ie, ea, program, ctx, g, twbr, wire, buf>>

(* Another master wins the address or a byte that is sent, or acknowledges  *)
(* a byte that this one does not; the bus misbehaves; another master        *)
(* addresses this one.                                                      *)
HwFault == /\ \/ /\ "arb_lost" \in Faults /\ phase \in {"addr", "tx"}
                 /\ Report("ARB_LOST") /\ UNCHANGED <<twdr, wire>>
              \/ "arb_lost" \in Faults /\ ~ea /\ ByteComes /\ Report("ARB_LOST")
              \/ /\ "bus_error" \in Faults /\ phase \in {"addr", "tx", "rx"}
                 /\ Report("BUS_ERROR") /\ UNCHANGED <<twdr, wire>>
              \/ /\ "addressed" \in Faults /\ phase = "start" /\ ~owned /\ ea
                 /\ Report("SR_SLA_ACK") /\ UNCHANGED <<twdr, wire>>
           /\ owned' = FALSE
           /\ UNCHANGED buf

Hw == HwStart \/ HwAddr \/ HwTx \/ HwRx \/ HwStop \/ HwFault

-----------------------------------------------------------------------------
(* TWI_vect. *)

(* _twi_ack, _twi_nack *)
Ack == WriteTWCR(FALSE, FALSE, TRUE, TRUE, TRUE)
Nack(more) == WriteTWCR(FALSE, FALSE, TRUE, TRUE, more)

(* fault: the context stays busy *)
StopBusy(c) == /\ WriteTWCR(TRUE, FALSE, TRUE, TRUE, TRUE)
               /\ ctx' = [ctx EXCEPT ![g] = c]

(* _twi_stop with context c as it is by then *)
Stop(c) == /\ WriteTWCR(TRUE, FALSE, TRUE, TRUE, TRUE)
           /\ ctx' = [ctx EXCEPT ![g] = [c EXCEPT !.busy = FALSE]]

(* fault: the interrupt stays enabled for the repeated start *)
StopRsWithInterrupt(c) ==
    IF c.stop
    THEN Stop(c)
    ELSE /\ WriteTWCR(FALSE, TRUE, TRUE, TRUE, FALSE)
         /\ ctx' = [ctx EXCEPT ![g] = [c EXCEPT !.rs = TRUE, !.busy = FALSE]]

(* _twi_stop_rs: a stop, or a repeated start with the interrupt disabled *)
StopRs(c) ==
    IF c.stop
    THEN Stop(c)
    ELSE /\ WriteTWCR(FALSE, TRUE, TRUE, FALSE, FALSE)
         /\ ctx' = [ctx EXCEPT ![g] = [c EXCEPT !.rs = TRUE, !.busy = FALSE]]

(* fault: len is signed *)
Minus1Signed(l) == l - 1

Minus1(l) == (l + LenMod - 1) % LenMod

IsrStart == /\ twsr \in {"START", "REP_START"}
            /\ twdr' = [kind |-> "sla", value |-> [addr |-> ctx[g].addr, rw |-> ctx[g].rw]]
            /\ Ack
            /\ UNCHANGED <<ctx, buf>>

IsrTransmit ==
    /\ twsr \in {"MT_SLA_ACK", "MT_DATA_ACK"}
    /\ LET c == [ctx[g] EXCEPT !.len = Minus1(@)]
       IN IF ctx[g].len # 0
          THEN /\ twdr' = [kind |-> "data", value |-> c.xdata]
               /\ Ack
               /\ ctx' = [ctx EXCEPT ![g] = [c EXCEPT !.xdata = @ + 1]]
          ELSE StopRs(c) /\ UNCHANGED twdr
    /\ UNCHANGED buf

(* status |= TWSR >> 4: 2 and 3 *)
IsrTransmitNack == /\ \/ twsr = "MT_SLA_NACK" /\ StopRs([ctx[g] EXCEPT !.err = 2])
                      \/ twsr = "MT_DATA_NACK" /\ StopRs([ctx[g] EXCEPT !.err = 3])
                   /\ UNCHANGED <<twdr, buf>>

IsrArbLost == /\ twsr = "ARB_LOST"
              /\ Stop([ctx[g] EXCEPT !.err = 1])
              /\ UNCHANGED <<twdr, buf>>

(* The store through xdata at place x: places are filled in order.          *)
Stored(x) == IF x <= Len(buf) THEN [buf EXCEPT ![x] = twdr.value] ELSE Append(buf, twdr.value)

(* fault: the byte is counted after the decision *)
MoreBefore(l) == (l + 1) % LenMod # 0

(* (--len) ? TWEA : 0, with what is left *)
More(l) == l # 0

(* fault: the read is ended at once when no byte is left *)
IsrReceiveEndsEarly ==
    /\ twsr \in {"MR_SLA_ACK", "MR_DATA_ACK"}
    /\ LET stores == twsr = "MR_DATA_ACK"
           left == Minus1(ctx[g].len)
       IN /\ buf' = IF stores THEN Stored(ctx[g].xdata) ELSE buf
          /\ IF left = 0
             THEN StopRs([ctx[g] EXCEPT !.xdata = IF stores THEN @ + 1 ELSE @, !.len = left])
             ELSE /\ ctx' = [ctx EXCEPT ![g].xdata = IF stores THEN @ + 1 ELSE @, ![g].len = left]
                  /\ Nack(TRUE)
    /\ UNCHANGED twdr

IsrReceive ==
    /\ twsr \in {"MR_SLA_ACK", "MR_DATA_ACK"}
    /\ LET stores == twsr = "MR_DATA_ACK"
           left == Minus1(ctx[g].len)
       IN /\ buf' = IF stores THEN Stored(ctx[g].xdata) ELSE buf
          /\ ctx' = [ctx EXCEPT ![g].xdata = IF stores THEN @ + 1 ELSE @, ![g].len = left]
          /\ Nack(More(left))
    /\ UNCHANGED twdr

(* status |= TWSR >> 4: 5 after the last byte, 4 *)
IsrReceiveEnd ==
    /\ \/ /\ twsr = "MR_DATA_NACK"
          /\ buf' = Stored(ctx[g].xdata)
          /\ StopRs([ctx[g] EXCEPT !.err = 5])
       \/ /\ twsr = "MR_SLA_NACK"
          /\ StopRs([ctx[g] EXCEPT !.err = 4])
          /\ UNCHANGED buf
    /\ UNCHANGED twdr

IsrOther == /\ g = NULL \/ twsr \in {"BUS_ERROR", "SR_SLA_ACK", "none"}
            /\ Ack
            /\ UNCHANGED <<ctx, twdr, buf>>

TWI_vect == /\ twint /\ ie
            /\ \/ /\ g # NULL
                  /\ \/ IsrStart \/ IsrTransmit \/ IsrTransmitNack \/ IsrArbLost
                     \/ IsrReceive \/ IsrReceiveEnd
               \/ IsrOther
            /\ UNCHANGED <<program, g, twsr, twbr, owned, wire>>

-----------------------------------------------------------------------------
(* The program. *)

(* Every context is set up before the first transaction.  common_zero_mem   *)
(* clears the first byte of the context, slarw, only.                       *)
twi_minit(c, f) ==
    /\ pc = "idle" /\ g = NULL /\ c \notin ready
    /\ ready' = ready \cup {c}
    /\ ctx' = [ctx EXCEPT ![c].addr = 0, ![c].rw = "w", ![c].freq = f]
    /\ twbr' = f
    /\ WriteTWCR(FALSE, FALSE, FALSE, TRUE, TRUE)
    /\ UNCHANGED <<twsr, twdr, owned, g, wire, buf, pc, req, dev, found, calls>>

(* The write of TWCR that starts a transaction of a context with bit rs. *)
Go(rs) == IF rs THEN WriteTWCR(FALSE, FALSE, FALSE, TRUE, TRUE)
          ELSE WriteTWCR(FALSE, TRUE, TRUE, TRUE, TRUE)

(* fault: the first context stays *)
BusKept(c) == IF g = NULL THEN c ELSE g

(* g_bus_ctx after _twi_mx *)
Bus(c) == c

(* _twi_mx *)
Mx(c, rw, a, l, stop) ==
    /\ ctx' = [ctx EXCEPT ![c].xdata = 1, ![c].len = l, ![c].addr = a, ![c].rw = rw,
                          ![c].busy = TRUE, ![c].err = 0, ![c].rs = FALSE, ![c].stop = stop]
    /\ twbr' = IF g \notin {c, NULL} /\ ctx[g].freq # ctx[c].freq THEN ctx[c].freq ELSE twbr
    /\ g' = Bus(c)
    /\ Go(ctx[c].rs)
    /\ req' = [ctx |-> c, rw |-> rw, len |-> l, addr |-> a]
    /\ wire' = <<>> /\ buf' = <<>>
    /\ UNCHANGED <<twsr, twdr, owned, ready>>

(* A call of the program, once its contexts are set up. *)
Call(l) == /\ pc = "idle" /\ ready = Ctx /\ calls < MaxCalls
           /\ calls' = calls + 1
           /\ pc' = l

(* The contexts a program may use next. *)
Usable == {c \in Ctx : Disciplined /\ g # NULL => g = c \/ ~ctx[g].rs}

Transact == /\ Call("sync")
            /\ \E c \in Usable, rw \in {"w", "r"}, a \in Addr, l \in Lens, s \in StopFlags :
                   Mx(c, rw, a, l, s)
            /\ UNCHANGED <<dev, found>>

(* twi_sync: while (g_bus_ctx && busy) *)
Synced == g = NULL \/ ~ctx[g].busy

twi_sync == /\ pc = "sync" /\ Synced
            /\ pc' = "idle"
            /\ UNCHANGED <<hw, ctx, g, twbr, wire, buf, ready, req, dev, found, calls>>

twi_search_devices == /\ Call("scan")
                      /\ dev' = ScanFirst
                      /\ found' = {}
                      /\ \E c \in Usable : req' = [req EXCEPT !.ctx = c]
                      /\ UNCHANGED <<hw, ctx, g, twbr, wire, buf, ready>>

Scan == /\ pc = "scan"
        /\ IF dev <= ScanLast
           THEN /\ Mx(req.ctx, "w", dev, 0, TRUE)
                /\ pc' = "scan_sync"
           ELSE /\ pc' = "idle"
                /\ UNCHANGED <<hw, ctx, g, twbr, wire, buf, ready, req>>
        /\ UNCHANGED <<dev, found, calls>>

(* fault: the status of the transaction is not looked at *)
ScanCheckAll == /\ pc = "scan_sync" /\ Synced
                /\ found' = found \cup {dev}
                /\ dev' = dev + 1
                /\ pc' = "scan"
                /\ UNCHANGED <<hw, ctx, g, twbr, wire, buf, ready, req, calls>>

(* twi_sync, twi_status *)
ScanCheck == /\ pc = "scan_sync" /\ Synced
             /\ found' = IF ctx[req.ctx].err = 0 THEN found \cup {dev} ELSE found
             /\ dev' = dev + 1
             /\ pc' = "scan"
             /\ UNCHANGED <<hw, ctx, g, twbr, wire, buf, ready, req, calls>>

Program == \/ \E c \in Ctx, f \in Freq : twi_minit(c, f)
           \/ Transact \/ twi_sync \/ twi_search_devices \/ Scan \/ ScanCheck

Next == Hw \/ TWI_vect \/ Program

Spec == Init /\ [][Next]_vars

(* The peripheral finishes what it does (other masters let go of the bus),  *)
(* interrupts are served, and a call that runs goes on.                     *)
LiveSpec == /\ Spec
            /\ WF_vars(Hw)
            /\ WF_vars(TWI_vect)
            /\ WF_vars(twi_sync \/ Scan \/ ScanCheck)

-----------------------------------------------------------------------------
(* Properties. *)

Done == pc = "idle" /\ g # NULL
Numbered(s) == s = [i \in 1..Len(s) |-> i]

(* When twi_sync returns after a write, a device has accepted bytes of the  *)
(* buffer from the first on, and all of them exactly when no error is       *)
(* reported (TWI_vect: MT_SLA_ACK, MT_DATA_ACK and the NACKs).              *)
WriteAsReported ==
    Done /\ req.rw = "w" => /\ Numbered(wire)
                            /\ req.len > 0 => (ctx[g].err = 0 <=> Len(wire) = req.len)
                            /\ ctx[g].err = 0 => req.addr \in Present

(* When twi_sync returns after a read, the buffer has in order what the     *)
(* device sent, from the first byte on, and the last one is missing only if *)
(* the arbitration was lost on it.  It has all that were asked for exactly  *)
(* when neither lost arbitration (1) nor a denied address (4) is reported   *)
(* (TWI_vect: MR_DATA_ACK, MR_DATA_NACK, MR_SLA_NACK and ARB_LOST).         *)
ReadIsWhole ==
    Done /\ req.rw = "r" =>
        /\ Numbered(wire) /\ Numbered(buf)
        /\ IF ctx[g].err = 1 THEN Len(wire) - Len(buf) \in {0, 1} ELSE buf = wire
        /\ ctx[g].err = 4 => wire = <<>>
        /\ Len(buf) = req.len <=> ctx[g].err \notin {1, 4}

(* When twi_sync returns, twi_status tells which part of the data made it.  *)
ReportedAsHappened == WriteAsReported /\ ReadIsWhole

(* The master never ends a read on a byte it acknowledged: the device would *)
(* go on to drive the bus (_twi_nack and _twi_stop_rs).                     *)
LastByteNacked == [][phase' \in {"stop", "start"} /\ phase' # phase => twsr # "MR_DATA_ACK"]_vars

(* Between transactions the bus is held only on purpose: the context of the *)
(* last transaction knows of the repeated start (_twi_stop_rs), and no      *)
(* interrupt is waiting that would run without a transaction.               *)
HeldOnPurpose ==
    Done => /\ owned /\ phase # "stop" <=> ctx[g].rs
            /\ ~(twint /\ ie)

(* A transaction runs at the speed of its context (freq of struct twi_ctx). *)
SpeedOfContext == pc = "sync" => twbr = ctx[g].freq

(* A read that stored every byte it was asked for reports no error.         *)
ReadReportsNoError ==
    Done /\ req.rw = "r" /\ req.len > 0 /\ Len(buf) = req.len => ctx[g].err = 0

(* A read stores no more than the maximum data length (twi_mrx).            *)
StoresWithinLength == req.rw = "r" => Len(buf) <= req.len

(* twi_search_devices reports only devices that are there, whatever else    *)
(* happens on the bus and whatever status was left by the address before.   *)
FindsOnlyPresent == pc = "scan" => found \subseteq {a \in Present : ScanFirst <= a /\ a < dev}

(* twi_search_devices finds all the devices connected to the bus.           *)
FindsAll == pc = "scan" /\ dev > ScanLast => found = Present

(* twi_sync returns. *)
SyncReturns == pc \in {"sync", "scan_sync"} ~> pc \in {"idle", "scan"}

(* twi_sync returns, whatever devices deny and other masters win, but for   *)
(* what TWI_vect has no case for.                                           *)
Disturbed == twsr \in {"BUS_ERROR", "SR_SLA_ACK"}
SyncReturnsUndisturbed == pc \in {"sync", "scan_sync"} ~> pc \in {"idle", "scan"} \/ Disturbed
=============================================================================
