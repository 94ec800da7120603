------------------------------- MODULE TDelay -------------------------------
(***************************************************************************)
(* Timer delays and the beeper: tdelay.c, tdelay_common.c and beeper.c.    *)
(*                                                                         *)
(* A compare match of a running timer raises its flag; an unmasked flag    *)
(* starts a handler.  The handlers are ISR_NOBLOCK: they enable interrupts *)
(* at once, so another match may start a handler on top of one that runs.  *)
(* stack holds them, the innermost first; the main program runs when it is *)
(* empty.  A 32 bit duration is a word of Width bytes, the lowest first,   *)
(* and code for an 8 bit machine loads and stores it byte by byte.         *)
(* Setting and clearing bits of TIMSKx and TCCRxB is one step, at its      *)
(* write: what a handler can change in between is what the write sets.     *)
(***************************************************************************)
EXTENDS Integers, Sequences
LOCAL INSTANCE FiniteSetsExt

CONSTANTS Timer,        \* the timers with an implemented interrupt
          PortB,        \* those whose pin is on port B (timers 1 and 2)
          Beepers,      \* those set up for tones when the program starts
          Base, Width,  \* values of a byte, bytes of a duration
          Durations,    \* those a caller asks for (bound)
          Calls,        \* the functions the program calls
          MaxCalls,     \* how many calls it makes (bound)
          MaxNest,      \* how many handlers are active at once (bound)
          Fast          \* the timers whose period may be shorter than a handler

(* The functions of the API, tdelay for tdelay_ms and tdelay_us. *)
Functions == {"tdelay_init", "beeper_init", "tdelay", "beeper_beep", "beeper_off",
              "beeper_block"}

ASSUME TimerAssumption == Timer # {}
ASSUME PortAssumption == PortB \subseteq Timer /\ Beepers \subseteq Timer
ASSUME WidthAssumption == Base \in Nat \ {0, 1} /\ Width \in Nat \ {0}
ASSUME DurationsAssumption == Durations \subseteq Nat
ASSUME CallsAssumption == Calls \subseteq Functions /\ MaxCalls \in Nat
ASSUME NestAssumption == MaxNest \in Nat /\ Fast \subseteq Timer

VARIABLES mask,      \* OCIExA of TIMSKx: the interrupt is enabled
          clock,     \* the clock select bits of TCCRxB are not 0
          flag,      \* OCFxA: a compare match waits for its handler
          duration,  \* g_tc[].duration
          resetPin,  \* g_tc[].reset_cmpa_pin
          port,      \* the bit of the OCxA pin in its PORT register
          stack,     \* the active handlers
          call, tim, \* the function that runs and its timer
          pc, k, acc,\* its next step, the byte it is at, and what it read so far
          calls,     \* calls made
          asked,     \* the duration asked of each timer
          due,       \* the compare matches of it that have not come yet
          torn,      \* the loop has read a byte above a borrow that came after its first
          nested,    \* a handler of the timer was interrupted by another one of it
          over       \* the timer was set up over a countdown that still ran

hw == <<mask, clock, flag, port>>
main == <<call, tim, pc, k, acc, calls>>
ledger == <<asked, due, nested, over>>
vars == <<hw, duration, resetPin, stack, main, ledger, torn>>

Word == [1..Width -> 0 .. Base - 1]
Zero == [i \in 1..Width |-> 0]
Label == {"idle", "ctc", "pin", "pin0", "mask_off", "clock_off", "zero", "cs_clear", "cs_set",
          "tcnt", "duration", "enable", "test", "spin"}
FrameLabel == {"test", "load", "store", "mask", "stop", "port_read", "port_write"}
Frame == [timer : Timer, at : FrameLabel, k : 1..Width, val : Word, seen : [Timer -> BOOLEAN]]

TypeOK == /\ mask \in [Timer -> BOOLEAN]
          /\ clock \in [Timer -> BOOLEAN]
          /\ flag \in [Timer -> BOOLEAN]
          /\ duration \in [Timer -> Word]
          /\ resetPin \in [Timer -> BOOLEAN]
          /\ port \in [Timer -> BOOLEAN]
          /\ stack \in Seq(Frame) /\ Len(stack) <= MaxNest
          /\ call \in Functions \cup {"none"}
          /\ tim \in Timer
          /\ pc \in Label
          /\ k \in 1..Width
          /\ acc \in Word
          /\ calls \in 0..MaxCalls
          /\ asked \in [Timer -> Word]
          /\ due \in [Timer -> Word]
          /\ torn \in BOOLEAN
          /\ nested \in [Timer -> BOOLEAN]
          /\ over \in [Timer -> BOOLEAN]

(* The timers are set up, each for delays or for tones, none runs. *)
Init == /\ mask = [t \in Timer |-> FALSE]
        /\ clock = [t \in Timer |-> FALSE]
        /\ flag = [t \in Timer |-> FALSE]
        /\ duration = [t \in Timer |-> Zero]
        /\ resetPin = [t \in Timer |-> t \notin Beepers]
        /\ port = [t \in Timer |-> TRUE]
        /\ stack = <<>>
        /\ call = "none"
        /\ tim = CHOOSE t \in Timer : TRUE
        /\ pc = "idle"
        /\ k = 1
        /\ acc = Zero
        /\ calls = 0
        /\ asked = [t \in Timer |-> Zero]
        /\ due = [t \in Timer |-> Zero]
        /\ torn = FALSE
        /\ nested = [t \in Timer |-> FALSE]
        /\ over = [t \in Timer |-> FALSE]

Number(w) == MapThenSumSet(LAMBDA i : w[i] * Base ^ (i - 1), 1..Width)

(* w - 1: a byte changes when all below it borrow. *)
Pred(w) == [i \in 1..Width |-> IF \A j \in 1 .. i - 1 : w[j] = 0 THEN (w[i] + Base - 1) % Base
                                ELSE w[i]]

-----------------------------------------------------------------------------
(* The timers and their interrupt handlers. *)

(* A running timer reaches OCRxA. *)
Match(t) == /\ clock[t]
            /\ flag' = [flag EXCEPT ![t] = TRUE]
            /\ due' = [due EXCEPT ![t] = IF @ = Zero THEN @ ELSE Pred(@)]
            /\ UNCHANGED <<mask, clock, port, duration, resetPin, stack, main, asked, nested, over, torn>>

(* A handler of t is active and at one of the steps in L. *)
Has(t, L) == \E i \in 1..Len(stack) : stack[i].timer = t /\ stack[i].at \in L

Counting == {"test", "load", "store"}

MayNest(t) == /\ Len(stack) < MaxNest
              /\ t \in Fast \/ \A i \in 1..Len(stack) : stack[i].timer # t

(* TIMERx_COMPA_vect starts a handler, on top of those that run. *)
Vector(t) == /\ flag[t] /\ mask[t] /\ MayNest(t)
             /\ flag' = [flag EXCEPT ![t] = FALSE]
             /\ stack' = <<[timer |-> t, at |-> "test", k |-> 1, val |-> Zero,
                            seen |-> [u \in Timer |-> FALSE]]>> \o stack
             /\ nested' = [nested EXCEPT ![t] = @ \/ Has(t, Counting)]
             /\ UNCHANGED <<mask, clock, port, duration, resetPin, main, asked, due, over, torn>>

top == Head(stack)

(* The innermost handler goes on as f. *)
Goto(f) == stack' = <<f>> \o Tail(stack)
Return == stack' = Tail(stack)

At(l) == stack # <<>> /\ top.at = l

SamePort(t) == IF t \in PortB THEN PortB ELSE {t}

(* fault: a handler never looks for the end of the delay *)
AfterTestUnconditional(v) == "load"

(* fault: a handler ends the delay one match too soon *)
AfterTestOneEarly(v) == IF Tail(v) = Tail(Zero) /\ v[1] <= 1 THEN "mask" ELSE "load"

(* Where if (!duration) leads when it read v. *)
AfterTest(v) == IF v = Zero THEN "mask" ELSE "load"

(* duration, as far as the handler has read it with the byte read now. *)
Read == [top.val EXCEPT ![top.k] = duration[top.timer][top.k]]

(* A byte of duration is read, for the test and again for the decrement;    *)
(* after the last one the handler goes on at n.                             *)
HandlerRead(l, n) ==
    /\ At(l)
    /\ Goto(IF top.k < Width
            THEN [top EXCEPT !.k = @ + 1, !.val = Read]
            ELSE [top EXCEPT !.k = 1, !.val = IF n = "store" THEN Read ELSE Zero, !.at = n])
    /\ UNCHANGED <<hw, duration, resetPin, main, ledger, torn>>

HandlerTest == HandlerRead("test", AfterTest(Read))
HandlerLoad == HandlerRead("load", "store")

(* The loop of _tdc_block has read some bytes of t's duration, not all. *)
Reading(t) == pc = "spin" /\ tim = t /\ k > 1

(* duration--, one byte of the result. *)
HandlerStore ==
    /\ At("store")
    /\ duration' = [duration EXCEPT ![top.timer][top.k] = Pred(top.val)[top.k]]
    /\ IF top.k < Width THEN Goto([top EXCEPT !.k = @ + 1]) ELSE Return
    /\ torn' = (torn \/ (Reading(top.timer) /\ top.val[1] = 0))
    /\ UNCHANGED <<hw, resetPin, main, ledger>>

HandlerMask == /\ At("mask")
               /\ mask' = [mask EXCEPT ![top.timer] = FALSE]
               /\ Goto([top EXCEPT !.at = "stop"])
               /\ UNCHANGED <<clock, flag, port, duration, resetPin, main, ledger, torn>>

(* fault: the handler leaves the clock running *)
HandlerStopForgets ==
    /\ At("stop")
    /\ IF resetPin[top.timer] THEN Return ELSE Goto([top EXCEPT !.at = "port_read"])
    /\ UNCHANGED <<hw, duration, resetPin, main, ledger, torn>>

HandlerStop == /\ At("stop")
               /\ clock' = [clock EXCEPT ![top.timer] = FALSE]
               /\ IF resetPin[top.timer] THEN Return ELSE Goto([top EXCEPT !.at = "port_read"])
               /\ UNCHANGED <<mask, flag, port, duration, resetPin, main, ledger, torn>>

(* *(sregs->port) &= ~_BV(sregs->pin) goes through a pointer: it loads the *)
(* whole register and stores it.                                           *)
HandlerPortRead == /\ At("port_read")
                   /\ Goto([top EXCEPT !.at = "port_write", !.seen = port])
                   /\ UNCHANGED <<hw, duration, resetPin, main, ledger, torn>>

PinAfter(t) == FALSE

HandlerPortWrite ==
    /\ At("port_write")
    /\ port' = [u \in Timer |-> IF u = top.timer THEN PinAfter(u)
                                ELSE IF u \in SamePort(top.timer) THEN top.seen[u] ELSE port[u]]
    /\ Return
    /\ UNCHANGED <<mask, clock, flag, duration, resetPin, main, ledger, torn>>

Handler == \/ HandlerTest \/ HandlerLoad \/ HandlerStore \/ HandlerMask \/ HandlerStop
           \/ HandlerPortRead \/ HandlerPortWrite

-----------------------------------------------------------------------------
(* The main program. *)

(* The program calls f for timer t; the call starts at label l. *)
Enter(f, t, l) == /\ stack = <<>>
                  /\ pc = "idle"
                  /\ f \in Calls
                  /\ calls < MaxCalls
                  /\ calls' = calls + 1
                  /\ call' = f
                  /\ tim' = t
                  /\ pc' = l
                  /\ k' = 1
                  /\ UNCHANGED <<hw, duration, resetPin, stack, torn>>

tdelay_init(t) == Enter("tdelay_init", t, "ctc") /\ UNCHANGED <<acc, ledger>>
beeper_init(t) == Enter("beeper_init", t, "ctc") /\ UNCHANGED <<acc, ledger>>

(* acc keeps the duration a call was given until it has been stored. *)
tdelay(t, d) == /\ Enter("tdelay", t, "cs_clear")
                /\ acc' = d
                /\ UNCHANGED ledger

beeper_beep(t, d) == /\ Enter("beeper_beep", t, "mask_off")
                     /\ acc' = d
                     /\ UNCHANGED ledger

beeper_off(t) == /\ Enter("beeper_off", t, "mask_off")
                 /\ acc' = Zero
                 /\ asked' = [asked EXCEPT ![t] = Zero]
                 /\ due' = [due EXCEPT ![t] = Zero]
                 /\ UNCHANGED <<nested, over>>

beeper_block(t) == Enter("beeper_block", t, "test") /\ acc' = Zero /\ UNCHANGED ledger

(* A step of the call, from label l to label m. *)
Step(l, m) == /\ stack = <<>>
              /\ pc = l
              /\ pc' = m
              /\ call' = IF m = "idle" THEN "none" ELSE call
              /\ UNCHANGED <<stack, tim, calls>>

(* _timer_init_ctc *)
InitCtc == /\ Step("ctc", "pin")
           /\ clock' = [clock EXCEPT ![tim] = FALSE]
           /\ UNCHANGED <<mask, flag, port, duration, resetPin, k, acc, ledger, torn>>

(* _tdc_set_cmp_pin(.., 1), and for the beeper _tdc_set_cmp_pin(.., 0) later *)
InitPin == /\ \/ /\ Step("pin", IF call = "beeper_init" THEN "pin0" ELSE "idle")
                 /\ resetPin' = [resetPin EXCEPT ![tim] = TRUE]
              \/ /\ Step("pin0", "idle")
                 /\ resetPin' = [resetPin EXCEPT ![tim] = FALSE]
           /\ UNCHANGED <<hw, duration, k, acc, ledger, torn>>

(* beeper_off, which beeper_beep calls first *)
MaskOff == /\ Step("mask_off", "clock_off")
           /\ mask' = [mask EXCEPT ![tim] = FALSE]
           /\ UNCHANGED <<clock, flag, port, duration, resetPin, k, acc, ledger, torn>>

ClockOff == /\ Step("clock_off", "zero")
            /\ clock' = [clock EXCEPT ![tim] = FALSE]
            /\ UNCHANGED <<mask, flag, port, duration, resetPin, k, acc, ledger, torn>>

(* fault: one byte too many is stored *)
StoreByteOneMore(l, d, m) ==
    /\ Step(l, IF k <= Width THEN l ELSE m)
    /\ duration' = [duration EXCEPT ![tim] = IF k <= Width THEN [@ EXCEPT ![k] = d[k]] ELSE @]
    /\ k' = IF k <= Width THEN k + 1 ELSE 1

(* _tdc_set_duration stores byte k of d; the last byte leads to m. *)
StoreByte(l, d, m) == /\ Step(l, IF k < Width THEN l ELSE m)
                      /\ duration' = [duration EXCEPT ![tim][k] = d[k]]
                      /\ k' = IF k < Width THEN k + 1 ELSE 1

StoreZero == /\ StoreByte("zero", Zero, IF call = "beeper_beep" THEN "cs_clear" ELSE "idle")
             /\ UNCHANGED <<hw, resetPin, acc, ledger, torn>>

(* _timer_setup_ctc: TCCRxB &= 0xf8, TCCRxB |= prescaler, TCNTx = 0 *)
ClearClock == /\ Step("cs_clear", "cs_set")
              /\ clock' = [clock EXCEPT ![tim] = FALSE]
              /\ UNCHANGED <<mask, flag, port, duration, resetPin, k, acc, ledger, torn>>

StartClock == /\ Step("cs_set", "tcnt")
              /\ clock' = [clock EXCEPT ![tim] = TRUE]
              /\ UNCHANGED <<mask, flag, port, duration, resetPin, k, acc, ledger, torn>>

ClearCounter == /\ Step("tcnt", "duration")
                /\ asked' = [asked EXCEPT ![tim] = acc]
                /\ due' = [due EXCEPT ![tim] = acc]
                /\ nested' = [nested EXCEPT ![tim] = FALSE]
                /\ over' = [over EXCEPT ![tim] = mask[tim] /\ duration[tim] # Zero]
                /\ UNCHANGED <<hw, duration, resetPin, k, acc, torn>>

(* the rest of _tdc_setup_delay *)
StoreDuration == /\ StoreByte("duration", acc, "enable")
                 /\ UNCHANGED <<hw, resetPin, acc, ledger, torn>>

(* _timer_en_compa_int; tdelay goes on to block *)
EnableInterrupt == /\ Step("enable", IF call = "tdelay" THEN "test" ELSE "idle")
                   /\ mask' = [mask EXCEPT ![tim] = TRUE]
                   /\ acc' = Zero
                   /\ UNCHANGED <<clock, flag, port, duration, resetPin, k, ledger, torn>>

(* the deadlock protection of _tdc_block *)
Test == /\ Step("test", IF mask[tim] THEN "spin" ELSE "zero")
        /\ UNCHANGED <<hw, duration, resetPin, k, acc, ledger, torn>>

(* fault: the loop tests the lowest byte only *)
SpinLowByte == /\ Step("spin", IF duration[tim][1] = 0 THEN "idle" ELSE "spin")
               /\ UNCHANGED <<hw, duration, resetPin, k, acc, ledger, torn>>

(* while (g_tc[a_timer].duration), one byte *)
Spin == /\ LET v == [acc EXCEPT ![k] = duration[tim][k]]
           IN IF k < Width
              THEN Step("spin", "spin") /\ k' = k + 1 /\ acc' = v
              ELSE Step("spin", IF v = Zero THEN "idle" ELSE "spin") /\ k' = 1 /\ acc' = Zero
        /\ torn' = (torn /\ 1 < k /\ k < Width)
        /\ UNCHANGED <<hw, duration, resetPin, ledger>>

Enters == \E t \in Timer :
              \/ tdelay_init(t) \/ beeper_init(t) \/ beeper_off(t) \/ beeper_block(t)
              \/ \E d \in Word : /\ Number(d) \in Durations
                                /\ (tdelay(t, d) \/ beeper_beep(t, d))

CallStep == \/ InitCtc \/ InitPin \/ MaskOff \/ ClockOff \/ StoreZero \/ ClearClock \/ StartClock
            \/ ClearCounter \/ StoreDuration \/ EnableInterrupt \/ Test \/ Spin

Next == \/ \E t \in Timer : Match(t) \/ Vector(t)
        \/ Handler
        \/ Enters
        \/ CallStep

Spec == Init /\ [][Next]_vars

(* A running timer matches, an unmasked match is served, a handler goes on, *)
(* and the main program gets its turn: the processor executes one           *)
(* instruction of it after every return from an interrupt.                  *)
LiveSpec == /\ Spec
            /\ \A t \in Timer : WF_vars(Match(t)) /\ SF_vars(Vector(t))
            /\ WF_vars(Handler)
            /\ SF_vars(CallStep)

-----------------------------------------------------------------------------
(* Properties.  They hold for every program, set-up over a running timer     *)
(* included, save where the three records of the ledger say that the one     *)
(* thing happened that spoils them: a countdown overlaid by another, a       *)
(* handler interrupted by itself, a read on both sides of a borrow.          *)

Returns == call \in {"tdelay", "beeper_block"} /\ pc # "idle" /\ pc' = "idle"
One == [i \in 1..Width |-> IF i = 1 THEN 1 ELSE 0]

(* A call that blocks comes back early only when the handler borrowed from   *)
(* a byte that the loop had not read yet, or was interrupted by itself:      *)
(* else no compare match of those asked for is missing but one, which was    *)
(* pending when the timer was started (_tdc_block).                          *)
NotEarlyUnlessTorn == [][Returns => due[tim] \in {Zero, One} \/ torn \/ nested[tim]]_vars

(* Seen from the main program, no duration is larger than was asked for:    *)
(* the handlers never count below 0, into the largest value, also when the   *)
(* last match of a delay finds the next one half set up                      *)
(* (_isr_tdelay_handler).                                                   *)
BeingSet(t) == tim = t /\ pc \in {"mask_off", "clock_off", "zero", "duration"}
AtMost(v, w) == v = w \/ \E i \in 1..Width : /\ v[i] < w[i]
                                              /\ \A j \in i+1 .. Width : v[j] = w[j]
NeverMoreThanAsked ==
    stack = <<>> => \A t \in Timer :
        BeingSet(t) \/ nested[t] \/ over[t] \/ AtMost(duration[t], asked[t])

(* Everything that handler and caller count stays in its range.             *)
WithinBounds == TypeOK /\ NeverMoreThanAsked

(* Between calls a timer whose interrupt is masked does not run: a tone     *)
(* that has expired no longer toggles its pin.                              *)
MaskedIsStopped == pc = "idle" /\ stack = <<>> => \A t \in Timer : clock[t] => mask[t]

(* A call that waits for a timer that runs returns, unless the handler of    *)
(* that timer is interrupted by itself (_tdc_block).  So a call hangs only   *)
(* where the match that ended the delay before stopped the clock while the   *)
(* call was setting it up.                                                   *)
RunningBlockReturns == pc = "spin" /\ clock[tim] ~> pc = "idle" \/ nested[tim]

(* The program makes finitely many calls, and every tone and delay it       *)
(* started comes to an end, unless its handler is interrupted by itself.     *)
TonesEnd == <>[](\A t \in Timer : clock[t] => nested[t])

-----------------------------------------------------------------------------
(* What the code does not keep. *)

(* As documented: a call that blocks returns when the timer has expired.     *)
NotEarly == [][Returns => due[tim] \in {Zero, One}]_vars

(* NeverMoreThanAsked without its exceptions.                                *)
NeverBelowZero ==
    stack = <<>> => \A t \in Timer : BeingSet(t) \/ AtMost(duration[t], asked[t])

(* The comment on __tdc_block: it protects the block function from blocking  *)
(* for ever when the timer has already expired and its interrupt is off.     *)
BlockReturns == pc = "spin" ~> pc = "idle"

(* TonesEnd without its exception.                                          *)
EveryToneEnds == <>[](\A t \in Timer : ~clock[t])

(* No handler raises a pin, its own or one that another handler lowered     *)
(* meanwhile (the read and write of PORT in _isr_tdelay_handler).           *)
PinStaysLow == [][\A t \in Timer : ~port[t] => ~port'[t]]_vars

(* The comment on _tdc_set_cmp_pin: 1 pulls the pin down when the timer     *)
(* expires, 0 does nothing.                                                 *)
ExpiredPinAsDocumented ==
    [][At("stop") /\ resetPin[top.timer] /\ stack' = Tail(stack) => ~port'[top.timer]]_vars
=============================================================================
