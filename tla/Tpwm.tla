-------------------------------- MODULE Tpwm --------------------------------
(***************************************************************************)
(* Pulse width modulation (tpwm.c) on a timer that made a tone or a delay  *)
(* before (TimerCalc).  Calls follow each other in any order.              *)
(*                                                                         *)
(* Timer 1 has 16 bit registers: a store to a low byte takes the high byte *)
(* from the TEMP register, a store to a high byte goes to TEMP.            *)
(***************************************************************************)
EXTENDS TimerCalc, Sequences

CONSTANT Resolutions  \* what is passed to tpwm_setup_for_bitres

ASSUME ResolutionAssumption == Resolutions \subseteq Nat

VARIABLES mode,  \* waveform: "ctc", "fast" (single slope) or "phase" (double slope)
          com,   \* the outputs the waveform is connected to (COM bits of TCCRnA)
          pins,  \* the outputs whose pin is driven (DDR)
          temp,  \* the TEMP register
          icr,   \* ICR1
          last   \* the call done last: [call, arg, ret, clean]

pwm == <<mode, com, pins, temp, icr, last>>

(* e_pwm_freq *)
FREQ_61 == 17
PwmFreq == 2..FREQ_61

(* The frequencies of the 8 bit timers, by clock select bits. *)
Selects(t) == IF t = 0 THEN <<8, 11, 14, 16, FREQ_61>> ELSE <<8, 11, 13, 14, 15, 16, FREQ_61>>

(* _timer_init_ctc writes TCNT1H, TCNT1L, OCR1AH and OCR1AL in this order,  *)
(* and _timer_setup_ctc ends with TCNT1H.                                   *)
PwmInit == /\ CalcInit
           /\ mode = "ctc" /\ com = {} /\ pins = {} /\ temp = 0 /\ icr = 0
           /\ last = [call |-> "none", arg |-> 0, ret |-> 0, clean |-> FALSE]

-----------------------------------------------------------------------------
(* OCR1AH = OCR1AL = 0 stores the low byte first. *)
ClearOcr(t) == IF timer = 1 THEN [ocr |-> 256 * t, temp |-> 0] ELSE [ocr |-> 0, temp |-> t]

(* fault: _tpwm_pwm_init relies on the zero stored by _timer_init_fpwm *)
ClearedOnce == ClearOcr(temp)

(* Cleared by _timer_init_fpwm or _timer_init_pwm, then by _tpwm_pwm_init. *)
Cleared == ClearOcr(ClearOcr(temp).temp)

Idle == stage \in {"done", "pwm"} /\ stage' = "pwm"
SameCall == UNCHANGED <<fn, timer, freq, delay, presc, ocr2, matches>>

Connected(q) == {"a"} \cup (IF q = 1 THEN {"b"} ELSE {})

(* _timer_en_oca and _timer_en_ocb *)
Pins(channels) == pins \cup channels

(* tpwm_fpwm_init and tpwm_pwm_init; q is E_PWM_SINGLE (0) or E_PWM_DOUBLE. *)
InitPwm(m, q) ==
    /\ Idle /\ SameCall
    /\ mode' = m /\ cs' = 0
    /\ com' = Connected(q) /\ pins' = Pins(com')
    /\ ocr' = Cleared.ocr /\ temp' = Cleared.temp
    /\ last' = [call |-> "init", arg |-> q, ret |-> 0, clean |-> FALSE]
    /\ UNCHANGED icr

(* fault: the clock select bits of the call before are not or-ed with *)
SelectFirst(p) == p - 1

(* TCCRnB |= p, for its three clock select bits *)
Select(p) == LET Or(w) == IF 1 \in {(cs \div w) % 2, (p \div w) % 2} THEN w ELSE 0
             IN Or(1) + Or(2) + Or(4)

(* fault: the last value of the counter is taken for their number *)
TopOfOneMore(b) == IF b < 16 THEN 2^b ELSE 65535

(* 1 << a_bitres in an int of 16 bits, minus 1. *)
TopOf(b) == IF b < 16 THEN 2^b - 1 ELSE 65535

(* F_CPU/(1 << a_bitres): 1 << 15 is negative, 1 << 16 is 0. *)
Quotients(b) == CASE b < 15 -> {FCpu \div 2^b} [] b = 15 -> {0} [] OTHER -> {0, FCpu}

(* The registers written by tpwm_setup_for_bitres. *)
UseResolution(b) ==
    /\ cs' = Select(1)
    /\ IF timer = 1 THEN icr' = TopOf(b) /\ temp' = TopOf(b) \div 256
                    ELSE UNCHANGED <<icr, temp>>

Returned(c, arg, ret) ==
    last' = [call |-> c, arg |-> arg, ret |-> ret, clean |-> last.call = "init"]

SetupForBitres(b) ==
    /\ Idle /\ SameCall
    /\ UseResolution(b)
    /\ \E r \in IF timer = 1 THEN Quotients(b) ELSE {FCpu \div 256} : Returned("bitres", b, r)
    /\ UNCHANGED <<ocr, mode, com, pins>>

SetupForFreq(f) ==
    /\ Idle /\ SameCall
    /\ IF timer = 1 /\ f # FREQ_61
       THEN UseResolution(f) /\ Returned("freq", f, f)
       ELSE /\ UNCHANGED <<icr, temp>>
            /\ \/ \E p \in 1..Len(Selects(timer)) :
                     /\ timer # 1 /\ Selects(timer)[p] = f
                     /\ cs' = Select(p) /\ Returned("freq", f, 8)
               \/ /\ timer = 1 \/ \A p \in 1..Len(Selects(timer)) : Selects(timer)[p] # f
                  /\ Returned("freq", f, 0) /\ UNCHANGED cs
    /\ UNCHANGED <<ocr, mode, com, pins>>

PwmNext == \/ CalcNext /\ UNCHANGED pwm
           \/ \E m \in {"fast", "phase"}, q \in 0..1 : InitPwm(m, q)
           \/ \E b \in Resolutions : SetupForBitres(b)
           \/ \E f \in PwmFreq : SetupForFreq(f)

-----------------------------------------------------------------------------
(* Properties.  A set-up is clean when it follows an initialisation.        *)

Top == IF timer = 1 THEN icr ELSE 255
PwmPeriod == Divider(timer, cs) * (IF mode = "fast" THEN Top + 1 ELSE 2 * Top)
Clean(c) == stage = "pwm" /\ last.call = c /\ last.clean /\ mode = "fast"

(* The period, in clock cycles, that the name of a frequency stands for. *)
Nominal(f) == IF f = FREQ_61 THEN 2^18 ELSE 2^f

(* tpwm.h of tpwm_setup_for_bitres: "@return frequency configured".  So it  *)
(* is in single slope mode, for resolutions an int of 16 bits can shift to. *)
FrequencyAsReturned ==
    Clean("bitres") /\ last.arg < 15
        => cs \in Dividers(timer) /\ last.ret = FCpu \div PwmPeriod

(* tpwm_setup_for_freq makes the frequency it is asked for in single slope  *)
(* mode and returns its resolution; it returns 0 when no prescaler can, and *)
(* the 16 bit timer is left with prescaler 1.                               *)
FrequencyAsAsked ==
    Clean("freq") =>
        IF last.ret = 0
        THEN IF timer = 1 THEN Nominal(last.arg) > 65536
             ELSE \A d \in Dividers(timer) : 256 * Divider(timer, d) # Nominal(last.arg)
        ELSE /\ cs \in Dividers(timer)
             /\ PwmPeriod = Nominal(last.arg) /\ Top + 1 = 2^last.ret

(* An initialised output starts with the shortest pulse, whatever the       *)
(* registers held, and every connected output is driven (_timer_init_fpwm,  *)
(* _timer_init_pwm, _tpwm_pwm_init).                                        *)
StartsAtZero == last.call = "init" => ocr = 0 /\ com \subseteq pins

(* The pulse width modulation is what was asked for and returned.           *)
PwmAsAsked == FrequencyAsReturned /\ FrequencyAsAsked /\ StartsAtZero
=============================================================================
