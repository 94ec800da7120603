----------------------------- MODULE TimerCalc ------------------------------
(***************************************************************************)
(* What _tdc_setup_delay programs into a timer: the prescaler and compare  *)
(* value found by _timer_freq_prescale, the registers written by           *)
(* _timer_setup_ctc, and the number of compare matches to wait for.        *)
(*                                                                         *)
(* One behaviour is one call; the search for a prescaler is a loop.        *)
(***************************************************************************)
EXTENDS Integers, FiniteSets

CONSTANTS Implemented,  \* the timers of 0..2 with TDELAY_IMPLEMENT_Tn_INT
          FCpu,         \* F_CPU
          Tones,        \* frequencies passed to beeper_beep
          Delays,       \* delays passed to any of the calls
          Entries       \* the functions the program calls

ASSUME ImplementedAssumption == Implemented \subseteq 0..2
ASSUME InputAssumption == FCpu \in Nat \ {0} /\ Tones \subseteq Nat /\ Delays \subseteq Nat
ASSUME EntriesAssumption == Entries \subseteq {"tdelay_ms", "tdelay_us", "beeper_beep"}

(* The frequencies a function asks for. *)
Frequencies(f) == CASE f = "tdelay_ms" -> {1000} [] f = "tdelay_us" -> {1000000}
                    [] OTHER -> Tones

(* bound: the products of 32 bits do not overflow *)
ASSUME ProductAssumption ==
    \A e \in Entries : \A f \in Frequencies(e), d \in Delays :
        (f * d) \div 65536 < 65536 /\ (2 * f * 1024) \div 65536 < 65536

VARIABLES fn, timer, freq, delay,  \* the call
          presc, ocr2,             \* *presc and ocr2 in _timer_freq_prescale
          stage,                   \* "pwm" when the timer was put to another use (Tpwm)
          cs, ocr, matches         \* TCCRnB & 7, OCRnA and g_tc[].duration

calc == <<fn, timer, freq, delay, presc, ocr2, stage, cs, ocr, matches>>

(* _g_prescalers01 and _g_prescalers2: exponents, from index 0; 0 ends them. *)
Prescalers01 == <<0, 3, 6, 8, 10, 0>>
Prescalers2 == <<0, 3, 5, 6, 7, 8, 10, 0>>

(* What the clock select bits of timer t divide the clock by (datasheet). *)
Divider(t, bits) == IF t = 2 THEN <<1, 8, 32, 64, 128, 256, 1024>>[bits]
                    ELSE <<1, 8, 64, 256, 1024>>[bits]
Dividers(t) == IF t = 2 THEN 1..7 ELSE 1..5

(* e_tdelay_timer numbers the implemented timers only. *)
TdelayTimer(t) == Cardinality({u \in Implemented : u < t})

(* The table the search uses: _tdc_setup_delay passes an e_tdelay_timer,    *)
(* except for timer 1, where _timer_freq_prescale expects an e_timer.       *)
Table(t) == IF t # 1 /\ TdelayTimer(t) = 2 THEN Prescalers2 ELSE Prescalers01

Criterion(t) == IF t = 1 THEN 260 ELSE 255

(* 0x01 << prescalers[p] *)
Factor(t, p) == 2^Table(t)[p + 1]

(* fault: the compare value is one too large *)
OcrNotLess(p) == FCpu \div (2 * freq * Factor(timer, p))

(* ocr2 for the prescaler at index p, for a frequency that is not 0. *)
Ocr(p) == LET q == FCpu \div (2 * freq * Factor(timer, p))
          IN IF q = 0 THEN 0 ELSE q - 1

(* Division by 0: the quotient is not defined. *)
OcrValues(p) == IF freq = 0 THEN {0, Criterion(timer) + 1} ELSE {Ocr(p)}

CalcInit == /\ fn \in Entries
            /\ timer \in Implemented
            /\ freq \in Frequencies(fn)
            /\ delay \in Delays
            /\ presc = 0 /\ ocr2 = 0
            /\ stage = "search"
            /\ cs = 0 /\ ocr = 0 /\ matches = 0

(* fault: the search goes on while the value fits *)
SearchInverted ==
    /\ stage = "search"
    /\ ocr2' \in OcrValues(presc)
    /\ presc' = presc + 1
    /\ stage' = IF ocr2' < Criterion(timer) /\ Table(timer)[presc' + 1] # 0
                THEN "search" ELSE "program"
    /\ UNCHANGED <<fn, timer, freq, delay, cs, ocr, matches>>

(* do ... while ((ocr2 > a_criterion) && prescalers[*presc]) *)
Search == /\ stage = "search"
          /\ ocr2' \in OcrValues(presc)
          /\ presc' = presc + 1
          /\ stage' = IF ocr2' > Criterion(timer) /\ Table(timer)[presc' + 1] # 0
                      THEN "search" ELSE "program"
          /\ UNCHANGED <<fn, timer, freq, delay, cs, ocr, matches>>

(* fault: one match per period, not two *)
MatchesOncePerPeriod(f, d) == (f * d) \div 1000

Matches(f, d) == (f * d) \div 500

(* fault: the compare value is not limited *)
ClampedNot(v) == v

(* if (ocr2 > a_criterion) ocr2 = a_criterion *)
Clamped(v) == IF v > Criterion(timer) THEN Criterion(timer) ELSE v

(* The end of the search, _timer_setup_ctc and _tdc_set_duration. *)
Program == /\ stage = "program"
           /\ cs' = presc % 8
           /\ ocr' = Clamped(ocr2)
           /\ matches' = Matches(freq, delay)
           /\ stage' = "done"
           /\ UNCHANGED <<fn, timer, freq, delay, presc, ocr2>>

CalcNext == Search \/ Program

-----------------------------------------------------------------------------
(* Properties of the registers when the call is done. *)

CalcTypeOK == /\ timer \in 0..2
              /\ freq \in Nat /\ delay \in Nat
              /\ presc \in 0..7 /\ ocr2 \in Nat
              /\ stage \in {"search", "program", "done", "pwm"}
              /\ cs \in 0..7 /\ ocr \in 0..260 /\ matches \in Nat

(* Whether divider bits d of the timer, with a compare value up to the      *)
(* criterion, can reach the period of the frequency.                        *)
Fits(d) == FCpu \div (2 * freq * Divider(timer, d)) <= Criterion(timer) + 1

HalfPeriod == Divider(timer, cs) * (ocr + 1)
Reachable == stage = "done" /\ freq > 0 /\ 2 * freq <= FCpu /\ \E d \in Dividers(timer) : Fits(d)

(* The timer is set up from the table of its own prescalers: that of timer  *)
(* 2 is used only in a library with the interrupts of all three timers.     *)
OwnTable == timer = 2 => {0, 1} \subseteq Implemented

(* The half period the timer makes is never longer than the one asked for,  *)
(* and with its own table it is the one asked for, rounded down to a step   *)
(* of the chosen prescaler (_timer_freq_prescale, _timer_setup_ctc).        *)
PeriodAsAsked ==
    Reachable => /\ 2 * freq * HalfPeriod <= FCpu
                 /\ OwnTable => FCpu < 2 * freq * (HalfPeriod + Divider(timer, cs))

(* No finer prescaler of the table would have done (_timer_freq_prescale).  *)
FinestPrescaler ==
    Reachable /\ OwnTable => Fits(cs) /\ \A d \in Dividers(timer) : Fits(d) => cs <= d

(* The matches that tdelay_ms and beeper_beep wait for never last longer    *)
(* than the milliseconds asked for, and with the table of the timer they    *)
(* are short by no more than the rounding of the period and one match       *)
(* (_tdc_setup_delay).  tdelay_us is an exception: see LastsMicroseconds.   *)
LastsMilliseconds ==
    Reachable /\ fn # "tdelay_us" =>
        /\ 1000 * matches * HalfPeriod <= delay * FCpu
        /\ OwnTable => delay * FCpu < 1000 * (matches + 1) * (HalfPeriod + Divider(timer, cs))

(* A tone or a delay is as high and as long as was asked for, but for the   *)
(* length of tdelay_us, and for timer 2 in a library without the others.    *)
TimerAsAsked == CalcTypeOK /\ PeriodAsAsked /\ FinestPrescaler /\ LastsMilliseconds

-----------------------------------------------------------------------------
(* What the code does not keep. *)

(* LastsMilliseconds for tdelay_us, whose delay is in microseconds.         *)
LastsMicroseconds ==
    stage = "done" /\ fn = "tdelay_us"
        => matches * HalfPeriod <= (delay + 1) * (FCpu \div 1000000)

(* PeriodAsAsked in every configuration of config.h.                        *)
PeriodOnEveryTimer ==
    Reachable => FCpu < 2 * freq * (HalfPeriod + Divider(timer, cs))

(* A beep of frequency 0 is a silent delay of the given duration.          *)
SilentDelay == stage = "done" /\ fn = "beeper_beep" /\ freq = 0 /\ delay > 0 => matches > 0
=============================================================================
