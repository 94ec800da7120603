----------------------------- MODULE Thermometer ----------------------------
(***************************************************************************)
(* The program of examples/d7seg.c: it converts the voltage of a TMP36     *)
(* sensor (adc.c, adc.h, dev_tmp36.h), smooths the results and puts the    *)
(* temperature on four digits, one after another.                          *)
(***************************************************************************)
EXTENDS D7seg

CONSTANTS Readings,   \* results the converter may give
          CounterMod  \* values of counter: 256 (bound: fewer)

ASSUME ThermometerAssumption == /\ Readings \subseteq 0..1023 /\ Readings # {}
                                /\ CounterMod \in Nat \ {0}

VARIABLES adc,      \* registers: [mux, presc, auto, busy, data]
          wanted,   \* channel, reference and prescaler asked for
          level,    \* what the converter would read
          step,     \* where main is
          result, smooth, counter

thermo == <<adc, wanted, level, step, result, smooth, counter>>

-----------------------------------------------------------------------------
(* The registers.  ADMUX: reference in bits 7 and 6, channel in 3 to 0. *)

ChannelSet(mux, c) == 16 * (mux \div 16) + (c % 16)

(* fault: the whole register is cleared *)
ReferenceSetOnly(mux, r) == 64 * (r % 4)

ReferenceSet(mux, r) == (mux % 64) + 64 * (r % 4)

AVCC == 1
INTERNAL_11 == 3

(* adc_init for mode m: E_SINGLE_SHOT is 0. *)
AdcInit(m) == [mux |-> ReferenceSet(0, AVCC), presc |-> 7, auto |-> IF m = 0 THEN 0 ELSE m,
               busy |-> FALSE, data |-> 0]

(* adc_channel_set, adc_reference_set and adc_prescaler_set of main. *)
AdcSet(c, r, p) == [AdcInit(0) EXCEPT !.mux = ReferenceSet(ChannelSet(@, c), r), !.presc = p % 8]

(* adc_temperature_sensor_enable sets the channel and then the reference.   *)
Sensor == AdcSet(8, INTERNAL_11, 7)

ThermoInit == /\ adc = AdcInit(0) /\ wanted = [channel |-> 0, ref |-> AVCC, presc |-> 7]
              /\ level \in Readings /\ step = "boot"
              /\ result = 0 /\ smooth = 0 /\ counter = 0

(* adc_01.c uses the sensor of the converter, d7seg.c channel 0. *)
SetUpAdc ==
    \/ adc' = Sensor /\ wanted' = [channel |-> 8, ref |-> INTERNAL_11, presc |-> 7]
    \/ adc' = AdcSet(0, 0, 7) /\ wanted' = [channel |-> 0, ref |-> 0, presc |-> 7]

-----------------------------------------------------------------------------
(* The text of a temperature: snprintf with "%2.2f", or "%+2.1f" below 0. *)
Milli(r) == (r * 330000) \div 1023 - 50000
Negative(r) == Milli(r) < 0
Centi(r) == (Milli(r) + 5) \div 10
Tenths(r) == (50 - Milli(r)) \div 100

(* The digits of n, as many as it has. *)
Digits(n) == IF n < 10 THEN <<n>> ELSE IF n < 100 THEN <<n \div 10, n % 10>>
             ELSE <<n \div 100, (n \div 10) % 10, n % 10>>

(* Characters less '0': those that are not digits give an index of no       *)
(* character.                                                               *)
POINT == -2
SIGN == -3
END == -48
Text(r) == IF Negative(r)
           THEN <<SIGN>> \o Digits(Tenths(r) \div 10) \o <<POINT, Tenths(r) % 10>>
           ELSE Digits(Centi(r) \div 100) \o <<POINT, (Centi(r) \div 10) % 10, Centi(r) % 10>>

(* buff[i]; what is after the end is left out. *)
Buff(r, i) == IF i < Len(Text(r)) THEN Text(r)[i + 1] ELSE END

(* fault: the point is taken for a digit *)
DigitByteAtPoint(r, d) ==
    IF Negative(r)
    THEN <<CharByte(CHAR_MINUS), CharByte(Buff(r, 1)), Dotted(CharByte(Buff(r, 2))),
           CharByte(Buff(r, 3))>>[d + 1]
    ELSE <<CharByte(Buff(r, 0)), Dotted(CharByte(Buff(r, 1))), CharByte(Buff(r, 2)),
           CharByte(Buff(r, 3))>>[d + 1]

(* What d7seg_chr_p and d7seg_chr_dot_p put in digit d. *)
DigitByte(r, d) ==
    IF Negative(r)
    THEN <<CharByte(CHAR_MINUS), CharByte(Buff(r, 1)), Dotted(CharByte(Buff(r, 2))),
           CharByte(Buff(r, 4))>>[d + 1]
    ELSE <<CharByte(Buff(r, 0)), Dotted(CharByte(Buff(r, 1))), CharByte(Buff(r, 3)),
           CharByte(Buff(r, 4))>>[d + 1]

-----------------------------------------------------------------------------
(* The loop. *)

Goes(from, to) == phase = "out" /\ step = from /\ step' = to

(* adc_conversion_trigger *)
Trigger == /\ Goes("trigger", "poll")
           /\ adc' = [adc EXCEPT !.busy = TRUE]
           /\ UNCHANGED <<gpio, seg, wanted, level, result, smooth, counter>>

(* The conversion ends, in the converter. *)
Converted == /\ adc.busy
             /\ adc' = [adc EXCEPT !.busy = FALSE, !.data = level]
             /\ UNCHANGED <<gpio, seg, wanted, level, step, result, smooth, counter>>

(* adc_result_poll_get *)
Poll == /\ Goes("poll", "smooth") /\ ~adc.busy
        /\ result' = adc.data
        /\ UNCHANGED <<gpio, seg, adc, wanted, level, smooth, counter>>

(* fault: the results that differ are not counted in a row *)
NextCountOne == 1

NextCount == (counter + 1) % CounterMod

Smooth == /\ Goes("smooth", "digit0")
          /\ counter' = IF result # smooth THEN NextCount ELSE 0
          /\ smooth' = IF counter' > 8 THEN result ELSE smooth
          /\ UNCHANGED <<gpio, seg, adc, wanted, level, result>>

DigitStep == <<"digit0", "digit1", "digit2", "digit3", "pause">>

(* The digits are written one by one; the handler may run in between. *)
PutDigit == \E d \in 0..3 :
               /\ Goes(DigitStep[d + 1], DigitStep[d + 2])
               /\ segdata' = [segdata EXCEPT ![d] = DigitByte(smooth, d)]
               /\ UNCHANGED <<gpio, selected, phase, sei, adc, wanted, level, result, smooth, counter>>

(* _delay_ms(5) *)
Sleep == Goes("pause", "trigger") /\ UNCHANGED <<gpio, seg, adc, wanted, level, result, smooth, counter>>

(* The voltage changes. *)
Drift == /\ step # "boot"
         /\ level' \in Readings \ {level}
         /\ UNCHANGED <<gpio, seg, adc, wanted, step, result, smooth, counter>>

ThermoStep == Trigger \/ Poll \/ Smooth \/ PutDigit \/ Sleep

-----------------------------------------------------------------------------
(* The digit a byte of segments shows, and what the four show, in units of  *)
(* the last digit; a point after the digit p.                               *)
Digit(b) == CHOOSE n \in 0..9 : SegmentFont[n + 1] = b % 128
IsDigit(b) == \E n \in 0..9 : SegmentFont[n + 1] = b % 128
PointAfter(p) == \A d \in 0..3 : (segdata[d] >= 128) <=> d = p

(* Once the digits are written they show the temperature of the smoothed    *)
(* result, of two digits before the point (main, d7seg_chr_p,               *)
(* tmp36_raw_to_celsius).                                                   *)
DigitsShowTemperature ==
    step = "pause" =>
        LET value == [d \in 0..3 |-> IF IsDigit(segdata[d]) THEN Digit(segdata[d]) ELSE 10^6]
        IN IF Negative(smooth)
           THEN /\ segdata[0] = CharByte(CHAR_MINUS) /\ PointAfter(2)
                /\ 100 * value[1] + 10 * value[2] + value[3] = Tenths(smooth)
           ELSE /\ PointAfter(1)
                /\ 1000 * value[0] + 100 * value[1] + 10 * value[2] + value[3] = Centi(smooth)

(* A steady voltage is shown in the end, as the temperature it stands for   *)
(* (the loop of main).                                                      *)
SteadyShown ==
    \A r \in Readings :
       <>[](level = r /\ step # "boot") => <>[](smooth = r /\ DigitsShowTemperature)

(* Channel and reference are those asked for, whichever was set last        *)
(* (adc_channel_set, adc_reference_set, adc_temperature_sensor_enable).     *)
AdcAsAsked == /\ adc.mux % 16 = wanted.channel /\ adc.mux \div 64 = wanted.ref
              /\ adc.presc = wanted.presc
=============================================================================
