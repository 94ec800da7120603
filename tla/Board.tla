-------------------------------- MODULE Board -------------------------------
(***************************************************************************)
(* Three programs on the same drivers: text on an HD44780 while a timer    *)
(* interrupt multiplexes a seven segment display on the same port (as      *)
(* dev_d7seg.h allows), graphics on a PCD8544 behind SPI, and the          *)
(* thermometer of examples/d7seg.c.  The microcontroller may be reset at   *)
(* any moment, with or without the displays.                               *)
(***************************************************************************)
EXTENDS Hd44780, Pcd8544, Thermometer

CONSTANTS Programs,  \* the programs of "text", "graphic" and "thermometer"
          Speeds,    \* speeds of the SPI port
          Modes,     \* its clock modes
          MaxResets  \* resets of the microcontroller (bound)

ASSUME BoardAssumption == /\ Programs \subseteq {"text", "graphic", "thermometer"}
                          /\ Speeds \subseteq 0..6 /\ Modes \subseteq 0..3 /\ MaxResets \in Nat

VARIABLES program, resets

board == <<program, resets>>
vars == <<gpio, lcd, bus, graphic, seg, thermo, board>>

Init == /\ program \in Programs /\ resets = 0
        /\ GpioInit /\ LcdInit /\ BusInit /\ GraphicInit /\ SegInit /\ ThermoInit
        /\ program # "text" => gpioUs \in Fast
        /\ program # "thermometer" => level = CHOOSE r \in Readings : TRUE

-----------------------------------------------------------------------------
Text_ == /\ program = "text" /\ phase = "out"
         /\ \/ d7seg_init([d \in 1..Displays - 1 |-> CharByte(d)]) /\ UNCHANGED lcd
            \/ sei /\ (hd44780_init \/ LcdCalls \/ LcdStep) /\ UNCHANGED seg
         /\ UNCHANGED <<bus, graphic, thermo, board>>

(* The master at the speed of the example goes on to the display.           *)
Graphic_ ==
    /\ program = "graphic"
    /\ \/ /\ ~spi.spe /\ UNCHANGED graphic
          /\ \E master \in BOOLEAN, speed \in Speeds : spi_hw_poll_init(master, speed)
       \/ /\ spi.spe /\ calls = -1 /\ got = -1 /\ UNCHANGED graphic
          /\ \E m \in Modes : spi_hw_poll_clock_mode_set(m)
       \/ Exchange
       \/ asked = [master |-> TRUE, speed |-> 4, cmode |-> 0] /\ (pcd8544_init \/ GraphicCalls)
       \/ GraphicStep
    /\ UNCHANGED <<lcd, seg, thermo, board>>

Thermometer_ == /\ program = "thermometer"
                /\ \/ /\ step = "boot" /\ step' = "trigger"
                      /\ d7seg_init([d \in 0..3 |-> CharByte(0)]) /\ SetUpAdc
                      /\ UNCHANGED <<level, result, smooth, counter>>
                   \/ ThermoStep
                /\ UNCHANGED <<lcd, bus, graphic, board>>

Main == Text_ \/ Graphic_ \/ Thermometer_

Handler == Multiplex /\ UNCHANGED <<lcd, bus, graphic, thermo, board>>

Converter == Converted /\ UNCHANGED <<lcd, bus, graphic, board>>

Voltage == Drift /\ UNCHANGED <<lcd, bus, graphic, board>>

(* Reset of the microcontroller; with `power' that of the displays.  If E   *)
(* was high, it may fall.                                                   *)
Reset(power) ==
    /\ resets < MaxResets /\ resets' = resets + 1
    /\ port' = {} /\ ddr' = {} /\ held' = <<>> /\ todo' = <<>>
    /\ lcdCall' = "none" /\ rushed' = FALSE /\ missed' = FALSE
    /\ disp' \in IF power THEN {PowerOn}
                 ELSE IF "e" \in port THEN {disp, Taken(disp, "rs" \in port, OnLines(port))}
                 ELSE {disp}
    /\ torn' = (disp'.half \notin {-1, 3})
    /\ glcd' = IF power THEN GlcdOff ELSE glcd
    /\ spi' = [spi EXCEPT !.spe = FALSE, !.mstr = FALSE, !.spr = 0, !.x2 = 0, !.cmode = 0,
                          !.spif = FALSE, !.seen = FALSE, !.shifting = FALSE, !.spdr = 0]
    /\ asked' = [master |-> FALSE, speed |-> 0, cmode |-> 0]
    /\ answer' = -1 /\ got' = -1
    /\ pos' = [x |-> 0, y |-> 0] /\ stale' = TRUE /\ calls' = -1
    /\ selected' = 0 /\ segdata' = [d \in 0..Displays - 1 |-> 0] /\ phase' = "out" /\ sei' = FALSE
    /\ adc' = AdcInit(0) /\ wanted' = [channel |-> 0, ref |-> AVCC, presc |-> 7]
    /\ step' = "boot" /\ result' = 0 /\ smooth' = 0 /\ counter' = 0
    /\ screen' = [ram |-> Blank, addr |-> 0] /\ image' = Filled(-1)
    /\ UNCHANGED <<gpioUs, garbled, level, program>>

Next == Main \/ Handler \/ Converter \/ Voltage \/ \E power \in BOOLEAN : Reset(power)

(* A timer interrupt that finds interrupts disabled stays pending, and the  *)
(* handler is over before the next one is due, so both run again and again; *)
(* a conversion and a transfer end.                                         *)
Spec == /\ Init /\ [][Next]_vars
        /\ SF_vars(Main) /\ SF_vars(Handler) /\ WF_vars(Converter)

-----------------------------------------------------------------------------
Byte_ == 0..255

TypeOK == /\ Len(held) <= 1 /\ (held # <<>> => todo # <<>> /\ held[1] = port)
          /\ disp.addr \in 0..Cells - 1 /\ disp.half \in -1..15 /\ disp.busy \in 0..WarmUp
          /\ spi.spdr \in Byte_
          /\ glcd.x \in 0..Width - 1 /\ glcd.y \in 0..Banks - 1
          /\ pos.x \in 0..Width /\ pos.y \in 0..Banks - 1
          /\ selected \in 0..Displays - 1 /\ \A d \in 0..Displays - 1 : segdata[d] \in Byte_
          /\ counter \in 0..CounterMod - 1 /\ smooth \in Readings \cup {0} /\ adc.mux \in Byte_

(* Every call of a driver returns (the waits of spi_hw_poll.c and adc.h).   *)
CallsReturn == []<>(todo = <<>>) /\ (<>[](step # "boot") => []<>(step = "trigger"))
(* No step leaves a line, a register or a digit in a state that another     *)
(* step does not expect, whatever the handler interrupts (GPIO_SET_LOW,     *)
(* GPIO_SET_HIGH, d7seg_multiplex).                                         *)
LinesSound == TypeOK /\ OneDigitLit

(* The SPI port and the converter are set up as the calls asked for, and no *)
(* byte is cut short or misread (spi_hw_poll.c, adc.h).                     *)
PeripheralsAsAsked == BytesFramed /\ SpiAsAsked /\ AdcAsAsked

(* Neither a call nor the handler stops the other for good.                 *)
NothingStalls == CallsReturn /\ EveryDigitLit
=============================================================================
