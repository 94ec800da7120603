-------------------------------- MODULE Baud --------------------------------
(***************************************************************************)
(* The divisor serial_init programs for a speed: predefined values, or a   *)
(* computation that tries double speed first.                              *)
(***************************************************************************)
EXTENDS Integers

CONSTANTS BaudClock,  \* F_CPU
          Speeds      \* speeds passed to serial_init

ASSUME SpeedAssumption == BaudClock \in Nat \ {0} /\ Speeds \subseteq Nat \ {0}

VARIABLES speed, use_double, baud_value,  \* of serial_init
          u2x,                            \* U2X0 of UCSR0A
          set                             \* UBRR0 is written

baud == <<speed, use_double, baud_value, u2x, set>>

(* The predefined values for 16 MHz: [speed, u2x, baud_value]. *)
Predefined ==
    IF BaudClock # 16000000 THEN {}
    ELSE {<<2400, 1, 832>>, <<4800, 0, 207>>, <<9600, 0, 103>>, <<14400, 0, 68>>,
          <<19200, 0, 51>>, <<28800, 0, 34>>, <<38400, 0, 25>>, <<57600, 1, 34>>,
          <<76800, 0, 12>>, <<115200, 1, 16>>, <<230400, 1, 8>>, <<250000, 0, 3>>,
          <<500000, 1, 3>>, <<1000000, 1, 1>>}

BaudInit == /\ speed \in Speeds
            /\ use_double = 1 /\ baud_value = 0 /\ u2x = 0 /\ set = FALSE

(* The computation is unsigned, of 32 bits, and its result cut to 16. *)
HalfLessOne(q) == IF q = 0 THEN 65535 ELSE ((q - 1) \div 2) % 65536

(* fault: the divisor is rounded down *)
ComputedDown(d) == ((BaudClock \div (IF d = 1 THEN 8 ELSE 16)) \div speed - 1) % 65536

Computed(d) == HalfLessOne((BaudClock \div (IF d = 1 THEN 4 ELSE 8)) \div speed)

Choose == /\ ~set
          /\ \E p \in Predefined : p[1] = speed /\ u2x' = p[2] /\ baud_value' = p[3]
          /\ set' = TRUE
          /\ UNCHANGED <<speed, use_double>>

(* do ... while (baud_value > 4095 && use_double--) *)
Compute == /\ ~set /\ \A p \in Predefined : p[1] # speed
           /\ u2x' = use_double
           /\ baud_value' = Computed(use_double)
           /\ IF baud_value' > 4095 /\ use_double = 1 THEN use_double' = 0 /\ UNCHANGED set
              ELSE set' = TRUE /\ UNCHANGED use_double
           /\ UNCHANGED speed

BaudNext == Choose \/ Compute

-----------------------------------------------------------------------------
(* The samples of a bit, and whether the 12 bits of UBRR0 reach the speed. *)
Samples == IF u2x = 1 THEN 8 ELSE 16
InReach == BaudClock \div (8 * 8193) < speed /\ 8 * speed <= BaudClock
Distance(a, b) == IF a > b THEN a - b ELSE b - a

(* The length of a bit is the nearest to the one asked for, of those the    *)
(* mode allows, and the register has room for the divisor (serial_init).    *)
BaudNearest ==
    set /\ InReach => /\ baud_value <= 4095
                      /\ 2 * Distance(BaudClock, Samples * (baud_value + 1) * speed)
                            <= Samples * speed
=============================================================================
