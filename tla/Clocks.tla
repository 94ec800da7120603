------------------------------- MODULE Clocks -------------------------------
(***************************************************************************)
(* What a program makes of the 16 MHz clock before its main loop: the      *)
(* speed of the serial port, a tone or a delay, and the pulse width        *)
(* modulation of a timer.  Port and timer share the clock and nothing else,*)
(* so the one is varied with a fixed choice of the other (bound).          *)
(***************************************************************************)
EXTENDS Tpwm, Baud

clocks == <<calc, pwm, baud>>

ClocksInit == /\ PwmInit /\ BaudInit
              /\ \/ speed = CHOOSE s \in Speeds : TRUE
                 \/ timer = 0 /\ freq = 1000 /\ delay = 0

ClocksNext == \/ BaudNext /\ UNCHANGED <<calc, pwm>>
              \/ set /\ PwmNext /\ UNCHANGED baud

ClocksSpec == ClocksInit /\ [][ClocksNext]_clocks
=============================================================================
