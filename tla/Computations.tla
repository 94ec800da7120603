---------------------------- MODULE Computations ----------------------------
(***************************************************************************)
(* What the library computes without waiting for anything: what a program  *)
(* makes of the clock (Clocks), and the checksum of a packet (SlipCrc).    *)
(* The two share nothing, so a behaviour is one or the other (bound).      *)
(***************************************************************************)
EXTENDS Clocks, SlipCrc

VARIABLE about  \* "clocks" or "checksum"

SomeClocks == /\ timer = 0 /\ freq = 1000 /\ delay = 0
              /\ speed = CHOOSE s \in Speeds : TRUE

SomePacket == /\ a_buff = [j \in 1 .. datalen + 2 |-> {}]
              /\ datalen = (CHOOSE n \in DataLens : n >= 2) /\ ap

ComputationsInit == /\ ClocksInit /\ CrcInit
                    /\ about \in {"clocks", "checksum"}
                    /\ IF about = "clocks" THEN SomePacket ELSE SomeClocks

ComputationsNext == \/ about = "clocks" /\ ClocksNext /\ UNCHANGED <<crcVars, about>>
                    \/ about = "checksum" /\ CrcNext /\ UNCHANGED <<clocks, about>>

ComputationsSpec == ComputationsInit /\ [][ComputationsNext]_<<clocks, crcVars, about>>
=============================================================================
