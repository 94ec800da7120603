-------------------------------- MODULE Ring --------------------------------
(***************************************************************************)
(* The ring buffer of ring.h as serial.c uses it: RingSize slots and two   *)
(* indices.  The writer stores at the head, the reader reads at the tail,  *)
(* and one slot always stays free to tell a full ring from an empty one.   *)
(* The indices are unsigned char, hence at most 256 slots.                 *)
(***************************************************************************)
EXTENDS Integers, Sequences

CONSTANT RingSize    \* SERIAL_RX_RING_SIZE or SERIAL_TX_RING_SIZE

ASSUME RingSizeAssumption == RingSize \in 2..256

Slot == 0..(RingSize - 1)

(* The array behind the ring is a sequence: slot i is its element i + 1. *)
Cell == 1..RingSize

At(r, i) == r[i + 1]

Put(r, i, v) == [r EXCEPT ![i + 1] = v]

AfterUnwrapped(i) == i + 1          \* fault: the index is not wrapped

(* the index that follows i *)
After(i) == (i + 1) % RingSize

(* how many indices there are from one on and before another *)
Distance(from, to) == (RingSize + to - from) % RingSize

(* the c values in r from slot f on, in the order they were stored *)
Window(r, f, c) == [i \in 1..c |-> At(r, (f + i - 1) % RingSize)]
=============================================================================
