----------------------------- MODULE RingProofs -----------------------------
(***************************************************************************)
(* Lemmas about the ring, for every number of slots: the index arithmetic  *)
(* without the remainder operator, and what storing at the head and        *)
(* releasing the tail do to the window of stored values.                   *)
(***************************************************************************)
EXTENDS Ring, SequenceTheorems, TLAPS

(* The ring index arithmetic, free of the remainder operator. *)
LEMMA ModRing ==
    ASSUME NEW x \in 0..(2 * RingSize - 1)
    PROVE  x % RingSize = IF x < RingSize THEN x ELSE x - RingSize
  BY RingSizeAssumption

LEMMA AfterIsSlot ==
    ASSUME NEW i \in Slot
    PROVE  /\ After(i) \in Slot
           /\ After(i) = IF i = RingSize - 1 THEN 0 ELSE i + 1
  BY RingSizeAssumption, ModRing DEF After, Slot

LEMMA DistanceValue ==
    ASSUME NEW t \in Slot, NEW h \in Slot
    PROVE  /\ Distance(t, h) \in 0..(RingSize - 1)
           /\ Distance(t, h) = IF h >= t THEN h - t ELSE RingSize + h - t
<1>1. RingSize + h - t \in 0..(2 * RingSize - 1)
  BY RingSizeAssumption DEF Slot
<1> QED
  BY <1>1, RingSizeAssumption, ModRing DEF Distance, Slot

(* Position k of a window that starts at f. *)
LEMMA SlotInWindow ==
    ASSUME NEW f \in Slot, NEW k \in 0..(RingSize - 1)
    PROVE  /\ (f + k) % RingSize \in Slot
           /\ (f + k) % RingSize = IF f + k < RingSize THEN f + k
                                   ELSE f + k - RingSize
<1>1. f + k \in 0..(2 * RingSize - 1)
  BY RingSizeAssumption DEF Slot
<1> QED
  BY <1>1, RingSizeAssumption, ModRing DEF Slot

(* r1 is r with b stored in slot h. *)
Stores(r, r1, h, b) == At(r1, h) = b /\ \A i \in Slot \ {h} : At(r1, i) = At(r, i)

(* Reading a slot gives a byte, and storing one leaves the other slots alone. *)
LEMMA AtType ==
    ASSUME NEW S, NEW r \in [Cell -> S], NEW i \in Slot
    PROVE  At(r, i) \in S
  BY RingSizeAssumption DEF At, Cell, Slot

LEMMA PutStores ==
    ASSUME NEW S, NEW r \in [Cell -> S], NEW h \in Slot, NEW b \in S
    PROVE  /\ Put(r, h, b) \in [Cell -> S]
           /\ Stores(r, Put(r, h, b), h, b)
<1>1. h + 1 \in Cell /\ \A i \in Slot : i + 1 \in Cell
  BY RingSizeAssumption DEF Cell, Slot
<1>2. Put(r, h, b) \in [Cell -> S]
  BY DEF Put
<1>3. At(Put(r, h, b), h) = b
  BY <1>1 DEF Put, At
<1>4. ASSUME NEW i \in Slot, i # h
      PROVE  At(Put(r, h, b), i) = At(r, i)
  <2>1. i + 1 # h + 1 /\ i + 1 \in Cell
    BY <1>1, <1>4, RingSizeAssumption DEF Slot
  <2> QED
    BY <2>1 DEF Put, At
<1> QED
  BY <1>2, <1>3, <1>4 DEF Stores

(* Writing at a head that has room moves the distance up by one. *)
LEMMA StoreDistance ==
    ASSUME NEW t \in Slot, NEW h \in Slot, After(h) # t
    PROVE  /\ Distance(t, h) \in 0..(RingSize - 2)
           /\ h = (t + Distance(t, h)) % RingSize
           /\ Distance(t, After(h)) = Distance(t, h) + 1
<1>1. After(h) \in Slot /\ After(h) = IF h = RingSize - 1 THEN 0 ELSE h + 1
  BY AfterIsSlot
<1>2. /\ Distance(t, h) \in 0..(RingSize - 1)
      /\ Distance(t, h) = IF h >= t THEN h - t ELSE RingSize + h - t
  BY DistanceValue
<1>3. Distance(t, After(h)) = IF After(h) >= t THEN After(h) - t
                              ELSE RingSize + After(h) - t
  BY <1>1, DistanceValue
<1>4. (t + Distance(t, h)) % RingSize =
          IF t + Distance(t, h) < RingSize THEN t + Distance(t, h)
          ELSE t + Distance(t, h) - RingSize
  BY <1>2, SlotInWindow
<1> QED
  BY <1>1, <1>2, <1>3, <1>4, RingSizeAssumption DEF Slot

(* Releasing the tail of a ring that is not empty moves it down by one. *)
LEMMA ReleaseDistance ==
    ASSUME NEW t \in Slot, NEW h \in Slot, Distance(t, h) # 0
    PROVE  /\ Distance(t, h) \in 1..(RingSize - 1)
           /\ Distance(After(t), h) = Distance(t, h) - 1
<1>1. After(t) \in Slot /\ After(t) = IF t = RingSize - 1 THEN 0 ELSE t + 1
  BY AfterIsSlot
<1>2. /\ Distance(t, h) \in 0..(RingSize - 1)
      /\ Distance(t, h) = IF h >= t THEN h - t ELSE RingSize + h - t
  BY DistanceValue
<1>3. Distance(After(t), h) = IF h >= After(t) THEN h - After(t)
                              ELSE RingSize + h - After(t)
  BY <1>1, DistanceValue
<1> QED
  BY <1>1, <1>2, <1>3, RingSizeAssumption DEF Slot

LEMMA WindowType ==
    ASSUME NEW S, NEW r \in [Cell -> S], NEW f \in Slot, NEW c \in 0..(RingSize - 1)
    PROVE  Window(r, f, c) \in Seq(S)
<1>1. ASSUME NEW i \in 1..c
      PROVE  At(r, (f + i - 1) % RingSize) \in S
  <2>1. i - 1 \in 0..(RingSize - 1) /\ f + (i - 1) = f + i - 1
    BY RingSizeAssumption DEF Slot
  <2>2. (f + i - 1) % RingSize \in Slot
    BY <2>1, SlotInWindow
  <2> QED
    BY <2>2, AtType
<1>2. Window(r, f, c) \in [1..c -> S]
  BY <1>1 DEF Window
<1> QED
  BY <1>2, RingSizeAssumption

LEMMA WindowValues ==
    ASSUME NEW r, NEW f, NEW c \in Nat
    PROVE  /\ Len(Window(r, f, c)) = c
           /\ \A i \in 1..c : Window(r, f, c)[i] = At(r, (f + i - 1) % RingSize)
<1> DEFINE S == {At(r, (f + i - 1) % RingSize) : i \in 1..c}
<1>1. Window(r, f, c) \in [1..c -> S]
  BY DEF Window
<1>2. \A i \in 1..c : Window(r, f, c)[i] = At(r, (f + i - 1) % RingSize)
  BY DEF Window
<1> HIDE DEF S
<1>3. Len(Window(r, f, c)) = c
  BY <1>1
<1> QED
  BY <1>2, <1>3

(* Slot h comes right after the window of length c from f on, which has      *)
(* length c1 with it.                                                        *)
Grows(f, c, h, c1) == h = (f + c) % RingSize /\ c1 = c + 1

(* t is s with b at its end. *)
Appended(s, b, t) == t = Append(s, b)

(* Storing a byte in the slot after a window appends it to the window. *)
LEMMA WindowAppend ==
    ASSUME NEW r, NEW f \in Slot, NEW c \in 0..(RingSize - 2), NEW b,
           NEW h \in Slot, NEW r1, Stores(r, r1, h, b),
           NEW c1 \in Nat, Grows(f, c, h, c1)
    PROVE  Appended(Window(r, f, c), b, Window(r1, f, c1))
<1> DEFINE S == {At(r, (f + i - 1) % RingSize) : i \in 1..c} \cup {b}
           old == Window(r, f, c)
           new == Window(r1, f, c1)
<1>1. /\ c \in Nat /\ c1 \in Nat /\ c \in 0..(RingSize - 1)
      /\ h = (f + c) % RingSize /\ c1 = c + 1
  BY RingSizeAssumption DEF Grows
<1>2. /\ Len(new) = c1
      /\ \A i \in 1..c1 : new[i] = At(r1, (f + i - 1) % RingSize)
  BY <1>1, WindowValues
<1>3. /\ Len(old) = c
      /\ \A i \in 1..c : old[i] = At(r, (f + i - 1) % RingSize)
  BY <1>1, WindowValues
<1>4. old \in [1..c -> S] /\ b \in S
  BY DEF Window
<1>5. new = [i \in 1..c1 |-> At(r1, (f + i - 1) % RingSize)]
  BY DEF Window
<1> HIDE DEF S, old, new
<1>6. old \in Seq(S)
  BY <1>1, <1>4
<1>7. /\ Append(old, b) \in Seq(S)
      /\ Len(Append(old, b)) = c1
      /\ \A i \in 1..c : Append(old, b)[i] = old[i]
      /\ Append(old, b)[c1] = b
  BY <1>1, <1>3, <1>4, <1>6, AppendProperties
<1>8. ASSUME NEW i \in 1..c1
      PROVE  new[i] = Append(old, b)[i]
  <2>1. i - 1 \in 0..(RingSize - 1) /\ f + (i - 1) = f + i - 1
    BY <1>1, RingSizeAssumption DEF Slot
  <2>2. (f + i - 1) % RingSize \in Slot
    BY <2>1, SlotInWindow
  <2>3. CASE i = c1
    <3>1. f + i - 1 = f + c
      BY <1>1, <2>3, RingSizeAssumption DEF Slot
    <3> QED
      BY <3>1, <2>3, <1>1, <1>2, <1>7 DEF Stores
  <2>4. CASE i # c1
    <3>1. i \in 1..c
      BY <2>4, <1>1
    <3>2. (f + (i - 1)) % RingSize = IF f + (i - 1) < RingSize
             THEN f + (i - 1) ELSE f + (i - 1) - RingSize
      BY <2>1, SlotInWindow
    <3>3. (f + c) % RingSize = IF f + c < RingSize THEN f + c ELSE f + c - RingSize
      BY <1>1, SlotInWindow
    <3>4. (f + i - 1) % RingSize # h
      BY <2>1, <3>1, <3>2, <3>3, <1>1, RingSizeAssumption DEF Slot
    <3>5. At(r1, (f + i - 1) % RingSize) = At(r, (f + i - 1) % RingSize)
      BY <3>4, <2>2 DEF Stores
    <3> QED
      BY <3>1, <3>5, <1>2, <1>3, <1>7
  <2> QED
    BY <2>3, <2>4
<1>9. new \in [1..c1 -> S]
  BY <1>5, <1>7, <1>8, <1>2, ElementOfSeq
<1>10. new \in Seq(S)
  BY <1>1, <1>9
<1>11. new = Append(old, b)
  BY <1>2, <1>7, <1>8, <1>10, SeqEqual
<1> QED
  BY <1>11 DEF old, new, Appended

(* A window does not change when the slot after it is written.               *)
LEMMA WindowKept ==
    ASSUME NEW r, NEW f \in Slot, NEW c \in 0..(RingSize - 2), NEW b,
           NEW h \in Slot, NEW r1, Stores(r, r1, h, b),
           NEW c1 \in Nat, Grows(f, c, h, c1)
    PROVE  Window(r1, f, c) = Window(r, f, c)
<1>1. h = (f + c) % RingSize /\ c \in 0..(RingSize - 1)
  BY RingSizeAssumption DEF Grows
<1>2. h = IF f + c < RingSize THEN f + c ELSE f + c - RingSize
  BY <1>1, SlotInWindow
<1>3. ASSUME NEW i \in 1..c
      PROVE  At(r1, (f + i - 1) % RingSize) = At(r, (f + i - 1) % RingSize)
  <2>1. i - 1 \in 0..(RingSize - 1) /\ f + (i - 1) = f + i - 1
    BY <1>1, RingSizeAssumption DEF Slot
  <2>2. /\ (f + i - 1) % RingSize \in Slot
        /\ (f + i - 1) % RingSize = IF f + (i - 1) < RingSize THEN f + (i - 1)
                                    ELSE f + (i - 1) - RingSize
    BY <2>1, SlotInWindow
  <2>3. (f + i - 1) % RingSize # h
    BY <1>2, <2>1, <2>2, RingSizeAssumption DEF Slot
  <2> QED
    BY <2>2, <2>3 DEF Stores
<1> QED
  BY <1>3 DEF Window

(* Moving the start of a window by one slot takes its first byte off. *)
LEMMA WindowTail ==
    ASSUME NEW S, NEW r \in [Cell -> S], NEW f \in Slot, NEW c \in 1..(RingSize - 1)
    PROVE  /\ Window(r, f, c) # <<>>
           /\ Head(Window(r, f, c)) = At(r, f)
           /\ Window(r, After(f), c - 1) = Tail(Window(r, f, c))
<1>1. c \in 0..(RingSize - 1) /\ c - 1 \in 0..(RingSize - 1)
  BY RingSizeAssumption
<1>2. After(f) \in Slot /\ After(f) = IF f = RingSize - 1 THEN 0 ELSE f + 1
  BY AfterIsSlot
<1>3. /\ Window(r, f, c) \in Seq(S)
      /\ Len(Window(r, f, c)) = c
      /\ \A i \in 1..c : Window(r, f, c)[i] = At(r, (f + i - 1) % RingSize)
  BY <1>1, WindowType, WindowValues
<1>4. /\ Window(r, After(f), c - 1) \in Seq(S)
      /\ Len(Window(r, After(f), c - 1)) = c - 1
      /\ \A i \in 1..(c - 1) :
            Window(r, After(f), c - 1)[i] = At(r, (After(f) + i - 1) % RingSize)
  BY <1>1, <1>2, WindowType, WindowValues
<1>5. Window(r, f, c)[1] = At(r, f)
  <2>1. 0 \in 0..(RingSize - 1)
    BY RingSizeAssumption
  <2>2. (f + 0) % RingSize = IF f + 0 < RingSize THEN f + 0 ELSE f + 0 - RingSize
    BY <2>1, SlotInWindow
  <2>3. f + 1 - 1 = f + 0 /\ f + 0 = f /\ f < RingSize
    BY RingSizeAssumption DEF Slot
  <2>4. (f + 1 - 1) % RingSize = f
    BY <2>2, <2>3
  <2>5. 1 \in 1..c
    OBVIOUS
  <2> QED
    BY <2>4, <2>5, <1>3
<1>6. ASSUME NEW i \in 1..(c - 1)
      PROVE  (After(f) + i - 1) % RingSize = (f + (i + 1) - 1) % RingSize
  <2>1. i - 1 \in 0..(RingSize - 1) /\ i \in 0..(RingSize - 1)
    BY RingSizeAssumption
  <2>2. After(f) + i - 1 = After(f) + (i - 1) /\ f + (i + 1) - 1 = f + i
    BY <1>2, <2>1 DEF Slot
  <2>3. (After(f) + (i - 1)) % RingSize = IF After(f) + (i - 1) < RingSize
           THEN After(f) + (i - 1) ELSE After(f) + (i - 1) - RingSize
    BY <2>1, <1>2, SlotInWindow
  <2>4. (f + i) % RingSize = IF f + i < RingSize THEN f + i ELSE f + i - RingSize
    BY <2>1, SlotInWindow
  <2> QED
    BY <2>1, <2>2, <2>3, <2>4, <1>2, RingSizeAssumption DEF Slot
<1>7. /\ Tail(Window(r, f, c)) \in Seq(S)
      /\ Len(Tail(Window(r, f, c))) = c - 1
      /\ \A i \in 1..(c - 1) : Tail(Window(r, f, c))[i] = Window(r, f, c)[i + 1]
  BY <1>3, <1>1
<1>8. ASSUME NEW i \in 1..(c - 1)
      PROVE  Window(r, After(f), c - 1)[i] = Tail(Window(r, f, c))[i]
  <2>1. i + 1 \in 1..c
    BY <1>1
  <2> QED
    BY <2>1, <1>3, <1>4, <1>6, <1>7
<1>9. Window(r, After(f), c - 1) = Tail(Window(r, f, c))
  BY <1>1, <1>4, <1>7, <1>8
<1> QED
  BY <1>3, <1>5, <1>9, <1>1
=============================================================================
