--------------------------- MODULE Ds18b20Proofs ----------------------------
(***************************************************************************)
(* Ds18b20 for every timing of the sensor and every temperature: only      *)
(* interrupt handlers take the current from a sensor that converts; it     *)
(* hears every byte as it was sent, and what the program knows of it is    *)
(* right.                                                                  *)
(***************************************************************************)
EXTENDS Ds18b20, SequenceTheorems, TLAPS

(* While the program waits for a conversion the line is driven, or the last *)
(* operation that the call has left is going to drive it.                   *)
CurrentDue ==
    pc = "wait" =>
        /\ \E S : todo \in Seq(S)
        /\ \A i \in 1..Len(todo) : todo[i].op # "decide"
        /\ IF todo = <<>> THEN strong ELSE todo[Len(todo)].op = "pullup"

PowerTyped == /\ low \in BOOLEAN /\ copies \in BOOLEAN
              /\ weak \in Nat /\ starved \subseteq {"convert", "copy"}

IInv == PowerTyped /\ (Parasite => CurrentDue) /\ NeverStarved

-----------------------------------------------------------------------------
LEMMA Popped ==
    ASSUME NEW S, NEW s \in Seq(S), s # <<>>
    PROVE  /\ Head(s) = s[1] /\ Len(s) \in Nat /\ Len(s) > 0
           /\ Tail(s) \in Seq(S) /\ Len(Tail(s)) = Len(s) - 1
           /\ \A i \in 1 .. Len(s) - 1 : Tail(s)[i] = s[i + 1]
           /\ Tail(s) = <<>> <=> Len(s) = 1
<1>1. /\ Head(s) = s[1] /\ Len(s) \in Nat /\ Len(s) > 0
      /\ Tail(s) \in Seq(S) /\ Len(Tail(s)) = Len(s) - 1
      /\ \A i \in 1 .. Len(s) - 1 : Tail(s)[i] = s[i + 1]
  OBVIOUS
<1>2. Tail(s) = <<>> <=> Len(Tail(s)) = 0
  BY <1>1, EmptySeq
<1> QED
  BY <1>1, <1>2

LEMMA Joined ==
    ASSUME NEW S, NEW a \in S, NEW b \in S, NEW c \in S, NEW d \in S,
           NEW r, r = <<a>> \o <<b>> \o <<c, d>>
    PROVE  r \in Seq(S) /\ Len(r) = 4 /\ r[1] = a /\ r[2] = b /\ r[3] = c /\ r[4] = d
<1>1. /\ <<a>> \in Seq(S) /\ Len(<<a>>) = 1 /\ <<b>> \in Seq(S) /\ Len(<<b>>) = 1
      /\ <<c, d>> \in Seq(S) /\ Len(<<c, d>>) = 2
  OBVIOUS
<1> DEFINE q == <<a>> \o <<b>>
<1>2. q \in Seq(S) /\ Len(q) = 2 /\ q[1] = a /\ q[2] = b
  BY <1>1, ConcatProperties
<1> HIDE DEF q
<1>3. /\ r \in Seq(S) /\ Len(r) = 4
      /\ \A i \in 1..4 : r[i] = IF i <= 2 THEN q[i] ELSE <<c, d>>[i - 2]
  <2>1. r = q \o <<c, d>>
    BY DEF q
  <2>2. Len(q) + Len(<<c, d>>) = 4
    BY <1>1, <1>2
  <2> QED
    BY <1>1, <1>2, <2>1, <2>2, ConcatProperties
<1>4. 1 \in 1..4 /\ 2 \in 1..4 /\ 3 \in 1..4 /\ 4 \in 1..4
  OBVIOUS
<1> QED
  BY <1>2, <1>3, <1>4

(* The operations that start a conversion with power from the bus end with  *)
(* the strong pull-up.                                                      *)
LEMMA ConversionEndsInPullup ==
    ASSUME Served, Parasite
    PROVE  LET s == StartConversion
           IN /\ \E S : s \in Seq(S)
              /\ s # <<>> /\ s[Len(s)].op = "pullup"
              /\ \A i \in 1..Len(s) : s[i].op # "decide"
<1>1. PowerModeGet(conf) = 0
  BY ConfAssumption DEF PowerModeGet, conf, ConfMake, Parasite
<1> DEFINE w == Write(SKIP_ROM)
           v == Write(CONVERT_T)
           s == StartConversion
<1>2. s = <<Reset>> \o <<w>> \o <<v, Pullup>>
  BY <1>1 DEF StartConversion
<1>3. Reset.op = "reset" /\ w.op = "write" /\ v.op = "write" /\ Pullup.op = "pullup"
  BY DEF Reset, Write, Pullup
<1> HIDE DEF w, v, s
<1>4. /\ s \in Seq({Reset, w, v, Pullup}) /\ Len(s) = 4
      /\ s[1] = Reset /\ s[2] = w /\ s[3] = v /\ s[4] = Pullup
  BY <1>2, Joined
<1>5. \A i \in 1..4 : s[i].op # "decide"
  <2>1. SUFFICES ASSUME NEW i \in 1..4 PROVE s[i].op # "decide"
    OBVIOUS
  <2>2. i = 1 \/ i = 2 \/ i = 3 \/ i = 4
    OBVIOUS
  <2> QED
    BY <1>3, <1>4, <2>2
<1>6. s # <<>> /\ s[Len(s)].op = "pullup"
  BY <1>3, <1>4, EmptySeq
<1>7. /\ \E S : s \in Seq(S)
      /\ \A i \in 1..Len(s) : s[i].op # "decide"
  BY <1>4, <1>5
<1> QED
  BY <1>6, <1>7 DEF s

(* An operation that is done, and is no pull-up, is not the last one; what  *)
(* is left ends as before.                                                  *)
LEMMA DoneKeepsCurrentDue ==
    ASSUME CurrentDue, pc' = pc, todo # <<>>,
           \/ todo' = todo /\ strong' = strong
           \/ Done /\ (Head(todo).op = "pullup" => strong')
    PROVE  CurrentDue'
<1> SUFFICES ASSUME pc = "wait" PROVE CurrentDue'
  BY DEF CurrentDue
<1>1. PICK S : todo \in Seq(S)
  BY DEF CurrentDue
<1>2. CASE todo' = todo /\ strong' = strong
  BY <1>2 DEF CurrentDue
<1>3. CASE Done /\ (Head(todo).op = "pullup" => strong')
  <2>1. /\ Head(todo) = todo[1] /\ Len(todo) \in Nat /\ Len(todo) > 0
        /\ todo' \in Seq(S) /\ Len(todo') = Len(todo) - 1
        /\ \A i \in 1 .. Len(todo) - 1 : todo'[i] = todo[i + 1]
        /\ todo' = <<>> <=> Len(todo) = 1
    BY <1>1, <1>3, Popped DEF Done
  <2>2. \A i \in 1..Len(todo') : todo'[i].op # "decide"
    <3>1. SUFFICES ASSUME NEW i \in 1..Len(todo') PROVE todo'[i].op # "decide"
      OBVIOUS
    <3>2. i + 1 \in 1..Len(todo) /\ todo'[i] = todo[i + 1]
      BY <2>1
    <3> QED
      BY <3>2 DEF CurrentDue
  <2>3. todo' = <<>> => strong'
    BY <1>3, <2>1 DEF CurrentDue
  <2>4. todo' # <<>> => todo'[Len(todo')].op = "pullup"
    <3>1. SUFFICES ASSUME todo' # <<>> PROVE todo'[Len(todo')].op = "pullup"
      OBVIOUS
    <3>2. Len(todo') \in 1 .. Len(todo) - 1 /\ Len(todo') + 1 = Len(todo)
      BY <2>1, <3>1
    <3>3. todo'[Len(todo')] = todo[Len(todo)]
      BY <2>1, <3>2
    <3> QED
      BY <3>3 DEF CurrentDue
  <2> QED
    BY <2>1, <2>2, <2>3, <2>4 DEF CurrentDue
<1> QED
  BY <1>2, <1>3

LEMMA InitInvariant == Init => IInv
<1> SUFFICES ASSUME Init PROVE IInv
  OBVIOUS
<1>1. low = FALSE /\ copies = FALSE /\ weak = 0 /\ starved = {} /\ pc = "boot"
  BY DEF Init
<1>2. PowerTyped
  BY <1>1 DEF PowerTyped
<1> QED
  BY <1>1, <1>2 DEF IInv, CurrentDue, NeverStarved

LEMMA SlotPower ==
    ASSUME PowerTyped, NEW b, SensorSlot(b)
    PROVE  starved' = starved /\ copies' \in BOOLEAN
<1>1. starved' = starved
  BY DEF SensorSlot, Take, sensor
<1>2. copies' = copies \/ \E x \in {TRUE, FALSE} : copies' = (copies \/ x)
  BY DEF SensorSlot, Take, sensor
<1>3. copies' \in BOOLEAN
  BY <1>2, Zenon DEF PowerTyped
<1> QED
  BY <1>1, <1>3

(* The bus operations of a call.                                            *)
LEMMA OperationKeepsInvariant ==
    ASSUME Served, IInv, ResetBus \/ WriteSlot \/ ReadSlot \/ DriveLow \/ StrongPullup
    PROVE  IInv'
<1>1. todo # <<>> /\ pc' = pc
  BY DEF ResetBus, ResetSlot, WriteSlot, ReadSlot, DriveLow, StrongPullup, Doing, SensorSlot
<1>2. \/ todo' = todo /\ strong' = strong
      \/ Done /\ (Head(todo).op = "pullup" => strong')
  <2>1. CASE ResetBus
    BY <2>1 DEF ResetBus, ResetSlot, Doing
  <2>2. CASE WriteSlot
    BY <2>2 DEF WriteSlot, NextBit, Doing
  <2>3. CASE ReadSlot
    BY <2>3 DEF ReadSlot, NextBit, Doing
  <2>4. CASE StrongPullup
    BY <2>4 DEF StrongPullup
  <2>5. CASE DriveLow
    BY <2>5 DEF DriveLow
  <2> QED
    BY <2>1, <2>2, <2>3, <2>4, <2>5
<1>3. PowerTyped /\ NeverStarved
  BY DEF IInv
<1>4. PowerTyped' /\ NeverStarved'
  <2>1. CASE ResetBus
    <3>1. low' = FALSE /\ copies' = FALSE /\ weak' = weak /\ starved' \in {starved, starved \cup {"copy"}}
      BY <2>1 DEF ResetBus, ResetSlot, InitLine
    <3> QED
      BY <1>3, <3>1 DEF PowerTyped, NeverStarved
  <2>2. CASE WriteSlot \/ ReadSlot \/ DriveLow
    <3>1. PICK b : SensorSlot(b)
      BY <2>2 DEF WriteSlot, ReadSlot, DriveLow
    <3>2. starved' = starved /\ copies' \in BOOLEAN
      BY <1>3, <3>1, SlotPower
    <3>3. weak' = weak /\ (low' = low \/ low' = TRUE)
      BY <2>2 DEF WriteSlot, ReadSlot, DriveLow
    <3> QED
      BY <1>3, <3>2, <3>3 DEF PowerTyped, NeverStarved
  <2>3. CASE StrongPullup
    <3>1. /\ low' = FALSE /\ copies' = FALSE /\ weak' = weak
          /\ starved' = starved \/ (starved' = starved \cup {"convert"} /\ weak > 10)
      BY <2>3 DEF StrongPullup
    <3> QED
      BY <1>3, <3>1 DEF PowerTyped, NeverStarved
  <2> QED
    BY <2>1, <2>2, <2>3
<1> QED
  BY <1>1, <1>2, <1>4, DoneKeepsCurrentDue DEF IInv

LEMMA NextKeepsInvariant ==
    ASSUME Served PROVE IInv /\ [Next]_vars => IInv'
<1> SUFFICES ASSUME IInv, [Next]_vars PROVE IInv'
  OBVIOUS
<1>1. CASE Boot \/ Waited \/ Store
  <2>1. pc' # "wait"
    BY <1>1 DEF Boot, Waited, Store, Goto
  <2>2. (starved' = starved /\ weak' = weak) \/ (starved' = {} /\ weak' = 0)
    <3>1. CASE Boot \/ Store
      BY <3>1 DEF Boot, Store, sensor
    <3>2. CASE Waited
      BY <3>2 DEF Waited
    <3> QED
      BY <1>1, <3>1, <3>2
  <2>3. copies' = copies /\ low' \in {low, FALSE}
    BY <1>1 DEF Boot, Waited, Store, sensor, InitLine
  <2>4. PowerTyped /\ NeverStarved
    BY DEF IInv
  <2>5. low' \in BOOLEAN /\ copies' \in BOOLEAN
    BY <2>3, <2>4 DEF PowerTyped
  <2>6. CASE starved' = starved /\ weak' = weak
    BY <2>1, <2>4, <2>5, <2>6 DEF IInv, CurrentDue, PowerTyped, NeverStarved
  <2>7. CASE starved' = {} /\ weak' = 0
    BY <2>1, <2>5, <2>7 DEF IInv, CurrentDue, PowerTyped, NeverStarved
  <2> QED
    BY <2>2, <2>6, <2>7
<1>2. CASE Start
  <2>1. todo' = StartConversion /\ UNCHANGED <<low, weak, copies, starved>>
    BY <1>2 DEF Start, Goto
  <2> QED
    BY <2>1, ConversionEndsInPullup DEF IInv, PowerTyped, NeverStarved, CurrentDue
<1>3. CASE Decide
  <2>1. UNCHANGED <<low, weak, copies, starved, pc>>
    BY <1>3 DEF Decide, sensor
  <2>2. Parasite => pc # "wait"
    <3>1. SUFFICES ASSUME Parasite, pc = "wait" PROVE FALSE
      OBVIOUS
    <3>2. PICK S : todo \in Seq(S)
      BY <3>1 DEF IInv, CurrentDue
    <3>3. todo # <<>> /\ Head(todo).op = "decide"
      BY <1>3 DEF Decide, Doing
    <3>4. 1 \in 1..Len(todo) /\ todo[1].op = "decide"
      BY <3>2, <3>3, Popped
    <3> QED
      BY <3>1, <3>4 DEF IInv, CurrentDue
  <2> QED
    BY <2>1, <2>2 DEF IInv, PowerTyped, NeverStarved, CurrentDue
<1>4. CASE ResetBus \/ WriteSlot \/ ReadSlot \/ DriveLow \/ StrongPullup
  BY <1>4, OperationKeepsInvariant
<1>5. CASE Interrupt
  <2>1. /\ weak <= 10 /\ UNCHANGED <<todo, strong, low, pc, copies, starved>>
        /\ \E t \in IsrTimes : weak' = weak + t
    BY <1>5 DEF Interrupt, sensor
  <2>2. PICK t \in Nat : weak' = weak + t
    BY <2>1, TimeAssumption
  <2>3. weak' \in Nat /\ ~("convert" \in starved)
    BY <2>1, <2>2 DEF IInv, PowerTyped, NeverStarved
  <2> QED
    BY <2>1, <2>3 DEF IInv, PowerTyped, NeverStarved, CurrentDue
<1>6. CASE Convert
  <2>1. Parasite => strong
    BY <1>6 DEF Convert, IInv, CurrentDue
  <2>2. UNCHANGED <<todo, strong, low, weak, pc, copies, starved>>
    BY <1>6, <2>1 DEF Convert, master
  <2> QED
    BY <2>2 DEF IInv, PowerTyped, NeverStarved, CurrentDue
<1>7. CASE Restart
  BY <1>7 DEF Restart, IInv, PowerTyped, NeverStarved, CurrentDue
<1>8. CASE Plug \/ Warm
  <2>1. /\ UNCHANGED <<todo, strong, low, weak, pc, starved>>
        /\ copies' = copies \/ copies' = FALSE
    BY <1>8 DEF Plug, Warm, master
  <2> QED
    BY <2>1 DEF IInv, PowerTyped, NeverStarved, CurrentDue
<1>9. CASE UNCHANGED vars
  BY <1>9 DEF vars, master, sensor, IInv, PowerTyped, NeverStarved, CurrentDue
<1> QED
  BY <1>1, <1>2, <1>3, <1>4, <1>5, <1>6, <1>7, <1>8, <1>9 DEF Next, Program

-----------------------------------------------------------------------------
(* A conversion lacks current only when handlers ran for more than 10 us    *)
(* between the slots of its command and the end of the pull-up: if the      *)
(* calls reach the sensor, no call, unplugging or restart forgets the       *)
(* pull-up or takes it away (ds18b20_start_conversion, sow_strong_pullup).  *)
THEOREM PowerSafe ==
    ASSUME Served PROVE Spec => []NeverStarved
<1>1. Init => IInv
  BY InitInvariant
<1>2. IInv /\ [Next]_vars => IInv'
  BY NextKeepsInvariant
<1>3. IInv => NeverStarved
  BY DEF IInv
<1> QED
  BY <1>1, <1>2, <1>3, PTL DEF Spec

-----------------------------------------------------------------------------
(* Bytes and their bits. *)

LEMMA Powers ==
    \A m \in 0..7 : 2^m \in 1..128 /\ (IF m = 7 THEN 2^m = 128 ELSE 2^(m + 1) = 2 * 2^m)
<1>1. 2^0 = 1 /\ 2^1 = 2 /\ 2^2 = 4 /\ 2^3 = 8 /\ 2^4 = 16 /\ 2^5 = 32 /\ 2^6 = 64 /\ 2^7 = 128
  OBVIOUS
<1>2. SUFFICES ASSUME NEW m \in 0..7
               PROVE  2^m \in 1..128 /\ (IF m = 7 THEN 2^m = 128 ELSE 2^(m + 1) = 2 * 2^m)
  OBVIOUS
<1>3. 0 + 1 = 1 /\ 1 + 1 = 2 /\ 2 + 1 = 3 /\ 3 + 1 = 4 /\ 4 + 1 = 5 /\ 5 + 1 = 6 /\ 6 + 1 = 7
  OBVIOUS
<1>4. CASE m = 0
  BY <1>1, <1>3, <1>4
<1>5. CASE m = 1
  BY <1>1, <1>3, <1>5
<1>6. CASE m = 2
  BY <1>1, <1>3, <1>6
<1>7. CASE m = 3
  BY <1>1, <1>3, <1>7
<1>8. CASE m = 4
  BY <1>1, <1>3, <1>8
<1>9. CASE m = 5
  BY <1>1, <1>3, <1>9
<1>10. CASE m = 6
  BY <1>1, <1>3, <1>10
<1>11. CASE m = 7
  BY <1>1, <1>3, <1>11
<1>12. m = 0 \/ m = 1 \/ m = 2 \/ m = 3 \/ m = 4 \/ m = 5 \/ m = 6 \/ m = 7
  OBVIOUS
<1> QED
  BY <1>4, <1>5, <1>6, <1>7, <1>8, <1>9, <1>10, <1>11, <1>12

(* The m low bits of a byte and the next one are its m + 1 low bits.        *)
LEMMA BitsOfByte ==
    ASSUME NEW v \in Byte, NEW m \in 0..7
    PROVE  /\ BitOf(v, m) \in 0..1 /\ v % 2^m \in Nat /\ v % 2^m < 2^m
           /\ m = 0 => v % 2^m = 0
           /\ (v % 2^m) + BitOf(v, m) * 2^m = IF m = 7 THEN v ELSE v % 2^(m + 1)
<1>1. 2^0 = 1 /\ 2^1 = 2 /\ 2^2 = 4 /\ 2^3 = 8 /\ 2^4 = 16 /\ 2^5 = 32 /\ 2^6 = 64 /\ 2^7 = 128
  OBVIOUS
<1>2. 0 + 1 = 1 /\ 1 + 1 = 2 /\ 2 + 1 = 3 /\ 3 + 1 = 4 /\ 4 + 1 = 5 /\ 5 + 1 = 6 /\ 6 + 1 = 7
  OBVIOUS
<1> DEFINE Splits(a, w) == /\ (v \div a) % 2 \in 0..1 /\ v % a \in Nat /\ v % a < a
                           /\ (v % a) + ((v \div a) % 2) * a = w
<1>3. CASE m = 0
  <2>1. Splits(1, v % 2) /\ v % 1 = 0
    BY DEF Byte
  <2> QED
    BY <1>1, <1>2, <1>3, <2>1 DEF BitOf
<1>4. CASE m = 1
  <2>1. Splits(2, v % 4)
    BY DEF Byte
  <2> QED
    BY <1>1, <1>2, <1>4, <2>1 DEF BitOf
<1>5. CASE m = 2
  <2>1. Splits(4, v % 8)
    BY DEF Byte
  <2> QED
    BY <1>1, <1>2, <1>5, <2>1 DEF BitOf
<1>6. CASE m = 3
  <2>1. Splits(8, v % 16)
    BY DEF Byte
  <2> QED
    BY <1>1, <1>2, <1>6, <2>1 DEF BitOf
<1>7. CASE m = 4
  <2>1. Splits(16, v % 32)
    BY DEF Byte
  <2> QED
    BY <1>1, <1>2, <1>7, <2>1 DEF BitOf
<1>8. CASE m = 5
  <2>1. Splits(32, v % 64)
    BY DEF Byte
  <2> QED
    BY <1>1, <1>2, <1>8, <2>1 DEF BitOf
<1>9. CASE m = 6
  <2>1. Splits(64, v % 128)
    BY DEF Byte
  <2> QED
    BY <1>1, <1>2, <1>9, <2>1 DEF BitOf
<1>10. CASE m = 7
  <2>1. Splits(128, v)
    BY DEF Byte
  <2> QED
    BY <1>1, <1>2, <1>10, <2>1 DEF BitOf
<1>11. m = 0 \/ m = 1 \/ m = 2 \/ m = 3 \/ m = 4 \/ m = 5 \/ m = 6 \/ m = 7
  OBVIOUS
<1> QED
  BY <1>3, <1>4, <1>5, <1>6, <1>7, <1>8, <1>9, <1>10, <1>11

LEMMA PairOfBytes ==
    ASSUME NEW x \in Byte, NEW y \in Byte PROVE x + 256 * y \in Nat /\ x + 256 * y < 65536
BY DEF Byte

LEMMA InRange == ASSUME NEW m \in Nat, NEW x PROVE x \in 0..m <=> x \in Nat /\ x <= m
OBVIOUS

(* A bit more keeps a number below the next power of two.                   *)
LEMMA BitMore ==
    ASSUME NEW m \in 0..7, NEW a \in Nat, a < 2^m, NEW b \in 0..1
    PROVE  /\ a + b * 2^m \in Byte
           /\ m < 7 => a + b * 2^m < 2^(m + 1)
<1>1. PICK p \in 1..128 : p = 2^m /\ (IF m = 7 THEN p = 128 ELSE 2^(m + 1) = 2 * p)
  <2>1. 2^m \in 1..128 /\ (IF m = 7 THEN 2^m = 128 ELSE 2^(m + 1) = 2 * 2^m)
    BY Powers
  <2>2. PICK p : p = 2^m
    OBVIOUS
  <2>3. p \in 1..128 /\ (IF m = 7 THEN p = 128 ELSE 2^(m + 1) = 2 * p)
    BY <2>1, <2>2
  <2> QED
    BY <2>2, <2>3
<1>2. b * p = 0 \/ b * p = p
  BY b = 0 \/ b = 1
<1> QED
  BY <1>1, <1>2 DEF Byte

-----------------------------------------------------------------------------
(* Types, and the operations of a call. *)

Op == [op : {"reset", "write", "read", "pullup", "decide"}, val : Byte]

(* TypeOK by its parts, but for the number of bytes read, which the calls   *)
(* decide.                                                                  *)
BusTyped == /\ todo \in Seq(Op) /\ rx \in Seq(Byte)
            /\ n \in 0..7 /\ data \in Byte /\ presence \in 0..1
SensorTyped == /\ dstate \in Listening \cup {"idle", "read", "converting"}
               /\ dcnt \in 0..7 /\ dacc \in Byte /\ took \in Byte /\ idx \in 0..4
MemoryTyped == /\ scratch \in [lo : Byte, hi : Byte, th : Byte, tl : Byte, conf : Byte]
               /\ eeprom \in [th : Byte, tl : Byte, conf : Byte]
               /\ temp \in Temps
ProgramTyped == /\ pc \in {"boot", "configured", "wait", "reading", "read"}
                /\ reading \in Nat /\ reading < 65536
Flags == /\ strong \in BOOLEAN /\ present \in BOOLEAN
         /\ steady \in BOOLEAN /\ gone \in BOOLEAN
Typed == BusTyped /\ SensorTyped /\ MemoryTyped /\ ProgramTyped /\ Flags

(* The strong pull-up is the last operation of a call.                      *)
PullupLast(s) == \A i \in 1 .. Len(s) - 1 : s[i].op # "pullup"

(* What the program knows of the bus, and the bits done so far.             *)
Ranges == /\ steady => present
          /\ gone => ~present
          /\ n # 0 => Doing("write") \/ Doing("read")
          /\ data < 2^n /\ (~Doing("read") => data = 0)
          /\ dstate \in Listening => dacc < 2^dcnt
          /\ dstate = "write" => idx <= 2
          /\ dstate \in {"idle", "converting"} => dcnt = 0
          /\ pc = "boot" => todo = <<>>
          /\ PullupLast(todo)

(* A sensor that has shown its presence is at the bit the program is at,    *)
(* and has the bits of the byte that the program has sent of it.            *)
OnBus == Doing("write") \/ Doing("read")
Aligned == steady /\ OnBus =>
               /\ pulse = 0
               /\ dstate \in Listening \cup {"read"} => dcnt = n
               /\ dstate \in Listening /\ n = 0 => dacc = 0
               /\ dstate \in Listening /\ Doing("write") => dacc = Head(todo).val % 2^n

LEMMA OpTypes ==
    /\ Reset \in Op /\ Read \in Op /\ Pullup \in Op
    /\ \A b \in Byte : Write(b) \in Op /\ Write(b).op = "write" /\ Write(b).val = b
    /\ Reset.op = "reset" /\ Read.op = "read" /\ Pullup.op = "pullup"
    /\ [op |-> "decide", val |-> 0] \in Op
    /\ {SKIP_ROM, CONVERT_T, WRITE_SP, READ_SP, COPY_SP, Th, Tl, ConfigOf(Res)} \subseteq Byte
<1>1. ConfigOf(Res) \in Byte
  <2>1. Res \in 0..3
    BY SettingsAssumption
  <2>2. Res % 4 \in 0..3
    BY <2>1
  <2> QED
    BY <2>2 DEF ConfigOf, Byte
<1> QED
  BY <1>1, SettingsAssumption DEF Op, Reset, Read, Pullup, Write, SKIP_ROM, CONVERT_T, WRITE_SP,
     READ_SP, COPY_SP, Byte

LEMMA Single == ASSUME NEW S, NEW a \in S PROVE <<a>> \in Seq(S) /\ Len(<<a>>) = 1 /\ <<a>>[1] = a
OBVIOUS

(* What every call but ds18b20_start_conversion is made of.                 *)
Calm == {o \in Op : o.op # "pullup"}

LEMMA CalmCalls ==
    ASSUME NEW s \in Seq(Calm) PROVE s \in Seq(Op) /\ PullupLast(s)
<1>1. Calm \subseteq Op
  BY DEF Calm
<1>2. s \in Seq(Op) /\ Len(s) \in Nat /\ \A i \in 1..Len(s) : s[i] \in Calm
  BY <1>1
<1>3. \A i \in 1 .. Len(s) - 1 : i \in 1..Len(s)
  BY <1>2
<1> QED
  BY <1>2, <1>3 DEF PullupLast, Calm

LEMMA LastPopped ==
    ASSUME NEW s \in Seq(Op), s # <<>>, PullupLast(s)
    PROVE  PullupLast(Tail(s)) /\ (Head(s).op = "pullup" => Tail(s) = <<>>)
<1>1. /\ Head(s) = s[1] /\ Len(s) \in Nat /\ Len(s) > 0
      /\ Len(Tail(s)) = Len(s) - 1
      /\ \A i \in 1 .. Len(s) - 1 : Tail(s)[i] = s[i + 1]
      /\ Tail(s) = <<>> <=> Len(s) = 1
  BY Popped
<1>2. ASSUME NEW i \in 1 .. Len(Tail(s)) - 1 PROVE Tail(s)[i].op # "pullup"
  <2>1. i \in 1 .. Len(s) - 1 /\ i + 1 \in 1 .. Len(s) - 1
    BY <1>1
  <2> QED
    BY <1>1, <2>1 DEF PullupLast
<1>3. Len(s) # 1 => 1 \in 1 .. Len(s) - 1
  BY <1>1
<1> QED
  BY <1>1, <1>2, <1>3 DEF PullupLast

LEMMA Written ==
    ASSUME NEW s \in Seq(Byte)
    PROVE  /\ WriteData(s) \in Seq(Calm) /\ WriteData(s) \in Seq(Op) /\ Len(WriteData(s)) = Len(s)
           /\ \A i \in 1..Len(s) : WriteData(s)[i] = Write(s[i])
<1>1. \A i \in 1..Len(s) : Write(s[i]) \in Calm
  BY OpTypes DEF Calm
<1> DEFINE f == [i \in 1..Len(s) |-> Write(s[i])]
<1>2. f \in [1..Len(s) -> Calm] /\ Len(s) \in Nat
  BY <1>1
<1>3. f \in Seq(Calm) /\ Len(f) = Len(s)
  <2> HIDE DEF f
  <2> QED
    BY <1>2
<1>4. f \in Seq(Op)
  <2> HIDE DEF f
  <2> QED
    BY <1>3, CalmCalls
<1> QED
  BY <1>3, <1>4 DEF WriteData

LEMMA ReadsBytes ==
    ASSUME NEW len \in Nat
    PROVE  /\ ReadData(len) \in Seq(Calm) /\ ReadData(len) \in Seq(Op) /\ Len(ReadData(len)) = len
           /\ \A i \in 1..len : ReadData(len)[i] = Read
<1> DEFINE f == [i \in 1..len |-> Read]
<1>1. f \in [1..len -> Calm]
  BY OpTypes DEF Calm
<1>2. f \in Seq(Calm) /\ Len(f) = len
  <2> HIDE DEF f
  <2> QED
    BY <1>1
<1>3. f \in Seq(Op)
  <2> HIDE DEF f
  <2> QED
    BY <1>2, CalmCalls
<1> QED
  BY <1>2, <1>3 DEF ReadData

(* A call begins with a reset, or with the comparison of ds18b20_write_rom. *)
Opens(s) == s \in Seq(Op) /\ PullupLast(s) /\ (s # <<>> => Head(s).op \in {"reset", "decide"})

LEMMA OpensWithReset == ASSUME NEW s \in Seq(Calm) PROVE <<Reset>> \o s \in Seq(Calm) /\ Opens(<<Reset>> \o s)
<1>1. Reset \in Calm /\ Reset.op = "reset"
  BY OpTypes DEF Calm
<1> HIDE DEF Reset
<1>2. <<Reset>> \o s \in Seq(Calm) /\ Head(<<Reset>> \o s) = Reset
  BY <1>1
<1>3. PICK r : r = <<Reset>> \o s
  OBVIOUS
<1>4. r \in Seq(Op) /\ PullupLast(r)
  BY <1>2, <1>3, CalmCalls
<1> QED
  BY <1>1, <1>2, <1>3, <1>4 DEF Opens

LEMMA OpensFurther ==
    ASSUME NEW s \in Seq(Calm), Opens(s), s # <<>>, NEW u \in Seq(Calm)
    PROVE  s \o u \in Seq(Calm) /\ Opens(s \o u)
<1>1. Head(s).op \in {"reset", "decide"}
  BY DEF Opens
<1>2. s \o u \in Seq(Calm) /\ Head(s \o u) = Head(s)
  OBVIOUS
<1>3. PICK r : r = s \o u
  OBVIOUS
<1>4. r \in Seq(Op) /\ PullupLast(r)
  BY <1>2, <1>3, CalmCalls
<1> QED
  BY <1>1, <1>2, <1>3, <1>4 DEF Opens

LEMMA CallsOpen ==
    /\ Opens(StartConversion) /\ Opens(WriteRomStart) /\ Opens(ReadScratchpad(2))
    /\ Opens(ReadThroughBus(2)) /\ Opens(<<>>)
    /\ Opens(<<Reset>> \o WriteData(<<SKIP_ROM, WRITE_SP, Th, Tl, ConfigOf(Res)>>)
                       \o <<Reset>> \o WriteData(<<SKIP_ROM, COPY_SP>>))
<1> DEFINE w == Write(SKIP_ROM)
           v == Write(CONVERT_T)
           u == Write(READ_SP)
           decide == [op |-> "decide", val |-> 0]
<1>1. {w, v, u, decide, Reset} \subseteq Calm /\ {w, v, Reset, Pullup} \subseteq Op
  BY OpTypes DEF Calm
<1>2. <<w>> \in Seq(Calm) /\ <<w, u>> \in Seq(Calm) /\ <<decide>> \in Seq(Calm)
      /\ <<>> \in Seq(Calm) /\ <<Reset>> \in Seq(Calm) /\ decide.op = "decide"
  <2> HIDE DEF w, v, u, decide
  <2>1. <<w>> \in Seq(Calm) /\ <<w, u>> \in Seq(Calm) /\ <<decide>> \in Seq(Calm)
        /\ <<>> \in Seq(Calm) /\ <<Reset>> \in Seq(Calm)
    BY <1>1
  <2> QED
    BY <2>1 DEF decide
<1>3. \A s \in Seq(Calm) : <<Reset>> \o s # <<>>
  OBVIOUS
<1>4. \A len \in {2, 5} : \A s \in {<<>>, <<w, u>> \o ReadData(len)} : s \in Seq(Calm)
  <2>1. SUFFICES ASSUME NEW len \in {2, 5} PROVE <<w, u>> \o ReadData(len) \in Seq(Calm)
    BY <1>2
  <2>2. ReadData(len) \in Seq(Calm)
    BY ReadsBytes
  <2> HIDE DEF w, u
  <2> QED
    BY <1>2, <2>2, ConcatProperties
<1>5. \A len \in {2, 5} : /\ Opens(ReadScratchpad(len)) /\ ReadScratchpad(len) # <<>>
                          /\ ReadScratchpad(len) \in Seq(Calm)
  <2>1. SUFFICES ASSUME NEW len \in {2, 5}
                 PROVE  /\ Opens(ReadScratchpad(len)) /\ ReadScratchpad(len) # <<>>
                        /\ ReadScratchpad(len) \in Seq(Calm)
    OBVIOUS
  <2>2. PICK s \in Seq(Calm) : ReadScratchpad(len) = <<Reset>> \o s
    BY <1>4, <1>2 DEF ReadScratchpad
  <2> QED
    BY <1>3, <2>2, OpensWithReset
<1>6. Opens(StartConversion)
  <2>1. CASE Served /\ PowerModeGet(conf) = 0
    <3>1. StartConversion = <<Reset>> \o <<w>> \o <<v, Pullup>>
      BY <2>1 DEF StartConversion
    <3>2. w.op = "write" /\ v.op = "write" /\ Reset.op = "reset"
      BY OpTypes
    <3> HIDE DEF w, v
    <3>3. PICK r : r = StartConversion
      OBVIOUS
    <3>4. r \in Seq(Op) /\ Len(r) = 4 /\ r[1] = Reset /\ r[2] = w /\ r[3] = v
      BY <1>1, <3>1, <3>3, Joined
    <3>5. ASSUME NEW i \in 1 .. Len(r) - 1 PROVE r[i].op # "pullup"
      <4>1. i = 1 \/ i = 2 \/ i = 3
        BY <3>4
      <4> QED
        BY <3>2, <3>4, <4>1
    <3>6. r # <<>> /\ Head(r) = r[1]
      BY <3>4
    <3> QED
      BY <3>2, <3>3, <3>4, <3>5, <3>6 DEF Opens, PullupLast
  <2>2. CASE ~(Served /\ PowerModeGet(conf) = 0)
    <3>1. PICK s \in {<<>>, <<w>>} : StartConversion = <<Reset>> \o s \o <<>>
      BY <2>2 DEF StartConversion
    <3>2. s \in Seq(Calm)
      BY <1>2
    <3> HIDE DEF w, v
    <3>3. PICK r : r = <<Reset>> \o s
      OBVIOUS
    <3>4. r \in Seq(Calm) /\ Opens(r) /\ r # <<>>
      BY <1>3, <3>2, <3>3, OpensWithReset
    <3> QED
      BY <1>2, <3>1, <3>3, <3>4, OpensFurther
  <2> QED
    BY <2>1, <2>2
<1>7. Opens(WriteRomStart)
  <2>1. \/ WriteRomStart = <<>>
        \/ WriteRomStart = <<decide>>
        \/ WriteRomStart = ReadScratchpad(5) \o <<decide>>
    BY DEF WriteRomStart
  <2>2. Opens(<<decide>>) /\ Opens(<<>>)
    <3>1. Head(<<decide>>) = decide
      OBVIOUS
    <3> HIDE DEF decide
    <3>2. <<decide>> \in Seq(Op) /\ PullupLast(<<decide>>) /\ <<>> \in Seq(Op) /\ PullupLast(<<>>)
      BY <1>2, CalmCalls
    <3> QED
      BY <1>2, <3>1, <3>2 DEF Opens
  <2>3. Opens(ReadScratchpad(5) \o <<decide>>)
    <3> HIDE DEF decide
    <3>1. PICK s : s = ReadScratchpad(5)
      OBVIOUS
    <3>2. s \in Seq(Calm) /\ Opens(s) /\ s # <<>>
      BY <1>5, <3>1
    <3> QED
      BY <1>2, <3>1, <3>2, OpensFurther
  <2> QED
    BY <2>1, <2>2, <2>3
<1>8. Opens(ReadThroughBus(2))
  <2>1. WriteData(<<SKIP_ROM, READ_SP>>) \in Seq(Calm) /\ ReadData(2) \in Seq(Calm)
    <3>1. <<SKIP_ROM, READ_SP>> \in Seq(Byte)
      BY OpTypes
    <3> QED
      BY <3>1, Written, ReadsBytes
  <2>2. PICK s \in Seq(Calm), d \in Seq(Calm) : s = WriteData(<<SKIP_ROM, READ_SP>>) /\ d = ReadData(2)
    BY <2>1
  <2>3. PICK r : r = <<Reset>> \o s
    OBVIOUS
  <2>4. r \in Seq(Calm) /\ Opens(r) /\ r # <<>>
    BY <1>3, <2>3, OpensWithReset
  <2>5. Opens(r \o d)
    BY <2>4, OpensFurther
  <2> QED
    BY <2>2, <2>3, <2>5 DEF ReadThroughBus, BusSend, BusRecv
<1>9. Opens(<<Reset>> \o WriteData(<<SKIP_ROM, WRITE_SP, Th, Tl, ConfigOf(Res)>>)
                      \o <<Reset>> \o WriteData(<<SKIP_ROM, COPY_SP>>))
  <2>1. /\ WriteData(<<SKIP_ROM, WRITE_SP, Th, Tl, ConfigOf(Res)>>) \in Seq(Calm)
        /\ WriteData(<<SKIP_ROM, COPY_SP>>) \in Seq(Calm)
    <3>1. <<SKIP_ROM, WRITE_SP, Th, Tl, ConfigOf(Res)>> \in Seq(Byte) /\ <<SKIP_ROM, COPY_SP>> \in Seq(Byte)
      BY OpTypes
    <3> QED
      BY <3>1, Written
  <2>2. PICK s \in Seq(Calm), e \in Seq(Calm) :
            /\ s = WriteData(<<SKIP_ROM, WRITE_SP, Th, Tl, ConfigOf(Res)>>)
            /\ e = WriteData(<<SKIP_ROM, COPY_SP>>)
    BY <2>1
  <2>3. PICK r : r = <<Reset>> \o s
    OBVIOUS
  <2>4. r \in Seq(Calm) /\ Opens(r) /\ r # <<>>
    BY <1>3, <2>3, OpensWithReset
  <2>5. PICK q : q = r \o <<Reset>>
    OBVIOUS
  <2>6. q \in Seq(Calm) /\ Opens(q) /\ q # <<>>
    <3>1. r \o <<Reset>> # <<>>
      BY <1>2, <2>4, ConcatEqualIffEmpty
    <3> QED
      BY <1>2, <2>4, <2>5, <3>1, OpensFurther
  <2>7. Opens(q \o e)
    BY <2>6, OpensFurther
  <2> QED
    BY <2>2, <2>3, <2>5, <2>7
<1>10. Opens(<<>>)
  <2>1. <<>> \in Seq(Op) /\ PullupLast(<<>>)
    BY <1>2, CalmCalls
  <2> QED
    BY <2>1 DEF Opens
<1> QED
  BY <1>5, <1>6, <1>7, <1>8, <1>9, <1>10

-----------------------------------------------------------------------------
(* A slot, as the sensor sees it. *)

LEMMA FirstOperation ==
    ASSUME todo \in Seq(Op), todo # <<>>
    PROVE  Head(todo) \in Op /\ Head(todo).val \in Byte /\ Tail(todo) \in Seq(Op)
<1>1. Head(todo) \in Op /\ Tail(todo) \in Seq(Op)
  OBVIOUS
<1> QED
  BY <1>1 DEF Op

(* A sensor that looks between 5 us and 84 us after the start of a slot     *)
(* hears the bit that is written.                                           *)
LEMMA HearsDueBit ==
    ASSUME SampleAt \subseteq 5..84, Typed, Doing("write"), NEW b \in Heard
    PROVE  b = DueBit /\ b \in 0..1
<1>1. Head(todo).val \in Byte
  BY FirstOperation DEF Typed, BusTyped, Doing
<1>2. DueBit \in 0..1
  BY <1>1, BitsOfByte DEF DueBit, Typed, BusTyped
<1>3. PICK at \in 5..84 : b = IF at < ReleasedAt(DueBit) THEN 0 ELSE 1
  BY DEF Heard
<1>4. CASE DueBit = 1
  BY <1>3, <1>4 DEF ReleasedAt
<1>5. CASE DueBit = 0
  BY <1>3, <1>5 DEF ReleasedAt
<1> QED
  BY <1>2, <1>4, <1>5

LEMMA TakesByte ==
    ASSUME NEW b, SensorSlot(b), Hears, dcnt = 7 PROVE Take(dacc + b * 2^7)
<1>1. ~Sends
  BY DEF Hears, Sends, Sending, Listening
<1>2. PICK x : x = dacc + b * 2^7
  OBVIOUS
<1>3. Take(x)
  BY <1>1, <1>2 DEF SensorSlot
<1> QED
  BY <1>2, <1>3

(* What a whole byte leaves of the types and of the ranges of the sensor.   *)
LEMMA TakeTypes ==
    ASSUME Typed, Ranges, dstate \in Listening, NEW b \in Byte, Take(b)
    PROVE  /\ took' = b /\ idx' \in 0..4 /\ dacc' \in Byte
           /\ dstate' \in Listening \cup {"idle", "read", "converting"}
           /\ dstate' \in Listening => dacc' = 0
           /\ dstate' = "write" => idx' <= 2
           /\ scratch' \in [lo : Byte, hi : Byte, th : Byte, tl : Byte, conf : Byte]
           /\ eeprom' \in [th : Byte, tl : Byte, conf : Byte]
           /\ temp' = temp
<1>1. took' = b /\ temp' = temp
  BY DEF Take
<1>2. dstate = "write" => idx \in 0..2
  BY DEF Typed, SensorTyped, Ranges
<1>3. idx' \in 0..4 /\ (dstate' = "write" => idx' <= 2)
  <2>1. CASE dstate = "write"
    <3>1. dstate' = IF idx < 2 THEN "write" ELSE "idle"
      BY <2>1 DEF Take
    <3> QED
      BY <1>2, <2>1, <3>1 DEF Take
  <2>2. CASE dstate # "write"
    BY <2>2 DEF Take
  <2> QED
    BY <2>1, <2>2
<1>4. dstate' \in Listening \cup {"idle", "read", "converting"}
  BY DEF Take, Listening
<1>5. dacc' \in Byte /\ (dstate' \in Listening => dacc' = 0)
  BY DEF Take, Typed, MemoryTyped, Listening, Byte
<1>6. scratch' \in [lo : Byte, hi : Byte, th : Byte, tl : Byte, conf : Byte]
  <2>1. CASE dstate = "write"
    <3>1. scratch' = [scratch EXCEPT ![Field[idx + 3]] = b]
      BY <2>1 DEF Take
    <3>2. idx = 0 \/ idx = 1 \/ idx = 2
      BY <1>2, <2>1
    <3>3. Field[idx + 3] \in {"th", "tl", "conf"}
      BY <3>2 DEF Field
    <3> QED
      BY <3>1, <3>3 DEF Typed, MemoryTyped
  <2>2. CASE dstate # "write"
    BY <2>2 DEF Take, Typed, MemoryTyped
  <2> QED
    BY <2>1, <2>2
<1>7. eeprom' \in [th : Byte, tl : Byte, conf : Byte]
  <2>1. eeprom' \in {eeprom, [th |-> scratch.th, tl |-> scratch.tl, conf |-> scratch.conf]}
    BY DEF Take
  <2>2. scratch.th \in Byte /\ scratch.tl \in Byte /\ scratch.conf \in Byte
    BY DEF Typed, MemoryTyped
  <2> QED
    BY <2>1, <2>2 DEF Typed, MemoryTyped
<1> QED
  BY <1>1, <1>3, <1>4, <1>5, <1>6, <1>7

LEMMA FieldTypes ==
    ASSUME Typed PROVE \A i \in 1..5 : scratch[Field[i]] \in Byte
<1>1. SUFFICES ASSUME NEW i \in 1..5 PROVE scratch[Field[i]] \in Byte
  OBVIOUS
<1>2. i = 1 \/ i = 2 \/ i = 3 \/ i = 4 \/ i = 5
  OBVIOUS
<1>3. Field[i] \in {"lo", "hi", "th", "tl", "conf"}
  BY <1>2 DEF Field
<1> QED
  BY <1>3 DEF Typed, MemoryTyped

(* A slot leaves the types and the ranges of the sensor.                    *)
LEMMA SlotTypes ==
    ASSUME Typed, Ranges, NEW b \in 0..1, SensorSlot(b)
    PROVE  /\ idx' \in 0..4 /\ took' \in Byte /\ dacc' \in Byte /\ dcnt' \in 0..7
           /\ dstate' \in Listening \cup {"idle", "read", "converting"}
           /\ dstate' \in Listening => dacc' < 2^dcnt'
           /\ dstate' = "write" => idx' <= 2
           /\ dstate' \in {"idle", "converting"} => dcnt' = 0
           /\ scratch' \in [lo : Byte, hi : Byte, th : Byte, tl : Byte, conf : Byte]
           /\ eeprom' \in [th : Byte, tl : Byte, conf : Byte]
           /\ temp' = temp
<1>1. dcnt' = (IF Hears \/ Sends THEN (dcnt + 1) % 8 ELSE dcnt) /\ dcnt \in 0..7 /\ dacc \in Nat
  BY DEF SensorSlot, Typed, SensorTyped, Byte
<1>2. dcnt' \in 0..7 /\ (dcnt = 7 /\ (Hears \/ Sends) => dcnt' = 0)
  BY <1>1
<1>3. CASE Hears /\ dcnt = 7
  <2>1. Take(dacc + b * 2^7) /\ dstate \in Listening
    <3>1. Take(dacc + b * 2^7)
      BY <1>3, TakesByte
    <3> QED
      BY <1>3, <3>1 DEF Hears
  <2>2. dacc + b * 2^7 \in Byte
    BY <1>1, <1>3, <2>1, BitMore DEF Ranges
  <2>3. dstate' \in Listening => dacc' < 2^dcnt'
    <3>1. dcnt' = 0 /\ 2^0 = 1 /\ 0 < 1
      BY <1>2, <1>3
    <3> QED
      BY <2>1, <2>2, <3>1, TakeTypes
  <2> QED
    BY <1>2, <1>3, <2>1, <2>2, <2>3, TakeTypes
<1>4. CASE ~(Hears /\ dcnt = 7) /\ Sends /\ dcnt = 7
  <2>1. /\ idx' \in 0..4 /\ dacc' = scratch[Field[idx' + 1]] /\ dstate' = "read"
        /\ UNCHANGED <<temp, scratch, eeprom, took>>
    BY <1>4 DEF SensorSlot, Sends, Sending, Typed, SensorTyped
  <2>2. dacc' \in Byte
    BY <2>1, FieldTypes
  <2> QED
    BY <1>2, <2>1, <2>2 DEF Typed, SensorTyped, MemoryTyped, Listening
<1>5. CASE ~(Hears /\ dcnt = 7) /\ ~(Sends /\ dcnt = 7)
  <2>1. MoreBits(b) /\ UNCHANGED <<dstate, sensor>>
    BY <1>5 DEF SensorSlot
  <2>2. CASE Hears
    <3>1. dcnt < 7 /\ dcnt' = dcnt + 1 /\ dstate \in Listening /\ dacc' = dacc + b * 2^dcnt
      BY <1>1, <1>5, <2>1, <2>2 DEF MoreBits, Hears
    <3>2. dacc' \in Byte /\ dacc' < 2^dcnt'
      BY <1>1, <3>1, BitMore DEF Ranges
    <3> QED
      BY <1>2, <2>1, <3>1, <3>2 DEF sensor, Typed, SensorTyped, MemoryTyped, Ranges, Listening
  <2>3. CASE ~Hears
    <3>1. dacc' = dacc /\ dstate' = dstate
      BY <2>1, <2>3 DEF MoreBits
    <3>2. Sends => dstate = "read"
      BY DEF Sends, Sending
    <3>3. dstate # "read" => dcnt' = dcnt
      BY <1>1, <2>3, <3>2
    <3>4. dstate' \in Listening => dacc' < 2^dcnt'
      BY <3>1, <3>3 DEF Ranges, Listening
    <3> QED
      BY <1>2, <2>1, <3>1, <3>3, <3>4 DEF sensor, Typed, SensorTyped, MemoryTyped, Ranges
  <2> QED
    BY <2>2, <2>3
<1> QED
  BY <1>3, <1>4, <1>5

(* A sensor that is in step stays in step, and takes the byte that is sent. *)
LEMMA SlotAligned ==
    ASSUME Typed, Ranges, Aligned, steady, NEW b \in 0..1, SensorSlot(b), NextBit,
           (Doing("write") /\ b = DueBit) \/ Doing("read")
    PROVE  Aligned' /\ (Doing("write") /\ n = 7 /\ dstate \in Listening
                        => dcnt' = 0 /\ took' = Head(todo).val)
<1>1. present /\ pulse = 0 /\ n \in 0..7 /\ dcnt \in 0..7 /\ dacc \in Nat
  BY DEF Ranges, Aligned, OnBus, Typed, BusTyped, SensorTyped, Byte
<1>2. /\ dstate \in Listening \cup {"read"} => dcnt = n
      /\ dstate \in Listening /\ Doing("write") => dacc = Head(todo).val % 2^n
  BY DEF Aligned, OnBus
<1>3. pulse' = 0
  BY <1>1 DEF SensorSlot, PulseAfter
<1>4. Hears <=> dstate \in Listening
  BY <1>1 DEF Hears
<1>5. Sends <=> dstate = "read"
  BY <1>1 DEF Sends, Sending
<1>6. todo # <<>> /\ Head(todo).val \in Byte /\ todo \in Seq(Op) /\ Tail(todo) \in Seq(Op)
  BY FirstOperation DEF Typed, BusTyped, Doing
<1>7. CASE n = 7
  <2>1. n' = 0 /\ todo' = Tail(todo)
    BY <1>7 DEF NextBit, Done
  <2>2. dstate \in Listening => /\ dcnt' = 0 /\ Take(dacc + b * 2^7)
                                /\ dacc + b * 2^7 \in Byte
    <3>1. SUFFICES ASSUME dstate \in Listening PROVE /\ dcnt' = 0 /\ Take(dacc + b * 2^7)
                                                     /\ dacc + b * 2^7 \in Byte
      OBVIOUS
    <3>2. dcnt = 7 /\ Hears
      BY <1>2, <1>4, <1>7, <3>1
    <3>3. Take(dacc + b * 2^7)
      BY <3>2, TakesByte
    <3>4. dcnt' = 0
      BY <3>2 DEF SensorSlot
    <3> QED
      BY <1>1, <3>1, <3>2, <3>3, <3>4, BitMore DEF Ranges
  <2>3. dstate \in Listening /\ Doing("write") => dacc + b * 2^7 = Head(todo).val
    BY <1>2, <1>6, <1>7, BitsOfByte DEF DueBit, Doing
  <2>4. dstate = "read" => dcnt' = 0 /\ dstate' = "read"
    BY <1>2, <1>4, <1>5, <1>7 DEF SensorSlot, Listening
  <2>5. dstate \notin Listening \cup {"read"} => dstate' = dstate
    BY <1>4, <1>5 DEF SensorSlot
  <2>6. dstate' \in Listening => dacc' = 0
    BY <2>2, <2>4, <2>5, TakeTypes DEF Listening
  <2>7. dstate' \in Listening \cup {"read"} => dcnt' = 0
    BY <2>2, <2>4, <2>5
  <2>8. todo' # <<>> => Head(todo').val % 2^0 = 0
    <3>1. SUFFICES ASSUME todo' # <<>> PROVE Head(todo').val % 2^0 = 0
      OBVIOUS
    <3>2. Head(todo') \in Op
      BY <1>6, <2>1, <3>1
    <3> QED
      BY <3>2, BitsOfByte DEF Op
  <2>9. Aligned'
    BY <1>3, <2>1, <2>6, <2>7, <2>8 DEF Aligned, Doing
  <2> QED
    BY <2>2, <2>3, <2>9, TakeTypes
<1>8. CASE n < 7
  <2>1. n' = n + 1 /\ todo' = todo
    BY <1>1, <1>8 DEF NextBit
  <2>2. dstate \in Listening \cup {"read"} => ~(dcnt = 7) /\ dcnt' = n'
    BY <1>1, <1>2, <1>4, <1>5, <1>8, <2>1 DEF SensorSlot
  <2>3. dstate' = dstate /\ MoreBits(b)
    BY <1>4, <1>5, <2>2 DEF SensorSlot
  <2>4. dstate \in Listening /\ Doing("write") => dacc' = Head(todo).val % 2^(n + 1)
    <3>1. SUFFICES ASSUME dstate \in Listening, Doing("write")
                   PROVE  dacc' = Head(todo).val % 2^(n + 1)
      OBVIOUS
    <3>2. dacc' = (Head(todo).val % 2^n) + DueBit * 2^n
      BY <1>2, <1>4, <2>3, <3>1 DEF MoreBits, Doing
    <3>3. n # 7
      BY <1>8
    <3> QED
      BY <1>1, <1>6, <3>2, <3>3, BitsOfByte DEF DueBit
  <2>5. n' # 0
    BY <1>1, <2>1
  <2> QED
    BY <1>3, <1>8, <2>1, <2>2, <2>3, <2>4, <2>5 DEF Aligned, Doing
<1> QED
  BY <1>1, <1>7, <1>8

-----------------------------------------------------------------------------
(* The sensor stays in step with the program. *)

InStep == Typed /\ Ranges /\ Aligned

LEMMA MemoryTypes ==
    ASSUME eeprom \in [th : Byte, tl : Byte, conf : Byte]
    PROVE  FromMemory(eeprom) \in [lo : Byte, hi : Byte, th : Byte, tl : Byte, conf : Byte]
<1>1. POWER_ON % 256 \in Byte /\ POWER_ON \div 256 \in Byte
  BY DEF POWER_ON, Byte
<1>2. eeprom.th \in Byte /\ eeprom.tl \in Byte /\ eeprom.conf \in Byte
  OBVIOUS
<1> QED
  BY <1>1, <1>2 DEF FromMemory

LEMMA InitInStep == Init => InStep
<1> SUFFICES ASSUME Init PROVE InStep
  OBVIOUS
<1>1. BusTyped
  <2>1. <<>> \in Seq(Op) /\ <<>> \in Seq(Byte)
    OBVIOUS
  <2> QED
    BY <2>1 DEF Init, BusTyped, Byte
<1>2. SensorTyped
  BY DEF Init, SensorTyped, Byte
<1>3. MemoryTyped
  <2>1. \A r \in Resolutions : ConfigOf(r) \in Byte
    <3>1. SUFFICES ASSUME NEW r \in 0..3 PROVE ConfigOf(r) \in Byte
      BY SettingsAssumption
    <3>2. r % 4 \in 0..3
      OBVIOUS
    <3> QED
      BY <3>2 DEF ConfigOf, Byte
  <2>2. eeprom \in [th : Byte, tl : Byte, conf : Byte]
    <3>1. {75, 70} \subseteq Byte
      BY DEF Byte
    <3> QED
      BY <2>1, <3>1 DEF Init
  <2> QED
    BY <2>2, MemoryTypes DEF Init, MemoryTyped
<1>4. ProgramTyped
  BY DEF Init, ProgramTyped
<1>5. Flags
  BY Zenon DEF Init, Flags
<1>6. Ranges
  <2>1. 2^0 = 1 /\ 2^n = 2^0 /\ 0 < 1
    BY DEF Init
  <2>2. steady = present /\ gone = ~present
    BY DEF Init
  <2>3. (steady => present) /\ (gone => ~present)
    BY <2>2, Zenon
  <2> QED
    BY <2>1, <2>3 DEF Init, Ranges, PullupLast, Listening
<1>7. Aligned
  BY DEF Init, Aligned, OnBus, Doing
<1> QED
  BY <1>1, <1>2, <1>3, <1>4, <1>5, <1>6, <1>7 DEF InStep, Typed

(* A new call. *)
LEMMA CallInStep ==
    ASSUME InStep, NEW s, Opens(s), todo' = s, pc' # "boot" \/ s = <<>>, n = 0, n' = 0,
           data = 0, data' = 0, rx' \in Seq(Byte),
           steady' => present', gone' => ~present',
           UNCHANGED <<presence, dstate, dcnt, dacc, took, idx, scratch, eeprom, temp>>,
           ProgramTyped', Flags'
    PROVE  InStep'
<1>1. todo' \in Seq(Op) /\ (todo' # <<>> => Head(todo').op \in {"reset", "decide"})
  BY DEF Opens
<1>2. BusTyped' /\ SensorTyped' /\ MemoryTyped'
  BY <1>1 DEF InStep, Typed, BusTyped, SensorTyped, MemoryTyped
<1>3. ~OnBus'
  BY <1>1 DEF OnBus, Doing
<1>4. Ranges'
  <2>1. 2^0 = 1
    OBVIOUS
  <2>2. PullupLast(todo')
    BY DEF Opens
  <2> QED
    BY <2>1, <2>2 DEF InStep, Ranges
<1> QED
  BY <1>2, <1>3, <1>4 DEF InStep, Typed, Aligned

LEMMA IdleBus == ASSUME Ranges, n \in 0..7, ~Doing("write"), ~Doing("read") PROVE n = 0 /\ data = 0
BY DEF Ranges

LEMMA ProgramInStep ==
    ASSUME InStep, Boot \/ Start \/ Waited \/ Store \/ Decide PROVE InStep'
<1>1. n = 0 /\ data = 0
  <2>1. ~Doing("write") /\ ~Doing("read")
    BY DEF Boot, Start, Waited, Store, Decide, Goto, Doing
  <2>2. Ranges /\ n \in 0..7
    BY DEF InStep, Typed, BusTyped
  <2> QED
    BY <2>1, <2>2, IdleBus
<1>2. Flags'
  <2>1. Flags
    BY DEF InStep, Typed
  <2>2. CASE Boot \/ Start
    BY <2>1, <2>2, Zenon DEF Boot, Start, Goto, Fresh, InitLine, sensor, Flags
  <2>3. CASE Waited \/ Store \/ Decide
    BY <2>1, <2>3, Zenon DEF Waited, Store, Decide, Goto, sensor, Flags
  <2> QED
    BY <2>2, <2>3
<1>3. (steady' => present') /\ (gone' => ~present')
  <2>1. (steady => present) /\ (gone => ~present)
    BY DEF InStep, Ranges
  <2>2. CASE Boot \/ Start
    <3>1. steady' = present /\ gone' = ~present /\ present' = present
      BY <2>2 DEF Boot, Start, Goto, Fresh
    <3> QED
      BY <3>1, Zenon
  <2>3. CASE Waited \/ Store \/ Decide
    <3>1. steady' = steady /\ gone' = gone /\ present' = present
      BY <2>3 DEF Waited, Store, Decide, Goto
    <3> QED
      BY <2>1, <3>1, Zenon
  <2> QED
    BY <2>2, <2>3
<1>4. <<>> \in Seq(Byte) /\ ProgramTyped /\ rx \in Seq(Byte)
  BY DEF InStep, Typed, BusTyped
<1>5. CASE Boot
  <2>1. ProgramTyped'
    BY <1>4, <1>5 DEF Boot, Goto, ProgramTyped
  <2> QED
    BY <1>1, <1>2, <1>3, <1>4, <1>5, <2>1, CallsOpen, CallInStep DEF Boot, Goto, sensor
<1>6. CASE Start
  <2>1. ProgramTyped'
    BY <1>4, <1>6 DEF Start, Goto, ProgramTyped
  <2>2. todo' = StartConversion /\ pc' # "boot"
    BY <1>6 DEF Start, Goto
  <2> QED
    BY <1>1, <1>2, <1>3, <1>4, <1>6, <2>1, <2>2, CallsOpen, CallInStep DEF Start, Goto
<1>7. CASE Waited
  <2>1. ProgramTyped'
    BY <1>4, <1>7 DEF Waited, Goto, ProgramTyped
  <2>2. pc' # "boot" /\ Opens(todo')
    BY <1>7, CallsOpen DEF Waited, Goto
  <2> QED
    BY <1>1, <1>2, <1>3, <1>4, <1>7, <2>1, <2>2, CallInStep DEF Waited, Goto, sensor
<1>8. CASE Store
  <2>1. reading' \in Nat /\ reading' < 65536
    <3>1. CASE Len(rx) = 2
      <4>1. 1 \in 1..Len(rx) /\ 2 \in 1..Len(rx)
        BY <3>1
      <4>2. rx[1] \in Byte /\ rx[2] \in Byte
        BY <1>4, <4>1
      <4>3. reading' = rx[1] + 256 * rx[2]
        BY <1>8, <3>1 DEF Store
      <4> QED
        BY <4>2, <4>3, PairOfBytes
    <3>2. CASE Len(rx) # 2
      BY <1>4, <1>8, <3>2 DEF Store, ProgramTyped
    <3> QED
      BY <3>1, <3>2
  <2>2. ProgramTyped'
    BY <1>4, <1>8, <2>1 DEF Store, Goto, ProgramTyped
  <2> QED
    BY <1>1, <1>2, <1>3, <1>4, <1>8, <2>2, CallsOpen, CallInStep DEF Store, Goto, sensor
<1>9. CASE Decide
  <2>1. ProgramTyped'
    BY <1>4, <1>9 DEF Decide, ProgramTyped
  <2>2. pc' # "boot"
    BY <1>9 DEF Decide, Doing, InStep, Ranges
  <2>3. Opens(todo')
    <3>1. todo' = <<Reset>> \o WriteData(<<SKIP_ROM, WRITE_SP, Th, Tl, ConfigOf(Res)>>)
                    \o <<Reset>> \o WriteData(<<SKIP_ROM, COPY_SP>>) \/ todo' = <<>>
      BY <1>9 DEF Decide
    <3> QED
      BY <3>1, CallsOpen
  <2> QED
    BY <1>1, <1>2, <1>3, <1>4, <1>9, <2>1, <2>2, <2>3, CallInStep DEF Decide, sensor
<1> QED
  BY <1>5, <1>6, <1>7, <1>8, <1>9

LEMMA Finished == ASSUME todo \in Seq(Op), todo # <<>> PROVE Tail(todo) # <<>> => Head(Tail(todo)).val % 2^0 = 0
<1> SUFFICES ASSUME Tail(todo) # <<>> PROVE Head(Tail(todo)).val % 2^0 = 0
  OBVIOUS
<1>1. Tail(todo) \in Seq(Op)
  OBVIOUS
<1>2. Head(Tail(todo)) \in Op
  BY <1>1
<1> QED
  BY <1>2, BitsOfByte DEF Op

LEMMA ResetInStep == ASSUME InStep, ResetBus PROVE InStep'
<1>1. Typed /\ Ranges /\ todo \in Seq(Op) /\ todo # <<>> /\ todo' = Tail(todo) /\ Tail(todo) \in Seq(Op)
  BY DEF InStep, Typed, BusTyped, ResetBus, ResetSlot, Doing, Done
<1>2. n = 0 /\ data = 0
  <2>1. ~Doing("write") /\ ~Doing("read")
    BY DEF ResetBus, ResetSlot, Doing
  <2> QED
    BY <1>1, <2>1, IdleBus DEF Typed, BusTyped
<1>3. /\ presence' \in 0..1 /\ (presence' = 1 => pulse' = 0)
  BY DEF ResetBus, ResetSlot
<1>4. /\ dcnt' = 0 /\ dacc' = 0 /\ idx' = 0 /\ took' = 0 /\ dstate' \in {"rom", dstate}
      /\ UNCHANGED <<scratch, eeprom, temp, pc, reading, n, data, rx>>
  BY DEF ResetBus, ResetSlot
<1>5. Flags'
  <2>1. Flags
    BY <1>1 DEF Typed
  <2>2. /\ steady' = (steady /\ presence' = 1) /\ strong' = FALSE
        /\ gone' = gone /\ present' = present
    BY DEF ResetBus, ResetSlot, InitLine
  <2> QED
    BY <2>1, <2>2, Zenon DEF Flags
<1>6. (steady' => present' /\ presence' = 1) /\ (gone' => ~present') /\ pc' # "boot"
  <2>1. (steady => present) /\ (gone => ~present) /\ pc # "boot"
    BY <1>1 DEF Ranges
  <2>2. /\ steady' = (steady /\ presence' = 1) /\ gone' = gone /\ present' = present
    BY DEF ResetBus, ResetSlot
  <2> QED
    BY <1>4, <2>1, <2>2, Zenon
<1>7. Typed'
  <2>1. BusTyped'
    BY <1>1, <1>3, <1>4 DEF Typed, BusTyped
  <2>2. SensorTyped' /\ MemoryTyped' /\ ProgramTyped'
    BY <1>1, <1>4 DEF Typed, SensorTyped, MemoryTyped, ProgramTyped, Byte, Listening
  <2> QED
    BY <1>5, <2>1, <2>2 DEF Typed
<1>8. Ranges'
  <2>1. 2^0 = 1 /\ 0 < 1
    OBVIOUS
  <2>2. PullupLast(todo')
    BY <1>1, LastPopped DEF Ranges
  <2> QED
    BY <1>2, <1>4, <1>6, <2>1, <2>2 DEF Ranges
<1>9. Aligned'
  <2>1. todo' # <<>> => Head(todo').val % 2^0 = 0
    BY <1>1, Finished
  <2> QED
    BY <1>2, <1>3, <1>4, <1>6, <2>1 DEF Aligned, OnBus, Doing
<1> QED
  BY <1>7, <1>8, <1>9 DEF InStep

LEMMA PullupInStep == ASSUME InStep, StrongPullup PROVE InStep'
<1>1. Typed /\ Ranges /\ todo \in Seq(Op) /\ todo # <<>> /\ todo' = Tail(todo) /\ Tail(todo) \in Seq(Op)
  BY DEF InStep, Typed, BusTyped, StrongPullup, Doing, Done
<1>2. n = 0 /\ data = 0
  <2>1. ~Doing("write") /\ ~Doing("read")
    BY DEF StrongPullup, Doing
  <2> QED
    BY <1>1, <2>1, IdleBus DEF Typed, BusTyped
<1>3. UNCHANGED <<presence, pulse, dcnt, dacc, idx, took, dstate, scratch, eeprom, temp, pc,
                  reading, n, data, rx, steady, gone, present>>
  BY DEF StrongPullup
<1>4. Flags'
  <2>1. Flags
    BY <1>1 DEF Typed
  <2>2. strong' = TRUE
    BY DEF StrongPullup
  <2> QED
    BY <1>3, <2>1, <2>2, Zenon DEF Flags
<1>5. Typed'
  <2>1. BusTyped' /\ SensorTyped'
    BY <1>1, <1>3 DEF Typed, BusTyped, SensorTyped
  <2>2. MemoryTyped' /\ ProgramTyped'
    BY <1>1, <1>3 DEF Typed, MemoryTyped, ProgramTyped
  <2> QED
    BY <1>4, <2>1, <2>2 DEF Typed
<1>6. Ranges'
  <2>1. 2^0 = 1 /\ 0 < 1
    OBVIOUS
  <2>2. (steady' => present') /\ (gone' => ~present')
    BY <1>1, <1>3, Zenon DEF Ranges
  <2>3. pc' # "boot"
    BY <1>1, <1>3 DEF Ranges
  <2>4. PullupLast(todo')
    BY <1>1, LastPopped DEF Ranges
  <2> QED
    BY <1>1, <1>2, <1>3, <2>1, <2>2, <2>3, <2>4 DEF Ranges
<1>8. todo' = <<>>
  <2>1. Head(todo).op = "pullup"
    BY DEF StrongPullup, Doing
  <2> QED
    BY <1>1, <2>1, LastPopped DEF Ranges
<1>7. Aligned'
  BY <1>1, <1>8 DEF Aligned, OnBus, Doing
<1> QED
  BY <1>5, <1>6, <1>7 DEF InStep

(* The line goes low: a slot that a sensor may count, but the last one.     *)
LEMMA DriveLowInStep == ASSUME InStep, DriveLow PROVE InStep'
<1>1. Typed /\ Ranges /\ Doing("pullup")
  BY DEF InStep, DriveLow
<1>2. PICK b \in 0..1 : SensorSlot(b)
  BY DEF DriveLow
<1>3. n = 0 /\ data = 0
  <2>1. ~Doing("write") /\ ~Doing("read")
    BY <1>1 DEF Doing
  <2> QED
    BY <1>1, <2>1, IdleBus DEF Typed, BusTyped
<1>4. UNCHANGED <<todo, n, data, rx, presence, strong>> /\ UNCHANGED <<present, pc, steady, gone, reading>>
  BY <1>2 DEF DriveLow, SensorSlot
<1>5. Typed'
  <2>1. BusTyped' /\ ProgramTyped'
    BY <1>1, <1>4 DEF Typed, BusTyped, ProgramTyped
  <2>2. SensorTyped' /\ MemoryTyped'
    BY <1>1, <1>2, SlotTypes DEF Typed, SensorTyped, MemoryTyped
  <2>3. Flags'
    BY <1>1, <1>4, Zenon DEF Typed, Flags
  <2> QED
    BY <2>1, <2>2, <2>3 DEF Typed
<1>6. Ranges'
  <2>1. 2^0 = 1 /\ 0 < 1
    OBVIOUS
  <2>2. (steady' => present') /\ (gone' => ~present')
    BY <1>1, <1>4, Zenon DEF Ranges
  <2>3. /\ dstate' \in Listening => dacc' < 2^dcnt'
        /\ dstate' = "write" => idx' <= 2
        /\ dstate' \in {"idle", "converting"} => dcnt' = 0
    BY <1>1, <1>2, SlotTypes
  <2>4. PullupLast(todo') /\ (pc' = "boot" => todo' = <<>>)
    BY <1>1, <1>4 DEF Ranges
  <2> QED
    BY <1>3, <1>4, <2>1, <2>2, <2>3, <2>4 DEF Ranges
<1>7. Aligned'
  BY <1>1, <1>4 DEF Aligned, OnBus, Doing
<1> QED
  BY <1>5, <1>6, <1>7 DEF InStep

LEMMA SampledBits == ASSUME NEW b \in Sampled PROVE b \in 0..1
BY DEF Sampled

(* What a slot of either kind leaves alone, and what it leaves of the       *)
(* sensor's types.                                                          *)
LEMMA SlotInStep ==
    ASSUME InStep, NEW b \in 0..1, SensorSlot(b), NextBit, UNCHANGED <<presence, strong>>,
           (Doing("write") /\ b = DueBit) \/ Doing("read"),
           data' \in Byte, data' < 2^n', Doing("write") \/ n = 7 => data' = 0, rx' \in Seq(Byte)
    PROVE  InStep'
<1>1. Typed /\ Ranges /\ todo \in Seq(Op) /\ todo # <<>> /\ Tail(todo) \in Seq(Op) /\ n \in 0..7
  <2>1. Typed /\ Ranges /\ todo \in Seq(Op) /\ todo # <<>> /\ n \in 0..7
    BY DEF InStep, Typed, BusTyped, Doing
  <2> QED
    BY <2>1
<1>2. (n = 7 /\ n' = 0 /\ todo' = Tail(todo)) \/ (n < 7 /\ n' = n + 1 /\ todo' = todo)
  BY <1>1 DEF NextBit, Done
<1>3. UNCHANGED <<present, pc, steady, gone, reading>>
  BY DEF SensorSlot
<1>4. Flags'
  <2>1. Flags
    BY <1>1 DEF Typed
  <2> QED
    BY <1>3, <2>1, Zenon DEF Flags
<1>5. Typed'
  <2>1. todo' \in Seq(Op) /\ n' \in 0..7
    <3>1. n' \in 0..7
      BY <1>1 DEF NextBit
    <3>2. todo' = todo \/ todo' = Tail(todo)
      BY <1>2
    <3>3. todo' \in Seq(Op)
      BY <1>1, <3>2
    <3> QED
      BY <3>1, <3>3
  <2>2. BusTyped'
    BY <1>1, <2>1 DEF Typed, BusTyped
  <2>3. SensorTyped' /\ MemoryTyped'
    BY <1>1, SlotTypes DEF Typed, SensorTyped, MemoryTyped
  <2>4. ProgramTyped'
    BY <1>1, <1>3 DEF Typed, ProgramTyped
  <2> QED
    BY <1>4, <2>2, <2>3, <2>4 DEF Typed
<1>6. Ranges'
  <2>1. (steady' => present') /\ (gone' => ~present')
    BY <1>1, <1>3, Zenon DEF Ranges
  <2>2. pc' # "boot"
    BY <1>1, <1>3 DEF Ranges
  <2>3. n' # 0 => Doing("write")' \/ Doing("read")'
    BY <1>2 DEF Doing
  <2>4. ~Doing("read")' => data' = 0
    BY <1>2 DEF Doing
  <2>5. /\ dstate' \in Listening => dacc' < 2^dcnt'
        /\ dstate' = "write" => idx' <= 2
        /\ dstate' \in {"idle", "converting"} => dcnt' = 0
    BY <1>1, SlotTypes
  <2>6. PullupLast(todo')
    BY <1>1, <1>2, LastPopped DEF Ranges
  <2> QED
    BY <2>1, <2>2, <2>3, <2>4, <2>5, <2>6 DEF Ranges
<1>7. Aligned'
  <2>1. CASE steady
    BY <1>1, <2>1, SlotAligned DEF InStep
  <2>2. CASE ~steady
    BY <1>3, <2>2 DEF Aligned
  <2> QED
    BY <2>1, <2>2
<1> QED
  BY <1>5, <1>6, <1>7 DEF InStep

LEMMA WriteInStep ==
    ASSUME InStep, SampleAt \subseteq 5..84, WriteSlot
    PROVE  InStep' /\ (steady /\ n = 7 /\ dstate \in Listening
                       => dcnt' = 0 /\ took' = Head(todo).val)
<1>1. Typed /\ Ranges /\ Aligned /\ Doing("write") /\ NextBit /\ n \in 0..7 /\ rx \in Seq(Byte)
  BY DEF InStep, Typed, BusTyped, WriteSlot
<1>2. PICK b \in Heard : SensorSlot(b)
  BY DEF WriteSlot
<1>3. b = DueBit /\ b \in 0..1
  BY <1>1, HearsDueBit
<1>4. data' \in Byte /\ data' < 2^n' /\ data' = 0
  <2>1. data' = 0
    BY <1>1 DEF WriteSlot, Ranges, Doing
  <2>2. n' \in 0..7
    BY <1>1 DEF NextBit
  <2>3. 2^n' \in 1..128
    BY <2>2, Powers
  <2> QED
    BY <2>1, <2>3 DEF Byte
<1>5. UNCHANGED <<presence, strong>> /\ rx' = rx
  BY DEF WriteSlot
<1>6. InStep'
  BY <1>1, <1>2, <1>3, <1>4, <1>5, SlotInStep
<1> QED
  BY <1>1, <1>2, <1>3, <1>6, SlotAligned

LEMMA ReadInStep == ASSUME InStep, ReadSlot PROVE InStep'
<1>1. Typed /\ Ranges /\ Doing("read") /\ NextBit /\ n \in 0..7 /\ rx \in Seq(Byte) /\ SensorSlot(1)
  BY DEF InStep, Typed, BusTyped, ReadSlot
<1>2. PICK b \in Sampled : /\ data' = IF n = 7 THEN 0 ELSE data + b * 2^n
                           /\ rx' = IF n = 7 THEN Append(rx, data + b * 2^n) ELSE rx
  BY DEF ReadSlot
<1>3. data \in Nat /\ data < 2^n /\ b \in 0..1
  BY <1>1, SampledBits DEF Typed, BusTyped, Ranges, Byte
<1>4. data + b * 2^n \in Byte /\ (n < 7 => data + b * 2^n < 2^(n + 1))
  BY <1>1, <1>3, BitMore
<1>5. data' \in Byte /\ data' < 2^n' /\ (n = 7 => data' = 0)
  <2>1. CASE n = 7
    <3>1. n' = 0 /\ data' = 0 /\ 2^0 = 1 /\ 0 < 1
      BY <1>1, <1>2, <2>1 DEF NextBit
    <3> QED
      BY <3>1 DEF Byte
  <2>2. CASE n < 7
    <3>1. n' = n + 1 /\ data' = data + b * 2^n
      BY <1>1, <1>2, <2>2 DEF NextBit
    <3> QED
      BY <1>4, <2>2, <3>1
  <2> QED
    BY <1>1, <2>1, <2>2
<1>6. rx' \in Seq(Byte)
  BY <1>1, <1>2, <1>4, AppendProperties
<1>7. ~Doing("write") /\ UNCHANGED <<presence, strong>>
  BY <1>1 DEF Doing, ReadSlot
<1> QED
  BY <1>1, <1>5, <1>6, <1>7, SlotInStep

LEMMA TempBytes == ASSUME NEW t \in Temps PROVE t % 256 \in Byte /\ t \div 256 \in Byte
<1>1. t \in 0..(2^16 - 1)
  BY TempsAssumption
<1>2. 2^16 = 256 * 256
  OBVIOUS
<1>3. t \in Nat /\ t < 256 * 256
  BY <1>1, <1>2
<1> QED
  BY <1>3 DEF Byte

LEMMA ConvertInStep == ASSUME InStep, Convert PROVE InStep'
<1>1. Typed /\ Ranges /\ Flags /\ todo = <<>> /\ dstate = "converting" /\ dcnt = 0 /\ n = 0 /\ data = 0
  BY IdleBus DEF InStep, Typed, BusTyped, Convert, Ranges, Doing
<1>2. dstate' = "idle" /\ UNCHANGED <<todo, n, data, rx, presence, strong, present, pulse, dcnt, dacc,
                                      pc, temp, eeprom, idx, took, steady, gone, reading>>
  BY DEF Convert, master
<1>3. MemoryTyped'
  <2>1. CASE scratch' = FromMemory(eeprom)
    BY <1>1, <1>2, <2>1, MemoryTypes DEF Typed, MemoryTyped
  <2>2. CASE scratch' = [scratch EXCEPT !.lo = temp % 256, !.hi = temp \div 256]
    <3>1. temp % 256 \in Byte /\ temp \div 256 \in Byte
      BY <1>1, TempBytes DEF Typed, MemoryTyped
    <3>2. PICK lo \in Byte, hi \in Byte : scratch' = [scratch EXCEPT !.lo = lo, !.hi = hi]
      BY <2>2, <3>1
    <3> QED
      BY <1>1, <1>2, <3>2 DEF Typed, MemoryTyped
  <2> QED
    BY <2>1, <2>2 DEF Convert
<1>4. Flags'
  BY <1>1, <1>2, Zenon DEF Flags
<1>5. BusTyped' /\ SensorTyped' /\ ProgramTyped'
  BY <1>1, <1>2 DEF Typed, BusTyped, SensorTyped, ProgramTyped
<1>6. Ranges'
  <2>1. 2^0 = 1 /\ 0 < 1
    OBVIOUS
  <2>2. (steady' => present') /\ (gone' => ~present')
    BY <1>1, <1>2, Zenon DEF Ranges
  <2> QED
    BY <1>1, <1>2, <2>1, <2>2 DEF Ranges, PullupLast, Listening
<1>7. Aligned'
  BY <1>1, <1>2 DEF Aligned, OnBus, Doing
<1> QED
  BY <1>3, <1>4, <1>5, <1>6, <1>7 DEF InStep, Typed

LEMMA EventInStep == ASSUME InStep, Interrupt \/ Restart \/ Plug \/ Warm PROVE InStep'
<1>1. Typed /\ Ranges /\ Flags /\ Aligned /\ BusTyped /\ SensorTyped /\ MemoryTyped /\ ProgramTyped
  BY DEF InStep, Typed
<1>2. CASE Restart
  <2>1. <<>> \in Seq(Op) /\ <<>> \in Seq(Byte)
    OBVIOUS
  <2>2. BusTyped'
    BY <1>1, <1>2, <2>1 DEF Restart, BusTyped, Byte
  <2>3. SensorTyped' /\ MemoryTyped' /\ ProgramTyped'
    BY <1>1, <1>2 DEF Restart, SensorTyped, MemoryTyped, ProgramTyped, Listening
  <2>4. Flags'
    BY <1>1, <1>2, Zenon DEF Restart, Flags
  <2>5. Ranges'
    <3>1. 2^0 = 1 /\ 0 < 1
      OBVIOUS
    <3> QED
      BY <1>1, <1>2, <3>1 DEF Restart, Ranges, PullupLast, Listening
  <2>6. Aligned'
    BY <1>2 DEF Restart, Aligned
  <2> QED
    BY <2>2, <2>3, <2>4, <2>5, <2>6 DEF InStep, Typed
<1>3. CASE Plug
  <2>1. BusTyped'
    BY <1>1, <1>3 DEF Plug, BusTyped, master
  <2>2. SensorTyped' /\ ProgramTyped'
    BY <1>1, <1>3 DEF Plug, SensorTyped, ProgramTyped, Byte
  <2>3. MemoryTyped'
    BY <1>1, <1>3, MemoryTypes DEF Plug, MemoryTyped
  <2>4. Flags'
    <3>1. /\ strong' = strong /\ present' = ~present
          /\ steady' = FALSE /\ gone' = FALSE
      BY <1>3 DEF Plug, master
    <3> QED
      BY <1>1, <3>1, Zenon DEF Flags
  <2>5. Ranges'
    BY <1>1, <1>3 DEF Plug, Ranges, PullupLast, master, Doing, Listening
  <2>6. Aligned'
    BY <1>3 DEF Plug, Aligned
  <2> QED
    BY <2>1, <2>2, <2>3, <2>4, <2>5, <2>6 DEF InStep, Typed
<1>4. CASE Interrupt \/ Warm
  <2>1. UNCHANGED <<todo, n, data, rx, presence, strong, present, pulse, dstate, dcnt, dacc, pc,
                    scratch, eeprom, idx, took, steady, gone, reading>> /\ temp' \in Temps \cup {temp}
    BY <1>4 DEF Interrupt, Warm, master, sensor
  <2>2. BusTyped' /\ SensorTyped' /\ ProgramTyped'
    BY <1>1, <2>1 DEF BusTyped, SensorTyped, ProgramTyped
  <2>3. MemoryTyped'
    BY <1>1, <2>1 DEF MemoryTyped
  <2>4. Flags'
    BY <1>1, <2>1, Zenon DEF Flags
  <2>5. Ranges' /\ Aligned'
    BY <1>1, <2>1 DEF Ranges, PullupLast, Aligned, OnBus, Doing
  <2> QED
    BY <2>2, <2>3, <2>4, <2>5 DEF InStep, Typed
<1> QED
  BY <1>2, <1>3, <1>4

LEMMA NextInStep ==
    ASSUME SampleAt \subseteq 5..84 PROVE InStep /\ [Next]_vars => InStep'
<1> SUFFICES ASSUME InStep, [Next]_vars PROVE InStep'
  OBVIOUS
<1>1. CASE Program
  BY <1>1, ProgramInStep, ResetInStep, WriteInStep, ReadInStep, DriveLowInStep, PullupInStep DEF Program
<1>2. CASE Interrupt \/ Convert \/ Restart \/ Plug \/ Warm
  BY <1>2, ConvertInStep, EventInStep
<1>3. CASE UNCHANGED vars
  <2>1. UNCHANGED <<todo, n, data, rx, presence, strong, present, pulse, dstate, dcnt, dacc, pc, temp,
                    scratch, eeprom, idx, took, steady, gone, reading>>
    BY <1>3 DEF vars, master, sensor
  <2>2. BusTyped' /\ SensorTyped' /\ ProgramTyped' /\ MemoryTyped'
    BY <2>1 DEF InStep, Typed, BusTyped, SensorTyped, ProgramTyped, MemoryTyped
  <2>3. Flags'
    BY <2>1, Zenon DEF InStep, Typed, Flags
  <2>4. Ranges' /\ Aligned'
    BY <2>1 DEF InStep, Ranges, PullupLast, Aligned, OnBus, Doing
  <2> QED
    BY <2>2, <2>3, <2>4 DEF InStep, Typed
<1> QED
  BY <1>1, <1>2, <1>3 DEF Next

(* A sensor that has shown its presence takes every byte as the program     *)
(* wrote it, in whatever slots it looks between 5 and 84 us after their     *)
(* start: no call, unplugging or restart puts it out of step with the       *)
(* program (_sow_write_bit, sow_write_byte, sow_reset).                     *)
THEOREM HeardSafe ==
    ASSUME SampleAt \subseteq 5..84 PROVE Spec => HeardAsSent
<1> DEFINE Heard1 == steady /\ Doing("write") /\ n = 7 /\ dstate \in Listening /\ n' = 0 /\ pc' = pc
                     => dcnt' = 0 /\ took' = Head(todo).val
<1>1. Init => InStep
  BY InitInStep
<1>2. InStep /\ [Next]_vars => InStep'
  BY NextInStep
<1>3. InStep /\ [Next]_vars => [Heard1]_vars
  <2>1. SUFFICES ASSUME InStep, Next, steady, Doing("write"), n = 7, dstate \in Listening,
                        n' = 0, pc' = pc
                 PROVE  dcnt' = 0 /\ took' = Head(todo).val
    BY DEF Doing
  <2>2. WriteSlot
    <3>1. todo # <<>> /\ Head(todo).op = "write"
      BY <2>1 DEF Doing
    <3>2. ~(Boot \/ Start \/ Waited \/ Store \/ Decide \/ ResetBus \/ ReadSlot \/ DriveLow
            \/ StrongPullup \/ Interrupt)
      BY <3>1 DEF Boot, Start, Waited, Store, Goto, Decide, ResetBus, ResetSlot, ReadSlot,
         DriveLow, StrongPullup, Interrupt, Doing
    <3>3. ~(Convert \/ Plug \/ Warm)
      <4>1. (Convert \/ Warm => todo = <<>>) /\ (Plug => n = 0)
        BY Zenon DEF Convert, Plug, Warm
      <4> QED
        BY <2>1, <3>1, <4>1
    <3>4. ~Restart
      BY <2>1, <3>1 DEF Restart, InStep, Ranges
    <3> QED
      BY <2>1, <3>2, <3>3, <3>4 DEF Next, Program
  <2> QED
    BY <2>1, <2>2, WriteInStep
<1> QED
  BY <1>1, <1>2, <1>3, PTL DEF Spec, HeardAsSent

-----------------------------------------------------------------------------
(* How far the program is in a call, and what the sensor makes of it. *)

Left == Len(todo)

(* What is left of the call is the end of the one that is written backwards *)
(* in f.                                                                    *)
Remains(f, size) == Left <= size /\ \A i \in 1..Left : todo[i] = f[Left + 1 - i]

Deciding == [op |-> "decide", val |-> 0]
ConvertBack == <<Pullup, Write(CONVERT_T), Write(SKIP_ROM), Reset>>
SetBack == <<Write(COPY_SP), Write(SKIP_ROM), Reset, Write(ConfigOf(Res)), Write(Tl), Write(Th),
             Write(WRITE_SP), Write(SKIP_ROM), Reset>>
FetchBack(len, after) ==
    [k \in 1 .. len + after + 3 |->
        IF k <= after THEN Deciding
        ELSE IF k <= len + after THEN Read
        ELSE IF k = len + after + 1 THEN Write(READ_SP)
        ELSE IF k = len + after + 2 THEN Write(SKIP_ROM) ELSE Reset]

Sum == scratch.lo + 256 * scratch.hi

(* The sensor is told to convert. *)
Converts ==
    /\ Remains(ConvertBack, 4) /\ rx = <<>>
    /\ steady => /\ Left = 3 => dstate = "rom"
                 /\ Left = 2 => dstate = "function"
                 /\ Left = 1 => dstate = "converting"
                 /\ Left = 0 => dstate = "converting" \/ converted = Sum

(* It sends its scratchpad, and the program has what it sent. *)
Sent == /\ dstate = "read"
        /\ idx = IF Len(rx) < 4 THEN Len(rx) ELSE 4
        /\ dacc = scratch[Field[idx + 1]]
        /\ \A i \in 1..Len(rx) : rx[i] = scratch[Field[i]]
        /\ Doing("read") => data = dacc % 2^n

(* The first len bytes of the scratchpad are read; after operations follow. *)
Fetches(len, after) ==
    /\ Remains(FetchBack(len, after), len + after + 3)
    /\ Left >= after
    /\ Left > len + after => rx = <<>>
    /\ Left <= len + after => Len(rx) = len + after - Left
    /\ steady => /\ Left = len + after + 2 => dstate = "rom"
                 /\ Left = len + after + 1 => dstate = "function"
                 /\ Left <= len + after => Sent

(* ds18b20_write_rom, before its comparison and after it. *)
Checks == IF Forced THEN rx = <<>> /\ todo = <<Deciding>>
          ELSE Fetches(5, 1) /\ todo # <<>>
Sets == /\ Remains(SetBack, 9) /\ Len(rx) <= 5
        /\ steady => /\ Left \in {8, 2} => dstate = "rom"
                     /\ Left \in {7, 1} => dstate = "function"
                     /\ Left \in 4..6 => dstate = "write" /\ idx = 6 - Left
                     /\ Left <= 3 => scratch.conf = ConfigOf(Res)

(* With no sensor the line is high. *)
AllOnes == /\ \A i \in 1..Len(rx) : rx[i] = 255
           /\ Doing("read") => data = 2^n - 1

Told == /\ pc \in {"boot", "read"} => todo = <<>> /\ rx = <<>>
        /\ pc = "wait" => Converts
        /\ pc = "reading" => Fetches(2, 0) /\ (steady => converted = Sum)
        /\ pc = "configured" => Checks \/ Sets
        /\ gone => AllOnes
        /\ ReadingIsConverted

LEMMA Remaining ==
    ASSUME NEW f, NEW size \in Nat, todo \in Seq(Op), todo # <<>>, Remains(f, size)
    PROVE  /\ Left \in 1..size /\ Head(todo) = f[Left]
           /\ todo' = Tail(todo) => /\ Remains(f, size)' /\ Left' = Left - 1
                                    /\ Left' \in 0..size /\ (todo' = <<>> <=> Left' = 0)
<1>1. /\ Head(todo) = todo[1] /\ Len(todo) \in Nat /\ Len(todo) > 0
      /\ Tail(todo) \in Seq(Op) /\ Len(Tail(todo)) = Len(todo) - 1
      /\ \A i \in 1 .. Len(todo) - 1 : Tail(todo)[i] = todo[i + 1]
      /\ Tail(todo) = <<>> <=> Len(todo) = 1
  BY Popped
<1>2. Left \in 1..size /\ Head(todo) = f[Left]
  <2>1. 1 \in 1..Left /\ Left + 1 - 1 = Left
    BY <1>1 DEF Left
  <2>2. todo[1] = f[Left + 1 - 1]
    BY <2>1 DEF Remains
  <2> QED
    BY <1>1, <2>1, <2>2 DEF Left, Remains
<1>3. ASSUME todo' = Tail(todo)
      PROVE  Remains(f, size)' /\ Left' = Left - 1 /\ Left' \in 0..size /\ (todo' = <<>> <=> Left' = 0)
  <2>1. Left' = Left - 1 /\ Left \in Nat
    BY <1>1, <1>3 DEF Left
  <2>2. ASSUME NEW i \in 1..Left' PROVE todo'[i] = f[Left' + 1 - i]
    <3>1. i + 1 \in 1..Left /\ Left + 1 - (i + 1) = Left' + 1 - i /\ i \in 1 .. Len(todo) - 1
      BY <2>1 DEF Left
    <3>2. todo'[i] = todo[i + 1]
      BY <1>1, <1>3, <3>1
    <3>3. todo[i + 1] = f[Left + 1 - (i + 1)]
      BY <3>1 DEF Remains
    <3> QED
      BY <3>1, <3>2, <3>3
  <2>3. Left' <= size
    BY <1>2, <2>1
  <2>4. Remains(f, size)'
    BY <2>2, <2>3 DEF Remains
  <2> QED
    BY <1>1, <1>2, <1>3, <2>1, <2>4 DEF Left
<1> QED
  BY <1>2, <1>3

(* The steps of a call, on what Told speaks of. *)
LEMMA ResetTells ==
    ASSUME InStep, ResetBus
    PROVE  /\ todo \in Seq(Op) /\ todo # <<>> /\ Head(todo).op = "reset" /\ todo' = Tail(todo)
           /\ UNCHANGED <<pc, rx, scratch, converted, reading, gone>>
           /\ steady' => steady /\ dstate' = "rom"
<1>1. /\ todo \in Seq(Op) /\ todo # <<>> /\ Head(todo).op = "reset" /\ todo' = Tail(todo)
      /\ UNCHANGED <<pc, rx, scratch, converted, reading, gone>>
  BY DEF InStep, Typed, BusTyped, ResetBus, ResetSlot, Doing, Done
<1>2. steady' => steady /\ presence' = 1
  BY DEF ResetBus
<1>3. presence' = 1 => dstate' = "rom"
  BY DEF ResetBus, ResetSlot
<1> QED
  BY <1>1, <1>2, <1>3

LEMMA PullupTells ==
    ASSUME InStep, StrongPullup
    PROVE  /\ todo \in Seq(Op) /\ todo # <<>> /\ Head(todo).op = "pullup" /\ todo' = Tail(todo)
           /\ UNCHANGED <<pc, rx, scratch, converted, reading, gone, steady, dstate>>
BY DEF InStep, Typed, BusTyped, StrongPullup, Doing, Done

LEMMA DriveLowTells ==
    ASSUME InStep, DriveLow
    PROVE  /\ todo \in Seq(Op) /\ todo # <<>> /\ Head(todo).op = "pullup" /\ todo' = todo
           /\ UNCHANGED <<pc, rx, n, data, converted, reading, gone, steady>>
           /\ dstate = "converting" => UNCHANGED <<dstate, scratch>>
<1>1. PICK b : SensorSlot(b)
  BY DEF DriveLow
<1>2. /\ todo \in Seq(Op) /\ todo # <<>> /\ Head(todo).op = "pullup" /\ todo' = todo
      /\ UNCHANGED <<pc, rx, n, data, reading, gone, steady>>
  BY <1>1 DEF InStep, Typed, BusTyped, DriveLow, Doing, SensorSlot
<1>3. converted' = converted
  BY <1>1 DEF SensorSlot, Take, sensor
<1>4. dstate = "converting" => ~Hears /\ ~Sends
  BY DEF Hears, Sends, Sending, Listening
<1>5. dstate = "converting" => UNCHANGED <<dstate, scratch>>
  BY <1>1, <1>4 DEF SensorSlot, sensor
<1> QED
  BY <1>2, <1>3, <1>5

LEMMA WriteTells ==
    ASSUME InStep, SampleAt \subseteq 5..84, WriteSlot
    PROVE  /\ todo \in Seq(Op) /\ todo # <<>> /\ Head(todo).op = "write"
           /\ UNCHANGED <<pc, rx, converted, reading, gone, steady>>
           /\ todo' = todo \/ (todo' = Tail(todo) /\ n' = 0 /\ data' = 0)
           /\ steady /\ dstate \in Listening =>
                 \/ todo' = todo /\ UNCHANGED <<dstate, idx, scratch>>
                 \/ todo' = Tail(todo) /\ Take(Head(todo).val)
<1>1. Typed /\ Ranges /\ Aligned /\ Doing("write") /\ NextBit /\ n \in 0..7 /\ dcnt \in 0..7
  BY DEF InStep, Typed, BusTyped, SensorTyped, WriteSlot
<1>2. PICK b \in Heard : SensorSlot(b)
  BY DEF WriteSlot
<1>3. b = DueBit /\ b \in 0..1
  BY <1>1, HearsDueBit
<1>4. /\ todo \in Seq(Op) /\ todo # <<>> /\ Head(todo).op = "write" /\ Head(todo).val \in Byte
      /\ Tail(todo) \in Seq(Op) /\ data = 0
  BY <1>1, FirstOperation DEF Typed, BusTyped, Doing, Ranges
<1>5. /\ n = 7 => todo' = Tail(todo) /\ n' = 0
      /\ n # 7 => todo' = todo
  BY <1>1 DEF NextBit, Done
<1>6. UNCHANGED <<pc, rx, converted, reading, gone, steady, data>>
  <2>1. UNCHANGED <<pc, reading, gone, steady>>
    BY <1>2 DEF SensorSlot
  <2>2. converted' = converted
    BY <1>2 DEF SensorSlot, Take, sensor
  <2> QED
    BY <2>1, <2>2 DEF WriteSlot
<1>7. ASSUME steady, dstate \in Listening
      PROVE  \/ todo' = todo /\ UNCHANGED <<dstate, idx, scratch>>
             \/ todo' = Tail(todo) /\ Take(Head(todo).val)
  <2>1. Hears /\ ~Sends /\ dcnt = n /\ dacc = Head(todo).val % 2^n
    BY <1>1, <1>7 DEF Ranges, Aligned, OnBus, Hears, Sends, Sending, Listening
  <2>2. CASE n = 7
    <3>1. Take(dacc + b * 2^7)
      BY <1>2, <2>1, <2>2, TakesByte
    <3>2. dacc + b * 2^7 = Head(todo).val
      BY <1>3, <1>4, <2>1, <2>2, BitsOfByte DEF DueBit
    <3> QED
      BY <1>5, <2>2, <3>1, <3>2
  <2>3. CASE n # 7
    BY <1>2, <1>5, <2>1, <2>3 DEF SensorSlot, sensor
  <2> QED
    BY <2>2, <2>3
<1> QED
  BY <1>1, <1>4, <1>5, <1>6, <1>7

(* The bits that are read of a sensor that holds a 0 for 13 us at least.    *)
LEMMA ReadsDueBit ==
    ASSUME InStep, \A h \in HoldFor : h >= 13, NEW b \in Sampled
    PROVE  /\ Sends => b = BitOf(dacc, dcnt)
           /\ ~Sends => b = 1
<1>1. PICK hold \in HoldFor : b = IF Sends /\ BitOf(dacc, dcnt) = 0 /\ 13 <= hold THEN 0 ELSE 1
  BY DEF Sampled
<1>2. 13 <= hold
  <2>1. hold \in Nat /\ hold >= 13
    BY TimeAssumption
  <2> QED
    BY <2>1
<1>3. BitOf(dacc, dcnt) \in 0..1
  BY BitsOfByte DEF InStep, Typed, SensorTyped
<1> QED
  BY <1>1, <1>2, <1>3

LEMMA ReadTells ==
    ASSUME InStep, \A h \in HoldFor : h >= 13, ReadSlot
    PROVE  /\ todo \in Seq(Op) /\ todo # <<>> /\ Head(todo).op = "read" /\ rx \in Seq(Byte)
           /\ UNCHANGED <<pc, converted, reading, gone, steady>>
           /\ \/ /\ n \in 0..6 /\ n' = n + 1 /\ todo' = todo /\ rx' = rx
                 /\ gone => data' = data + 2^n
                 /\ steady /\ dstate = "read" =>
                       /\ UNCHANGED <<dstate, idx, dacc, scratch>>
                       /\ data' = data + BitOf(dacc, n) * 2^n
              \/ /\ n = 7 /\ n' = 0 /\ todo' = Tail(todo) /\ data' = 0
                 /\ \E r \in Byte :
                       /\ rx' = Append(rx, r)
                       /\ gone => r = data + 2^7
                       /\ steady /\ dstate = "read" => r = data + BitOf(dacc, n) * 2^7
                 /\ steady /\ dstate = "read" =>
                       /\ UNCHANGED <<dstate, scratch>>
                       /\ idx' = IF idx < 4 THEN idx + 1 ELSE 4
                       /\ dacc' = scratch[Field[idx' + 1]]
<1>1. /\ Typed /\ Ranges /\ Aligned /\ Doing("read") /\ NextBit /\ n \in 0..7 /\ rx \in Seq(Byte)
      /\ SensorSlot(1) /\ todo \in Seq(Op)
  BY DEF InStep, Typed, BusTyped, ReadSlot
<1>2. PICK b \in Sampled : /\ data' = IF n = 7 THEN 0 ELSE data + b * 2^n
                           /\ rx' = IF n = 7 THEN Append(rx, data + b * 2^n) ELSE rx
  BY DEF ReadSlot
<1>3. UNCHANGED <<pc, converted, reading, gone, steady>>
  <2>1. UNCHANGED <<pc, reading, gone, steady>>
    BY <1>1 DEF SensorSlot
  <2>2. converted' = converted
    BY <1>1 DEF SensorSlot, Take, sensor
  <2> QED
    BY <2>1, <2>2
<1>4. b \in 0..1 /\ data \in Nat /\ data < 2^n /\ data + b * 2^n \in Byte
  <2>1. b \in 0..1 /\ data \in Nat /\ data < 2^n
    BY <1>1, SampledBits DEF Typed, BusTyped, Ranges, Byte
  <2> QED
    BY <1>1, <2>1, BitMore
<1>5. gone => b = 1
  BY <1>1, ReadsDueBit DEF Ranges, Sends
<1>6. steady /\ dstate = "read" => Sends /\ ~Hears /\ dcnt = n /\ b = BitOf(dacc, n)
  BY <1>1, ReadsDueBit DEF Ranges, Aligned, OnBus, Sends, Sending, Hears, Listening
<1>7. CASE n = 7
  <2>1. n' = 0 /\ todo' = Tail(todo) /\ data' = 0 /\ rx' = Append(rx, data + b * 2^7)
    BY <1>1, <1>2, <1>7 DEF NextBit, Done
  <2>2. steady /\ dstate = "read" => /\ UNCHANGED <<dstate, scratch>>
                                     /\ idx' = IF idx < 4 THEN idx + 1 ELSE 4
                                     /\ dacc' = scratch[Field[idx' + 1]]
    BY <1>1, <1>6, <1>7 DEF SensorSlot
  <2>3. PICK r \in Byte : r = data + b * 2^7
    BY <1>4, <1>7
  <2>4. gone => r = data + 2^7
    <3>1. 2^7 = 128
      OBVIOUS
    <3> QED
      BY <1>5, <2>3, <3>1
  <2> QED
    BY <1>1, <1>3, <1>6, <1>7, <2>1, <2>2, <2>3, <2>4 DEF Doing
<1>8. CASE n # 7
  <2>1. n \in 0..6 /\ n' = n + 1 /\ todo' = todo /\ rx' = rx /\ data' = data + b * 2^n
    BY <1>1, <1>2, <1>8 DEF NextBit
  <2>2. steady /\ dstate = "read" => UNCHANGED <<dstate, idx, dacc, scratch>>
    BY <1>1, <1>6, <1>8 DEF SensorSlot, MoreBits, sensor
  <2>3. gone => data' = data + 2^n
    <3>1. PICK p \in 1..128 : p = 2^n
      BY <1>1, Powers
    <3>2. 1 * p = p
      OBVIOUS
    <3> QED
      BY <1>5, <2>1, <3>1, <3>2
  <2> QED
    BY <1>1, <1>3, <1>6, <2>1, <2>2, <2>3 DEF Doing
<1> QED
  BY <1>7, <1>8

LEMMA TakeTells ==
    ASSUME NEW b, Take(b)
    PROVE  /\ dstate = "rom" /\ b = SKIP_ROM => dstate' = "function"
           /\ dstate = "function" /\ b = CONVERT_T => dstate' = "converting"
           /\ dstate = "function" /\ b = WRITE_SP => dstate' = "write" /\ idx' = 0
           /\ dstate = "function" /\ b = READ_SP => dstate' = "read" /\ idx' = 0 /\ dacc' = scratch.lo
           /\ dstate = "write" /\ idx < 2 => dstate' = "write" /\ idx' = idx + 1
           /\ dstate = "write" => scratch' = [scratch EXCEPT ![Field[idx + 3]] = b]
           /\ dstate # "write" => scratch' = scratch
<1>1. dstate = "rom" /\ b = SKIP_ROM => dstate' = "function"
  BY DEF Take
<1>2. dstate = "function" /\ b = CONVERT_T => dstate' = "converting"
  BY DEF Take, CONVERT_T, WRITE_SP, READ_SP
<1>3. dstate = "function" /\ b = WRITE_SP => dstate' = "write" /\ idx' = 0
  BY DEF Take, CONVERT_T, WRITE_SP, READ_SP
<1>4. dstate = "function" /\ b = READ_SP => dstate' = "read" /\ idx' = 0 /\ dacc' = scratch.lo
  BY DEF Take, CONVERT_T, WRITE_SP, READ_SP
<1>5. dstate = "write" /\ idx < 2 => dstate' = "write" /\ idx' = idx + 1
  BY DEF Take
<1>6. /\ dstate = "write" => scratch' = [scratch EXCEPT ![Field[idx + 3]] = b]
      /\ dstate # "write" => scratch' = scratch
  BY DEF Take
<1> QED
  BY <1>1, <1>2, <1>3, <1>4, <1>5, <1>6

LEMMA Operations ==
    /\ Reset.op = "reset" /\ Read.op = "read" /\ Pullup.op = "pullup" /\ Deciding.op = "decide"
    /\ \A b : Write(b).op = "write" /\ Write(b).val = b
    /\ ConvertBack[1] = Pullup /\ ConvertBack[2] = Write(CONVERT_T)
    /\ ConvertBack[3] = Write(SKIP_ROM) /\ ConvertBack[4] = Reset
    /\ SetBack[1] = Write(COPY_SP) /\ SetBack[2] = Write(SKIP_ROM) /\ SetBack[3] = Reset
    /\ SetBack[4] = Write(ConfigOf(Res)) /\ SetBack[5] = Write(Tl) /\ SetBack[6] = Write(Th)
    /\ SetBack[7] = Write(WRITE_SP) /\ SetBack[8] = Write(SKIP_ROM) /\ SetBack[9] = Reset
<1>1. /\ Reset.op = "reset" /\ Read.op = "read" /\ Pullup.op = "pullup" /\ Deciding.op = "decide"
      /\ \A b : Write(b).op = "write" /\ Write(b).val = b
  BY DEF Reset, Read, Pullup, Deciding, Write
<1>2. /\ ConvertBack[1] = Pullup /\ ConvertBack[2] = Write(CONVERT_T)
      /\ ConvertBack[3] = Write(SKIP_ROM) /\ ConvertBack[4] = Reset
  BY DEF ConvertBack
<1>3. /\ SetBack[1] = Write(COPY_SP) /\ SetBack[2] = Write(SKIP_ROM) /\ SetBack[3] = Reset
      /\ SetBack[4] = Write(ConfigOf(Res)) /\ SetBack[5] = Write(Tl) /\ SetBack[6] = Write(Th)
      /\ SetBack[7] = Write(WRITE_SP) /\ SetBack[8] = Write(SKIP_ROM) /\ SetBack[9] = Reset
  BY DEF SetBack
<1> QED
  BY <1>1, <1>2, <1>3

LEMMA OperationKinds ==
    /\ \A k \in 1..4 : ConvertBack[k].op = IF k = 1 THEN "pullup" ELSE IF k = 4 THEN "reset" ELSE "write"
    /\ \A k \in 1..9 : SetBack[k].op = IF k \in {3, 9} THEN "reset" ELSE "write"
<1>1. ASSUME NEW k \in 1..4
      PROVE  ConvertBack[k].op = IF k = 1 THEN "pullup" ELSE IF k = 4 THEN "reset" ELSE "write"
  <2>1. k = 1 \/ k = 2 \/ k = 3 \/ k = 4
    OBVIOUS
  <2>2. ConvertBack[1].op = "pullup" /\ ConvertBack[2].op = "write"
        /\ ConvertBack[3].op = "write" /\ ConvertBack[4].op = "reset"
    BY Operations
  <2> QED
    BY <2>1, <2>2
<1>2. ASSUME NEW k \in 1..9 PROVE SetBack[k].op = IF k \in {3, 9} THEN "reset" ELSE "write"
  <2>1. k = 1 \/ k = 2 \/ k = 3 \/ k = 4 \/ k = 5 \/ k = 6 \/ k = 7 \/ k = 8 \/ k = 9
    OBVIOUS
  <2>2. /\ SetBack[3].op = "reset" /\ SetBack[9].op = "reset"
        /\ SetBack[1].op = "write" /\ SetBack[2].op = "write" /\ SetBack[4].op = "write"
        /\ SetBack[5].op = "write" /\ SetBack[6].op = "write" /\ SetBack[7].op = "write"
        /\ SetBack[8].op = "write"
    BY Operations
  <2> QED
    BY <2>1, <2>2
<1> QED
  BY <1>1, <1>2

LEMMA ConvertsOn ==
    ASSUME InStep, SampleAt \subseteq 5..84, \A h \in HoldFor : h >= 13, Converts,
           ResetBus \/ WriteSlot \/ ReadSlot \/ DriveLow \/ StrongPullup
    PROVE  Converts'
<1>1. todo \in Seq(Op) /\ todo # <<>>
  BY ResetTells, WriteTells, ReadTells, DriveLowTells, PullupTells
<1>2. /\ Left \in 1..4 /\ Head(todo) = ConvertBack[Left]
      /\ todo' = Tail(todo) => /\ Remains(ConvertBack, 4)' /\ Left' = Left - 1
  BY <1>1, Remaining DEF Converts
<1>3. Head(todo).op = IF Left = 1 THEN "pullup" ELSE IF Left = 4 THEN "reset" ELSE "write"
  BY <1>2, OperationKinds
<1>4. CASE ResetBus
  <2>1. Left = 4
    BY <1>3, <1>4, ResetTells
  <2> QED
    BY <1>2, <1>4, <2>1, ResetTells DEF Converts
<1>5. CASE StrongPullup
  <2>1. Left = 1
    BY <1>3, <1>5, PullupTells
  <2> QED
    BY <1>2, <1>5, <2>1, PullupTells DEF Converts
<1>8. CASE DriveLow
  <2>1. Left = 1 /\ Left' = Left
    BY <1>3, <1>8, DriveLowTells DEF Left
  <2>2. Remains(ConvertBack, 4)'
    BY <1>8, DriveLowTells DEF Converts, Remains, Left
  <2> QED
    BY <1>8, <2>1, <2>2, DriveLowTells DEF Converts
<1>6. CASE WriteSlot
  <2>1. rx' = rx /\ steady' = steady /\ (Left = 2 \/ Left = 3)
    BY <1>2, <1>3, <1>6, WriteTells
  <2>2. CASE todo' = todo
    <3>1. Remains(ConvertBack, 4)' /\ Left' = Left
      BY <2>2 DEF Converts, Remains, Left
    <3>2. steady => dstate' = dstate
      <4>1. todo # Tail(todo)
        BY <1>1, Popped
      <4>2. steady => dstate \in Listening
        BY <2>1 DEF Converts, Listening
      <4> QED
        BY <1>6, <2>2, <4>1, <4>2, WriteTells
    <3> QED
      BY <2>1, <3>1, <3>2 DEF Converts
  <2>3. CASE todo' = Tail(todo)
    <3>1. Remains(ConvertBack, 4)' /\ Left' = Left - 1
      BY <1>2, <2>3
    <3>2. steady => Take(Head(todo).val)
      <4>1. todo # Tail(todo)
        BY <1>1, Popped
      <4>2. steady => dstate \in Listening
        BY <2>1 DEF Converts, Listening
      <4> QED
        BY <1>6, <2>3, <4>1, <4>2, WriteTells
    <3>3. CASE Left = 3
      <4>1. Head(todo).val = SKIP_ROM
        BY <1>2, <3>3, Operations
      <4>2. steady => dstate' = "function"
        BY <3>2, <3>3, <4>1, TakeTells DEF Converts
      <4> QED
        BY <2>1, <3>1, <3>3, <4>2 DEF Converts
    <3>4. CASE Left = 2
      <4>1. Head(todo).val = CONVERT_T
        BY <1>2, <3>4, Operations
      <4>2. steady => dstate' = "converting"
        BY <3>2, <3>4, <4>1, TakeTells DEF Converts
      <4> QED
        BY <2>1, <3>1, <3>4, <4>2 DEF Converts
    <3> QED
      BY <2>1, <3>3, <3>4
  <2> QED
    BY <1>6, <2>2, <2>3, WriteTells
<1>7. ~ReadSlot
  BY <1>3, ReadTells
<1> QED
  BY <1>4, <1>5, <1>6, <1>7, <1>8

LEMMA WriteSplits ==
    ASSUME InStep, SampleAt \subseteq 5..84, WriteSlot, steady => dstate \in Listening
    PROVE  /\ todo' = todo => (steady => UNCHANGED <<dstate, idx, scratch>>)
           /\ todo' = Tail(todo) => (steady => Take(Head(todo).val))
<1>1. todo \in Seq(Op) /\ todo # <<>>
  BY WriteTells
<1>2. todo # Tail(todo)
  BY <1>1, Popped
<1> QED
  BY <1>2, WriteTells

LEMMA SetsOn ==
    ASSUME InStep, SampleAt \subseteq 5..84, \A h \in HoldFor : h >= 13, Sets,
           ResetBus \/ WriteSlot \/ ReadSlot \/ DriveLow \/ StrongPullup
    PROVE  Sets'
<1>1. todo \in Seq(Op) /\ todo # <<>>
  BY ResetTells, WriteTells, ReadTells, DriveLowTells, PullupTells
<1>2. /\ Left \in 1..9 /\ Head(todo) = SetBack[Left]
      /\ todo' = Tail(todo) => /\ Remains(SetBack, 9)' /\ Left' = Left - 1
  BY <1>1, Remaining DEF Sets
<1>3. Head(todo).op = IF Left \in {3, 9} THEN "reset" ELSE "write"
  BY <1>2, OperationKinds
<1>4. CASE ResetBus
  <2>1. Left = 3 \/ Left = 9
    BY <1>3, <1>4, ResetTells
  <2>2. Left' = Left - 1 /\ Remains(SetBack, 9)' /\ rx' = rx /\ scratch' = scratch
        /\ (steady' => steady /\ dstate' = "rom")
    BY <1>2, <1>4, ResetTells
  <2>3. CASE Left = 3
    BY <2>2, <2>3 DEF Sets
  <2>4. CASE Left = 9
    BY <2>2, <2>4 DEF Sets
  <2> QED
    BY <2>1, <2>3, <2>4
<1>5. CASE WriteSlot
  <2>1. rx' = rx /\ steady' = steady /\ Left \in {1, 2, 4, 5, 6, 7, 8}
    BY <1>2, <1>3, <1>5, WriteTells
  <2>2. steady => dstate \in Listening
    BY <2>1 DEF Sets, Listening
  <2>3. CASE todo' = todo
    <3>1. Remains(SetBack, 9)' /\ Left' = Left
      BY <2>3 DEF Sets, Remains, Left
    <3>2. steady => UNCHANGED <<dstate, idx, scratch>>
      BY <1>5, <2>2, <2>3, WriteSplits
    <3> QED
      BY <2>1, <3>1, <3>2 DEF Sets
  <2>4. CASE todo' = Tail(todo)
    <3>1. Remains(SetBack, 9)' /\ Left' = Left - 1 /\ Len(rx)' <= 5
      BY <1>2, <2>1, <2>4 DEF Sets
    <3>2. steady => Take(Head(todo).val)
      BY <1>5, <2>2, <2>4, WriteSplits
    <3>3. ASSUME steady, Left \in {2, 8} PROVE Sets'
      <4>1. Head(todo).val = SKIP_ROM
        BY <1>2, <3>3, Operations
      <4>2. dstate' = "function" /\ scratch' = scratch
        BY <3>2, <3>3, <4>1, TakeTells DEF Sets
      <4> QED
        BY <3>1, <3>3, <4>2 DEF Sets
    <3>4. ASSUME steady, Left = 1 PROVE Sets'
      <4>1. scratch' = scratch
        BY <3>2, <3>4, TakeTells DEF Sets
      <4> QED
        BY <3>1, <3>4, <4>1 DEF Sets
    <3>5. ASSUME steady, Left = 7 PROVE Sets'
      <4>1. Head(todo).val = WRITE_SP
        BY <1>2, <3>5, Operations
      <4>2. dstate' = "write" /\ idx' = 0
        BY <3>2, <3>5, <4>1, TakeTells DEF Sets
      <4> QED
        BY <3>1, <3>5, <4>2 DEF Sets
    <3>6. ASSUME steady, Left \in {5, 6} PROVE Sets'
      <4>1. dstate = "write" /\ idx = 6 - Left /\ idx < 2
        BY <3>6 DEF Sets
      <4>2. dstate' = "write" /\ idx' = 6 - Left'
        BY <3>1, <3>2, <3>6, <4>1, TakeTells
      <4> QED
        BY <3>1, <3>6, <4>2 DEF Sets
    <3>7. ASSUME steady, Left = 4 PROVE Sets'
      <4>1. dstate = "write" /\ idx = 2 /\ Field[idx + 3] = "conf"
        BY <3>7 DEF Sets, Field
      <4>2. Head(todo).val = ConfigOf(Res)
        BY <1>2, <3>7, Operations
      <4>3. scratch' = [scratch EXCEPT !["conf"] = ConfigOf(Res)]
        BY <3>2, <3>7, <4>1, <4>2, TakeTells
      <4>4. scratch'.conf = ConfigOf(Res)
        BY <4>3 DEF InStep, Typed, MemoryTyped
      <4> QED
        BY <3>1, <3>7, <4>4 DEF Sets
    <3>8. ASSUME ~steady PROVE Sets'
      BY <2>1, <3>1, <3>8 DEF Sets
    <3> QED
      BY <2>1, <3>3, <3>4, <3>5, <3>6, <3>7, <3>8
  <2> QED
    BY <1>5, <2>3, <2>4, WriteTells
<1>6. ~ReadSlot /\ ~DriveLow /\ ~StrongPullup
  BY <1>3, ReadTells, DriveLowTells, PullupTells
<1> QED
  BY <1>4, <1>5, <1>6

LEMMA FetchKinds ==
    ASSUME NEW len \in Nat, NEW after \in Nat, NEW k \in 1 .. len + after + 3
    PROVE  /\ k <= after => FetchBack(len, after)[k] = Deciding
           /\ k > after /\ k <= len + after => FetchBack(len, after)[k] = Read
           /\ k = len + after + 1 => FetchBack(len, after)[k] = Write(READ_SP)
           /\ k = len + after + 2 => FetchBack(len, after)[k] = Write(SKIP_ROM)
           /\ k = len + after + 3 => FetchBack(len, after)[k] = Reset
BY DEF FetchBack

LEMMA FetchHead ==
    ASSUME NEW len \in 1..5, NEW after \in 0..1, todo \in Seq(Op), todo # <<>>, Fetches(len, after)
    PROVE  /\ Left \in 1 .. len + after + 3
           /\ Left <= after => Head(todo).op = "decide"
           /\ Left > after /\ Left <= len + after => Head(todo).op = "read"
           /\ Left = len + after + 1 => Head(todo).op = "write" /\ Head(todo).val = READ_SP
           /\ Left = len + after + 2 => Head(todo).op = "write" /\ Head(todo).val = SKIP_ROM
           /\ Left = len + after + 3 => Head(todo).op = "reset"
           /\ todo' = Tail(todo) => /\ Remains(FetchBack(len, after), len + after + 3)'
                                    /\ Left' = Left - 1
<1> DEFINE size == len + after + 3
           f == FetchBack(len, after)
<1>1. /\ Left \in 1..size /\ Head(todo) = f[Left]
      /\ todo' = Tail(todo) => Remains(f, size)' /\ Left' = Left - 1
  <2>1. Remains(f, size) /\ size \in Nat
    BY DEF Fetches
  <2> HIDE DEF f, size
  <2> QED
    BY <2>1, Remaining
<1>2. /\ Left <= after => Head(todo) = Deciding
      /\ Left > after /\ Left <= len + after => Head(todo) = Read
      /\ Left = len + after + 1 => Head(todo) = Write(READ_SP)
      /\ Left = len + after + 2 => Head(todo) = Write(SKIP_ROM)
      /\ Left = len + after + 3 => Head(todo) = Reset
  BY <1>1, FetchKinds
<1>3. /\ Deciding.op = "decide" /\ Read.op = "read" /\ Reset.op = "reset"
      /\ Write(READ_SP).op = "write" /\ Write(READ_SP).val = READ_SP
      /\ Write(SKIP_ROM).op = "write" /\ Write(SKIP_ROM).val = SKIP_ROM
  BY Operations
<1> QED
  BY <1>1, <1>2, <1>3

(* A byte that is read is the one the sensor sent, or all ones.             *)
LEMMA ReadsOn ==
    ASSUME InStep, \A h \in HoldFor : h >= 13, ReadSlot
    PROVE  /\ steady /\ Sent /\ Len(rx) \in 0..4 => Sent'
           /\ gone /\ AllOnes => AllOnes'
<1>1. rx \in Seq(Byte) /\ n \in 0..7 /\ dacc \in Byte /\ data \in Nat /\ Doing("read")
  <2>1. rx \in Seq(Byte) /\ n \in 0..7 /\ dacc \in Byte /\ data \in Byte /\ Doing("read")
    BY DEF InStep, Typed, BusTyped, SensorTyped, ReadSlot
  <2> QED
    BY <2>1 DEF Byte
<1>2. CASE n # 7
  <2>1. /\ n \in 0..6 /\ n' = n + 1 /\ todo' = todo /\ rx' = rx
        /\ gone => data' = data + 2^n
        /\ steady /\ dstate = "read" =>
              /\ UNCHANGED <<dstate, idx, dacc, scratch>>
              /\ data' = data + BitOf(dacc, n) * 2^n
    BY <1>2, ReadTells
  <2>2. ASSUME steady, Sent, Len(rx) \in 0..4 PROVE Sent'
    <3>1. data' = (dacc % 2^n) + BitOf(dacc, n) * 2^n /\ UNCHANGED <<dstate, idx, dacc, scratch>>
      BY <1>1, <2>1, <2>2 DEF Sent
    <3>2. data' = dacc' % 2^n'
      BY <1>1, <1>2, <2>1, <3>1, BitsOfByte
    <3> QED
      BY <2>1, <2>2, <3>1, <3>2 DEF Sent
  <2>3. ASSUME gone, AllOnes PROVE AllOnes'
    <3>1. PICK p \in 1..128 : p = 2^n /\ 2^(n + 1) = 2 * p
      <4>1. 2^n \in 1..128 /\ 2^(n + 1) = 2 * 2^n
        BY <1>1, <1>2, Powers
      <4> QED
        BY <4>1
    <3>2. data = p - 1 /\ data' = data + p
      BY <1>1, <2>1, <2>3, <3>1 DEF AllOnes
    <3>3. data' = 2^n' - 1
      BY <2>1, <3>1, <3>2
    <3> QED
      BY <2>1, <2>3, <3>3 DEF AllOnes
  <2> QED
    BY <2>2, <2>3
<1>3. CASE n = 7
  <2> n \notin 0..6
    BY <1>3
  <2>1. n' = 0 /\ data' = 0
    BY ReadTells
  <2>2. PICK r \in Byte : /\ rx' = Append(rx, r)
                          /\ gone => r = data + 2^7
                          /\ steady /\ dstate = "read" => r = data + BitOf(dacc, n) * 2^7
    BY ReadTells
  <2>3. steady /\ dstate = "read" => /\ UNCHANGED <<dstate, scratch>>
                                     /\ idx' = IF idx < 4 THEN idx + 1 ELSE 4
                                     /\ dacc' = scratch[Field[idx' + 1]]
    BY ReadTells
  <2>4. /\ Len(rx') = Len(rx) + 1 /\ rx'[Len(rx) + 1] = r
        /\ \A i \in 1..Len(rx) : rx'[i] = rx[i]
    BY <1>1, <2>2, AppendProperties
  <2>5. ASSUME steady, Sent, Len(rx) \in 0..4 PROVE Sent'
    <3>1. r = dacc /\ dstate = "read"
      <4>1. dstate = "read" /\ data = dacc % 2^n /\ r = data + BitOf(dacc, n) * 2^7
        BY <1>1, <2>2, <2>5 DEF Sent
      <4>2. (dacc % 2^n) + BitOf(dacc, n) * 2^n = dacc
        BY <1>1, <1>3, BitsOfByte
      <4> QED
        BY <1>3, <4>1, <4>2
    <3>2. idx' \in 1..4 /\ idx' = IF Len(rx') < 4 THEN Len(rx') ELSE 4
      BY <2>3, <2>4, <2>5 DEF Sent
    <3>3. idx = Len(rx) /\ r = scratch[Field[Len(rx) + 1]]
      BY <2>5, <3>1 DEF Sent
    <3>4. ASSUME NEW i \in 1..Len(rx') PROVE rx'[i] = scratch[Field[i]]
      <4>1. i \in 1..Len(rx) \/ i = Len(rx) + 1
        BY <2>4
      <4>2. CASE i \in 1..Len(rx)
        BY <2>4, <2>5, <4>2 DEF Sent
      <4>3. CASE i = Len(rx) + 1
        BY <2>4, <3>3, <4>3
      <4> QED
        BY <4>1, <4>2, <4>3
    <3>5. dacc' \in Byte
      BY ReadInStep DEF InStep, Typed, SensorTyped
    <3>6. dacc' % 2^0 = 0
      BY <3>5, BitsOfByte
    <3> QED
      BY <2>1, <2>3, <2>5, <3>1, <3>2, <3>4, <3>6 DEF Sent
  <2>6. ASSUME gone, AllOnes PROVE AllOnes'
    <3>1. 2^7 = 128 /\ 2^0 = 1
      OBVIOUS
    <3>2. data = 127
      BY <1>1, <1>3, <2>6, <3>1 DEF AllOnes
    <3>3. r = 255
      BY <2>2, <2>6, <3>1, <3>2
    <3>4. ASSUME NEW i \in 1..Len(rx') PROVE rx'[i] = 255
      <4>1. i \in 1..Len(rx) \/ i = Len(rx) + 1
        BY <2>4
      <4> QED
        BY <2>4, <2>6, <3>3, <4>1 DEF AllOnes
    <3> QED
      BY <2>1, <3>1, <3>4 DEF AllOnes
  <2> QED
    BY <2>5, <2>6
<1> QED
  BY <1>2, <1>3

LEMMA FetchesOn ==
    ASSUME NEW len \in 1..5, NEW after \in 0..1,
           InStep, SampleAt \subseteq 5..84, \A h \in HoldFor : h >= 13, Fetches(len, after),
           ResetBus \/ WriteSlot \/ ReadSlot \/ DriveLow \/ StrongPullup
    PROVE  Fetches(len, after)'
<1> DEFINE size == len + after + 3
           f == FetchBack(len, after)
<1>1. todo \in Seq(Op) /\ todo # <<>> /\ size \in Nat /\ rx \in Seq(Byte)
  BY ResetTells, WriteTells, ReadTells, DriveLowTells, PullupTells DEF InStep, Typed, BusTyped
<1>2. /\ Left \in 1..size
      /\ todo' = Tail(todo) => Remains(f, size)' /\ Left' = Left - 1
  BY <1>1, FetchHead
<1>3. /\ Left <= after => Head(todo).op = "decide"
      /\ Left > after /\ Left <= len + after => Head(todo).op = "read"
      /\ Left = len + after + 1 => Head(todo).op = "write" /\ Head(todo).val = READ_SP
      /\ Left = len + after + 2 => Head(todo).op = "write" /\ Head(todo).val = SKIP_ROM
      /\ Left = len + after + 3 => Head(todo).op = "reset"
  BY <1>1, FetchHead
<1>4. Left > after /\ Left' >= after
  <2>1. Head(todo).op # "decide"
    BY ResetTells, WriteTells, ReadTells, DriveLowTells, PullupTells
  <2>2. todo' = todo \/ todo' = Tail(todo)
    BY ResetTells, WriteTells, ReadTells, DriveLowTells, PullupTells
  <2>3. todo' = todo => Left' = Left
    BY DEF Left
  <2> QED
    BY <1>2, <1>3, <2>1, <2>2, <2>3
<1>5. CASE ResetBus
  <2>1. Left = len + after + 3
    BY <1>2, <1>3, <1>4, <1>5, ResetTells
  <2>2. Left' = Left - 1 /\ Remains(f, size)' /\ rx' = rx /\ (steady' => steady /\ dstate' = "rom")
    BY <1>2, <1>5, ResetTells
  <2> QED
    BY <1>4, <2>1, <2>2 DEF Fetches
<1>6. CASE WriteSlot
  <2>1. rx' = rx /\ rx = <<>> /\ steady' = steady /\ Left \in {len + after + 1, len + after + 2}
    BY <1>2, <1>3, <1>4, <1>6, WriteTells DEF Fetches
  <2>2. steady => dstate \in Listening
    BY <2>1 DEF Fetches, Listening
  <2>3. CASE todo' = todo
    <3>1. Remains(f, size)' /\ Left' = Left
      BY <2>3 DEF Fetches, Remains, Left
    <3>2. steady => UNCHANGED <<dstate, idx, scratch>>
      BY <1>6, <2>2, <2>3, WriteSplits
    <3> QED
      BY <1>4, <2>1, <3>1, <3>2 DEF Fetches
  <2>4. CASE todo' = Tail(todo)
    <3>1. Remains(f, size)' /\ Left' = Left - 1
      BY <1>2, <2>4
    <3>2. steady => Take(Head(todo).val)
      BY <1>6, <2>2, <2>4, WriteSplits
    <3>3. CASE Left = len + after + 2
      <4>1. steady => dstate' = "function"
        BY <1>3, <3>2, <3>3, TakeTells DEF Fetches
      <4> QED
        BY <1>4, <2>1, <3>1, <3>3, <4>1 DEF Fetches
    <3>4. CASE Left = len + after + 1
      <4>1. steady => dstate' = "read" /\ idx' = 0 /\ dacc' = scratch.lo /\ scratch' = scratch
        BY <1>3, <3>2, <3>4, TakeTells DEF Fetches
      <4>2. n' = 0 /\ data' = 0
        <5>1. todo # Tail(todo)
          BY <1>1, Popped
        <5> QED
          BY <1>6, <2>4, <5>1, WriteTells
      <4>3. steady => Sent'
        <5>1. SUFFICES ASSUME steady PROVE Sent'
          OBVIOUS
        <5>2. Len(rx') = 0 /\ Field[0 + 1] = "lo"
          BY <2>1 DEF Field
        <5>3. dacc' \in Byte
          BY <4>1, <5>1 DEF InStep, Typed, MemoryTyped
        <5>4. dacc' % 2^0 = 0
          BY <5>3, BitsOfByte
        <5>5. dacc' = scratch'[Field[idx' + 1]] /\ idx' = 0
          BY <4>1, <5>1, <5>2
        <5>6. \A i \in 1..Len(rx') : rx'[i] = scratch'[Field[i]]
          BY <5>2
        <5> QED
          BY <4>1, <4>2, <5>1, <5>2, <5>4, <5>5, <5>6 DEF Sent
      <4>4. Len(rx') = 0
        BY <2>1
      <4> QED
        BY <1>4, <2>1, <3>1, <3>4, <4>3, <4>4 DEF Fetches
    <3> QED
      BY <2>1, <3>3, <3>4
  <2> QED
    BY <1>6, <2>3, <2>4, WriteTells
<1>7. CASE ReadSlot
  <2>1. Left <= len + after /\ steady' = steady
    BY <1>2, <1>3, <1>4, <1>7, ReadTells
  <2>2. Len(rx) = len + after - Left /\ Len(rx) \in 0..4
    <3>1. Len(rx) = len + after - Left
      BY <2>1 DEF Fetches
    <3>2. Left \in Nat
      BY <1>2
    <3> QED
      BY <1>4, <2>1, <3>1, <3>2
  <2>3. steady => Sent'
    BY <1>7, <2>1, <2>2, ReadsOn DEF Fetches
  <2>4. CASE todo' = todo /\ rx' = rx
    <3>1. Remains(f, size)' /\ Left' = Left
      BY <2>4 DEF Fetches, Remains, Left
    <3> QED
      BY <1>4, <2>1, <2>2, <2>3, <2>4, <3>1 DEF Fetches
  <2>5. CASE todo' = Tail(todo) /\ \E r \in Byte : rx' = Append(rx, r)
    <3>1. Remains(f, size)' /\ Left' = Left - 1
      BY <1>2, <2>5
    <3>2. Len(rx') = Len(rx) + 1
      BY <1>1, <2>5, AppendProperties
    <3>3. Left' <= len + after /\ Len(rx') = len + after - Left'
      BY <1>2, <2>1, <2>2, <3>1, <3>2
    <3>4. Left' \in Int
      BY <1>2, <3>1
    <3> QED
      BY <1>4, <2>1, <2>3, <3>1, <3>3, <3>4 DEF Fetches
  <2> QED
    BY <1>7, <2>4, <2>5, ReadTells
<1>8. ~DriveLow /\ ~StrongPullup
  BY <1>2, <1>3, <1>4, DriveLowTells, PullupTells
<1> QED
  BY <1>5, <1>6, <1>7, <1>8

LEMMA FetchKeepsScratch ==
    ASSUME NEW len \in 1..5, NEW after \in 0..1,
           InStep, SampleAt \subseteq 5..84, \A h \in HoldFor : h >= 13, Fetches(len, after),
           ResetBus \/ WriteSlot \/ ReadSlot \/ DriveLow \/ StrongPullup, steady'
    PROVE  scratch' = scratch
<1>1. CASE ResetBus \/ StrongPullup
  BY <1>1, ResetTells, PullupTells
<1>2. CASE WriteSlot \/ ReadSlot
  <2>1. steady /\ todo \in Seq(Op) /\ todo # <<>>
    BY <1>2, WriteTells, ReadTells
  <2>2. /\ Left \in 1 .. len + after + 3
        /\ Left <= after => Head(todo).op = "decide"
        /\ Left > after /\ Left <= len + after => Head(todo).op = "read"
        /\ Left = len + after + 1 => Head(todo).op = "write"
        /\ Left = len + after + 2 => Head(todo).op = "write"
        /\ Left = len + after + 3 => Head(todo).op = "reset"
    BY <2>1, FetchHead
  <2>3. Left # len + after + 3
    <3>1. Head(todo).op # "reset"
      BY <1>2, WriteTells, ReadTells
    <3> QED
      BY <2>2, <3>1
  <2>4. dstate \in {"rom", "function", "read"}
    <3>1. Left = len + after + 2 \/ Left = len + after + 1 \/ Left <= len + after
      BY <2>2, <2>3
    <3> QED
      BY <2>1, <3>1 DEF Fetches, Sent
  <2>5. CASE WriteSlot
    <3>1. Left > len + after
      <4>1. Head(todo).op = "write"
        BY <2>5, WriteTells
      <4> QED
        BY <2>2, <4>1
    <3>2. dstate \in Listening /\ dstate # "write"
      <4>1. Left = len + after + 2 \/ Left = len + after + 1
        BY <2>2, <2>3, <3>1
      <4> QED
        BY <2>1, <4>1 DEF Fetches, Listening
    <3> QED
      BY <2>1, <2>5, <3>2, WriteTells, TakeTells
  <2>6. CASE ReadSlot
    <3>1. dstate = "read"
      <4>1. Head(todo).op = "read"
        BY <2>6, ReadTells
      <4>2. Left <= len + after
        BY <2>2, <4>1
      <4> QED
        BY <2>1, <4>2 DEF Fetches, Sent
    <3> QED
      BY <2>1, <2>6, <3>1, ReadTells
  <2> QED
    BY <1>2, <2>5, <2>6
<1>3. ~DriveLow
  <2>1. SUFFICES ASSUME DriveLow PROVE FALSE
    OBVIOUS
  <2>2. todo \in Seq(Op) /\ todo # <<>> /\ Head(todo).op = "pullup"
    BY <2>1, DriveLowTells
  <2>3. Left \in 1 .. len + after + 3
    BY <2>2, FetchHead
  <2>4. Left <= after \/ (Left > after /\ Left <= len + after) \/ Left = len + after + 1
        \/ Left = len + after + 2 \/ Left = len + after + 3
    BY <2>3
  <2> QED
    BY <2>2, <2>4, FetchHead
<1> QED
  BY <1>1, <1>2, <1>3

(* The operations of a call keep what Told says. *)
LEMMA OperationTold ==
    ASSUME InStep, Told, SampleAt \subseteq 5..84, \A h \in HoldFor : h >= 13,
           ResetBus \/ WriteSlot \/ ReadSlot \/ DriveLow \/ StrongPullup
    PROVE  Told'
<1>1. /\ todo \in Seq(Op) /\ todo # <<>> /\ Head(todo).op \in {"reset", "write", "read", "pullup"}
      /\ UNCHANGED <<pc, converted, reading, gone>> /\ (steady' => steady)
  BY ResetTells, WriteTells, ReadTells, DriveLowTells, PullupTells
<1>2. pc' \notin {"boot", "read"}
  BY <1>1 DEF Told
<1>3. pc' = "wait" => Converts'
  BY <1>1, ConvertsOn DEF Told
<1>4. pc' = "reading" => Fetches(2, 0)' /\ (steady' => converted' = Sum')
  <2>1. SUFFICES ASSUME pc = "reading" PROVE Fetches(2, 0)' /\ (steady' => converted' = Sum')
    BY <1>1
  <2>2. Fetches(2, 0) /\ (steady => converted = Sum)
    BY <2>1 DEF Told
  <2>3. Fetches(2, 0)' /\ (steady' => scratch' = scratch)
    <3>1. 2 \in 1..5 /\ 0 \in 0..1
      OBVIOUS
    <3> QED
      BY <2>2, <3>1, FetchesOn, FetchKeepsScratch, Zenon
  <2> QED
    BY <1>1, <2>2, <2>3 DEF Sum
<1>5. pc' = "configured" => Checks' \/ Sets'
  <2>1. SUFFICES ASSUME pc = "configured" PROVE Checks' \/ Sets'
    BY <1>1
  <2>2. CASE Sets
    BY <2>2, SetsOn
  <2>3. CASE Checks
    <3>1. ~Forced
      <4>1. SUFFICES ASSUME Forced PROVE FALSE
        OBVIOUS
      <4>2. todo = <<Deciding>>
        BY <2>3, <4>1 DEF Checks
      <4>3. Head(todo) = Deciding
        BY <4>2
      <4> QED
        BY <1>1, <4>3, Operations
    <3>2. Fetches(5, 1)'
      <4>1. 5 \in 1..5 /\ 1 \in 0..1
        OBVIOUS
      <4> QED
        BY <2>3, <3>1, <4>1, FetchesOn, Zenon DEF Checks
    <3>3. todo' # <<>>
      BY <3>2 DEF Fetches, Left
    <3> QED
      BY <3>1, <3>2, <3>3 DEF Checks
  <2> QED
    BY <2>1, <2>2, <2>3 DEF Told
<1>6. gone' => AllOnes'
  <2>1. SUFFICES ASSUME gone PROVE AllOnes'
    BY <1>1
  <2>2. AllOnes
    BY <2>1 DEF Told
  <2>3. CASE ReadSlot
    BY <2>1, <2>2, <2>3, ReadsOn
  <2>4. CASE ResetBus \/ WriteSlot \/ DriveLow \/ StrongPullup
    <3>1. rx' = rx
      BY <2>4, ResetTells, WriteTells, DriveLowTells, PullupTells
    <3>2. Doing("read")' => n' = 0 /\ data' = 0
      <4>1. ~Doing("read")
        BY <2>4, ResetTells, WriteTells, DriveLowTells, PullupTells DEF Doing
      <4>2. CASE WriteSlot
        BY <4>1, <4>2, WriteTells DEF Doing
      <4>3. CASE ResetBus \/ DriveLow \/ StrongPullup
        <5>1. ~Doing("write") /\ n' = n /\ data' = data
          BY <4>3 DEF ResetBus, ResetSlot, DriveLow, StrongPullup, Doing
        <5>2. n = 0 /\ data = 0
          BY <4>1, <5>1, IdleBus DEF InStep, Typed, BusTyped
        <5> QED
          BY <5>1, <5>2
      <4> QED
        BY <2>4, <4>2, <4>3
    <3>3. 2^0 - 1 = 0
      OBVIOUS
    <3> QED
      BY <2>2, <3>1, <3>2, <3>3 DEF AllOnes
  <2> QED
    BY <2>3, <2>4
<1> QED
  BY <1>2, <1>3, <1>4, <1>5, <1>6 DEF Told, ReadingIsConverted

LEMMA SameTold ==
    ASSUME Told, UNCHANGED <<todo, n, data, rx, pc, reading>>, gone' => gone,
           steady' => steady /\ UNCHANGED <<dstate, idx, dacc, scratch, converted>>
    PROVE  Told'
<1>1. Left' = Left /\ (Doing("read")' <=> Doing("read"))
  BY DEF Left, Doing
<1>2. pc' = "wait" => Converts'
  BY <1>1 DEF Told, Converts, Remains, Sum
<1>3. \A len \in 1..5, after \in 0..1 : Fetches(len, after) => Fetches(len, after)'
  BY <1>1 DEF Fetches, Remains, Sent
<1>4. pc' = "reading" => Fetches(2, 0)' /\ (steady' => converted' = Sum')
  BY <1>3 DEF Told, Sum
<1>5. pc' = "configured" => Checks' \/ Sets'
  <2>1. Sets => Sets'
    BY <1>1 DEF Sets, Remains
  <2>2. Checks => Checks'
    BY <1>3 DEF Checks
  <2> QED
    BY <2>1, <2>2 DEF Told
<1>6. gone' => AllOnes'
  BY <1>1 DEF Told, AllOnes
<1>7. ReadingIsConverted'
  BY DEF Told, ReadingIsConverted
<1> QED
  BY <1>2, <1>4, <1>5, <1>6, <1>7 DEF Told

-----------------------------------------------------------------------------
(* A call as it begins. *)

LEMMA Concatenated ==
    ASSUME NEW a \in Seq(Op), NEW b \in Seq(Op)
    PROVE  /\ a \o b \in Seq(Op) /\ Len(a \o b) = Len(a) + Len(b)
           /\ \A i \in 1..Len(a) : (a \o b)[i] = a[i]
           /\ \A i \in 1..Len(b) : (a \o b)[Len(a) + i] = b[i]
<1>1. /\ a \o b \in Seq(Op) /\ Len(a \o b) = Len(a) + Len(b)
      /\ \A i \in 1 .. Len(a) + Len(b) : (a \o b)[i] = IF i <= Len(a) THEN a[i] ELSE b[i - Len(a)]
  BY ConcatProperties
<1>2. ASSUME NEW i \in 1..Len(a) PROVE (a \o b)[i] = a[i]
  <2>1. i \in 1 .. Len(a) + Len(b) /\ i <= Len(a)
    OBVIOUS
  <2> QED
    BY <1>1, <2>1
<1>3. ASSUME NEW i \in 1..Len(b) PROVE (a \o b)[Len(a) + i] = b[i]
  <2>1. Len(a) + i \in 1 .. Len(a) + Len(b) /\ ~(Len(a) + i <= Len(a)) /\ Len(a) + i - Len(a) = i
    OBVIOUS
  <2> QED
    BY <1>1, <2>1
<1> QED
  BY <1>1, <1>2, <1>3

LEMMA ConvertCall ==
    ASSUME Served, Parasite, todo' = StartConversion
    PROVE  Remains(ConvertBack, 4)' /\ Left' = 4
<1> DEFINE w == Write(SKIP_ROM)
           v == Write(CONVERT_T)
<1>1. todo' = <<Reset>> \o <<w>> \o <<v, Pullup>>
  <2>1. PowerModeGet(conf) = 0
    BY ConfAssumption DEF PowerModeGet, conf, ConfMake, Parasite
  <2> QED
    BY <2>1 DEF StartConversion
<1>2. ConvertBack[1] = Pullup /\ ConvertBack[2] = v /\ ConvertBack[3] = w /\ ConvertBack[4] = Reset
  BY Operations
<1> HIDE DEF w, v
<1>3. Len(todo') = 4 /\ todo'[1] = Reset /\ todo'[2] = w /\ todo'[3] = v /\ todo'[4] = Pullup
  <2>1. /\ Reset \in {Reset, w, v, Pullup} /\ w \in {Reset, w, v, Pullup}
        /\ v \in {Reset, w, v, Pullup} /\ Pullup \in {Reset, w, v, Pullup}
    OBVIOUS
  <2> QED
    BY <1>1, <2>1, Joined
<1>4. \A i \in 1..4 : todo'[i] = ConvertBack[4 + 1 - i]
  <2>1. SUFFICES ASSUME NEW i \in 1..4 PROVE todo'[i] = ConvertBack[4 + 1 - i]
    OBVIOUS
  <2>2. i = 1 \/ i = 2 \/ i = 3 \/ i = 4
    OBVIOUS
  <2>3. 4 + 1 - 1 = 4 /\ 4 + 1 - 2 = 3 /\ 4 + 1 - 3 = 2 /\ 4 + 1 - 4 = 1
    OBVIOUS
  <2> QED
    BY <1>2, <1>3, <2>2, <2>3
<1> QED
  BY <1>3, <1>4 DEF Remains, Left

(* A list of operations that reads len bytes of the scratchpad.             *)
FetchList(s, len) ==
    /\ s \in Seq(Op) /\ Len(s) = len + 3
    /\ s[1] = Reset /\ s[2] = Write(SKIP_ROM) /\ s[3] = Write(READ_SP)
    /\ \A i \in 4 .. len + 3 : s[i] = Read

LEMMA FetchLists ==
    ASSUME Served
    PROVE  /\ \A len \in {2, 5} : FetchList(ReadScratchpad(len), len)
           /\ FetchList(ReadThroughBus(2), 2)
<1> DEFINE w == Write(SKIP_ROM)
           u == Write(READ_SP)
<1>1. w \in Op /\ u \in Op /\ Reset \in Op
  BY OpTypes
<1>2. /\ <<w, u>> \in Seq(Op) /\ Len(<<w, u>>) = 2 /\ <<w, u>>[1] = w /\ <<w, u>>[2] = u
      /\ <<Reset>> \in Seq(Op) /\ Len(<<Reset>>) = 1 /\ <<Reset>>[1] = Reset
  <2> HIDE DEF w, u
  <2> QED
    BY <1>1
<1>3. ASSUME NEW len \in {2, 5} PROVE FetchList(ReadScratchpad(len), len)
  <2>1. ReadScratchpad(len) = <<Reset>> \o (<<w, u>> \o ReadData(len))
    BY DEF ReadScratchpad
  <2>2. ReadData(len) \in Seq(Op) /\ Len(ReadData(len)) = len /\ \A i \in 1..len : ReadData(len)[i] = Read
    BY ReadsBytes
  <2>3. PICK r : r = ReadData(len)
    OBVIOUS
  <2>4. PICK h : h = <<w, u>>
    OBVIOUS
  <2>5. PICK t : t = h \o r
    OBVIOUS
  <2>6. PICK s : s = <<Reset>> \o t
    OBVIOUS
  <2>7. s = ReadScratchpad(len)
    BY <2>1, <2>3, <2>4, <2>5, <2>6
  <2>8. /\ t \in Seq(Op) /\ Len(t) = 2 + len /\ t[1] = w /\ t[2] = u
        /\ \A i \in 1..len : t[2 + i] = Read
    <3>1. /\ h \in Seq(Op) /\ Len(h) = 2 /\ h[1] = w /\ h[2] = u
      BY <1>2, <2>4
    <3>2. r \in Seq(Op) /\ Len(r) = len /\ \A i \in 1..len : r[i] = Read
      BY <2>2, <2>3
    <3>3. /\ t \in Seq(Op) /\ Len(t) = 2 + len
          /\ \A i \in 1..2 : t[i] = h[i]
          /\ \A i \in 1..len : t[2 + i] = r[i]
      <4>1. /\ t \in Seq(Op) /\ Len(t) = Len(h) + Len(r)
            /\ \A i \in 1..Len(h) : t[i] = h[i]
            /\ \A i \in 1..Len(r) : t[Len(h) + i] = r[i]
        BY <2>5, <3>1, <3>2, Concatenated
      <4> QED
        BY <3>1, <3>2, <4>1
    <3> QED
      BY <3>1, <3>2, <3>3
  <2>9. /\ s \in Seq(Op) /\ Len(s) = 3 + len /\ s[1] = Reset
        /\ \A i \in 1 .. 2 + len : s[1 + i] = t[i]
    BY <1>2, <2>6, <2>8, Concatenated
  <2>10. s[2] = w /\ s[3] = u
    BY <2>8, <2>9
  <2>11. ASSUME NEW i \in 4 .. len + 3 PROVE s[i] = Read
    <3>1. i - 3 \in 1..len /\ i - 1 \in 1 .. 2 + len /\ 2 + (i - 3) = i - 1 /\ 1 + (i - 1) = i
      OBVIOUS
    <3>2. t[2 + (i - 3)] = Read
      BY <2>8, <3>1
    <3>3. s[1 + (i - 1)] = t[i - 1]
      BY <2>9, <3>1
    <3> QED
      BY <3>1, <3>2, <3>3
  <2> QED
    BY <2>7, <2>9, <2>10, <2>11 DEF FetchList
<1>4. FetchList(ReadThroughBus(2), 2)
  <2>1. <<SKIP_ROM, READ_SP>> \in Seq(Byte) /\ Len(<<SKIP_ROM, READ_SP>>) = 2
    BY OpTypes
  <2>2. PICK h : h = WriteData(<<SKIP_ROM, READ_SP>>)
    OBVIOUS
  <2>3. /\ h \in Seq(Op) /\ Len(h) = 2 /\ h[1] = w /\ h[2] = u
    <3>1. h \in Seq(Op) /\ Len(h) = 2 /\ \A i \in 1..2 : h[i] = Write(<<SKIP_ROM, READ_SP>>[i])
      BY <2>1, <2>2, Written
    <3>2. <<SKIP_ROM, READ_SP>>[1] = SKIP_ROM /\ <<SKIP_ROM, READ_SP>>[2] = READ_SP
      OBVIOUS
    <3> QED
      BY <3>1, <3>2
  <2>4. PICK r : r = ReadData(2)
    OBVIOUS
  <2>5. r \in Seq(Op) /\ Len(r) = 2 /\ r[1] = Read /\ r[2] = Read
    <3>1. 2 \in Nat /\ 1 \in 1..2 /\ 2 \in 1..2
      OBVIOUS
    <3> QED
      BY <2>4, <3>1, ReadsBytes
  <2>6. PICK t : t = <<Reset>> \o h
    OBVIOUS
  <2>7. PICK s : s = t \o r
    OBVIOUS
  <2>8. s = ReadThroughBus(2)
    BY <2>2, <2>4, <2>6, <2>7 DEF ReadThroughBus, BusSend, BusRecv
  <2>9. t \in Seq(Op) /\ Len(t) = 3 /\ t[1] = Reset /\ t[2] = w /\ t[3] = u
    <3>1. /\ t \in Seq(Op) /\ Len(t) = 1 + 2 /\ t[1] = Reset /\ \A i \in 1..2 : t[1 + i] = h[i]
      <4>1. /\ t \in Seq(Op) /\ Len(t) = Len(<<Reset>>) + Len(h)
            /\ \A i \in 1..Len(<<Reset>>) : t[i] = <<Reset>>[i]
            /\ \A i \in 1..Len(h) : t[Len(<<Reset>>) + i] = h[i]
        BY <1>2, <2>3, <2>6, Concatenated
      <4> QED
        BY <1>2, <2>3, <4>1
    <3>2. t[1 + 1] = h[1] /\ t[1 + 2] = h[2]
      BY <3>1
    <3> QED
      BY <2>3, <3>1, <3>2
  <2>10. /\ s \in Seq(Op) /\ Len(s) = 3 + 2 /\ \A i \in 1..3 : s[i] = t[i]
         /\ \A i \in 1..2 : s[3 + i] = r[i]
    <3>1. /\ s \in Seq(Op) /\ Len(s) = Len(t) + Len(r) /\ \A i \in 1..Len(t) : s[i] = t[i]
          /\ \A i \in 1..Len(r) : s[Len(t) + i] = r[i]
      BY <2>5, <2>7, <2>9, Concatenated
    <3> QED
      BY <2>5, <2>9, <3>1
  <2>11. s[1] = Reset /\ s[2] = w /\ s[3] = u /\ s[4] = Read /\ s[5] = Read
    <3>1. s[3 + 1] = r[1] /\ s[3 + 2] = r[2]
      BY <2>10
    <3> QED
      BY <2>5, <2>9, <2>10, <3>1
  <2>12. \A i \in 4 .. 2 + 3 : s[i] = Read
    BY <2>11
  <2> QED
    BY <2>8, <2>10, <2>11, <2>12 DEF FetchList
<1> QED
  BY <1>3, <1>4

LEMMA FetchCall ==
    ASSUME NEW len \in 1..5, NEW after \in 0..1, NEW s, FetchList(s, len),
           Len(todo') = len + after + 3, \A i \in 1 .. len + 3 : todo'[i] = s[i],
           after = 1 => todo'[len + 4] = Deciding
    PROVE  Remains(FetchBack(len, after), len + after + 3)' /\ Left' = len + after + 3
<1> DEFINE size == len + after + 3
<1>1. ASSUME NEW i \in 1..size PROVE todo'[i] = FetchBack(len, after)[size + 1 - i]
  <2>1. size + 1 - i \in 1..size
    OBVIOUS
  <2>2. PICK k \in 1..size : k = size + 1 - i
    BY <2>1
  <2>3. CASE i = 1
    BY <2>2, <2>3, FetchKinds DEF FetchList
  <2>4. CASE i = 2
    BY <2>2, <2>4, FetchKinds DEF FetchList
  <2>5. CASE i = 3
    BY <2>2, <2>5, FetchKinds DEF FetchList
  <2>6. CASE i \in 4 .. len + 3
    <3>1. s[i] = Read /\ i \in 1 .. len + 3
      BY <2>6 DEF FetchList
    <3>2. k > after /\ k <= len + after
      BY <2>2, <2>6
    <3> QED
      BY <2>2, <3>1, <3>2, FetchKinds
  <2>7. CASE i = len + 4
    <3>1. after = 1 /\ k = 1
      BY <2>2, <2>7
    <3> QED
      BY <2>2, <2>7, <3>1, FetchKinds
  <2> QED
    BY <2>3, <2>4, <2>5, <2>6, <2>7
<1> QED
  BY <1>1 DEF Remains, Left

LEMMA SetCall ==
    todo' = <<Reset>> \o WriteData(<<SKIP_ROM, WRITE_SP, Th, Tl, ConfigOf(Res)>>)
                      \o <<Reset>> \o WriteData(<<SKIP_ROM, COPY_SP>>)
    => Remains(SetBack, 9)' /\ Left' = 9
<1> DEFINE five == <<SKIP_ROM, WRITE_SP, Th, Tl, ConfigOf(Res)>>
           two == <<SKIP_ROM, COPY_SP>>
<1>1. PICK r : r = <<Reset>>
  OBVIOUS
<1>2. r \in Seq(Op) /\ Len(r) = 1 /\ r[1] = Reset
  <2>1. Reset \in Op
    BY OpTypes
  <2> QED
    BY <1>1, <2>1
<1>3. PICK a : a = WriteData(five)
  OBVIOUS
<1>4. /\ a \in Seq(Op) /\ Len(a) = 5 /\ a[1] = Write(SKIP_ROM) /\ a[2] = Write(WRITE_SP)
      /\ a[3] = Write(Th) /\ a[4] = Write(Tl) /\ a[5] = Write(ConfigOf(Res))
  <2>1. /\ five \in Seq(Byte) /\ Len(five) = 5 /\ five[1] = SKIP_ROM /\ five[2] = WRITE_SP
        /\ five[3] = Th /\ five[4] = Tl /\ five[5] = ConfigOf(Res)
    BY OpTypes
  <2> HIDE DEF five
  <2>2. a \in Seq(Op) /\ Len(a) = 5 /\ \A i \in 1..5 : a[i] = Write(five[i])
    BY <1>3, <2>1, Written
  <2> QED
    BY <2>1, <2>2
<1>5. PICK b : b = WriteData(two)
  OBVIOUS
<1>6. b \in Seq(Op) /\ Len(b) = 2 /\ b[1] = Write(SKIP_ROM) /\ b[2] = Write(COPY_SP)
  <2>1. two \in Seq(Byte) /\ Len(two) = 2 /\ two[1] = SKIP_ROM /\ two[2] = COPY_SP
    BY OpTypes
  <2> HIDE DEF two
  <2>2. b \in Seq(Op) /\ Len(b) = 2 /\ \A i \in 1..2 : b[i] = Write(two[i])
    BY <1>5, <2>1, Written
  <2> QED
    BY <2>1, <2>2
<1>7. PICK x : x = r \o a
  OBVIOUS
<1>8. PICK y : y = x \o r
  OBVIOUS
<1>9. PICK t : t = y \o b
  OBVIOUS
<1> HIDE DEF five, two
<1>10. /\ x \in Seq(Op) /\ Len(x) = 6 /\ x[1] = Reset
       /\ \A i \in 1..5 : x[1 + i] = a[i]
  <2>1. /\ x \in Seq(Op) /\ Len(x) = Len(r) + Len(a)
        /\ \A i \in 1..Len(r) : x[i] = r[i]
        /\ \A i \in 1..Len(a) : x[Len(r) + i] = a[i]
    BY <1>2, <1>4, <1>7, Concatenated
  <2> QED
    BY <1>2, <1>4, <2>1
<1>11. /\ y \in Seq(Op) /\ Len(y) = 7 /\ y[7] = Reset
       /\ \A i \in 1..6 : y[i] = x[i]
  <2>1. /\ y \in Seq(Op) /\ Len(y) = Len(x) + Len(r)
        /\ \A i \in 1..Len(x) : y[i] = x[i]
        /\ \A i \in 1..Len(r) : y[Len(x) + i] = r[i]
    BY <1>2, <1>8, <1>10, Concatenated
  <2>2. 1 \in 1..Len(r) /\ 6 + 1 = 7
    BY <1>2
  <2> QED
    BY <1>2, <1>10, <2>1, <2>2
<1>12. /\ Len(t) = 9
       /\ \A i \in 1..7 : t[i] = y[i]
       /\ \A i \in 1..2 : t[7 + i] = b[i]
  <2>1. y \in Seq(Op) /\ b \in Seq(Op) /\ Len(y) = 7 /\ Len(b) = 2
    BY <1>6, <1>11
  <2>2. /\ t \in Seq(Op) /\ Len(t) = Len(y) + Len(b)
        /\ \A i \in 1..Len(y) : t[i] = y[i]
        /\ \A i \in 1..Len(b) : t[Len(y) + i] = b[i]
    BY <1>9, <2>1, Concatenated
  <2> QED
    BY <2>1, <2>2
<1>13. ASSUME NEW i \in 1..9 PROVE t[i] = SetBack[9 + 1 - i]
  <2>1. x[2] = a[1] /\ x[3] = a[2] /\ x[4] = a[3] /\ x[5] = a[4] /\ x[6] = a[5]
    <3>1. x[1 + 1] = a[1] /\ x[1 + 2] = a[2] /\ x[1 + 3] = a[3] /\ x[1 + 4] = a[4] /\ x[1 + 5] = a[5]
      BY <1>10
    <3> QED
      BY <3>1
  <2>2. t[8] = b[1] /\ t[9] = b[2]
    <3>1. t[7 + 1] = b[1] /\ t[7 + 2] = b[2]
      BY <1>12
    <3> QED
      BY <3>1
  <2>3. /\ t[1] = SetBack[9] /\ t[2] = SetBack[8] /\ t[3] = SetBack[7]
        /\ t[4] = SetBack[6] /\ t[5] = SetBack[5] /\ t[6] = SetBack[4]
        /\ t[7] = SetBack[3] /\ t[8] = SetBack[2] /\ t[9] = SetBack[1]
    BY <1>4, <1>6, <1>10, <1>11, <1>12, <2>1, <2>2, Operations
  <2>4. i = 1 \/ i = 2 \/ i = 3 \/ i = 4 \/ i = 5 \/ i = 6 \/ i = 7 \/ i = 8 \/ i = 9
    OBVIOUS
  <2> QED
    BY <2>3, <2>4
<1>14. SUFFICES ASSUME todo' = y \o b PROVE Remains(SetBack, 9)' /\ Left' = 9
  BY <1>1, <1>3, <1>5, <1>7, <1>8 DEF five, two
<1>15. todo' = t
  BY <1>9, <1>14
<1>16. Left' = 9
  BY <1>12, <1>15 DEF Left
<1>17. \A i \in 1..9 : todo'[i] = SetBack[9 + 1 - i]
  BY <1>13, <1>15
<1> QED
  BY <1>16, <1>17 DEF Remains, Left

LEMMA InitTold == Init => Told
<1> SUFFICES ASSUME Init PROVE Told
  OBVIOUS
<1>1. pc = "boot" /\ todo = <<>> /\ rx = <<>>
  BY DEF Init
<1>2. AllOnes
  BY <1>1 DEF AllOnes, Doing
<1> QED
  BY <1>1, <1>2 DEF Told, ReadingIsConverted

(* A call starts with no bytes read and not within a read.                  *)
LEMMA FreshOnes == ASSUME Opens(todo'), rx' = <<>> PROVE AllOnes'
<1>1. ~Doing("read")'
  BY DEF Opens, Doing
<1> QED
  BY <1>1 DEF AllOnes

LEMMA BootTold == ASSUME InStep, Told, Served, Boot PROVE Told'
<1>1. todo' = WriteRomStart /\ rx' = <<>> /\ pc' = "configured"
  BY DEF Boot, Goto
<1>2. AllOnes'
  BY <1>1, CallsOpen, FreshOnes
<1>3. Checks'
  <2>1. CASE Forced
    BY <1>1, <2>1 DEF Checks, WriteRomStart, Deciding
  <2>2. CASE ~Forced
    <3>1. todo' = ReadScratchpad(5) \o <<Deciding>>
      BY <1>1, <2>2 DEF WriteRomStart, Deciding
    <3>2. PICK s : s = ReadScratchpad(5)
      OBVIOUS
    <3>3. PICK d : d = <<Deciding>>
      OBVIOUS
    <3>4. d \in Seq(Op) /\ Len(d) = 1 /\ d[1] = Deciding
      <4>1. Deciding \in Op
        BY OpTypes DEF Deciding
      <4> QED
        BY <3>3, <4>1
    <3>5. FetchList(s, 5)
      BY <3>2, FetchLists
    <3>6. s \in Seq(Op) /\ Len(s) = 8
      BY <3>5 DEF FetchList
    <3>7. /\ Len(s \o d) = 9
          /\ \A i \in 1..8 : (s \o d)[i] = s[i]
          /\ (s \o d)[9] = d[1]
      <4>1. /\ Len(s \o d) = Len(s) + Len(d)
            /\ \A i \in 1..Len(s) : (s \o d)[i] = s[i]
            /\ \A i \in 1..Len(d) : (s \o d)[Len(s) + i] = d[i]
        BY <3>4, <3>6, Concatenated
      <4>2. 1 \in 1..Len(d) /\ Len(s) + 1 = 9
        BY <3>4, <3>6
      <4> QED
        BY <3>4, <3>6, <4>1, <4>2
    <3>8. /\ Len(todo') = 5 + 1 + 3
          /\ \A i \in 1 .. 5 + 3 : todo'[i] = s[i]
          /\ todo'[5 + 4] = Deciding
      BY <3>1, <3>2, <3>3, <3>4, <3>7
    <3>9. Remains(FetchBack(5, 1), 5 + 1 + 3)' /\ Left' = 5 + 1 + 3
      <4>1. 5 \in 1..5 /\ 1 \in 0..1
        OBVIOUS
      <4> QED
        BY <3>5, <3>8, <4>1, FetchCall
    <3>10. Left' = 9
      BY <3>9
    <3>11. Fetches(5, 1)'
      BY <1>1, <3>9, <3>10 DEF Fetches
    <3>12. todo' # <<>>
      BY <3>10 DEF Left
    <3> QED
      BY <2>2, <3>11, <3>12 DEF Checks
  <2> QED
    BY <2>1, <2>2
<1> QED
  BY <1>1, <1>2, <1>3 DEF Told, ReadingIsConverted

LEMMA StartTold == ASSUME InStep, Told, Served, Parasite, Start PROVE Told'
<1>1. todo' = StartConversion /\ rx' = <<>> /\ pc' = "wait"
  BY DEF Start, Goto
<1>2. AllOnes'
  BY <1>1, CallsOpen, FreshOnes
<1>3. Remains(ConvertBack, 4)' /\ Left' = 4
  BY <1>1, ConvertCall
<1>4. Converts'
  BY <1>1, <1>3 DEF Converts
<1> QED
  BY <1>1, <1>2, <1>4 DEF Told, ReadingIsConverted

LEMMA WaitedTold == ASSUME InStep, Told, Served, Waited PROVE Told'
<1>1. /\ pc = "wait" /\ todo = <<>> /\ pc' = "reading" /\ rx' = <<>>
      /\ UNCHANGED <<dstate, scratch, converted, steady, present>>
      /\ todo' \in {ReadScratchpad(2), ReadThroughBus(2)}
  BY DEF Waited, Goto, sensor
<1>2. ~(present /\ dstate = "converting")
  <2>1. WaitMs >= ConversionMs
    BY DEF WaitMs, ConversionMs
  <2> QED
    BY <2>1 DEF Waited
<1>3. AllOnes'
  <2>1. Opens(todo')
    BY <1>1, CallsOpen
  <2> QED
    BY <1>1, <2>1, FreshOnes
<1>4. steady' => converted' = Sum'
  <2>1. steady => present
    BY DEF InStep, Ranges
  <2>2. Left = 0
    BY <1>1 DEF Left
  <2>3. steady => dstate = "converting" \/ converted = Sum
    BY <1>1, <2>2 DEF Told, Converts
  <2>4. Sum' = Sum
    BY <1>1 DEF Sum
  <2> QED
    BY <1>1, <1>2, <2>1, <2>3, <2>4
<1>5. Fetches(2, 0)'
  <2>1. PICK s : s = todo' /\ FetchList(s, 2)
    BY <1>1, FetchLists
  <2>2. Len(todo') = 2 + 0 + 3 /\ \A i \in 1 .. 2 + 3 : todo'[i] = s[i]
    BY <2>1 DEF FetchList
  <2>3. Remains(FetchBack(2, 0), 2 + 0 + 3)' /\ Left' = 2 + 0 + 3
    <3>1. 2 \in 1..5 /\ 0 \in 0..1 /\ 0 # 1
      OBVIOUS
    <3> QED
      BY <2>1, <2>2, <3>1, FetchCall
  <2>4. Left' = 5
    BY <2>3
  <2> QED
    BY <1>1, <2>3, <2>4 DEF Fetches
<1> QED
  BY <1>1, <1>3, <1>4, <1>5 DEF Told, ReadingIsConverted

LEMMA StoreTold == ASSUME InStep, Told, Store PROVE Told'
<1>1. /\ pc = "reading" /\ todo = <<>> /\ pc' = "read" /\ todo' = <<>> /\ rx' = <<>>
      /\ UNCHANGED <<converted, steady, gone>>
      /\ reading' = IF Len(rx) = 2 THEN rx[1] + 256 * rx[2] ELSE reading
  BY DEF Store, Goto, sensor
<1>2. Fetches(2, 0) /\ (steady => converted = Sum) /\ (gone => AllOnes)
  BY <1>1 DEF Told
<1>3. Left = 0
  BY <1>1 DEF Left
<1>4. Len(rx) = 2
  BY <1>2, <1>3 DEF Fetches
<1>5. reading' = rx[1] + 256 * rx[2]
  BY <1>1, <1>4
<1>6. ASSUME steady PROVE reading' = converted'
  <2>1. Sent
    BY <1>2, <1>3, <1>6 DEF Fetches
  <2>2. rx[1] = scratch[Field[1]] /\ rx[2] = scratch[Field[2]]
    BY <1>4, <2>1 DEF Sent
  <2>3. Field[1] = "lo" /\ Field[2] = "hi"
    BY DEF Field
  <2> QED
    BY <1>1, <1>2, <1>5, <1>6, <2>2, <2>3 DEF Sum
<1>7. ASSUME gone PROVE reading' = 65535
  <2>1. rx[1] = 255 /\ rx[2] = 255
    BY <1>2, <1>4, <1>7 DEF AllOnes
  <2> QED
    BY <1>5, <2>1
<1>8. ReadingIsConverted'
  BY <1>1, <1>6, <1>7 DEF ReadingIsConverted
<1>9. AllOnes'
  BY <1>1 DEF AllOnes, Doing
<1> QED
  BY <1>1, <1>8, <1>9 DEF Told

(* The comparison comes after five bytes, and its outcome is the resolution *)
(* the sensor has.                                                          *)
LEMMA DecideTold == ASSUME InStep, Told, Decide PROVE Told'
<1>1. /\ todo \in Seq(Op) /\ todo # <<>> /\ Head(todo).op = "decide"
      /\ UNCHANGED <<pc, rx, converted, reading, gone, steady, scratch, n, data, dstate, idx>>
  BY DEF Decide, Doing, InStep, Typed, BusTyped, sensor
<1>2. pc = "configured" /\ Checks
  <2>1. pc \notin {"boot", "read"}
    BY <1>1 DEF Told
  <2>2. pc # "wait"
    <3>1. SUFFICES ASSUME Remains(ConvertBack, 4) PROVE FALSE
      BY DEF Told, Converts
    <3>2. Left \in 1..4 /\ Head(todo) = ConvertBack[Left]
      BY <1>1, <3>1, Remaining
    <3> QED
      BY <1>1, <3>2, OperationKinds
  <2>3. pc # "reading"
    <3>1. SUFFICES ASSUME Fetches(2, 0) PROVE FALSE
      BY DEF Told
    <3>2. 2 \in 1..5 /\ 0 \in 0..1
      OBVIOUS
    <3>3. Left \in 1 .. 2 + 0 + 3
      BY <1>1, <3>1, <3>2, FetchHead
    <3>4. /\ Left > 0 /\ Left <= 2 + 0 => Head(todo).op = "read"
          /\ Left = 2 + 0 + 1 => Head(todo).op = "write"
          /\ Left = 2 + 0 + 2 => Head(todo).op = "write"
          /\ Left = 2 + 0 + 3 => Head(todo).op = "reset"
      BY <1>1, <3>1, <3>2, FetchHead
    <3> QED
      BY <1>1, <3>3, <3>4
  <2>4. ~Sets
    <3>1. SUFFICES ASSUME Remains(SetBack, 9) PROVE FALSE
      BY DEF Sets
    <3>2. Left \in 1..9 /\ Head(todo) = SetBack[Left]
      BY <1>1, <3>1, Remaining
    <3> QED
      BY <1>1, <3>2, OperationKinds
  <2> QED
    BY <2>1, <2>2, <2>3, <2>4 DEF Told, InStep, Typed, ProgramTyped
<1>3. Len(rx) <= 5 /\ (~Forced => Len(rx) = 5 /\ (steady => rx[5] = scratch.conf))
  <2>1. CASE Forced
    BY <1>2, <2>1 DEF Checks
  <2>2. CASE ~Forced
    <3>1. Fetches(5, 1)
      BY <1>2, <2>2 DEF Checks
    <3>2. 5 \in 1..5 /\ 1 \in 0..1
      OBVIOUS
    <3>3. Left \in 1 .. 5 + 1 + 3
      BY <1>1, <3>1, <3>2, FetchHead
    <3>4. /\ Left > 1 /\ Left <= 5 + 1 => Head(todo).op = "read"
          /\ Left = 5 + 1 + 1 => Head(todo).op = "write"
          /\ Left = 5 + 1 + 2 => Head(todo).op = "write"
          /\ Left = 5 + 1 + 3 => Head(todo).op = "reset"
      BY <1>1, <3>1, <3>2, FetchHead
    <3>5. Left = 1
      BY <1>1, <3>3, <3>4
    <3>6. Len(rx) = 5 /\ (steady => Sent)
      BY <3>1, <3>5 DEF Fetches
    <3>7. Sent => rx[5] = scratch[Field[5]]
      BY <3>6 DEF Sent
    <3>8. Field[5] = "conf"
      BY DEF Field
    <3> QED
      BY <3>6, <3>7, <3>8
  <2> QED
    BY <2>1, <2>2
<1>4. Sets'
  <2>1. CASE Forced \/ Differs
    <3>1. Remains(SetBack, 9)' /\ Left' = 9
      BY <2>1, SetCall DEF Decide
    <3> QED
      BY <1>1, <1>3, <3>1 DEF Sets
  <2>2. CASE ~Forced /\ ~Differs
    <3>1. todo' = <<>>
      BY <2>2 DEF Decide
    <3>2. Left' = 0
      BY <3>1 DEF Left
    <3>3. steady => scratch.conf = ConfigOf(Res)
      BY <1>3, <2>2 DEF Differs
    <3> QED
      BY <1>1, <1>3, <3>2, <3>3 DEF Sets, Remains
  <2> QED
    BY <2>1, <2>2
<1>5. gone' => AllOnes'
  <2>1. Opens(todo')
    <3>1. todo' = <<Reset>> \o WriteData(<<SKIP_ROM, WRITE_SP, Th, Tl, ConfigOf(Res)>>)
                    \o <<Reset>> \o WriteData(<<SKIP_ROM, COPY_SP>>) \/ todo' = <<>>
      BY DEF Decide
    <3> QED
      BY <3>1, CallsOpen
  <2>2. ~Doing("read")'
    BY <2>1 DEF Opens, Doing
  <2> QED
    BY <1>1, <2>2 DEF Told, AllOnes
<1> QED
  BY <1>1, <1>2, <1>4, <1>5 DEF Told, ReadingIsConverted

LEMMA ConvertTold == ASSUME InStep, Told, Convert PROVE Told'
<1>1. /\ pc = "wait" /\ todo = <<>>
      /\ UNCHANGED <<todo, n, data, rx, pc, reading, gone, steady>>
  BY DEF Convert, master
<1>2. Converts
  BY <1>1 DEF Told
<1>3. converted' = Sum'
  <2>1. CASE converted' = POWER_ON /\ scratch' = FromMemory(eeprom)
    <3>1. POWER_ON = (POWER_ON % 256) + 256 * (POWER_ON \div 256)
      BY DEF POWER_ON
    <3>2. scratch'.lo = POWER_ON % 256 /\ scratch'.hi = POWER_ON \div 256
      BY <2>1 DEF FromMemory
    <3> QED
      BY <2>1, <3>1, <3>2 DEF Sum
  <2>2. CASE converted' = temp /\ scratch' = [scratch EXCEPT !.lo = temp % 256, !.hi = temp \div 256]
    <3>1. temp \in Nat /\ scratch \in [lo : Byte, hi : Byte, th : Byte, tl : Byte, conf : Byte]
      <4>1. temp \in 0..(2^16 - 1)
        BY TempsAssumption DEF InStep, Typed, MemoryTyped
      <4>2. scratch \in [lo : Byte, hi : Byte, th : Byte, tl : Byte, conf : Byte]
        BY DEF InStep, Typed, MemoryTyped
      <4> QED
        BY <4>1, <4>2
    <3>2. scratch'.lo = temp % 256 /\ scratch'.hi = temp \div 256
      BY <2>2, <3>1
    <3> QED
      BY <2>2, <3>1, <3>2 DEF Sum
  <2> QED
    BY <2>1, <2>2 DEF Convert
<1>4. Left' = 0 /\ Left = 0
  BY <1>1 DEF Left
<1>5. Converts'
  BY <1>1, <1>2, <1>3, <1>4 DEF Converts, Remains
<1>6. gone' => AllOnes'
  BY <1>1 DEF Told, AllOnes, Doing
<1> QED
  BY <1>1, <1>5, <1>6 DEF Told, ReadingIsConverted

LEMMA EventTold == ASSUME Told, Interrupt \/ Restart \/ Plug \/ Warm \/ UNCHANGED vars PROVE Told'
<1>1. CASE Restart
  <2>1. /\ pc' = "boot" /\ todo' = <<>> /\ rx' = <<>> /\ steady' = FALSE /\ gone' = FALSE
    BY <1>1 DEF Restart
  <2> QED
    BY <2>1 DEF Told, ReadingIsConverted
<1>2. CASE Plug
  <2>1. UNCHANGED <<todo, n, data, rx, pc, reading>> /\ ~gone' /\ ~steady'
    BY <1>2 DEF Plug, master
  <2> QED
    BY <2>1, SameTold
<1>3. CASE Interrupt \/ Warm \/ UNCHANGED vars
  <2>1. UNCHANGED <<todo, n, data, rx, pc, reading, gone, steady, dstate, idx, dacc, scratch, converted>>
    BY <1>3 DEF Interrupt, Warm, vars, master, sensor
  <2> QED
    BY <2>1, SameTold
<1> QED
  BY <1>1, <1>2, <1>3

LEMMA NextTold ==
    ASSUME Served, Parasite, SampleAt \subseteq 5..84, \A h \in HoldFor : h >= 13,
           InStep, Told, [Next]_vars
    PROVE  Told'
<1>1. CASE ResetBus \/ WriteSlot \/ ReadSlot \/ DriveLow \/ StrongPullup
  BY <1>1, OperationTold
<1>2. CASE Boot \/ Start \/ Waited
  BY <1>2, BootTold, StartTold, WaitedTold
<1>3. CASE Store \/ Decide
  BY <1>3, StoreTold, DecideTold
<1>4. CASE Convert
  BY <1>4, ConvertTold
<1>5. CASE Interrupt \/ Restart \/ Plug \/ Warm \/ UNCHANGED vars
  BY <1>5, EventTold
<1> QED
  BY <1>1, <1>2, <1>3, <1>4, <1>5 DEF Next, Program

(* The bytes a call has read are five at most.                              *)
LEMMA FewBytes == ASSUME InStep, Told PROVE Len(rx) <= 5
<1>1. CASE pc \in {"boot", "read", "wait"}
  BY <1>1 DEF Told, Converts
<1>2. ASSUME NEW len \in {2, 5}, NEW after \in 0..1, Fetches(len, after) PROVE Len(rx) <= 5
  <2>1. Left \in Nat
    BY DEF Left, InStep, Typed, BusTyped
  <2> QED
    BY <1>2, <2>1 DEF Fetches
<1>3. CASE pc = "reading"
  BY <1>2, <1>3 DEF Told
<1>4. CASE pc = "configured"
  BY <1>2, <1>4 DEF Told, Checks, Sets
<1> QED
  BY <1>1, <1>3, <1>4 DEF InStep, Typed, ProgramTyped

LEMMA ToldImplies == ASSUME InStep, Told, PowerTyped PROVE SensorAsTold
<1>1. TypeOK
  <2>1. BusTyped /\ SensorTyped /\ MemoryTyped /\ ProgramTyped /\ Flags
    BY DEF InStep, Typed
  <2>2. /\ {strong, low, present, copies, steady, gone} \subseteq BOOLEAN
        /\ weak \in Nat /\ starved \subseteq {"convert", "copy"}
    <3>1. {strong, low, present, copies, steady, gone} \subseteq BOOLEAN
      BY <2>1, Zenon DEF Flags, PowerTyped
    <3> QED
      BY <3>1 DEF PowerTyped
  <2>3. reading \in 0..(2^16 - 1)
    <3>1. reading \in Nat /\ reading < 65536 /\ 2^16 = 65536
      BY <2>1 DEF ProgramTyped
    <3> QED
      BY <3>1
  <2>4. todo \in Seq([op : {"reset", "write", "read", "pullup", "decide"}, val : Byte])
    BY <2>1 DEF BusTyped, Op
  <2>5. /\ n \in 0..7 /\ data \in Byte /\ rx \in Seq(Byte) /\ Len(rx) <= 5 /\ presence \in 0..1
    BY <2>1, FewBytes DEF BusTyped
  <2>6. /\ dstate \in Listening \cup {"idle", "read", "converting"}
        /\ dcnt \in 0..7 /\ dacc \in Byte /\ took \in Byte /\ idx \in 0..4
    BY <2>1 DEF SensorTyped
  <2>7. /\ scratch \in [lo : Byte, hi : Byte, th : Byte, tl : Byte, conf : Byte]
        /\ eeprom \in [th : Byte, tl : Byte, conf : Byte]
    BY <2>1 DEF MemoryTyped
  <2>8. pc \in {"boot", "configured", "wait", "reading", "read"}
    BY <2>1 DEF ProgramTyped
  <2> QED
    BY <2>2, <2>3, <2>4, <2>5, <2>6, <2>7, <2>8 DEF TypeOK
<1>2. ReadingIsConverted
  BY DEF Told
<1>3. ConfigurationSet
  <2>1. SUFFICES ASSUME pc = "configured", todo = <<>>, steady PROVE scratch.conf = ConfigOf(Res)
    BY DEF ConfigurationSet
  <2>2. ~Checks
    <3>1. <<>> # <<Deciding>>
      OBVIOUS
    <3> QED
      BY <2>1, <3>1 DEF Checks
  <2>3. Sets /\ Left = 0
    BY <2>1, <2>2 DEF Told, Left
  <2> QED
    BY <2>1, <2>3 DEF Sets
<1> QED
  BY <1>1, <1>2, <1>3 DEF SensorAsTold

(* The temperature the program reads is the one the sensor converted since  *)
(* it was told to, all ones when there is no sensor, and after             *)
(* ds18b20_write_rom the sensor has the resolution asked for: for every     *)
(* temperature, resolution and timing a parasite powered sensor may have    *)
(* that looks at the line between 5 and 84 us into a slot and holds a 0     *)
(* until the program samples it (ds18b20_start_conversion,                  *)
(* ds18b20_read_scratchpad, ds18b20_write_rom).                             *)
THEOREM ToldSafe ==
    ASSUME Served, Parasite, SampleAt \subseteq 5..84, \A h \in HoldFor : h >= 13
    PROVE  Spec => []SensorAsTold
<1>1. Init => InStep /\ Told /\ IInv
  BY InitInStep, InitTold, InitInvariant
<1>2. InStep /\ Told /\ IInv /\ [Next]_vars => (InStep /\ Told /\ IInv)'
  BY NextInStep, NextTold, NextKeepsInvariant
<1>3. InStep /\ Told /\ IInv => SensorAsTold
  BY ToldImplies DEF IInv
<1> QED
  BY <1>1, <1>2, <1>3, PTL DEF Spec
=============================================================================
