----------------------------- MODULE SlipProofs -----------------------------
(***************************************************************************)
(* Slip for every packet, buffer length and ring: what is received is what *)
(* was sent, and a packet that lost nothing is received after any loss.    *)
(* SlipCrc for every content and length: the checksum finds a damaged byte *)
(* and no other.                                                           *)
(***************************************************************************)
EXTENDS Slip, SlipCrc, SequenceTheorems, TLAPS

(* slip_send: left is the end of the last packet.                           *)
Sending ==
    /\ spc # "idle" =>
           /\ sent # <<>> /\ Len(left) <= Len(sent[Len(sent)])
           /\ \A i \in 1..Len(left) : left[i] = sent[Len(sent)][Place - 1 + i]
    /\ spc = "second" => left # <<>> /\ Escaped(Head(left))

(* The character slip_send sends next.                                      *)
Coming ==
    [char |-> IF spc = "idle" \/ left = <<>> THEN END
              ELSE IF spc = "second" THEN Substitute(Head(left))
              ELSE IF Escaped(Head(left)) THEN ESC ELSE Head(left),
     of |-> IF spc = "idle" THEN Len(sent) + 1 ELSE Len(sent),
     at |-> IF spc = "idle" THEN 0 ELSE Place]

InData(x) == x.at \in 1..Len(sent[x.of])
Closes(x) == x.at = Len(sent[x.of]) + 1

(* A character is the one its packet has in its place.                      *)
WellFormed(x) ==
    /\ x.of \in 1..Len(sent)
    /\ InData(x) \/ x.at = 0 \/ Closes(x)
    /\ IF ~InData(x) THEN x.char = END
       ELSE IF Escaped(sent[x.of][x.at])
            THEN x.char \in {ESC, Substitute(sent[x.of][x.at])}
            ELSE x.char = sent[x.of][x.at]

(* y is the character of its packet behind x.                               *)
Follows(x, y) ==
    IF x.char = ESC THEN y.at = x.at /\ y.char # ESC
    ELSE /\ y.at = x.at + 1
         /\ InData(y) /\ Escaped(sent[y.of][y.at]) => y.char = ESC

(* y is what may come behind x on the line: what is missing between the two *)
(* is of packets that lost a character.                                     *)
Link(x, y) ==
    /\ x.of <= y.of
    /\ x.of = y.of /\ x.of \notin lost => Follows(x, y)
    /\ x.of < y.of => /\ y.of \notin lost => y.at = 0
                      /\ x.of # 0 /\ x.of \notin lost => Closes(x)
                      /\ \A p \in 1..Len(sent) : x.of < p /\ p < y.of => p \in lost

LastStored == IF queue = <<>> THEN c ELSE queue[Len(queue)]
Behind == IF wire = <<>> THEN Coming ELSE Head(wire).byte

Line == /\ Len(wire) <= 1 /\ lost \subseteq 1..Len(sent)
        /\ IF c.of = 0 THEN rpc = "take" ELSE WellFormed(c)
        /\ \A i \in 1..Len(queue) : WellFormed(queue[i])
        /\ wire # <<>> => WellFormed(Head(wire).byte)

Chain == /\ wire # <<>> => Link(Head(wire).byte, Coming)
         /\ Link(LastStored, Behind)
         /\ \A i \in 1..(Len(queue) - 1) : Link(queue[i], queue[i + 1])
         /\ queue # <<>> => Link(c, Head(queue))

(* A packet whose first character a pending escape does not change.         *)
Plainly(p) == lost = {} \/ Head(sent[p]) \notin {ESC_END, ESC_ESC}

(* The buffer holds the first k characters of packet p, or what fits.       *)
Holds(p, k) == /\ Len(buff) = IF k < BufLen THEN k ELSE BufLen
               /\ \A i \in 1..Len(buff) : buff[i] = sent[p][i]

(* The second of two characters that stand for one.                         *)
Second(x) == InData(x) /\ Escaped(sent[x.of][x.at]) /\ x.char # ESC

(* The buffer and escape when x has been looked at.                         *)
Processed(x) ==
    /\ x.of = 0 => buff = <<>> /\ ~escape
    /\ x.of # 0 /\ x.of \notin lost =>
           IF InData(x)
           THEN /\ escape = (x.char = ESC)
                /\ Plainly(x.of) => Holds(x.of, IF x.char = ESC THEN x.at - 1 ELSE x.at)
           ELSE buff = <<>> /\ (lost = {} => ~escape)

(* The same when x is to be looked at.                                      *)
Pending(x) ==
    x.of \notin lost =>
        IF x.at = 0 THEN lost = {} => buff = <<>> /\ ~escape
        ELSE /\ sent[x.of] # <<>> /\ Plainly(x.of) => Holds(x.of, x.at - 1)
             /\ sent[x.of] = <<>> => buff = <<>>
             /\ x.at > 1 \/ lost = {} \/ Second(x) => escape = Second(x)

Receiving == IF rpc = "take" THEN Processed(c) ELSE Pending(c)

(* The packets before the one that is received, and that one at its end.    *)
Past(p) == p < c.of \/ (p = c.of /\ rpc = "take" /\ Closes(c))

PastReceived == \A p \in Intact : Past(p) /\ Plainly(p) => IsReceived(p)

GotInOrder ==
    lost = {} =>
        /\ \A j \in 1..Len(got) : /\ got[j].of \in Deliverable /\ Past(got[j].of)
                                  /\ got[j].data = Truncated(sent[got[j].of])
        /\ \A j \in 1..Len(got), k \in 1..Len(got) : j < k => got[j].of < got[k].of

IInv == /\ TypeOK /\ Sending /\ Line /\ Chain
        /\ Receiving /\ PastReceived /\ GotInOrder

-----------------------------------------------------------------------------
(* Types. *)

LEMMA PacketType ==
    ASSUME NEW d \in Packet
    PROVE  /\ d \in Seq(Data) /\ d \in Seq(Char) /\ Len(d) \in 0..MaxLen
           /\ \A i \in 1..Len(d) : d[i] \in Data /\ d[i] \in Char
<1>1. PICK l \in 0..MaxLen : d \in [1..l -> Data]
  BY DEF Packet
<1>2. d \in Seq(Data) /\ Len(d) = l
  BY <1>1, SizeAssumption
<1>3. \A i \in 1..Len(d) : d[i] \in Data
  BY <1>1, <1>2
<1>4. d \in Seq(Char)
  <2>1. d \in [1..l -> Char]
    BY <1>1, CharAssumption
  <2> QED
    BY <2>1, SizeAssumption
<1> QED
  BY <1>2, <1>3, <1>4, CharAssumption

LEMMA SentType ==
    ASSUME TypeOK, NEW p \in 1..Len(sent)
    PROVE  /\ sent[p] \in Packet /\ Len(sent[p]) \in 0..MaxLen
           /\ sent[p] \in Seq(Data)
           /\ \A i \in 1..Len(sent[p]) : sent[p][i] \in Data /\ sent[p][i] \in Char
<1>1. sent[p] \in Packet
  BY DEF TypeOK
<1> QED
  BY <1>1, PacketType

LEMMA InitInvariant == Init => IInv
<1> SUFFICES ASSUME Init PROVE IInv
  OBVIOUS
<1> USE DEF Init
<1>1. Len(sent) = 0 /\ Len(queue) = 0 /\ Len(got) = 0 /\ Len(wire) = 0 /\ Len(left) = 0 /\ Len(buff) = 0
  OBVIOUS
<1>2. TypeOK
  <2>1. c \in Tagged
    BY SizeAssumption DEF Tagged, Char, Special
  <2>4. \A S : <<>> \in Seq(S)
    OBVIOUS
  <2>2. /\ sent \in Seq(Packet) /\ left \in Seq(Data) /\ wire \in Seq(Ring!Frame)
          /\ queue \in Seq(Tagged) /\ buff \in Seq(Char)
          /\ got \in Seq([data : Seq(Char), of : 0..Packets])
    BY <2>4
  <2>3. Len(sent) <= Packets /\ Len(queue) <= Capacity /\ Len(buff) <= BufLen
    BY <1>1, SizeAssumption
  <2> QED
    BY <2>1, <2>2, <2>3 DEF TypeOK
<1>3. Sending /\ Line
  BY <1>1 DEF Sending, Line
<1>4. Coming = [char |-> END, of |-> 1, at |-> 0]
  BY <1>1 DEF Coming
<1>5. Chain
  BY <1>1, <1>4 DEF Chain, LastStored, Behind, Link
<1>6. Receiving /\ PastReceived /\ GotInOrder
  BY <1>1 DEF Receiving, Processed, PastReceived, GotInOrder, Intact, Deliverable
<1> QED
  BY <1>2, <1>3, <1>5, <1>6 DEF IInv

-----------------------------------------------------------------------------
(* slip_send. *)

(* sent1 begins with sent: what is said of the packets of sent stays.        *)
Extends == /\ Len(sent) <= Len(sent') /\ Len(sent') \in Nat
           /\ \A p \in 1..Len(sent) : sent'[p] = sent[p]

(* A packet more changes nothing for the characters of those before.        *)
LEMMA OldPackets ==
    ASSUME Extends, UNCHANGED lost, Len(sent) \in Nat,
           NEW x, x.of \in 0..Len(sent), NEW y, y.of \in 1..(Len(sent) + 1)
    PROVE  /\ x.of # 0 => (WellFormed(x) => WellFormed(x)')
           /\ x.of # 0 => Closes(x)' = Closes(x) /\ InData(x)' = InData(x)
           /\ Link(x, y) => Link(x, y)'
<1>1. ASSUME x.of # 0
      PROVE  sent'[x.of] = sent[x.of] /\ x.of \in 1..Len(sent) /\ x.of \in 1..Len(sent')
  BY <1>1 DEF Extends
<1>2. ASSUME x.of # 0
      PROVE  Closes(x)' = Closes(x) /\ InData(x)' = InData(x)
  BY <1>1, <1>2 DEF Closes, InData
<1>3. ASSUME x.of # 0, WellFormed(x)
      PROVE  WellFormed(x)'
  BY <1>1, <1>2, <1>3 DEF WellFormed
<1>4. ASSUME Link(x, y)
      PROVE  Link(x, y)'
  <2>1. ASSUME x.of = y.of, x.of \notin lost
        PROVE  Follows(x, y)'
    <3>1. Follows(x, y)
      BY <1>4, <2>1 DEF Link
    <3> QED
      BY <3>1, <1>1, <2>1 DEF Follows, InData
  <2>2. ASSUME x.of < y.of
        PROVE  /\ y.of \notin lost => y.at = 0
               /\ x.of # 0 /\ x.of \notin lost => Closes(x)'
               /\ \A p \in 1..Len(sent') : x.of < p /\ p < y.of => p \in lost
    BY <1>2, <1>4, <2>2 DEF Link, Extends
  <2> QED
    BY <1>4, <2>1, <2>2 DEF Link
<1> QED
  BY <1>2, <1>3, <1>4

(* What is known of the numbers of the packets on the line.                 *)
LEMMA Numbers ==
    ASSUME IInv
    PROVE  /\ Len(sent) \in Nat /\ c.of \in 0..Len(sent) /\ c.at \in Nat
           /\ \A i \in 1..Len(queue) : queue[i].of \in 1..Len(sent)
           /\ LastStored.of \in 0..Len(sent)
           /\ wire # <<>> => Head(wire).byte.of \in 1..Len(sent)
           /\ Coming.of \in 1..(Len(sent) + 1) /\ Behind.of \in 1..(Len(sent) + 1)
<1>1. Len(sent) \in Nat /\ Len(queue) \in Nat
  BY DEF IInv, TypeOK
<1>2. c.of \in 0..Len(sent) /\ c.at \in Nat
  <2>1. c \in Tagged /\ (c.of # 0 => c.of \in 1..Len(sent))
    BY DEF IInv, Line, WellFormed, TypeOK
  <2> QED
    BY <1>1, <2>1 DEF Tagged
<1>3. \A i \in 1..Len(queue) : queue[i].of \in 1..Len(sent)
  BY DEF IInv, Line, WellFormed
<1>4. LastStored.of \in 0..Len(sent)
  <2>1. queue # <<>> => Len(queue) \in 1..Len(queue)
    BY <1>1, EmptySeq DEF IInv, TypeOK
  <2> QED
    BY <1>1, <1>2, <1>3, <2>1 DEF LastStored
<1>5. wire # <<>> => Head(wire).byte.of \in 1..Len(sent)
  BY DEF IInv, Line, WellFormed
<1>6. Coming.of \in 1..(Len(sent) + 1)
  <2>1. spc # "idle" => Len(sent) > 0
    BY <1>1, EmptySeq DEF IInv, Sending, TypeOK
  <2> QED
    BY <1>1, <2>1 DEF Coming
<1> QED
  BY <1>1, <1>2, <1>3, <1>4, <1>5, <1>6 DEF Behind

(* What slip_recv holds and returned concerns packets that were sent before *)
(* the one that is sent now.                                                *)
LEMMA ReceiverKept ==
    ASSUME IInv, Extends, UNCHANGED <<c, receiver, lost>>
    PROVE  Receiving' /\ PastReceived' /\ GotInOrder'
<1>1. Len(sent) \in Nat /\ c.of \in 0..Len(sent) /\ c.at \in Nat
  BY Numbers
<1>2. \A p \in 1..Len(sent) : sent'[p] = sent[p] /\ p \in 1..Len(sent')
  BY <1>1 DEF Extends
<1>3. UNCHANGED <<escape, buff, rpc, got>>
  BY DEF receiver
<1>4. ASSUME NEW p \in 1..Len(sent)
      PROVE  /\ Past(p)' = Past(p) /\ Plainly(p)' = Plainly(p) /\ IsReceived(p)' = IsReceived(p)
             /\ (p \in Deliverable') = (p \in Deliverable)
             /\ (p \in Intact') = (p \in Intact)
             /\ Truncated(sent'[p]) = Truncated(sent[p])
             /\ \A k : Holds(p, k)' = Holds(p, k)
  <2>1. sent'[p] = sent[p] /\ p \in 1..Len(sent')
    BY <1>2
  <2>2. Past(p)' = Past(p)
    <3>1. CASE p = c.of
      BY <2>1, <1>3, <3>1 DEF Past, Closes
    <3>2. CASE p # c.of
      BY <2>1, <1>3, <3>2 DEF Past
    <3> QED
      BY <3>1, <3>2
  <2>3. Plainly(p)' = Plainly(p) /\ IsReceived(p)' = IsReceived(p)
    BY <2>1, <1>3 DEF Plainly, IsReceived
  <2>4. (p \in Deliverable') = (p \in Deliverable) /\ (p \in Intact') = (p \in Intact)
    BY <2>1 DEF Deliverable, Intact
  <2>5. \A k : Holds(p, k)' = Holds(p, k)
    BY <2>1, <1>3 DEF Holds
  <2> QED
    BY <2>1, <2>2, <2>3, <2>4, <2>5
<1>5. Receiving'
  <2>1. CASE c.of = 0
    BY <2>1, <1>3 DEF Receiving, Processed, IInv, Line
  <2>2. CASE c.of # 0
    <3>1. c.of \in 1..Len(sent)
      BY <2>2, <1>1
    <3>2. sent'[c.of] = sent[c.of] /\ Plainly(c.of)' = Plainly(c.of)
          /\ \A k : Holds(c.of, k)' = Holds(c.of, k)
      BY <1>2, <1>4, <3>1
    <3>3. InData(c)' = InData(c) /\ Second(c)' = Second(c)
      BY <3>2 DEF InData, Second
    <3>4. Processed(c) => Processed(c)'
      BY <3>2, <3>3, <1>3, <2>2 DEF Processed
    <3>5. Pending(c) => Pending(c)'
      BY <3>2, <3>3, <1>3, <2>2 DEF Pending
    <3> QED
      BY <3>4, <3>5, <1>3 DEF Receiving, IInv
  <2> QED
    BY <2>1, <2>2
<1>6. PastReceived'
  <2> SUFFICES ASSUME NEW p \in Intact', Past(p)', Plainly(p)'
               PROVE  IsReceived(p)'
    BY DEF PastReceived
  <2>1. p \in 1..Len(sent)
    BY <1>1 DEF Past, Intact, Deliverable, Extends
  <2> QED
    BY <2>1, <1>4 DEF IInv, PastReceived
<1>7. GotInOrder'
  <2> SUFFICES ASSUME lost = {} PROVE GotInOrder'
    BY DEF GotInOrder
  <2>1. \A j \in 1..Len(got) : got[j].of \in 1..Len(sent)
    BY DEF IInv, GotInOrder, Deliverable
  <2>2. ASSUME NEW j \in 1..Len(got), NEW q, q = got[j].of
        PROVE  /\ q \in Deliverable' /\ Past(q)'
               /\ got[j].data = Truncated(sent'[q])
    <3>1. /\ q \in Deliverable /\ Past(q) /\ q \in 1..Len(sent)
          /\ got[j].data = Truncated(sent[q])
      BY <2>1, <2>2 DEF IInv, GotInOrder
    <3> QED
      BY <3>1, <1>4
  <2> QED
    BY <2>2, <1>3 DEF IInv, GotInOrder
<1> QED
  BY <1>5, <1>6, <1>7

(* SLIP_CHAR_SEND of the character that comes next, y; z comes after it.    *)
LEMMA SendKeeps ==
    ASSUME IInv, wire = <<>>, Extends, UNCHANGED <<queue, clearing, c, receiver, lost>>,
           sent' \in Seq(Packet), Len(sent') <= Packets, left' \in Seq(Data),
           spc' \in {"idle", "data", "second"}, Sending',
           NEW y \in Tagged, y = Coming, WellFormed(y)', NEW z, z = Coming', Link(y, z)',
           NEW d \in BOOLEAN, wire' = <<[byte |-> y, damaged |-> d]>>
    PROVE  IInv'
<1>1. TypeOK'
  <2>1. wire' \in Seq(Ring!Frame)
    BY DEF Ring!Frame
  <2>2. lost \subseteq 1..Packets /\ clearing = FALSE /\ c \in Tagged
    BY DEF IInv, TypeOK
  <2>3. /\ queue \in Seq(Tagged) /\ Len(queue) <= Capacity
        /\ escape \in BOOLEAN /\ buff \in Seq(Char) /\ Len(buff) <= BufLen
        /\ rpc \in {"take", "switch"}
        /\ got \in Seq([data : Seq(Char), of : 0..Packets])
    BY DEF IInv, TypeOK
  <2> QED
    BY <2>1, <2>2, <2>3 DEF TypeOK, receiver
<1>2. Line'
  <2>1. Len(wire') = 1 /\ Head(wire').byte = y
    OBVIOUS
  <2>2. lost \subseteq 1..Len(sent')
    BY DEF IInv, Line, Extends
  <2>3. ASSUME c.of # 0 PROVE WellFormed(c)'
    BY <2>3, Numbers, OldPackets DEF IInv, Line
  <2>4. ASSUME NEW i \in 1..Len(queue), NEW x, x = queue[i] PROVE WellFormed(x)'
    <3>1. WellFormed(x)
      BY <2>4 DEF IInv, Line
    <3>2. x.of \in 1..Len(sent)
      BY <3>1 DEF WellFormed
    <3> QED
      BY <3>1, <3>2, Numbers, OldPackets
  <2>5. c.of = 0 => rpc = "take"
    BY DEF IInv, Line
  <2> QED
    BY <2>1, <2>2, <2>3, <2>4, <2>5 DEF Line, receiver
<1>3. Chain'
  <2>1. Head(wire').byte = y /\ wire' # <<>>
    OBVIOUS
  <2>2. LastStored' = LastStored /\ Behind' = y
    BY <2>1 DEF LastStored, Behind
  <2>3. Link(LastStored, y)'
    <3>1. Link(LastStored, y)
      BY DEF IInv, Chain, Behind
    <3>2. LastStored.of \in 0..Len(sent) /\ y.of \in 1..(Len(sent) + 1) /\ Len(sent) \in Nat
      BY Numbers
    <3> DEFINE x == LastStored
    <3> HIDE DEF x
    <3>3. Link(x, y) /\ x.of \in 0..Len(sent)
      BY <3>1, <3>2 DEF x
    <3>4. x = LastStored'
      BY <2>2 DEF x
    <3> QED
      BY <3>2, <3>3, <3>4, OldPackets
  <2>4. ASSUME NEW i \in 1..(Len(queue) - 1),
               NEW x, x = queue[i], NEW x2, x2 = queue[i + 1]
        PROVE  Link(x, x2)'
    <3>1. Link(x, x2)
      BY <2>4 DEF IInv, Chain
    <3>2. i \in 1..Len(queue) /\ i + 1 \in 1..Len(queue)
      BY DEF IInv, TypeOK
    <3>3. x.of \in 1..Len(sent) /\ x2.of \in 1..Len(sent) /\ Len(sent) \in Nat
      BY <2>4, <3>2, Numbers
    <3>4. x.of \in 0..Len(sent) /\ x2.of \in 1..(Len(sent) + 1) /\ Len(sent) \in Nat
      BY <3>3
    <3>5. UNCHANGED lost
      OBVIOUS
    <3> QED
      BY <3>1, <3>4, <3>5, OldPackets
  <2>5. ASSUME queue # <<>> PROVE Link(c, Head(queue))'
    <3>1. Link(c, Head(queue)) /\ 1 \in 1..Len(queue) /\ Head(queue) = queue[1]
      BY <2>5, EmptySeq DEF IInv, Chain, TypeOK
    <3> QED
      BY <3>1, Numbers, OldPackets
  <2> QED
    BY <2>1, <2>2, <2>3, <2>4, <2>5 DEF Chain
<1>4. Receiving' /\ PastReceived' /\ GotInOrder'
  BY ReceiverKept
<1> QED
  BY <1>1, <1>2, <1>3, <1>4 DEF IInv

(* Where slip_send is in the packet.                                        *)
LEMMA SendPlace ==
    ASSUME TypeOK, Sending, spc # "idle", NEW n, n = Len(sent)
    PROVE  /\ n \in 1..Len(sent) /\ Len(sent[n]) \in 0..MaxLen
           /\ Place \in 1..(Len(sent[n]) + 1)
           /\ left = <<>> => Place = Len(sent[n]) + 1
           /\ left # <<>> => /\ Place \in 1..Len(sent[n])
                             /\ Head(left) = sent[n][Place] /\ Head(left) \in Char
                             /\ Tail(left) \in Seq(Data) /\ Len(Tail(left)) = Len(left) - 1
                             /\ \A i \in 1..Len(Tail(left)) :
                                    Tail(left)[i] = sent[n][Place + i]
<1>1. Len(sent) \in Nat /\ Len(sent) > 0 /\ Len(left) \in Nat
  BY EmptySeq DEF TypeOK, Sending
<1>2. n \in 1..Len(sent)
  BY <1>1
<1>3. Len(sent[n]) \in 0..MaxLen
  BY <1>2, SentType
<1>4. Place = Len(sent[n]) - Len(left) + 1 /\ Len(left) <= Len(sent[n])
  BY DEF Place, Sending
<1>5. ASSUME left # <<>>
      PROVE  /\ Place \in 1..Len(sent[n])
             /\ Head(left) = sent[n][Place] /\ Head(left) \in Char
             /\ Tail(left) \in Seq(Data) /\ Len(Tail(left)) = Len(left) - 1
             /\ \A i \in 1..Len(Tail(left)) : Tail(left)[i] = sent[n][Place + i]
  <2>1. Len(left) > 0 /\ left \in Seq(Data)
    BY <1>5, EmptySeq DEF TypeOK
  <2>2. \A i \in 1..Len(left) : left[i] = sent[n][Place - 1 + i]
    BY DEF Sending
  <2>3. /\ Tail(left) \in Seq(Data) /\ Len(Tail(left)) = Len(left) - 1 /\ Head(left) = left[1]
        /\ \A i \in 1..Len(Tail(left)) : Tail(left)[i] = left[i + 1]
    BY <1>5, <2>1, HeadTailProperties
  <2>4. Place \in 1..Len(sent[n])
    BY <1>1, <1>3, <1>4, <2>1
  <2>5. Head(left) = sent[n][Place]
    <3>1. left[1] = sent[n][Place - 1 + 1]
      BY <2>1, <2>2, <1>1
    <3>2. Place - 1 + 1 = Place
      BY <2>4
    <3> QED
      BY <2>3, <3>1, <3>2
  <2>6. ASSUME NEW i \in 1..Len(Tail(left)) PROVE Tail(left)[i] = sent[n][Place + i]
    <3>1. i + 1 \in 1..Len(left) /\ Place - 1 + (i + 1) = Place + i
      BY <2>3, <2>4, <1>1
    <3> QED
      BY <2>2, <2>3, <3>1
  <2>7. Head(left) \in Char
    BY <1>2, <2>4, <2>5, SentType
  <2> QED
    BY <2>3, <2>4, <2>5, <2>6, <2>7
<1>6. Place \in 1..(Len(sent[n]) + 1)
  BY <1>1, <1>3, <1>4
<1>7. left = <<>> => Place = Len(sent[n]) + 1
  <2>1. left = <<>> => Len(left) = 0
    BY EmptySeq
  <2> QED
    BY <1>3, <1>4, <2>1
<1> QED
  BY <1>2, <1>3, <1>5, <1>6, <1>7, Zenon

LEMMA SendStartKeeps == IInv /\ SendStart => IInv'
<1> SUFFICES ASSUME IInv, SendStart PROVE IInv'
  OBVIOUS
<1>1. PICK d \in Packet : sent' = Append(sent, d) /\ left' = d
  BY DEF SendStart
<1>2. /\ sent \in Seq(Packet) /\ Len(sent) \in Nat /\ Len(sent) < Packets
      /\ spc = "idle" /\ spc' = "data" /\ wire = <<>>
      /\ UNCHANGED <<queue, clearing, c, receiver, lost>>
  BY DEF SendStart, Send, IInv, TypeOK
<1>a. PICK n : n = Len(sent) + 1
  OBVIOUS
<1>b. PICK y : y = [char |-> END, of |-> n, at |-> 0]
  OBVIOUS
<1>c. PICK z : z = Coming'
  OBVIOUS
<1>3. /\ sent' \in Seq(Packet) /\ Len(sent') = n /\ sent'[n] = d
      /\ \A p \in 1..Len(sent) : sent'[p] = sent[p]
  BY <1>a, <1>1, <1>2, AppendProperties
<1>4. d \in Seq(Data) /\ Len(d) \in Nat /\ (d # <<>> <=> Len(d) > 0) /\ (d # <<>> => Head(d) = d[1])
  BY PacketType, EmptySeq
<1>5. Extends
  BY <1>a, <1>2, <1>3 DEF Extends
<1>6. Place' = 1
  BY <1>1, <1>2, <1>3, <1>4 DEF Place
<1>7. Sending'
  <2>1. sent' # <<>>
    BY <1>a, <1>2, <1>3, EmptySeq
  <2>2. \A i \in 1..Len(left') : left'[i] = sent'[Len(sent')][Place' - 1 + i]
    BY <1>1, <1>3, <1>4, <1>6
  <2> QED
    BY <2>1, <2>2, <1>1, <1>2, <1>3, <1>4 DEF Sending
<1>8. PICK b \in BOOLEAN : wire' = <<[byte |-> y, damaged |-> b]>>
  BY <1>b, <1>2, <1>3 DEF SendStart, Send
<1>9. y = Coming /\ y \in Tagged
  BY <1>a, <1>b, <1>2, SizeAssumption DEF Coming, Tagged, Char, Special
<1>10. WellFormed(y)'
  BY <1>a, <1>b, <1>2, <1>3, <1>4 DEF WellFormed, InData
<1>11. /\ z.of = n /\ z.at = 1
       /\ d # <<>> => z.char = IF Escaped(d[1]) THEN ESC ELSE d[1]
  BY <1>c, <1>1, <1>2, <1>3, <1>4, <1>6 DEF Coming
<1>12. Link(y, z)'
  <2>1. InData(z)' => d # <<>>
    BY <1>3, <1>4, <1>11 DEF InData
  <2>2. y.char # ESC
    BY <1>b, CharAssumption
  <2>3. Follows(y, z)'
    BY <1>b, <1>3, <1>4, <1>11, <2>1, <2>2 DEF Follows
  <2> QED
    BY <1>a, <1>b, <1>2, <1>11, <2>3 DEF Link
<1>13. Len(sent') <= Packets /\ left' \in Seq(Data) /\ spc' \in {"idle", "data", "second"}
  BY <1>a, <1>1, <1>2, <1>3, <1>4, SizeAssumption
<1> QED
  BY <1>c, <1>2, <1>3, <1>5, <1>7, <1>8, <1>9, <1>10, <1>12, <1>13, SendKeeps

(* The last character of a byte is sent: the next byte follows, or the END. *)
LEMMA NextByte ==
    ASSUME TypeOK, Sending, spc # "idle", left # <<>>, UNCHANGED sent, left' = Tail(left), spc' = "data",
           NEW y, y.of = Len(sent), y.at = Place, y.char # ESC, NEW z, z = Coming'
    PROVE  Sending' /\ Link(y, z)'
<1>1. PICK n : n = Len(sent)
  OBVIOUS
<1>2. /\ n \in 1..Len(sent) /\ Len(sent[n]) \in 0..MaxLen
      /\ Place \in 1..Len(sent[n])
      /\ Tail(left) \in Seq(Data) /\ Len(Tail(left)) = Len(left) - 1
      /\ \A i \in 1..Len(Tail(left)) : Tail(left)[i] = sent[n][Place + i]
  BY <1>1, SendPlace
<1>3. Len(sent') = n /\ Len(sent[n]) \in Nat /\ Len(left) \in Nat /\ Len(left) <= Len(sent[n]) /\ sent # <<>>
  BY <1>1, <1>2, SizeAssumption DEF Sending, TypeOK
<1>4. Place' = Place + 1
  BY <1>1, <1>2, <1>3 DEF Place
<1>5. Sending'
  <2>1. \A i \in 1..Len(left') : left'[i] = sent'[Len(sent')][Place' - 1 + i]
    BY <1>1, <1>2, <1>4
  <2> QED
    BY <1>1, <1>2, <1>3, <2>1 DEF Sending
<1>6. z.of = n /\ z.at = Place + 1
  BY <1>1, <1>4 DEF Coming
<1>7. ASSUME InData(z)', Escaped(sent'[z.of][z.at])
      PROVE  z.char = ESC
  <2>1. Place + 1 \in 1..Len(sent[n])
    BY <1>6, <1>7 DEF InData
  <2>2. Len(left) = Len(sent[n]) - Place + 1
    BY <1>1, <1>2, <1>3 DEF Place
  <2>3. 1 \in 1..Len(Tail(left))
    BY <1>2, <2>1, <2>2
  <2>4. Tail(left)[1] = sent[n][Place + 1] /\ Tail(left) # <<>> /\ Head(Tail(left)) = Tail(left)[1]
    <3>1. Tail(left)[1] = sent[n][Place + 1]
      BY <1>2, <2>3
    <3>2. Len(Tail(left)) > 0
      BY <1>2, <2>3
    <3>3. \A t \in Seq(Data) : Len(t) > 0 => t # <<>> /\ Head(t) = t[1]
      BY EmptySeq
    <3> QED
      BY <1>2, <3>1, <3>2, <3>3
  <2> QED
    BY <1>6, <1>7, <2>4 DEF Coming
<1> QED
  BY <1>1, <1>2, <1>5, <1>6, <1>7 DEF Link, Follows

LEMMA SendDataKeeps == IInv /\ SendData => IInv'
<1> SUFFICES ASSUME IInv, SendData PROVE IInv'
  OBVIOUS
<1>1. PICK n, y, z : n = Len(sent) /\ y = Coming /\ z = Coming'
  OBVIOUS
<1>2. /\ spc = "data" /\ left # <<>> /\ sent' = sent /\ wire = <<>>
      /\ UNCHANGED <<queue, clearing, c, receiver, lost>>
  BY DEF SendData, Send
<1>3. TypeOK /\ Sending
  BY DEF IInv
<1>4. /\ n \in 1..Len(sent) /\ Len(sent[n]) \in 0..MaxLen
      /\ Place \in 1..Len(sent[n]) /\ Head(left) = sent[n][Place] /\ Head(left) \in Char
      /\ Tail(left) \in Seq(Data)
  BY <1>1, <1>2, <1>3, SendPlace
<1>5. /\ sent \in Seq(Packet) /\ Len(sent) <= Packets /\ Len(sent) \in Nat
      /\ left \in Seq(Data) /\ Packets \in Nat /\ MaxLen \in Nat
  BY <1>3, SizeAssumption DEF TypeOK
<1>6. Extends
  BY <1>2, <1>5 DEF Extends
<1>7. y = [char |-> IF Escaped(Head(left)) THEN ESC ELSE Head(left), of |-> n, at |-> Place]
  BY <1>1, <1>2 DEF Coming
<1>8. y \in Tagged
  BY <1>1, <1>4, <1>5, <1>7 DEF Tagged, Char, Special
<1>9. WellFormed(y)'
  BY <1>2, <1>4, <1>7 DEF WellFormed, InData
<1>10. PICK b \in BOOLEAN : wire' = <<[byte |-> y, damaged |-> b]>>
  BY <1>1, <1>2, <1>7 DEF SendData, Send
<1>11. CASE Escaped(Head(left))
  <2>1. spc' = "second" /\ left' = left
    BY <1>11 DEF SendData
  <2>2. Sending'
    BY <1>2, <1>3, <1>11, <2>1 DEF Sending, Place
  <2>3. z = [char |-> Substitute(Head(left)), of |-> n, at |-> Place]
    BY <1>1, <1>2, <2>1 DEF Coming, Place
  <2>4. Follows(y, z)'
    BY <1>7, <1>11, <2>3, CharAssumption DEF Follows, Substitute
  <2>5. Link(y, z)'
    BY <1>4, <1>7, <2>3, <2>4 DEF Link
  <2>6. left' \in Seq(Data) /\ spc' \in {"idle", "data", "second"}
    BY <1>5, <2>1
  <2> QED
    BY <1>1, <1>2, <1>5, <1>6, <1>8, <1>9, <1>10, <2>2, <2>5, <2>6, SendKeeps
<1>12. CASE ~Escaped(Head(left))
  <2>1. spc' = "data" /\ left' = Tail(left)
    BY <1>2, <1>12 DEF SendData
  <2>2. y.of = Len(sent) /\ y.at = Place /\ y.char # ESC
    BY <1>1, <1>7, <1>12 DEF Escaped
  <2>3. Sending' /\ Link(y, z)'
    BY <1>1, <1>2, <1>3, <2>1, <2>2, NextByte
  <2>4. left' \in Seq(Data) /\ spc' \in {"idle", "data", "second"}
    BY <1>4, <2>1
  <2> QED
    BY <1>1, <1>2, <1>5, <1>6, <1>8, <1>9, <1>10, <2>3, <2>4, SendKeeps
<1> QED
  BY <1>11, <1>12

LEMMA SendSecondKeeps == IInv /\ SendSecond => IInv'
<1> SUFFICES ASSUME IInv, SendSecond PROVE IInv'
  OBVIOUS
<1>1. PICK n, y, z : n = Len(sent) /\ y = Coming /\ z = Coming'
  OBVIOUS
<1>2. /\ spc = "second" /\ sent' = sent /\ wire = <<>> /\ spc' = "data" /\ left' = Tail(left)
      /\ UNCHANGED <<queue, clearing, c, receiver, lost>>
  BY DEF SendSecond, Send
<1>3. TypeOK /\ Sending /\ left # <<>> /\ Escaped(Head(left))
  BY <1>2 DEF IInv, Sending
<1>4. /\ n \in 1..Len(sent) /\ Len(sent[n]) \in 0..MaxLen
      /\ Place \in 1..Len(sent[n]) /\ Head(left) = sent[n][Place] /\ Head(left) \in Char
      /\ Tail(left) \in Seq(Data)
  BY <1>1, <1>2, <1>3, SendPlace
<1>5. /\ sent \in Seq(Packet) /\ Len(sent) <= Packets /\ Len(sent) \in Nat
      /\ Packets \in Nat /\ MaxLen \in Nat
  BY <1>3, SizeAssumption DEF TypeOK
<1>6. Extends
  BY <1>2, <1>5 DEF Extends
<1>7. y = [char |-> Substitute(Head(left)), of |-> n, at |-> Place]
  BY <1>1, <1>2, <1>3 DEF Coming
<1>8. y \in Tagged
  BY <1>1, <1>4, <1>5, <1>7 DEF Tagged, Char, Special, Substitute
<1>9. WellFormed(y)'
  BY <1>2, <1>3, <1>4, <1>7 DEF WellFormed, InData
<1>10. PICK b \in BOOLEAN : wire' = <<[byte |-> y, damaged |-> b]>>
  BY <1>1, <1>2, <1>7 DEF SendSecond, Send
<1>11. y.of = Len(sent) /\ y.at = Place /\ y.char # ESC
  BY <1>1, <1>7, CharAssumption DEF Substitute
<1>12. Sending' /\ Link(y, z)'
  BY <1>1, <1>2, <1>3, <1>11, NextByte
<1>13. left' \in Seq(Data) /\ spc' \in {"idle", "data", "second"}
  BY <1>2, <1>4
<1> QED
  BY <1>1, <1>2, <1>5, <1>6, <1>8, <1>9, <1>10, <1>12, <1>13, SendKeeps

LEMMA SendEndKeeps == IInv /\ SendEnd => IInv'
<1> SUFFICES ASSUME IInv, SendEnd PROVE IInv'
  OBVIOUS
<1>1. PICK n, y, z : n = Len(sent) /\ y = Coming /\ z = Coming'
  OBVIOUS
<1>2. /\ spc = "data" /\ left = <<>> /\ sent' = sent /\ wire = <<>> /\ spc' = "idle" /\ left' = left
      /\ UNCHANGED <<queue, clearing, c, receiver, lost>>
  BY DEF SendEnd, Send
<1>3. TypeOK /\ Sending
  BY DEF IInv
<1>4. n \in 1..Len(sent) /\ Len(sent[n]) \in 0..MaxLen /\ Place = Len(sent[n]) + 1
  BY <1>1, <1>2, <1>3, SendPlace
<1>5. /\ sent \in Seq(Packet) /\ Len(sent) <= Packets /\ Len(sent) \in Nat
      /\ left \in Seq(Data) /\ Packets \in Nat /\ MaxLen \in Nat
  BY <1>3, SizeAssumption DEF TypeOK
<1>6. Extends
  BY <1>2, <1>5 DEF Extends
<1>7. y = [char |-> END, of |-> n, at |-> Place]
  BY <1>1, <1>2 DEF Coming
<1>8. y \in Tagged
  BY <1>1, <1>4, <1>5, <1>7 DEF Tagged, Char, Special
<1>9. WellFormed(y)' /\ Closes(y)'
  BY <1>2, <1>4, <1>7 DEF WellFormed, InData, Closes
<1>10. PICK b \in BOOLEAN : wire' = <<[byte |-> y, damaged |-> b]>>
  BY <1>1, <1>2, <1>7 DEF SendEnd, Send
<1>11. z.of = n + 1 /\ z.at = 0
  BY <1>1, <1>2 DEF Coming
<1>12. Link(y, z)'
  BY <1>4, <1>7, <1>9, <1>11 DEF Link
<1>13. Sending' /\ left' \in Seq(Data) /\ spc' \in {"idle", "data", "second"}
  BY <1>2, <1>5 DEF Sending
<1> QED
  BY <1>1, <1>2, <1>5, <1>6, <1>8, <1>9, <1>10, <1>12, <1>13, SendKeeps

-----------------------------------------------------------------------------
(* The line and the ring. *)

LEMMA OneFrame ==
    ASSUME wire \in Seq(Ring!Frame), Len(wire) <= 1, wire # <<>>
    PROVE  Tail(wire) = <<>> /\ Head(wire).byte \in Tagged
<1>1. Len(wire) = 1 /\ Head(wire) = wire[1]
  <2>1. Len(wire) \in Nat /\ Len(wire) # 0
    BY EmptySeq
  <2> QED
    BY <2>1
<1>2. Tail(wire) \in Seq(Ring!Frame) /\ Len(Tail(wire)) = 0
  BY <1>1, HeadTailProperties
<1>3. wire[1] \in Ring!Frame
  BY <1>1, ElementOfSeq
<1> QED
  BY <1>1, <1>2, <1>3, EmptySeq DEF Ring!Frame

LEMMA KeepKeeps == IInv /\ Keep => IInv'
<1> SUFFICES ASSUME IInv, Keep PROVE IInv'
  OBVIOUS
<1>1. PICK w : w = Head(wire).byte
  OBVIOUS
<1>2. /\ wire # <<>> /\ Len(queue) < Capacity /\ wire' = Tail(wire)
      /\ queue' = Append(queue, w)
      /\ UNCHANGED <<sender, receiver, lost, clearing, c>>
  BY <1>1 DEF Keep, Ring!Keep
<1>3. /\ wire \in Seq(Ring!Frame) /\ Len(wire) <= 1 /\ queue \in Seq(Tagged) /\ Len(queue) \in Nat
      /\ Capacity \in Nat
  BY SizeAssumption DEF IInv, TypeOK, Line
<1>4. wire' = <<>> /\ w \in Tagged
  BY <1>1, <1>2, <1>3, OneFrame
<1>5. /\ queue' \in Seq(Tagged) /\ Len(queue') = Len(queue) + 1 /\ queue'[Len(queue) + 1] = w
      /\ \A i \in 1..Len(queue) : queue'[i] = queue[i]
  BY <1>2, <1>3, <1>4, AppendProperties
<1>6. UNCHANGED <<sent, left, spc, escape, buff, rpc, got>>
  BY <1>2 DEF sender, receiver
<1>7. TypeOK'
  <2>1. wire' \in Seq(Ring!Frame)
    BY <1>4
  <2>2. Len(queue') <= Capacity
    BY <1>2, <1>3, <1>5
  <2> QED
    BY <1>2, <1>5, <1>6, <2>1, <2>2 DEF IInv, TypeOK
<1>8. Sending' /\ Coming' = Coming
  BY <1>6 DEF IInv, Sending, Coming, Place
<1>9. \A x : WellFormed(x)' = WellFormed(x)
  BY <1>6 DEF WellFormed, InData, Closes
<1>10. \A x, y : Link(x, y)' = Link(x, y)
  BY <1>2, <1>6 DEF Link, Follows, InData, Closes
<1>11. Line'
  <2>1. \A i \in 1..Len(queue') : WellFormed(queue'[i])
    BY <1>1, <1>2, <1>3, <1>5 DEF IInv, Line
  <2>2. Len(wire') <= 1 /\ wire' = <<>>
    BY <1>4
  <2>3. WellFormed(c)' = WellFormed(c)
    BY <1>2, <1>6 DEF WellFormed, InData, Closes
  <2> QED
    BY <1>2, <1>6, <1>9, <2>1, <2>2, <2>3 DEF IInv, Line
<1>12. Chain'
  <2>1. queue' # <<>> /\ Head(queue') = queue'[1]
    BY <1>3, <1>5, EmptySeq
  <2>2. LastStored' = w /\ Behind' = Coming
    BY <1>4, <1>5, <1>8, <2>1 DEF LastStored, Behind
  <2>3. Link(w, Coming) /\ Link(LastStored, w)
    BY <1>1, <1>2 DEF IInv, Chain, Behind
  <2>4. ASSUME NEW i \in 1..(Len(queue') - 1) PROVE Link(queue'[i], queue'[i + 1])
    <3>1. CASE i = Len(queue)
      <4>1. queue # <<>> /\ queue'[i] = queue[i] /\ queue'[i + 1] = w
        BY <1>3, <1>5, <3>1, EmptySeq
      <4> QED
        BY <2>3, <3>1, <4>1 DEF LastStored
    <3>2. CASE i # Len(queue)
      <4>1. i \in 1..(Len(queue) - 1)
        BY <1>3, <1>5, <3>2
      <4>2. queue'[i] = queue[i] /\ queue'[i + 1] = queue[i + 1]
        BY <1>3, <1>5, <4>1
      <4> QED
        BY <4>1, <4>2 DEF IInv, Chain
    <3> QED
      BY <3>1, <3>2
  <2>5. Link(c, queue'[1])
    <3>1. CASE queue = <<>>
      BY <1>3, <1>5, <2>3, <3>1, EmptySeq DEF LastStored
    <3>2. CASE queue # <<>>
      BY <1>3, <1>5, <3>2, EmptySeq DEF IInv, Chain
    <3> QED
      BY <3>1, <3>2
  <2> QED
    BY <1>2, <1>4, <1>10, <2>1, <2>2, <2>3, <2>4, <2>5 DEF Chain
<1>13. Extends
  BY <1>3, <1>6 DEF Extends, IInv, TypeOK
<1>14. Receiving' /\ PastReceived' /\ GotInOrder'
  BY <1>2, <1>13, ReceiverKept
<1> QED
  BY <1>7, <1>8, <1>11, <1>12, <1>14 DEF IInv

(* A character of packet q more is lost: less is known of what is around.   *)
LEMMA LostLinks ==
    ASSUME UNCHANGED <<sent, left, spc>>, NEW w, lost' = lost \cup {w.of}, w.of \in 1..Len(sent),
           Len(sent) \in Nat, NEW x, NEW y, x.of \in Nat, y.of \in Nat
    PROVE  /\ Link(x, y) => Link(x, y)'
           /\ Link(x, w) /\ Link(w, y) => Link(x, y)'
<1>1. /\ Closes(x)' = Closes(x) /\ InData(y)' = InData(y)
      /\ Follows(x, y)' = Follows(x, y)
  BY DEF Closes, InData, Follows
<1>2. ASSUME Link(x, y)
      PROVE  Link(x, y)'
  BY <1>1, <1>2 DEF Link
<1>3. ASSUME Link(x, w), Link(w, y)
      PROVE  Link(x, y)'
  <2>1. x.of <= w.of /\ w.of <= y.of /\ w.of \in lost'
    BY <1>3 DEF Link
  <2>2. x.of = y.of => x.of \in lost'
    BY <2>1
  <2>3. ASSUME x.of < y.of
        PROVE  /\ y.of \notin lost' => y.at = 0
               /\ x.of # 0 /\ x.of \notin lost' => Closes(x)
               /\ \A p \in 1..Len(sent) : x.of < p /\ p < y.of => p \in lost'
    <3>1. y.of \notin lost' => y.at = 0
      BY <1>3, <2>1 DEF Link
    <3>2. x.of # 0 /\ x.of \notin lost' => Closes(x)
      BY <1>3, <2>1 DEF Link
    <3>3. ASSUME NEW p \in 1..Len(sent), x.of < p, p < y.of
          PROVE  p \in lost'
      <4>1. p < w.of \/ p = w.of \/ w.of < p
        OBVIOUS
      <4> QED
        BY <1>3, <2>1, <3>3, <4>1 DEF Link
    <3> QED
      BY <3>1, <3>2, <3>3
  <2> QED
    BY <1>1, <2>1, <2>2, <2>3 DEF Link
<1> QED
  BY <1>2, <1>3

LEMMA DropKeeps == IInv /\ Drop => IInv'
<1> SUFFICES ASSUME IInv, Drop PROVE IInv'
  OBVIOUS
<1>1. PICK w : w = Head(wire).byte
  OBVIOUS
<1>2. /\ wire # <<>> /\ wire' = Tail(wire) /\ lost' = lost \cup {w.of}
      /\ UNCHANGED <<sender, receiver, queue, clearing, c>>
  BY <1>1 DEF Drop, Ring!Drop
<1>3. /\ wire \in Seq(Ring!Frame) /\ Len(wire) <= 1 /\ queue \in Seq(Tagged) /\ Len(queue) \in Nat
      /\ Len(sent) \in Nat /\ Len(sent) <= Packets /\ Packets \in Nat
  BY SizeAssumption DEF IInv, TypeOK, Line
<1>4. wire' = <<>> /\ w \in Tagged /\ WellFormed(w)
  BY <1>1, <1>2, <1>3, OneFrame DEF IInv, Line
<1>5. w.of \in 1..Len(sent) /\ w.of \in 1..Packets
  BY <1>3, <1>4 DEF WellFormed
<1>6. UNCHANGED <<sent, left, spc, escape, buff, rpc, got>>
  BY <1>2 DEF sender, receiver
<1>7. TypeOK'
  <2>1. wire' \in Seq(Ring!Frame)
    BY <1>4
  <2>2. lost' \subseteq 1..Packets
    BY <1>2, <1>5 DEF IInv, TypeOK
  <2> QED
    BY <1>2, <1>6, <2>1, <2>2 DEF IInv, TypeOK
<1>8. Sending' /\ Coming' = Coming
  BY <1>6 DEF IInv, Sending, Coming, Place
<1>9. \A x : WellFormed(x)' = WellFormed(x)
  BY <1>6 DEF WellFormed, InData, Closes
<1>10. Line'
  <2>1. Len(wire') <= 1 /\ wire' = <<>>
    BY <1>4
  <2>2. lost' \subseteq 1..Len(sent)
    BY <1>2, <1>5 DEF IInv, Line
  <2>3. WellFormed(c)' = WellFormed(c)
    BY <1>2, <1>6 DEF WellFormed, InData, Closes
  <2> QED
    BY <1>2, <1>6, <1>9, <2>1, <2>2, <2>3 DEF IInv, Line
<1>11. Chain'
  <2>1. LastStored' = LastStored /\ Behind' = Coming
    BY <1>2, <1>4, <1>8 DEF LastStored, Behind
  <2>2. Link(LastStored, w) /\ Link(w, Coming)
    BY <1>1, <1>2 DEF IInv, Chain, Behind
  <2>3. ASSUME NEW x, x = LastStored, NEW y, y = Coming PROVE Link(x, y)'
    <3>1. x.of \in Nat /\ y.of \in Nat
      BY <2>3, Numbers
    <3> QED
      BY <1>2, <1>3, <1>5, <1>6, <2>2, <2>3, <3>1, LostLinks
  <2>4. ASSUME NEW i \in 1..(Len(queue) - 1),
               NEW x, x = queue[i], NEW y, y = queue[i + 1]
        PROVE  Link(x, y)'
    <3>1. Link(x, y)
      BY <2>4 DEF IInv, Chain
    <3>2. i \in 1..Len(queue) /\ i + 1 \in 1..Len(queue)
      BY <1>3
    <3>3. x.of \in 1..Len(sent) /\ y.of \in 1..Len(sent)
      BY <2>4, <3>2, Numbers
    <3> QED
      BY <1>2, <1>3, <1>5, <1>6, <3>1, <3>3, LostLinks
  <2>5. ASSUME queue # <<>>, NEW x, x = c, NEW y, y = Head(queue)
        PROVE  Link(x, y)'
    <3>1. Link(x, y)
      BY <2>5 DEF IInv, Chain
    <3>2. 1 \in 1..Len(queue) /\ Head(queue) = queue[1]
      BY <1>3, <2>5, EmptySeq
    <3>3. x.of \in Nat /\ y.of \in Nat
      BY <2>5, <3>2, <1>3, Numbers
    <3> QED
      BY <1>2, <1>3, <1>5, <1>6, <3>1, <3>3, LostLinks
  <2> QED
    BY <1>2, <1>4, <1>8, <2>1, <2>3, <2>4, <2>5 DEF Chain
<1>12. \A p : Plainly(p)' => Plainly(p)
  BY <1>2, <1>6 DEF Plainly
<1>13. \A p, k : Holds(p, k)' = Holds(p, k)
  BY <1>6 DEF Holds
<1>14. lost' # {} /\ lost \subseteq lost'
  BY <1>2
<1>15. Receiving'
  <2>1. /\ InData(c)' = InData(c) /\ Second(c)' = Second(c)
    BY <1>2, <1>6 DEF InData, Second
  <2>2. Plainly(c.of)' => Plainly(c.of)
    BY <1>2, <1>6 DEF Plainly
  <2>3. ASSUME NEW k PROVE Holds(c.of, k)' = Holds(c.of, k)
    BY <1>2, <1>6 DEF Holds
  <2>4. Processed(c) => Processed(c)'
    BY <1>2, <1>6, <1>14, <2>1, <2>2, <2>3 DEF Processed
  <2>5. Pending(c) => Pending(c)'
    BY <1>2, <1>6, <1>14, <2>1, <2>2, <2>3 DEF Pending
  <2> QED
    BY <1>6, <2>4, <2>5 DEF IInv, Receiving
<1>16. PastReceived'
  BY <1>2, <1>6, <1>12 DEF IInv, PastReceived, Intact, Deliverable, Past, Closes, IsReceived
<1>17. GotInOrder'
  BY <1>14 DEF GotInOrder
<1> QED
  BY <1>7, <1>8, <1>10, <1>11, <1>15, <1>16, <1>17 DEF IInv

-----------------------------------------------------------------------------
(* slip_recv. *)

(* What slip_recv holds when it has taken y, the character behind c.        *)
LEMMA TakenPending ==
    ASSUME IInv, rpc = "take", NEW y, WellFormed(y), Link(c, y), y.at \in Nat
    PROVE  Pending(y)
<1> SUFFICES ASSUME y.of \notin lost PROVE Pending(y)
  BY DEF Pending
<1>1. /\ c.of \in 0..Len(sent) /\ c.at \in Nat /\ Len(sent) \in Nat /\ y.of \in 1..Len(sent)
      /\ Len(sent[y.of]) \in Nat /\ BufLen \in Nat \ {0}
  <2>1. c.of \in 0..Len(sent) /\ c.at \in Nat /\ Len(sent) \in Nat
    BY Numbers
  <2>2. TypeOK /\ y.of \in 1..Len(sent)
    BY DEF WellFormed, IInv
  <2>3. Len(sent[y.of]) \in 0..MaxLen
    BY <2>2, SentType
  <2> QED
    BY <2>1, <2>2, <2>3, SizeAssumption
<1>2. Processed(c) /\ (c.of # 0 => WellFormed(c))
  BY DEF IInv, Receiving, Line
<1>3. CASE c.of = y.of
  <2>1. /\ Follows(c, y) /\ c.of # 0 /\ c.of \notin lost /\ WellFormed(c)
    BY <1>1, <1>2, <1>3 DEF Link
  <2>2. PICK d : d = sent[c.of] /\ d = sent[y.of]
    BY <1>3
  <2>3. CASE InData(c) /\ c.char = ESC
    <3>1. /\ escape = TRUE /\ (Plainly(c.of) => Holds(c.of, c.at - 1))
      BY <1>2, <2>1, <2>3 DEF Processed
    <3>2. y.at = c.at /\ y.char # ESC
      BY <2>1, <2>3 DEF Follows
    <3>3. Escaped(d[c.at]) /\ c.at \in 1..Len(d)
      BY <2>1, <2>2, <2>3 DEF WellFormed, Escaped, InData
    <3>4. Second(y) /\ d # <<>> /\ y.at # 0
      BY <1>1, <2>2, <3>2, <3>3, EmptySeq DEF Second, InData
    <3> QED
      BY <1>3, <2>2, <3>1, <3>2, <3>4 DEF Pending
  <2>4. CASE InData(c) /\ c.char # ESC
    <3>1. /\ escape = FALSE /\ (Plainly(c.of) => Holds(c.of, c.at))
      BY <1>2, <2>1, <2>4 DEF Processed
    <3>2. y.at = c.at + 1 /\ ~Second(y)
      BY <2>1, <2>4 DEF Follows, Second
    <3>3. c.at \in 1..Len(d) /\ d # <<>>
      BY <1>1, <2>2, <2>4, EmptySeq DEF InData
    <3>4. y.at # 0 /\ y.at - 1 = c.at
      BY <1>1, <3>2
    <3>5. escape = Second(y)
      BY <3>1, <3>2 DEF Second
    <3> QED
      BY <1>3, <2>2, <3>1, <3>3, <3>4, <3>5 DEF Pending
  <2>5. CASE ~InData(c)
    <3>1. buff = <<>> /\ (lost = {} => ~escape) /\ c.char # ESC
      BY <1>2, <2>1, <2>5, CharAssumption DEF Processed, WellFormed
    <3>2. y.at = c.at + 1 /\ ~Second(y)
      BY <2>1, <3>1 DEF Follows, Second
    <3>3. y.at = 1
      BY <1>1, <2>1, <2>2, <2>5, <3>2 DEF WellFormed, InData, Closes
    <3>4. Holds(y.of, 0)
      BY <1>1, <3>1 DEF Holds
    <3>5. lost = {} => escape = Second(y)
      <4>1. escape \in BOOLEAN
        BY DEF IInv, TypeOK
      <4> QED
        BY <3>1, <3>2, <4>1 DEF Second
    <3> QED
      BY <3>1, <3>2, <3>3, <3>4, <3>5 DEF Pending
  <2> QED
    BY <2>3, <2>4, <2>5
<1>4. CASE c.of # y.of
  <2>1. c.of < y.of /\ y.at = 0
    BY <1>1, <1>4 DEF Link
  <2>2. lost = {} => buff = <<>> /\ ~escape
    BY <1>1, <1>2, <2>1 DEF Link, Processed, Closes, InData
  <2> QED
    BY <2>1, <2>2 DEF Pending
<1> QED
  BY <1>3, <1>4

(* A packet before the one of y is over when y is taken.                    *)
LEMMA TakenPast ==
    ASSUME IInv, rpc = "take", NEW y, WellFormed(y), Link(c, y), y.at \in Nat, NEW p \in 1..Len(sent),
           p \notin lost
    PROVE  Past(p) <=> p < y.of
<1>1. /\ c.of \in 0..Len(sent) /\ c.at \in Nat /\ Len(sent) \in Nat /\ y.of \in 1..Len(sent)
      /\ Len(sent[y.of]) \in Nat
  BY Numbers, SentType DEF WellFormed, IInv
<1>2. c.of # 0 => WellFormed(c)
  BY DEF IInv, Line
<1>3. CASE c.of = y.of
  <2>1. p = c.of => Follows(c, y) /\ WellFormed(c)
    BY <1>1, <1>2, <1>3 DEF Link
  <2>2. p = c.of => ~Closes(c)
    <3> SUFFICES ASSUME p = c.of, Closes(c) PROVE FALSE
      OBVIOUS
    <3>1. c.char # ESC /\ c.at = Len(sent[y.of]) + 1
      BY <1>1, <1>3, <2>1, CharAssumption DEF WellFormed, InData, Closes
    <3>2. y.at = c.at + 1
      BY <2>1, <3>1 DEF Follows
    <3> QED
      BY <1>1, <3>1, <3>2 DEF WellFormed, InData, Closes
  <2> QED
    BY <1>1, <1>3, <2>2 DEF Past
<1>4. CASE c.of # y.of
  <2>1. c.of < y.of
    BY <1>1, <1>4 DEF Link
  <2>2. c.of = p => Closes(c)
    BY <1>1, <2>1 DEF Link
  <2>3. ~(c.of < p /\ p < y.of)
    BY <2>1 DEF Link
  <2> QED
    BY <1>1, <2>1, <2>2, <2>3 DEF Past
<1> QED
  BY <1>3, <1>4

LEMMA TakeKeeps == IInv /\ RecvTake => IInv'
<1> SUFFICES ASSUME IInv, RecvTake PROVE IInv'
  OBVIOUS
<1>1. PICK y : y = Head(queue)
  OBVIOUS
<1>2. /\ rpc = "take" /\ rpc' = "switch" /\ queue # <<>> /\ queue' = Tail(queue) /\ c' = y
      /\ UNCHANGED <<sent, left, spc, wire, clearing, escape, buff, got, lost>>
  BY <1>1 DEF RecvTake, Ring!Take, sender
<1>3. /\ queue \in Seq(Tagged) /\ Len(queue) \in Nat \ {0} /\ Len(sent) \in Nat
      /\ Len(queue) <= Capacity /\ Capacity \in Nat
  BY <1>2, EmptySeq, SizeAssumption DEF IInv, TypeOK
<1>4. /\ queue' \in Seq(Tagged) /\ Len(queue') = Len(queue) - 1 /\ y = queue[1]
      /\ \A i \in 1..Len(queue') : queue'[i] = queue[i + 1]
  BY <1>1, <1>2, <1>3, HeadTailProperties
<1>5. y \in Tagged /\ y.at \in Nat /\ WellFormed(y) /\ y.of \in 1..Len(sent)
  <2>1. y \in Tagged
    BY <1>3, <1>4, ElementOfSeq
  <2>2. WellFormed(y)
    BY <1>3, <1>4 DEF IInv, Line
  <2> QED
    BY <2>1, <2>2, SizeAssumption DEF Tagged, WellFormed
<1>6. Link(c, y)
  BY <1>1, <1>2 DEF IInv, Chain
<1>7. TypeOK'
  BY <1>2, <1>3, <1>4, <1>5 DEF IInv, TypeOK
<1>8. Sending' /\ Coming' = Coming /\ Behind' = Behind
  BY <1>2 DEF IInv, Sending, Coming, Place, Behind
<1>9. \A x : WellFormed(x)' = WellFormed(x)
  BY <1>2 DEF WellFormed, InData, Closes
<1>10. \A x, z : Link(x, z)' = Link(x, z)
  BY <1>2 DEF Link, Follows, InData, Closes
<1>11. Line'
  <2>1. \A i \in 1..Len(queue') : WellFormed(queue'[i])
    <3> SUFFICES ASSUME NEW i \in 1..Len(queue') PROVE WellFormed(queue'[i])
      OBVIOUS
    <3>1. i + 1 \in 1..Len(queue) /\ queue'[i] = queue[i + 1]
      BY <1>3, <1>4
    <3>2. WellFormed(queue[i + 1])
      BY <3>1 DEF IInv, Line
    <3> QED
      BY <3>1, <3>2
  <2>2. c'.of # 0
    BY <1>2, <1>5
  <2> QED
    BY <1>2, <1>5, <1>9, <2>1, <2>2 DEF IInv, Line
<1>12. Chain'
  <2>1. LastStored' = LastStored
    <3>1. CASE queue' = <<>>
      <4>1. Len(queue) = 1
        BY <1>3, <1>4, <3>1, EmptySeq
      <4> QED
        BY <1>2, <1>4, <3>1, <4>1 DEF LastStored
    <3>2. CASE queue' # <<>>
      <4>1. Len(queue') \in 1..Len(queue') /\ Len(queue') + 1 = Len(queue)
        BY <1>3, <1>4, <3>2, EmptySeq
      <4> QED
        BY <1>2, <1>4, <3>2, <4>1 DEF LastStored
    <3> QED
      BY <3>1, <3>2
  <2>2. ASSUME NEW i \in 1..(Len(queue') - 1) PROVE Link(queue'[i], queue'[i + 1])
    <3>1. /\ i + 1 \in 1..(Len(queue) - 1) /\ queue'[i] = queue[i + 1]
          /\ queue'[i + 1] = queue[(i + 1) + 1]
      BY <1>3, <1>4
    <3> QED
      BY <3>1 DEF IInv, Chain
  <2>3. ASSUME queue' # <<>> PROVE Link(c', Head(queue'))
    <3>1. /\ 1 \in 1..(Len(queue) - 1) /\ Head(queue') = queue[1 + 1]
      BY <1>3, <1>4, <2>3, EmptySeq
    <3> QED
      BY <1>2, <1>4, <3>1 DEF IInv, Chain
  <2> QED
    BY <1>2, <1>8, <1>10, <2>1, <2>2, <2>3 DEF IInv, Chain
<1>13. Receiving'
  <2>1. Pending(y)
    BY <1>2, <1>5, <1>6, TakenPending
  <2>2. Pending(y)' = Pending(y)
    BY <1>2 DEF Pending, Plainly, Holds, Second, InData
  <2> QED
    BY <1>2, <2>1, <2>2 DEF Receiving
<1>14. \A p \in 1..Len(sent) : p \notin lost => Past(p)' = Past(p)
  <2> SUFFICES ASSUME NEW p \in 1..Len(sent), p \notin lost PROVE Past(p)' = Past(p)
    OBVIOUS
  <2>1. Past(p) <=> p < y.of
    BY <1>2, <1>5, <1>6, TakenPast
  <2> QED
    BY <1>2, <2>1 DEF Past
<1>15. PastReceived'
  BY <1>2, <1>14 DEF IInv, PastReceived, Intact, Deliverable, Plainly, IsReceived
<1>16. GotInOrder'
  BY <1>2, <1>14 DEF IInv, GotInOrder, Deliverable
<1> QED
  BY <1>7, <1>8, <1>11, <1>12, <1>13, <1>15, <1>16 DEF IInv

(* What a look at c leaves alone.                                           *)
LEMMA LookKeeps ==
    ASSUME IInv, Received, buff' \in Seq(Char), Len(buff') <= BufLen, escape' \in BOOLEAN,
           got' \in Seq([data : Seq(Char), of : 0..Packets]),
           Processed(c)', PastReceived', GotInOrder'
    PROVE  IInv'
<1>1. UNCHANGED <<sent, left, spc, wire, queue, clearing, c, lost>> /\ rpc' = "take"
  BY DEF Received, sender
<1>2. TypeOK'
  BY <1>1 DEF IInv, TypeOK
<1>3. Sending' /\ Coming' = Coming
  BY <1>1 DEF IInv, Sending, Coming, Place
<1>4. \A x : WellFormed(x)' = WellFormed(x)
  BY <1>1 DEF WellFormed, InData, Closes
<1>5. \A x, z : Link(x, z)' = Link(x, z)
  BY <1>1 DEF Link, Follows, InData, Closes
<1>6. Line'
  BY <1>1, <1>4 DEF IInv, Line
<1>7. Chain'
  BY <1>1, <1>3, <1>5 DEF IInv, Chain, LastStored, Behind
<1>8. Receiving'
  BY <1>1 DEF Receiving
<1> QED
  BY <1>2, <1>3, <1>6, <1>7, <1>8 DEF IInv

(* The character that is looked at.                                         *)
LEMMA LookedAt ==
    ASSUME IInv, Received
    PROVE  /\ c.of \in 1..Len(sent) /\ c.at \in Nat /\ Len(sent) \in Nat
           /\ Len(sent[c.of]) \in Nat /\ sent[c.of] \in Seq(Char)
           /\ \A i \in 1..Len(sent[c.of]) : sent[c.of][i] \in Char
           /\ WellFormed(c) /\ Pending(c)
           /\ InData(c) <=> c.char # END
           /\ \A p : Past(p) <=> p < c.of
<1>1. rpc = "switch"
  BY DEF Received
<1>2. WellFormed(c) /\ Pending(c) /\ c.at \in Nat /\ Len(sent) \in Nat /\ c.of \in 1..Len(sent)
  BY <1>1, Numbers DEF IInv, Line, Receiving, WellFormed
<1>3. InData(c) <=> c.char # END
  BY <1>2, CharAssumption DEF WellFormed, Escaped, Substitute
<1>4. /\ Len(sent[c.of]) \in Nat /\ sent[c.of] \in Seq(Char)
      /\ \A i \in 1..Len(sent[c.of]) : sent[c.of][i] \in Char
  <2>1. sent[c.of] \in Packet
    BY <1>2 DEF IInv, TypeOK
  <2> QED
    BY <2>1, PacketType, SizeAssumption
<1>5. \A p : Past(p) <=> p < c.of
  BY <1>1 DEF Past
<1> QED
  BY <1>2, <1>3, <1>4, <1>5

(* Only an END ends a packet: at any other character what is past stays.    *)
LEMMA NothingEnds ==
    ASSUME IInv, Received, InData(c), UNCHANGED got
    PROVE  PastReceived' /\ GotInOrder'
<1>1. UNCHANGED <<sent, lost, c>> /\ rpc' = "take"
  BY DEF Received, sender
<1>2. ~Closes(c)
  BY LookedAt DEF InData, Closes
<1>3. \A p : Past(p)' = Past(p)
  BY <1>1, <1>2, LookedAt DEF Past, Closes
<1> QED
  BY <1>1, <1>3 DEF IInv, PastReceived, GotInOrder, Intact, Deliverable, Plainly, IsReceived

LEMMA RecvEscKeeps == IInv /\ RecvEsc => IInv'
<1> SUFFICES ASSUME IInv, RecvEsc PROVE IInv'
  OBVIOUS
<1>1. /\ Received /\ c.char = ESC /\ escape' = TRUE /\ UNCHANGED <<buff, got, sent, lost, c>>
  BY DEF RecvEsc, Received, sender
<1>2. InData(c) /\ c.at # 0 /\ sent[c.of] # <<>> /\ c.of # 0
  <2>1. InData(c) /\ c.of # 0
    BY <1>1, LookedAt, CharAssumption
  <2> QED
    BY <1>1, <2>1, LookedAt, EmptySeq DEF InData
<1>3. Processed(c)'
  <2>1. c.of \notin lost /\ Plainly(c.of) => Holds(c.of, c.at - 1)
    BY <1>1, <1>2, LookedAt DEF Pending
  <2>2. Plainly(c.of)' = Plainly(c.of) /\ Holds(c.of, c.at - 1)' = Holds(c.of, c.at - 1)
    BY <1>1 DEF Plainly, Holds
  <2>3. InData(c)'
    BY <1>1, <1>2 DEF InData
  <2> QED
    BY <1>1, <1>2, <2>1, <2>2, <2>3 DEF Processed
<1>4. PastReceived' /\ GotInOrder'
  BY <1>1, <1>2, NothingEnds
<1>5. buff \in Seq(Char) /\ Len(buff) <= BufLen /\ got \in Seq([data : Seq(Char), of : 0..Packets])
  BY DEF IInv, TypeOK
<1> QED
  BY <1>1, <1>3, <1>4, <1>5, LookKeeps

(* What is stored is what slip_send was given.                              *)
LEMMA StoredIsSent ==
    ASSUME IInv, Received, c.char \notin {END, ESC}, c.of \notin lost, Plainly(c.of)
    PROVE  Stored = sent[c.of][c.at]
<1>1. InData(c) /\ c.at # 0
  BY LookedAt DEF InData
<1>2. PICK d : d = sent[c.of]
  OBVIOUS
<1>3. c.at > 1 \/ lost = {} \/ Second(c) => escape = Second(c)
  BY <1>1, LookedAt DEF Pending
<1>4. CASE Escaped(d[c.at])
  <2>1. c.char = Substitute(d[c.at])
    BY <1>1, <1>2, <1>4, LookedAt DEF WellFormed
  <2>2. escape = TRUE
    BY <1>1, <1>2, <1>3, <1>4 DEF Second
  <2> QED
    BY <1>2, <1>4, <2>1, <2>2, CharAssumption DEF Stored, Original, Substitute, Escaped
<1>5. CASE ~Escaped(d[c.at])
  <2>1. c.char = d[c.at]
    BY <1>1, <1>2, <1>5, LookedAt DEF WellFormed
  <2>2. ~Second(c)
    BY <1>2, <1>5 DEF Second
  <2>3. CASE c.at > 1 \/ lost = {}
    <3>1. ~escape
      BY <1>3, <2>2, <2>3
    <3> QED
      BY <1>2, <2>1, <3>1 DEF Stored
  <2>4. CASE c.at = 1 /\ lost # {}
    <3>1. d \in Seq(Char) /\ 1 \in 1..Len(d)
      BY <1>1, <1>2, <2>4, LookedAt DEF InData
    <3>2. Head(d) = d[1] /\ d[1] \notin {ESC_END, ESC_ESC}
      BY <1>2, <2>4, <3>1 DEF Plainly
    <3> QED
      BY <1>2, <2>1, <2>4, <3>2 DEF Stored, Original
  <2> QED
    BY <1>1, <2>3, <2>4, LookedAt DEF InData
<1> QED
  BY <1>4, <1>5

LEMMA RecvDataKeeps == IInv /\ RecvData => IInv'
<1> SUFFICES ASSUME IInv, RecvData PROVE IInv'
  OBVIOUS
<1>1. /\ Received /\ c.char \notin {END, ESC} /\ escape' = FALSE /\ UNCHANGED <<got, sent, lost, c>>
      /\ buff' = IF Len(buff) < BufLen THEN Append(buff, Stored) ELSE buff
  BY DEF RecvData, Received, sender
<1>2. InData(c) /\ c.at # 0 /\ sent[c.of] # <<>> /\ c.of # 0
  <2>1. InData(c) /\ c.of # 0
    BY <1>1, LookedAt
  <2> QED
    BY <1>1, <2>1, LookedAt, EmptySeq DEF InData
<1>3. /\ buff \in Seq(Char) /\ Len(buff) \in Nat /\ Len(buff) <= BufLen /\ BufLen \in Nat
      /\ got \in Seq([data : Seq(Char), of : 0..Packets])
  BY SizeAssumption DEF IInv, TypeOK
<1>4. Stored \in Char
  BY DEF Stored, Original, Char, Special, IInv, TypeOK, Tagged
<1>5. buff' \in Seq(Char) /\ Len(buff') <= BufLen
  <2>1. Append(buff, Stored) \in Seq(Char) /\ Len(Append(buff, Stored)) = Len(buff) + 1
    BY <1>3, <1>4, AppendProperties
  <2> QED
    BY <1>1, <1>3, <2>1
<1>6. Processed(c)'
  <2> SUFFICES ASSUME c.of \notin lost, Plainly(c.of) PROVE Holds(c.of, c.at)'
    <3>1. InData(c)' /\ Plainly(c.of)' = Plainly(c.of)
      BY <1>1, <1>2 DEF InData, Plainly
    <3> QED
      BY <1>1, <1>2, <3>1 DEF Processed, Holds
  <2>1. Holds(c.of, c.at - 1) /\ Stored = sent[c.of][c.at]
    BY <1>1, <1>2, LookedAt, StoredIsSent DEF Pending
  <2>2. c.at \in Nat /\ c.at > 0
    BY <1>1, <1>2, LookedAt
  <2>3. CASE Len(buff) < BufLen
    <3>1. Len(buff) = c.at - 1
      BY <1>3, <2>1, <2>2, <2>3 DEF Holds
    <3>2. /\ Len(buff') = c.at /\ buff'[c.at] = Stored
          /\ \A i \in 1..Len(buff) : buff'[i] = buff[i]
      <4>1. /\ Len(Append(buff, Stored)) = Len(buff) + 1
            /\ Append(buff, Stored)[Len(buff) + 1] = Stored
            /\ \A i \in 1..Len(buff) : Append(buff, Stored)[i] = buff[i]
        BY <1>3, <1>4, AppendProperties
      <4>2. buff' = Append(buff, Stored) /\ Len(buff) + 1 = c.at
        BY <1>1, <2>2, <2>3, <3>1
      <4> QED
        BY <4>1, <4>2
    <3>3. ASSUME NEW i \in 1..Len(buff') PROVE buff'[i] = sent[c.of][i]
      <4>1. i = c.at \/ i \in 1..Len(buff)
        BY <2>2, <3>1, <3>2
      <4> QED
        BY <2>1, <3>2, <4>1 DEF Holds
    <3>4. Len(buff') = IF c.at < BufLen THEN c.at ELSE BufLen
      BY <1>3, <2>2, <2>3, <3>1, <3>2
    <3>5. UNCHANGED <<sent, c>>
      BY <1>1
    <3> QED
      BY <3>3, <3>4, <3>5 DEF Holds
  <2>4. CASE ~(Len(buff) < BufLen)
    BY <1>1, <1>3, <2>1, <2>2, <2>4 DEF Holds
  <2> QED
    BY <2>3, <2>4
<1>7. PastReceived' /\ GotInOrder'
  BY <1>1, <1>2, NothingEnds
<1> QED
  BY <1>1, <1>3, <1>5, <1>6, <1>7, LookKeeps

(* A buffer that holds all it can of a packet is what the packet is         *)
(* received as.                                                             *)
LEMMA HeldIsTruncated ==
    ASSUME IInv, NEW p \in 1..Len(sent), Holds(p, Len(sent[p]))
    PROVE  buff = Truncated(sent[p])
<1>1. PICK d : d = sent[p]
  OBVIOUS
<1>2. d \in Seq(Char) /\ Len(d) \in Nat /\ \A i \in 1..Len(d) : d[i] \in Char
  <2>1. d \in Packet
    BY <1>1 DEF IInv, TypeOK
  <2> QED
    BY <2>1, PacketType, SizeAssumption
<1>3. buff \in Seq(Char) /\ Len(buff) \in Nat /\ BufLen \in Nat
  BY SizeAssumption DEF IInv, TypeOK
<1>4. PICK k : k = IF Len(d) < BufLen THEN Len(d) ELSE BufLen
  OBVIOUS
<1>5. k \in 0..Len(d) /\ Len(buff) = k /\ \A i \in 1..k : buff[i] = d[i]
  BY <1>1, <1>2, <1>3, <1>4 DEF Holds
<1>6. /\ SubSeq(d, 1, k) \in Seq(Char) /\ Len(SubSeq(d, 1, k)) = k
      /\ \A i \in 1..k : SubSeq(d, 1, k)[i] = d[i]
  <2>1. \A i \in 1..k : d[i] \in Char
    BY <1>2, <1>5
  <2>2. /\ SubSeq(d, 1, k) \in Seq(Char) /\ Len(SubSeq(d, 1, k)) = IF 1 <= k THEN k - 1 + 1 ELSE 0
        /\ \A i \in 1..(k - 1 + 1) : SubSeq(d, 1, k)[i] = d[1 + i - 1]
    BY <1>5, <2>1, SubSeqProperties
  <2> QED
    BY <1>5, <2>2
<1>7. buff = SubSeq(d, 1, k)
  BY <1>3, <1>5, <1>6, SeqEqual
<1> QED
  BY <1>1, <1>4, <1>7 DEF Truncated

LEMMA RecvEndKeeps == IInv /\ RecvEnd => IInv'
<1> SUFFICES ASSUME IInv, RecvEnd PROVE IInv'
  OBVIOUS
<1>1. /\ Received /\ c.char = END /\ rpc = "switch" /\ rpc' = "take" /\ UNCHANGED <<sent, lost, c>>
      /\ buff' = <<>>
      /\ IF buff # <<>>
         THEN got' = Append(got, [data |-> buff, of |-> c.of]) /\ escape' = FALSE
         ELSE UNCHANGED <<got, escape>>
  BY DEF RecvEnd, Received, sender
<1>2. /\ c.of \in 1..Len(sent) /\ c.of # 0 /\ c.at \in Nat /\ ~InData(c) /\ c.of \in 0..Packets
      /\ Len(sent[c.of]) \in Nat
      /\ c.at = 0 \/ Closes(c)
  <2>1. /\ c.of \in 1..Len(sent) /\ c.at \in Nat /\ ~InData(c) /\ Len(sent[c.of]) \in Nat
        /\ WellFormed(c)
    BY <1>1, LookedAt
  <2>2. c.of \in 0..Packets
    BY DEF IInv, TypeOK, Tagged
  <2> QED
    BY <2>1, <2>2 DEF WellFormed
<1>3. /\ buff \in Seq(Char) /\ escape \in BOOLEAN /\ BufLen \in Nat \ {0}
      /\ got \in Seq([data : Seq(Char), of : 0..Packets]) /\ Len(got) \in Nat
  BY SizeAssumption DEF IInv, TypeOK
<1>4. PICK R, r : R = [data : Seq(Char), of : 0..Packets] /\ r = [data |-> buff, of |-> c.of]
  OBVIOUS
<1>5. buff # <<>> => /\ Len(got') = Len(got) + 1 /\ got'[Len(got) + 1] = r
                     /\ got' \in Seq(R)
                     /\ \A j \in 1..Len(got) : got'[j] = got[j]
  <2>1. r \in R
    BY <1>2, <1>3, <1>4
  <2>2. got \in Seq(R) /\ (buff # <<>> => got' = Append(got, r))
    BY <1>1, <1>3, <1>4
  <2> QED
    BY <2>1, <2>2, AppendProperties
<1>6. /\ buff' \in Seq(Char) /\ Len(buff') <= BufLen /\ escape' \in BOOLEAN
      /\ got' \in Seq([data : Seq(Char), of : 0..Packets])
  <2>1. buff' \in Seq(Char) /\ Len(buff') = 0
    BY <1>1, EmptySeq
  <2>2. got' \in Seq([data : Seq(Char), of : 0..Packets])
    BY <1>1, <1>3, <1>4, <1>5
  <2>3. escape' \in BOOLEAN
    BY <1>1, <1>3
  <2> QED
    BY <1>3, <2>1, <2>2, <2>3
<1>7. lost = {} => ~escape'
  <2> SUFFICES ASSUME lost = {}, buff = <<>> PROVE ~escape
    BY <1>1
  <2>1. ~Second(c)
    BY <1>2 DEF Second
  <2> QED
    BY <1>1, <1>3, <2>1, LookedAt DEF Pending
<1>8. Processed(c)'
  BY <1>1, <1>2, <1>7 DEF Processed, InData
<1>9. /\ \A p : Past(p) => Past(p)'
      /\ Closes(c) <=> Past(c.of)'
  BY <1>1, LookedAt DEF Past, Closes
(* The packet that ends, if it can be received.                             *)
<1>10. ASSUME Closes(c), c.of \in Intact, Plainly(c.of)
       PROVE  buff # <<>> /\ buff = Truncated(sent[c.of])
  <2>1. c.of \notin lost /\ sent[c.of] # <<>> /\ c.at = Len(sent[c.of]) + 1 /\ Len(sent[c.of]) > 0
    BY <1>1, <1>2, <1>10, LookedAt, EmptySeq DEF Intact, Deliverable, Closes
  <2>2. Holds(c.of, Len(sent[c.of]))
    <3>1. c.at # 0 /\ c.at - 1 = Len(sent[c.of])
      BY <1>2, <2>1
    <3>2. Holds(c.of, c.at - 1)
      BY <1>1, <1>10, <2>1, <3>1, LookedAt DEF Pending
    <3> QED
      BY <3>1, <3>2
  <2>3. Len(buff) > 0
    BY <1>2, <1>3, <2>1, <2>2 DEF Holds
  <2> QED
    BY <1>2, <2>2, <2>3, HeldIsTruncated, EmptySeq
<1>11. PastReceived'
  <2> SUFFICES ASSUME NEW p \in Intact', Past(p)', Plainly(p)' PROVE IsReceived(p)'
    BY DEF PastReceived
  <2>1. p \in Intact /\ Plainly(p) /\ (p < c.of \/ (p = c.of /\ Closes(c)))
    BY <1>1 DEF Intact, Deliverable, Plainly, Past, Closes
  <2>2. CASE p < c.of
    <3>1. PICK j \in 1..Len(got) : got[j] = [data |-> Truncated(sent[p]), of |-> p]
      BY <1>1, <2>1, <2>2, LookedAt DEF IInv, PastReceived, IsReceived
    <3>2. j \in 1..Len(got') /\ got'[j] = got[j]
      BY <1>1, <1>3, <1>5
    <3> QED
      BY <1>1, <3>1, <3>2 DEF IsReceived, Truncated
  <2>3. CASE p = c.of /\ Closes(c)
    <3>1. buff # <<>> /\ r = [data |-> Truncated(sent[p]), of |-> p]
      BY <1>4, <1>10, <2>1, <2>3
    <3>2. Len(got) + 1 \in 1..Len(got')
      BY <1>3, <1>5, <3>1
    <3> QED
      BY <1>1, <1>5, <3>1, <3>2 DEF IsReceived, Truncated
  <2> QED
    BY <2>1, <2>2, <2>3
<1>12. GotInOrder'
  <2> SUFFICES ASSUME lost = {} PROVE GotInOrder'
    BY <1>1 DEF GotInOrder
  <2>1. /\ \A j \in 1..Len(got) : /\ got[j].of \in Deliverable /\ Past(got[j].of)
                                  /\ got[j].data = Truncated(sent[got[j].of])
        /\ \A j \in 1..Len(got), k \in 1..Len(got) : j < k => got[j].of < got[k].of
    BY DEF IInv, GotInOrder
  <2>2. \A j \in 1..Len(got) : got[j].of < c.of
    BY <1>1, <2>1, LookedAt
  <2>3. \A p : (p \in Deliverable)' = (p \in Deliverable) /\ Truncated(sent'[p]) = Truncated(sent[p])
    BY <1>1 DEF Deliverable
  <2>4. CASE buff = <<>>
    BY <1>1, <1>9, <2>1, <2>3, <2>4 DEF GotInOrder, Deliverable
  <2>5. CASE buff # <<>>
    <3>1. Closes(c) /\ sent[c.of] # <<>>
      <4>1. c.at # 0
        BY <1>1, <2>5, LookedAt DEF Pending
      <4>2. sent[c.of] # <<>>
        BY <1>1, <2>5, <4>1, LookedAt DEF Pending
      <4> QED
        BY <1>2, <4>1, <4>2
    <3>2. c.of \in Intact /\ Plainly(c.of) /\ c.of \in Deliverable
      BY <1>2, <3>1 DEF Intact, Deliverable, Plainly
    <3>3. r.of = c.of /\ r.data = Truncated(sent[c.of]) /\ Past(c.of)'
      BY <1>4, <1>9, <1>10, <3>1, <3>2
    <3>4. ASSUME NEW j \in 1..Len(got'), NEW q, q = got'[j].of
          PROVE  q \in Deliverable' /\ Past(q)' /\ got'[j].data = Truncated(sent'[q])
      <4>1. CASE j \in 1..Len(got)
        BY <1>5, <1>9, <2>1, <2>3, <2>5, <3>4, <4>1
      <4>2. CASE j = Len(got) + 1
        BY <1>1, <1>5, <2>3, <2>5, <3>2, <3>3, <3>4, <4>2
      <4> QED
        BY <1>3, <1>5, <2>5, <4>1, <4>2
    <3>5. ASSUME NEW j \in 1..Len(got'), NEW k \in 1..Len(got'), j < k
          PROVE  got'[j].of < got'[k].of
      <4>1. j \in 1..Len(got) /\ (k \in 1..Len(got) \/ k = Len(got) + 1)
        <5>1. j \in 1..(Len(got) + 1) /\ k \in 1..(Len(got) + 1)
          BY <1>3, <1>5, <2>5
        <5>2. \A m \in Nat : \A a \in 1..(m + 1), b \in 1..(m + 1) :
                  a < b => a \in 1..m /\ (b \in 1..m \/ b = m + 1)
          OBVIOUS
        <5> QED
          BY <1>3, <3>5, <5>1, <5>2
      <4>2. CASE k \in 1..Len(got)
        BY <1>5, <2>1, <2>5, <3>5, <4>1, <4>2
      <4>3. CASE k = Len(got) + 1
        BY <1>5, <2>2, <2>5, <3>3, <4>1, <4>3
      <4> QED
        BY <4>1, <4>2, <4>3
    <3> QED
      BY <3>4, <3>5 DEF GotInOrder
  <2> QED
    BY <2>4, <2>5
<1> QED
  BY <1>1, <1>6, <1>8, <1>11, <1>12, LookKeeps

-----------------------------------------------------------------------------
LEMMA InductiveInvariant == Spec => []IInv
<1>1. Init => IInv
  BY InitInvariant
<1>2. IInv /\ [Next]_vars => IInv'
  <2> SUFFICES ASSUME IInv, [Next]_vars PROVE IInv'
    OBVIOUS
  <2>1. CASE Sender
    BY <2>1, SendStartKeeps, SendDataKeeps, SendSecondKeeps, SendEndKeeps DEF Sender
  <2>2. CASE Keep \/ Drop
    BY <2>2, KeepKeeps, DropKeeps
  <2>3. CASE Receiver
    BY <2>3, TakeKeeps, RecvEndKeeps, RecvEscKeeps, RecvDataKeeps DEF Receiver
  <2>4. CASE UNCHANGED vars
    <3>1. UNCHANGED <<sent, left, spc, wire, queue, clearing, c, receiver, lost>>
      BY <2>4 DEF vars, sender
    <3>2. UNCHANGED <<escape, buff, rpc, got>>
      BY <3>1 DEF receiver
    <3>3. TypeOK' /\ Sending' /\ Coming' = Coming
      BY <3>1, <3>2 DEF IInv, TypeOK, Sending, Coming, Place
    <3>4. Line'
      BY <3>1, <3>2 DEF IInv, Line, WellFormed, InData, Closes
    <3>5. \A x, z : Link(x, z)' = Link(x, z)
      BY <3>1 DEF Link, Follows, InData, Closes
    <3>6. Chain'
      BY <3>1, <3>3, <3>5 DEF IInv, Chain, LastStored, Behind
    <3>7. Receiving' /\ PastReceived' /\ GotInOrder'
      <4>1. Extends
        BY <3>1 DEF Extends, IInv, TypeOK
      <4> QED
        BY <3>1, <4>1, ReceiverKept
    <3> QED
      BY <3>3, <3>4, <3>6, <3>7 DEF IInv
  <2> QED
    BY <2>1, <2>2, <2>3, <2>4 DEF Next
<1> QED
  BY <1>1, <1>2, PTL DEF Spec

(* slip_recv never holds more than a_buflen bytes, and as long as the line  *)
(* loses nothing it returns the packets of slip_send, in order, each once,  *)
(* and nothing else, whatever characters they are made of.                  *)
THEOREM DeliversAsSent == Spec => []DeliveredAsSent
<1>1. IInv => DeliveredAsSent
  <2> SUFFICES ASSUME IInv, lost = {}
               PROVE  ReceivedAsSent
    BY DEF IInv, DeliveredAsSent, ReceivedAsSent
  <2>1. ASSUME NEW j \in 1..Len(got), NEW p \in Deliverable, p < got[j].of
        PROVE  \E k \in 1..Len(got) : got[k].of = p
    <3>1. /\ p \in 1..Len(sent) /\ p \in Intact /\ Plainly(p)
      BY DEF Deliverable, Intact, Plainly
    <3>2. got[j].of <= c.of /\ got[j].of \in 1..Len(sent)
      <4>1. got[j].of \in Deliverable /\ Past(got[j].of)
        BY DEF IInv, GotInOrder
      <4>2. got[j].of \in 1..Len(sent)
        BY <4>1 DEF Deliverable
      <4> QED
        BY <4>1, <4>2, Numbers DEF Past
    <3>3. p < c.of
      BY <2>1, <3>1, <3>2, Numbers
    <3> QED
      <4>1. IsReceived(p)
        BY <3>1, <3>3 DEF IInv, PastReceived, Past
      <4> QED
        BY <4>1 DEF IsReceived
  <2> QED
    BY <2>1 DEF IInv, GotInOrder, ReceivedAsSent
<1> QED
  BY <1>1, InductiveInvariant, PTL

(* A packet that lost none of its characters is received whatever was lost  *)
(* of others, unless it begins with ESC_END or ESC_ESC.                     *)
THEOREM IntactPacketsReceived == Spec => []IntactPlainReceived
<1>1. IInv => IntactPlainReceived
  <2> SUFFICES ASSUME IInv, Quiet, NEW p \in Intact, Head(sent[p]) \notin {ESC_END, ESC_ESC}
               PROVE  IsReceived(p)
    BY DEF IntactPlainReceived
  <2>1. /\ p \in 1..Len(sent) /\ p \notin lost /\ Plainly(p) /\ rpc = "take"
        /\ c.of \in 0..Len(sent) /\ Len(sent) \in Nat
    BY Numbers DEF Intact, Deliverable, Plainly, Quiet
  <2>2. Link(c, Coming) /\ Coming.of = Len(sent) + 1
    BY DEF IInv, Chain, LastStored, Behind, Coming, Quiet
  <2>3. c.of < Coming.of /\ p < Coming.of
    BY <2>1, <2>2
  <2>4. Past(p)
    BY <2>1, <2>2, <2>3 DEF Link, Past
  <2> QED
    BY <2>1, <2>4 DEF IInv, PastReceived
<1> QED
  BY <1>1, InductiveInvariant, PTL

-----------------------------------------------------------------------------
(* The checksum: SlipCrc. *)

(* Halving moves each bit down by one.                                      *)
LEMMA InHalved ==
    ASSUME NEW v \in Word, NEW x
    PROVE  x \in Halved(v) <=> x \in 0..14 /\ x + 1 \in v
<1>1. ASSUME x \in Halved(v) PROVE x \in 0..14 /\ x + 1 \in v
  <2>1. PICK i \in v \ {0} : x = i - 1
    BY <1>1 DEF Halved
  <2>2. i \in 1..15
    BY <2>1 DEF Word
  <2> QED
    BY <2>1, <2>2
<1>2. ASSUME x \in 0..14, x + 1 \in v PROVE x \in Halved(v)
  <2>1. x + 1 \in v \ {0} /\ x = (x + 1) - 1
    BY <1>2
  <2> QED
    BY <2>1, Zenon DEF Halved
<1> QED
  BY <1>1, <1>2

(* A shift keeps 16 bits, and is undone by looking at the highest bit.      *)
LEMMA ShiftKeeps ==
    ASSUME NEW v \in Word
    PROVE  /\ Shift(v) \in Word
           /\ 15 \in Shift(v) <=> 0 \in v
           /\ \A x \in 0..14 : x + 1 \in v <=> (x \in Shift(v)) # (0 \in v /\ x \in {0, 13})
<1>1. \A x : x \in Halved(v) <=> x \in 0..14 /\ x + 1 \in v
  BY InHalved
<1>2. Halved(v) \in SUBSET (0..14) /\ 15 \notin Halved(v)
  BY <1>1
<1>3. CASE 0 \in v
  <2>1. \A x : x \in Shift(v) <=> \/ x \in Halved(v) /\ x \notin {0, 13, 15}
                                  \/ x \notin Halved(v) /\ x \in {0, 13, 15}
    BY <1>3, Zenon DEF Shift, Xor
  <2>2. Shift(v) \in Word
    BY <1>2, <2>1 DEF Word
  <2>3. 15 \in Shift(v)
    BY <1>2, <2>1
  <2>4. \A x \in 0..14 : x + 1 \in v <=> (x \in Shift(v)) # (x \in {0, 13})
    BY <1>1, <2>1
  <2> QED
    BY <1>3, <2>2, <2>3, <2>4
<1>4. CASE 0 \notin v
  <2>1. Shift(v) = Halved(v)
    BY <1>4 DEF Shift
  <2>2. Shift(v) \in Word
    BY <1>2, <2>1 DEF Word
  <2> QED
    BY <1>1, <1>2, <1>4, <2>1, <2>2
<1> QED
  BY <1>3, <1>4

(* Two words that shift to the same are the same.                           *)
LEMMA ShiftInjective ==
    ASSUME NEW v \in Word, NEW d \in Word, Shift(v) = Shift(d)
    PROVE  v = d
<1>1. 0 \in v <=> 0 \in d
  BY ShiftKeeps
<1>2. \A x \in 0..14 : x + 1 \in v <=> x + 1 \in d
  <2> SUFFICES ASSUME NEW x \in 0..14 PROVE x + 1 \in v <=> x + 1 \in d
    OBVIOUS
  <2>1. x + 1 \in v <=> (x \in Shift(v)) # (0 \in v /\ x \in {0, 13})
    BY ShiftKeeps
  <2>2. x + 1 \in d <=> (x \in Shift(d)) # (0 \in d /\ x \in {0, 13})
    BY ShiftKeeps
  <2> QED
    BY <1>1, <2>1, <2>2, Zenon
<1>3. \A y \in 0..15 : y \in v <=> y \in d
  <2> SUFFICES ASSUME NEW y \in 0..15, y # 0 PROVE y \in v <=> y \in d
    BY <1>1
  <2>1. y - 1 \in 0..14 /\ (y - 1) + 1 = y
    OBVIOUS
  <2> QED
    BY <1>2, <2>1
<1> QED
  BY <1>3, Zenon DEF Word

LEMMA XorKeeps ==
    ASSUME NEW a \in Word, NEW b \in Word
    PROVE  Xor(a, b) \in Word
  BY DEF Xor, Word

LEMMA XorInjective ==
    ASSUME NEW a, NEW b, NEW v, Xor(a, b) = Xor(a, v)
    PROVE  b = v
<1>1. \A x : x \in Xor(a, b) <=> ~(x \in a <=> x \in b)
  BY Zenon DEF Xor
<1>2. \A x : x \in Xor(a, v) <=> ~(x \in a <=> x \in v)
  BY Zenon DEF Xor
<1>3. \A x : x \in b <=> x \in v
  BY <1>1, <1>2, Zenon
<1> QED
  BY <1>3, Zenon

LEMMA XorSymmetric ==
    ASSUME NEW a, NEW b
    PROVE  Xor(a, b) = Xor(b, a)
  BY Zenon DEF Xor

LEMMA OctetIsWord == Octet \subseteq Word
  BY DEF Octet, Word

(* The checksum after a byte tells apart what it was before, and the byte.  *)
LEMMA UpdateKeeps ==
    ASSUME NEW v \in Word, NEW b \in Octet
    PROVE  Crc16Update(v, b) \in Word
  BY OctetIsWord, XorKeeps, ShiftKeeps DEF Crc16Update

LEMMA EightShifts ==
    ASSUME NEW v \in Word, NEW d \in Word,
           Shift(Shift(Shift(Shift(Shift(Shift(Shift(Shift(v))))))))
             = Shift(Shift(Shift(Shift(Shift(Shift(Shift(Shift(d))))))))
    PROVE  v = d
<1> DEFINE c1 == Shift(v) c2 == Shift(c1) c3 == Shift(c2) c4 == Shift(c3)
           c5 == Shift(c4) c6 == Shift(c5) c7 == Shift(c6) c8 == Shift(c7)
           d1 == Shift(d) d2 == Shift(d1) d3 == Shift(d2) d4 == Shift(d3)
           d5 == Shift(d4) d6 == Shift(d5) d7 == Shift(d6) d8 == Shift(d7)
<1>1. c1 \in Word /\ d1 \in Word /\ (c1 = d1 => v = d)
  BY ShiftKeeps, ShiftInjective
<1> HIDE DEF c1, d1
<1>2. c2 \in Word /\ d2 \in Word /\ (c2 = d2 => c1 = d1)
  BY <1>1, ShiftKeeps, ShiftInjective
<1> HIDE DEF c2, d2
<1>3. c3 \in Word /\ d3 \in Word /\ (c3 = d3 => c2 = d2)
  BY <1>2, ShiftKeeps, ShiftInjective
<1> HIDE DEF c3, d3
<1>4. c4 \in Word /\ d4 \in Word /\ (c4 = d4 => c3 = d3)
  BY <1>3, ShiftKeeps, ShiftInjective
<1> HIDE DEF c4, d4
<1>5. c5 \in Word /\ d5 \in Word /\ (c5 = d5 => c4 = d4)
  BY <1>4, ShiftKeeps, ShiftInjective
<1> HIDE DEF c5, d5
<1>6. c6 \in Word /\ d6 \in Word /\ (c6 = d6 => c5 = d5)
  BY <1>5, ShiftKeeps, ShiftInjective
<1> HIDE DEF c6, d6
<1>7. c7 \in Word /\ d7 \in Word /\ (c7 = d7 => c6 = d6)
  BY <1>6, ShiftKeeps, ShiftInjective
<1> HIDE DEF c7, d7
<1>8. c8 = d8 => c7 = d7
  BY <1>7, ShiftInjective
<1>9. c8 = d8
  BY DEF c1, c2, c3, c4, c5, c6, c7, d1, d2, d3, d4, d5, d6, d7
<1> QED
  BY <1>1, <1>2, <1>3, <1>4, <1>5, <1>6, <1>7, <1>8, <1>9

LEMMA UpdateInjective ==
    ASSUME NEW v \in Word, NEW d \in Word, NEW a \in Octet, NEW b \in Octet
    PROVE  /\ Crc16Update(v, b) = Crc16Update(d, b) => v = d
           /\ Crc16Update(v, a) = Crc16Update(v, b) => a = b
<1>1. a \in Word /\ b \in Word
  BY OctetIsWord
<1>2. Xor(v, b) \in Word /\ Xor(d, b) \in Word /\ Xor(v, a) \in Word
  BY <1>1, XorKeeps
<1>3. Crc16Update(v, b) = Crc16Update(d, b) => Xor(v, b) = Xor(d, b)
  BY <1>2, EightShifts DEF Crc16Update
<1>4. Crc16Update(v, a) = Crc16Update(v, b) => Xor(v, a) = Xor(v, b)
  BY <1>2, EightShifts DEF Crc16Update
<1> QED
  BY <1>3, <1>4, XorInjective, XorSymmetric

-----------------------------------------------------------------------------
(* Words and their bytes. *)

Joined(a, b) == a \cup {i + 8 : i \in b}

LEMMA InJoined ==
    ASSUME NEW a \in Octet, NEW b \in Octet, NEW x
    PROVE  x \in Joined(a, b) <=> x \in a \/ (x \in 8..15 /\ x - 8 \in b)
<1>1. ASSUME x \in {i + 8 : i \in b} PROVE x \in 8..15 /\ x - 8 \in b
  <2>1. PICK i \in b : x = i + 8
    BY <1>1
  <2>2. i \in 0..7
    BY <2>1 DEF Octet
  <2> QED
    BY <2>1, <2>2
<1>2. ASSUME x \in 8..15, x - 8 \in b PROVE x \in {i + 8 : i \in b}
  <2>1. x = (x - 8) + 8
    BY <1>2
  <2> QED
    BY <1>2, <2>1, Zenon
<1> QED
  BY <1>1, <1>2, Zenon DEF Joined

LEMMA JoinedKeeps ==
    ASSUME NEW a \in Octet, NEW b \in Octet
    PROVE  Joined(a, b) \in Word
<1> SUFFICES ASSUME NEW x \in Joined(a, b) PROVE x \in 0..15
  BY Zenon DEF Word
<1>1. x \in a \/ x \in 8..15
  BY InJoined
<1>2. x \in a => x \in 0..7
  BY DEF Octet
<1> QED
  BY <1>1, <1>2

(* Both bytes of a word matter.                                             *)
LEMMA JoinedInjective ==
    ASSUME NEW a \in Octet, NEW b \in Octet, NEW v \in Octet, NEW d \in Octet,
           Joined(a, b) = Joined(v, d)
    PROVE  a = v /\ b = d
<1>1. \A x \in 0..7 : x \in a <=> x \in v
  <2> SUFFICES ASSUME NEW x \in 0..7 PROVE x \in a <=> x \in v
    OBVIOUS
  <2>1. ~(x \in 8..15)
    OBVIOUS
  <2> QED
    BY <2>1, InJoined
<1>2. \A x \in 0..7 : x \in b <=> x \in d
  <2> SUFFICES ASSUME NEW x \in 0..7 PROVE x \in b <=> x \in d
    OBVIOUS
  <2>1. x + 8 \in 8..15 /\ (x + 8) - 8 = x /\ x + 8 \notin 0..7
    OBVIOUS
  <2>2. x + 8 \notin a /\ x + 8 \notin v
    BY <2>1 DEF Octet
  <2>3. x + 8 \in Joined(a, b) <=> x \in b
    BY <2>1, <2>2, InJoined
  <2>4. x + 8 \in Joined(v, d) <=> x \in d
    BY <2>1, <2>2, InJoined
  <2> QED
    BY <2>3, <2>4
<1> QED
  BY <1>1, <1>2, Zenon DEF Octet

(* A word is its two bytes.                                                 *)
LEMMA Parts ==
    ASSUME NEW w \in Word
    PROVE  Low(w) \in Octet /\ High(w) \in Octet /\ Joined(Low(w), High(w)) = w
<1>1. Low(w) \in Octet
  BY DEF Low, Octet
<1>2. \A x : x \in High(w) <=> x \in 0..7 /\ x + 8 \in w
  <2> SUFFICES ASSUME NEW x PROVE x \in High(w) <=> x \in 0..7 /\ x + 8 \in w
    OBVIOUS
  <2>1. ASSUME x \in High(w) PROVE x \in 0..7 /\ x + 8 \in w
    <3>1. PICK i \in w \ (0..7) : x = i - 8
      BY <2>1 DEF High
    <3>2. i \in 8..15
      BY <3>1 DEF Word
    <3> QED
      BY <3>1, <3>2
  <2>2. ASSUME x \in 0..7, x + 8 \in w PROVE x \in High(w)
    <3>1. x + 8 \in w \ (0..7) /\ x = (x + 8) - 8
      BY <2>2
    <3> QED
      BY <3>1, Zenon DEF High
  <2> QED
    BY <2>1, <2>2
<1>3. High(w) \in Octet
  BY <1>2 DEF Octet
<1>4. \A x : x \in Joined(Low(w), High(w)) <=> x \in w
  <2> SUFFICES ASSUME NEW x PROVE x \in Joined(Low(w), High(w)) <=> x \in w
    OBVIOUS
  <2>1. x \in Joined(Low(w), High(w)) <=> x \in Low(w) \/ (x \in 8..15 /\ x - 8 \in High(w))
    BY <1>1, <1>3, InJoined
  <2>2. x \in Low(w) <=> x \in w /\ x \in 0..7
    BY DEF Low
  <2>3. x \in 8..15 => (x - 8 \in High(w) <=> x \in w)
    <3> SUFFICES ASSUME x \in 8..15 PROVE x - 8 \in High(w) <=> x \in w
      OBVIOUS
    <3>1. x - 8 \in 0..7 /\ (x - 8) + 8 = x
      OBVIOUS
    <3> QED
      BY <1>2, <3>1
  <2>4. x \in w => x \in 0..7 \/ x \in 8..15
    BY DEF Word
  <2> QED
    BY <2>1, <2>2, <2>3, <2>4
<1>5. Joined(Low(w), High(w)) = w
  BY <1>4, Zenon
<1> QED
  BY <1>1, <1>3, <1>5

-----------------------------------------------------------------------------
(* How many bytes the checksum is of, and these bytes. *)
Limit == datalen + CrcOffs

Zeroed(b) == [k \in 1..Limit |-> IF k - 1 \in {CrcPos, CrcPos + 1} THEN {} ELSE b[k]]

(* t has the checksums of the first 0, 1, ... of the bytes m. *)
Sums(t, m) == /\ t \in [1 .. Limit + 1 -> Word] /\ t[1] = {}
              /\ \A k \in 1..Limit : t[k + 1] = Crc16Update(t[k], m[k])

Inserting == /\ ~damaged /\ verdict = {}
             /\ Limit < CharSize =>
                  /\ idx <= Limit
                  /\ \E t \in [1 .. Limit + 1 -> Word] :
                       /\ t[1] = {} /\ crc = t[idx + 1]
                       /\ \A k \in 1..idx : t[k + 1] = Crc16Update(t[k], Zeroed(a_buff)[k])

(* What was sent, s, has its checksum, and one byte of it may have changed. *)
SentAs(s, t) == /\ Sums(t, Zeroed(s))
                /\ Joined(s[CrcPos + 1], s[CrcPos + 2]) = t[Limit + 1]
                /\ IF damaged THEN \E j \in 1..Limit, b \in Octet :
                                       b # s[j] /\ a_buff = [s EXCEPT ![j] = b]
                   ELSE a_buff = s

Sent == /\ idx = 0 /\ crc = {} /\ verdict = {} /\ buflen = Limit /\ Limit < CharSize
        /\ \E s \in [1 .. datalen + 2 -> Octet], t \in [1 .. Limit + 1 -> Word] : SentAs(s, t)

(* Either the checksum was changed, or not: it is that of the bytes m, ...  *)
SumDiffers(m, t) == /\ \A k \in 1..Limit : a_buff[k] = m[k]
                    /\ crc = t[idx + 1]
                    /\ damaged <=> recv # t[Limit + 1]

(* ... of which one, number j, was changed. *)
ByteDiffers(m, t, j) == /\ damaged /\ recv = t[Limit + 1]
                        /\ a_buff[j] # m[j]
                        /\ \A k \in 1..Limit : k # j => a_buff[k] = m[k]
                        /\ IF idx < j THEN crc = t[idx + 1] ELSE crc # t[idx + 1]

Verifying ==
    /\ verdict = {} /\ buflen = Limit /\ Limit < CharSize /\ idx <= Limit
    /\ \E m \in [1..Limit -> Octet], t \in [1 .. Limit + 1 -> Word] :
          Sums(t, m) /\ (SumDiffers(m, t) \/ \E j \in 1..Limit : ByteDiffers(m, t, j))

Verified == IF damaged THEN verdict = {} ELSE crc = recv /\ verdict = Low(recv)

CrcInv == /\ CrcTypeOK /\ (ap \/ datalen >= 2)
          /\ step = "insert" => Inserting
          /\ step = "sent" => Sent
          /\ step = "verify" => Verifying
          /\ step = "done" => Verified

(* The checksum lies within the bytes it is of.                             *)
LEMMA Shape ==
    ASSUME datalen \in DataLens, ap \in Places, ap \/ datalen >= 2
    PROVE  /\ CharSize \in Nat \ {0, 1} /\ datalen \in 1 .. CharSize - 1
           /\ CrcPos \in Nat /\ CrcOffs \in {0, 2} /\ Limit \in Nat
           /\ CrcPos + 2 <= Limit /\ Limit <= datalen + 2
  BY LensAssumption, PlacesAssumption DEF CrcPos, CrcOffs, Limit

LEMMA SameShape ==
    ASSUME datalen' = datalen, ap' = ap
    PROVE  /\ CrcPos' = CrcPos /\ CrcOffs' = CrcOffs /\ Limit' = Limit
           /\ \A b : Zeroed(b)' = Zeroed(b)
           /\ \A t, m : Sums(t, m)' = Sums(t, m)
  BY DEF CrcPos, CrcOffs, Limit, Zeroed, Sums

LEMMA ZeroedKeeps ==
    ASSUME NEW b \in [1 .. datalen + 2 -> Octet], Limit \in Nat, Limit <= datalen + 2,
           datalen \in Nat
    PROVE  Zeroed(b) \in [1..Limit -> Octet]
<1>1. {} \in Octet
  BY DEF Octet
<1>2. \A k \in 1..Limit : b[k] \in Octet
  OBVIOUS
<1> QED
  BY <1>1, <1>2 DEF Zeroed

LEMMA SentAfter ==
    ASSUME NEW s \in [1 .. datalen + 2 -> Octet], NEW t \in [1 .. Limit + 1 -> Word],
           datalen' = datalen, ap' = ap, idx' = 0, crc' = {}, verdict' = {},
           buflen' = Limit, Limit < CharSize, Sums(t, Zeroed(s)),
           Joined(s[CrcPos + 1], s[CrcPos + 2]) = t[Limit + 1],
           IF damaged' THEN \E j \in 1..Limit, b \in Octet :
                                b # s[j] /\ a_buff' = [s EXCEPT ![j] = b]
           ELSE a_buff' = s
    PROVE  Sent'
<1>1. CrcPos' = CrcPos /\ Limit' = Limit
  BY DEF CrcPos, CrcOffs, Limit
<1>2. Sums(t, Zeroed(s))'
  BY <1>1 DEF Sums, Zeroed
<1>3. SentAs(s, t)'
  BY <1>1, <1>2 DEF SentAs
<1> QED
  BY <1>1, <1>3 DEF Sent

LEMMA VerifyingAfter ==
    ASSUME NEW m \in [1..Limit -> Octet], NEW t \in [1 .. Limit + 1 -> Word],
           datalen' = datalen, ap' = ap, verdict' = {}, buflen' = Limit, Limit < CharSize,
           idx' <= Limit, Sums(t, m),
           SumDiffers(m, t)' \/ \E j \in 1..Limit : ByteDiffers(m, t, j)'
    PROVE  Verifying'
<1>1. CrcPos' = CrcPos /\ Limit' = Limit
  BY DEF CrcPos, CrcOffs, Limit
<1>2. Sums(t, m)'
  BY <1>1 DEF Sums
<1> QED
  BY <1>1, <1>2 DEF Verifying

LEMMA EmptyWord == {} \in Word /\ {} \in Octet /\ Low({}) = {} /\ High({}) = {}
  BY DEF Word, Octet, Low, High

LEMMA CrcInvInit == CrcInit => CrcInv
<1> SUFFICES ASSUME CrcInit PROVE CrcInv
  OBVIOUS
<1>1. /\ datalen \in DataLens /\ ap \in Places /\ (ap \/ datalen >= 2)
      /\ step = "insert" /\ idx = 0 /\ crc = {} /\ buflen = 0 /\ recv = {}
      /\ damaged = FALSE /\ verdict = {}
  BY DEF CrcInit
<1>2. /\ CharSize \in Nat \ {0, 1} /\ datalen \in Nat /\ Limit \in Nat
  BY <1>1, Shape
<1>3. a_buff \in [1 .. datalen + 2 -> Octet]
  <2>1. PICK d \in [1 .. (IF Varying < datalen THEN Varying ELSE datalen) -> Fill] :
            a_buff = [j \in 1 .. datalen + 2 |-> IF j \in DOMAIN d THEN d[j] ELSE {}]
    BY DEF CrcInit
  <2>2. \A j \in DOMAIN d : d[j] \in Octet
    BY FillAssumption DEF Octet
  <2> HIDE <2>1
  <2>3. \A j \in 1 .. datalen + 2 : (IF j \in DOMAIN d THEN d[j] ELSE {}) \in Octet
    BY <2>2, EmptyWord
  <2> QED
    BY <2>1, <2>3
<1>4. CrcTypeOK
  <2>1. 0 \in 0 .. CharSize - 1
    BY <1>2
  <2> QED
    BY <1>1, <1>3, <2>1, EmptyWord, Zenon DEF CrcTypeOK
<1>5. \E t \in [1 .. Limit + 1 -> Word] :
         /\ t[1] = {} /\ crc = t[idx + 1]
         /\ \A k \in 1..idx : t[k + 1] = Crc16Update(t[k], Zeroed(a_buff)[k])
  <2> DEFINE t == [k \in 1 .. Limit + 1 |-> {}]
  <2>1. t \in [1 .. Limit + 1 -> Word] /\ t[1] = {}
    BY <1>2, EmptyWord
  <2>2. crc = t[idx + 1] /\ 1..idx = {}
    <3>1. 0 + 1 = 1 /\ 1..0 = {}
      OBVIOUS
    <3> QED
      BY <1>1, <2>1, <3>1
  <2> HIDE DEF t
  <2> QED
    BY <2>1, <2>2, Zenon
<1>6. Inserting
  BY <1>1, <1>2, <1>5 DEF Inserting
<1> QED
  BY <1>1, <1>4, <1>6 DEF CrcInv

LEMMA CrcInvInsert == CrcInv /\ Insert => CrcInv'
<1> SUFFICES ASSUME CrcInv, Insert PROVE CrcInv'
  OBVIOUS
<1>1. /\ step = "insert" /\ datalen' = datalen /\ ap' = ap /\ recv' = recv
      /\ damaged' = damaged /\ verdict' = verdict
      /\ CrcTypeOK /\ (ap \/ datalen >= 2) /\ Inserting
  BY DEF Insert, CrcInv
<1>2. /\ CharSize \in Nat \ {0, 1} /\ datalen \in 1 .. CharSize - 1
      /\ CrcPos \in Nat /\ CrcOffs \in {0, 2} /\ Limit \in Nat
      /\ CrcPos + 2 <= Limit /\ Limit <= datalen + 2
  BY <1>1, Shape DEF CrcTypeOK
<1>3. /\ CrcPos' = CrcPos /\ CrcOffs' = CrcOffs /\ Limit' = Limit
      /\ \A b : Zeroed(b)' = Zeroed(b)
      /\ \A t, m : Sums(t, m)' = Sums(t, m)
  BY <1>1, SameShape
<1>4. /\ a_buff \in [1 .. datalen + 2 -> Octet] /\ idx \in 0 .. CharSize - 1 /\ crc \in Word
      /\ Limit = datalen + CrcOffs
  BY <1>1 DEF CrcTypeOK, Limit
<1>5. CASE idx < Limit
  <2>1. /\ crc' = Crc16Update(crc, Byte(idx)) /\ idx' = Inc(idx)
        /\ a_buff' = a_buff /\ buflen' = buflen /\ step' = "insert"
    BY <1>1, <1>4, <1>5 DEF Insert
  <2>2. Byte(idx) \in Octet
    <3>1. idx + 1 \in 1 .. datalen + 2
      BY <1>2, <1>4, <1>5
    <3> QED
      BY <1>4, <3>1, EmptyWord DEF Byte
  <2>3. crc' \in Word
    BY <1>4, <2>1, <2>2, UpdateKeeps
  <2>4. idx' \in 0 .. CharSize - 1
    BY <1>2, <1>4, <2>1 DEF Inc
  <2>5. CrcTypeOK'
    BY <1>1, <2>1, <2>3, <2>4 DEF CrcTypeOK
  <2>6. ASSUME Limit < CharSize
        PROVE  /\ idx' <= Limit
               /\ \E t \in [1 .. Limit + 1 -> Word] :
                    /\ t[1] = {} /\ crc' = t[idx' + 1]
                    /\ \A k \in 1..idx' : t[k + 1] = Crc16Update(t[k], Zeroed(a_buff)[k])
    <3>1. idx' = idx + 1
      BY <1>2, <1>4, <1>5, <2>1, <2>6 DEF Inc
    <3>2. PICK t \in [1 .. Limit + 1 -> Word] :
             /\ t[1] = {} /\ crc = t[idx + 1]
             /\ \A k \in 1..idx : t[k + 1] = Crc16Update(t[k], Zeroed(a_buff)[k])
      BY <1>1, <2>6 DEF Inserting
    <3> DEFINE u == [t EXCEPT ![idx + 2] = crc']
    <3>3. u \in [1 .. Limit + 1 -> Word]
      BY <2>3, <3>2
    <3>4. \A k \in 1 .. idx + 1 : u[k] = t[k]
      BY <1>2, <1>4, <1>5, <3>2
    <3>5. u[idx + 2] = crc'
      BY <1>2, <1>4, <1>5, <3>2
    <3>6. Zeroed(a_buff)[idx + 1] = Byte(idx)
      <4>1. idx + 1 \in 1..Limit /\ (idx + 1) - 1 = idx
        BY <1>2, <1>4, <1>5
      <4> QED
        BY <4>1 DEF Zeroed, Byte
    <3> HIDE DEF u
    <3>7. ASSUME NEW k \in 1..idx' PROVE u[k + 1] = Crc16Update(u[k], Zeroed(a_buff)[k])
      <4>1. CASE k = idx + 1
        <5>1. u[k] = crc /\ u[k + 1] = crc' /\ Zeroed(a_buff)[k] = Byte(idx)
          <6>1. idx + 1 \in 1 .. idx + 1 /\ k + 1 = idx + 2
            BY <1>4, <4>1
          <6> QED
            BY <3>2, <3>4, <3>5, <3>6, <4>1, <6>1
        <5> QED
          BY <2>1, <5>1
      <4>2. CASE k # idx + 1
        <5>1. k \in 1..idx /\ k \in 1 .. idx + 1 /\ k + 1 \in 1 .. idx + 1
          BY <1>4, <3>1, <3>7, <4>2
        <5>2. u[k] = t[k] /\ u[k + 1] = t[k + 1]
          BY <3>4, <5>1
        <5> QED
          BY <3>2, <5>1, <5>2
      <4> QED
        BY <4>1, <4>2
    <3>8. u[1] = {} /\ crc' = u[idx' + 1]
      <4>1. 1 \in 1 .. idx + 1 /\ idx' + 1 = idx + 2
        BY <1>4, <3>1
      <4> QED
        BY <3>2, <3>4, <3>5, <4>1
    <3>9. idx' <= Limit
      BY <1>2, <1>4, <1>5, <3>1
    <3> QED
      BY <3>3, <3>7, <3>8, <3>9
  <2>7. Inserting'
    BY <1>1, <1>3, <2>1, <2>6 DEF Inserting
  <2> QED
    BY <1>1, <2>1, <2>5, <2>7 DEF CrcInv
<1>6. CASE ~(idx < Limit)
  <2>1. /\ a_buff' = WithWord(CrcPos, crc) /\ buflen' = Limit % CharSize
        /\ step' = "sent" /\ idx' = 0 /\ crc' = {}
    BY <1>1, <1>4, <1>6 DEF Insert
  <2>2. Limit < CharSize /\ idx = Limit
    BY <1>1, <1>2, <1>4, <1>6 DEF Inserting
  <2>3. PICK t \in [1 .. Limit + 1 -> Word] :
           /\ t[1] = {} /\ crc = t[idx + 1]
           /\ \A k \in 1..idx : t[k + 1] = Crc16Update(t[k], Zeroed(a_buff)[k])
    BY <1>1, <2>2 DEF Inserting
  <2>4. buflen' = Limit
    BY <1>2, <2>1, <2>2
  <2>5. Low(crc) \in Octet /\ High(crc) \in Octet /\ Joined(Low(crc), High(crc)) = crc
    BY <1>4, Parts
  <2>6. CrcPos + 1 \in 1 .. datalen + 2 /\ CrcPos + 2 \in 1 .. datalen + 2
    BY <1>2
  <2>7. /\ a_buff' \in [1 .. datalen + 2 -> Octet]
        /\ a_buff'[CrcPos + 1] = Low(crc) /\ a_buff'[CrcPos + 2] = High(crc)
        /\ \A k \in 1 .. datalen + 2 : k \notin {CrcPos + 1, CrcPos + 2} => a_buff'[k] = a_buff[k]
    BY <1>2, <1>4, <2>1, <2>5, <2>6 DEF WithWord
  <2>8. Zeroed(a_buff') = Zeroed(a_buff)
    <3>1. \A k \in 1..Limit : k - 1 \notin {CrcPos, CrcPos + 1} => a_buff'[k] = a_buff[k]
      BY <1>2, <2>7
    <3> QED
      BY <3>1 DEF Zeroed
  <2>9. PICK s \in [1 .. datalen + 2 -> Octet] : s = a_buff'
    BY <2>7
  <2>10. Sums(t, Zeroed(s))
    BY <2>2, <2>3, <2>8, <2>9 DEF Sums
  <2>11. Joined(s[CrcPos + 1], s[CrcPos + 2]) = t[Limit + 1]
    BY <2>2, <2>3, <2>5, <2>7, <2>9
  <2>12. Sent'
    <3>1. ~damaged' /\ verdict' = {}
      BY <1>1 DEF Inserting
    <3> QED
      BY <1>1, <2>1, <2>2, <2>4, <2>9, <2>10, <2>11, <3>1, SentAfter
  <2>13. CrcTypeOK'
    <3>1. 0 \in 0 .. CharSize - 1 /\ Limit \in 0 .. CharSize - 1
      BY <1>2, <2>2
    <3> QED
      BY <1>1, <2>1, <2>4, <2>7, <3>1, EmptyWord, Zenon DEF CrcTypeOK
  <2> QED
    BY <1>1, <2>1, <2>12, <2>13 DEF CrcInv
<1> QED
  BY <1>5, <1>6

(* What was sent, and the checksums of the bytes it starts with.            *)
LEMMA CrcInvCorrupt == CrcInv /\ Corrupt => CrcInv'
<1> SUFFICES ASSUME CrcInv, Corrupt PROVE CrcInv'
  OBVIOUS
<1>1. /\ step = "sent" /\ ~damaged /\ damaged' = TRUE
      /\ UNCHANGED <<datalen, ap, step, idx, crc, buflen, recv, verdict>>
      /\ CrcTypeOK /\ (ap \/ datalen >= 2) /\ Sent
  BY DEF Corrupt, CrcInv
<1>2. /\ datalen \in Nat /\ Limit \in Nat /\ Limit <= datalen + 2
  BY <1>1, Shape DEF CrcTypeOK
<1>3. PICK j \in 1..buflen, b \in Damage : b # a_buff[j] /\ a_buff' = [a_buff EXCEPT ![j] = b]
  BY DEF Corrupt
<1>4. PICK s \in [1 .. datalen + 2 -> Octet], t \in [1 .. Limit + 1 -> Word] : SentAs(s, t)
  BY <1>1 DEF Sent
<1>5. /\ a_buff = s /\ Sums(t, Zeroed(s))
      /\ Joined(s[CrcPos + 1], s[CrcPos + 2]) = t[Limit + 1]
  BY <1>1, <1>4 DEF SentAs
<1>6. j \in 1..Limit /\ b \in Octet
  BY <1>1, FillAssumption DEF Sent, Octet
<1>7. Sent'
  <2>1. /\ idx' = 0 /\ crc' = {} /\ verdict' = {} /\ buflen' = Limit /\ Limit < CharSize
    BY <1>1 DEF Sent
  <2> QED
    BY <1>1, <1>3, <1>5, <1>6, <2>1, SentAfter
<1>8. a_buff' \in [1 .. datalen + 2 -> Octet]
  BY <1>3, <1>5, <1>6
<1>9. CrcTypeOK'
  BY <1>1, <1>8 DEF CrcTypeOK
<1> QED
  BY <1>1, <1>7, <1>9 DEF CrcInv

LEMMA CrcInvVerifyStart == CrcInv /\ VerifyStart => CrcInv'
<1> SUFFICES ASSUME CrcInv, VerifyStart PROVE CrcInv'
  OBVIOUS
<1>1. /\ step = "sent" /\ UNCHANGED <<datalen, ap, idx, crc, buflen, damaged, verdict>>
      /\ CrcTypeOK /\ (ap \/ datalen >= 2) /\ Sent
  BY DEF VerifyStart, CrcInv
<1>2. /\ datalen \in Nat /\ CrcPos \in Nat /\ Limit \in Nat
      /\ CrcPos + 2 <= Limit /\ Limit <= datalen + 2
  BY <1>1, Shape DEF CrcTypeOK
<1>3. /\ idx = 0 /\ crc = {} /\ verdict = {} /\ buflen = Limit /\ Limit < CharSize
  BY <1>1 DEF Sent
<1>4. step' = "verify" /\ recv' = WordAt(CrcPos) /\ a_buff' = WithWord(CrcPos, {})
  BY <1>2, <1>3 DEF VerifyStart
<1>5. PICK s \in [1 .. datalen + 2 -> Octet], t \in [1 .. Limit + 1 -> Word] : SentAs(s, t)
  BY <1>1 DEF Sent
<1>6. /\ Sums(t, Zeroed(s)) /\ Joined(s[CrcPos + 1], s[CrcPos + 2]) = t[Limit + 1]
      /\ IF damaged THEN \E j \in 1..Limit, b \in Octet :
                              b # s[j] /\ a_buff = [s EXCEPT ![j] = b]
         ELSE a_buff = s
  BY <1>5 DEF SentAs
<1>7. /\ CrcPos + 1 \in 1..Limit /\ CrcPos + 2 \in 1..Limit
      /\ CrcPos + 1 \in 1 .. datalen + 2 /\ CrcPos + 2 \in 1 .. datalen + 2
      /\ 1..Limit \subseteq 1 .. datalen + 2
  BY <1>2
<1>8. a_buff \in [1 .. datalen + 2 -> Octet]
  BY <1>1 DEF CrcTypeOK
<1>9. recv' = Joined(a_buff[CrcPos + 1], a_buff[CrcPos + 2])
  BY <1>4 DEF WordAt, Joined
<1>10. /\ a_buff' \in [1 .. datalen + 2 -> Octet]
       /\ \A k \in 1 .. datalen + 2 :
             a_buff'[k] = IF k \in {CrcPos + 1, CrcPos + 2} THEN {} ELSE a_buff[k]
  BY <1>2, <1>4, <1>7, <1>8, EmptyWord DEF WithWord
<1>11. recv' \in Word
  <2>1. a_buff[CrcPos + 1] \in Octet /\ a_buff[CrcPos + 2] \in Octet
    BY <1>7, <1>8
  <2> QED
    BY <1>9, <2>1, JoinedKeeps
<1>12. CrcTypeOK'
  BY <1>1, <1>4, <1>10, <1>11 DEF CrcTypeOK
<1>13. PICK m \in [1..Limit -> Octet] : m = Zeroed(s)
  BY <1>2, ZeroedKeeps
<1>14. \A k \in 1..Limit : m[k] = IF k \in {CrcPos + 1, CrcPos + 2} THEN {} ELSE s[k]
  BY <1>2, <1>13 DEF Zeroed
<1>15. crc' = t[idx' + 1]
  BY <1>1, <1>3, <1>6 DEF Sums
<1>16. Limit' = Limit
  BY <1>1, SameShape
<1>17. SumDiffers(m, t)' \/ \E j \in 1..Limit : ByteDiffers(m, t, j)'
  <2>1. CASE ~damaged
    <3>1. a_buff = s /\ ~damaged'
      BY <1>1, <1>6, <2>1
    <3>2. \A k \in 1..Limit : a_buff'[k] = m[k]
      BY <1>7, <1>10, <1>14, <3>1
    <3>3. recv' = t[Limit + 1]
      BY <1>6, <1>9, <3>1
    <3>4. SumDiffers(m, t)'
      BY <1>15, <1>16, <3>1, <3>2, <3>3 DEF SumDiffers
    <3> QED
      BY <3>4
  <2>2. CASE damaged
    <3>1. PICK j \in 1..Limit, b \in Octet : b # s[j] /\ a_buff = [s EXCEPT ![j] = b]
      BY <1>6, <2>2
    <3>2. /\ a_buff[j] = b /\ damaged'
          /\ \A k \in 1 .. datalen + 2 : k # j => a_buff[k] = s[k]
      BY <1>1, <1>7, <2>2, <3>1
    <3>3. CASE j \in {CrcPos + 1, CrcPos + 2}
      <4>1. \A k \in 1..Limit : a_buff'[k] = m[k]
        BY <1>7, <1>10, <1>14, <3>2, <3>3
      <4>2. recv' # t[Limit + 1]
        <5>1. /\ a_buff[CrcPos + 1] \in Octet /\ a_buff[CrcPos + 2] \in Octet
              /\ s[CrcPos + 1] \in Octet /\ s[CrcPos + 2] \in Octet
          BY <1>7, <1>8
        <5>2. a_buff[j] # s[j]
          BY <3>1, <3>2
        <5> QED
          BY <1>6, <1>9, <3>3, <5>1, <5>2, JoinedInjective
      <4>3. SumDiffers(m, t)'
        BY <1>15, <1>16, <3>2, <4>1, <4>2 DEF SumDiffers
      <4> QED
        BY <4>3
    <3>4. CASE j \notin {CrcPos + 1, CrcPos + 2}
      <4>1. recv' = t[Limit + 1]
        <5>1. a_buff[CrcPos + 1] = s[CrcPos + 1] /\ a_buff[CrcPos + 2] = s[CrcPos + 2]
          BY <1>7, <3>2, <3>4
        <5> QED
          BY <1>6, <1>9, <5>1
      <4>2. a_buff'[j] # m[j]
        BY <1>7, <1>10, <1>14, <3>1, <3>2, <3>4
      <4>3. \A k \in 1..Limit : k # j => a_buff'[k] = m[k]
        BY <1>7, <1>10, <1>14, <3>2
      <4>4. idx' < j
        BY <1>1, <1>3
      <4>5. ByteDiffers(m, t, j)'
        BY <1>15, <1>16, <3>2, <4>1, <4>2, <4>3, <4>4 DEF ByteDiffers
      <4> QED
        BY <4>5
    <3> QED
      BY <3>3, <3>4
  <2> QED
    BY <2>1, <2>2
<1>18. Verifying'
  <2>1. /\ verdict' = {} /\ buflen' = Limit /\ idx' <= Limit
    BY <1>1, <1>2, <1>3
  <2>2. Sums(t, m)
    BY <1>6, <1>13
  <2> QED
    BY <1>1, <1>3, <1>17, <2>1, <2>2, VerifyingAfter
<1> QED
  BY <1>1, <1>4, <1>12, <1>18 DEF CrcInv

LEMMA CrcInvVerify == CrcInv /\ Verify => CrcInv'
<1> SUFFICES ASSUME CrcInv, Verify PROVE CrcInv'
  OBVIOUS
<1>1. /\ step = "verify" /\ UNCHANGED <<a_buff, datalen, ap, buflen, recv, damaged>>
      /\ CrcTypeOK /\ (ap \/ datalen >= 2) /\ Verifying
  BY DEF Verify, CrcInv
<1>2. /\ datalen \in Nat /\ Limit \in Nat /\ Limit <= datalen + 2 /\ CharSize \in Nat
  BY <1>1, Shape DEF CrcTypeOK
<1>3. /\ verdict = {} /\ buflen = Limit /\ Limit < CharSize /\ idx <= Limit
      /\ idx \in Nat /\ crc \in Word /\ recv \in Word
      /\ a_buff \in [1 .. datalen + 2 -> Octet]
  BY <1>1, <1>2 DEF Verifying, CrcTypeOK
<1>4. PICK m \in [1..Limit -> Octet], t \in [1 .. Limit + 1 -> Word] :
         Sums(t, m) /\ (SumDiffers(m, t) \/ \E j \in 1..Limit : ByteDiffers(m, t, j))
  BY <1>1 DEF Verifying
<1>5. Limit' = Limit
  BY <1>1, SameShape
<1>6. CASE idx < Limit
  <2>1. /\ crc' = Crc16Update(crc, a_buff[idx + 1]) /\ idx' = idx + 1
        /\ step' = "verify" /\ verdict' = verdict
    BY <1>1, <1>3, <1>6 DEF Verify
  <2>2. idx + 1 \in 1..Limit /\ idx + 1 \in 1 .. datalen + 2 /\ (idx + 1) + 1 = idx + 2
    BY <1>2, <1>3, <1>6
  <2>3. a_buff[idx + 1] \in Octet /\ m[idx + 1] \in Octet /\ t[idx + 1] \in Word
    <3>1. idx + 1 \in 1 .. Limit + 1
      BY <1>2, <2>2
    <3> QED
      BY <1>3, <1>4, <2>2, <3>1
  <2>4. t[idx + 2] = Crc16Update(t[idx + 1], m[idx + 1])
    BY <1>4, <2>2 DEF Sums
  <2>5. CrcTypeOK'
    <3>1. crc' \in Word
      BY <1>3, <2>1, <2>3, UpdateKeeps
    <3>2. idx' \in 0 .. CharSize - 1
      BY <1>2, <1>3, <1>6, <2>1
    <3> QED
      BY <1>1, <2>1, <3>1, <3>2 DEF CrcTypeOK
  <2>6. SumDiffers(m, t)' \/ \E j \in 1..Limit : ByteDiffers(m, t, j)'
    <3>1. CASE SumDiffers(m, t)
      <4>1. crc' = t[idx' + 1]
        BY <2>1, <2>2, <2>4, <3>1 DEF SumDiffers
      <4>2. SumDiffers(m, t)'
        BY <1>1, <1>5, <3>1, <4>1 DEF SumDiffers
      <4> QED
        BY <4>2
    <3>2. ASSUME NEW j \in 1..Limit, ByteDiffers(m, t, j) PROVE ByteDiffers(m, t, j)'
      <4>1. /\ damaged /\ recv = t[Limit + 1] /\ a_buff[j] # m[j]
            /\ \A k \in 1..Limit : k # j => a_buff[k] = m[k]
            /\ IF idx < j THEN crc = t[idx + 1] ELSE crc # t[idx + 1]
        BY <3>2 DEF ByteDiffers
      <4>2. idx' + 1 = idx + 2
        BY <1>3, <2>1
      <4>3. IF idx' < j THEN crc' = t[idx' + 1] ELSE crc' # t[idx' + 1]
        <5>1. CASE idx' < j
          <6>1. idx < j /\ idx + 1 # j
            BY <1>3, <2>1, <5>1
          <6>2. crc = t[idx + 1] /\ a_buff[idx + 1] = m[idx + 1]
            BY <2>2, <4>1, <6>1
          <6> QED
            BY <2>1, <2>4, <4>2, <5>1, <6>2
        <5>2. CASE idx' = j
          <6>1. idx < j /\ idx + 1 = j /\ ~(idx' < j)
            BY <1>3, <2>1, <5>2
          <6>2. crc = t[idx + 1] /\ a_buff[idx + 1] # m[idx + 1]
            BY <4>1, <6>1
          <6>3. crc' # t[idx + 2]
            BY <2>1, <2>3, <2>4, <6>2, UpdateInjective
          <6> QED
            BY <4>2, <6>1, <6>3
        <5>3. CASE idx' > j
          <6>1. ~(idx < j) /\ idx + 1 # j /\ ~(idx' < j)
            BY <1>3, <2>1, <5>3
          <6>2. crc # t[idx + 1] /\ a_buff[idx + 1] = m[idx + 1]
            BY <2>2, <4>1, <6>1
          <6>3. crc' # t[idx + 2]
            BY <1>3, <2>1, <2>3, <2>4, <6>2, UpdateInjective
          <6> QED
            BY <4>2, <6>1, <6>3
        <5>4. idx' < j \/ idx' = j \/ idx' > j
          BY <1>3, <2>1
        <5> QED
          BY <5>1, <5>2, <5>3, <5>4
      <4> QED
        BY <1>1, <1>5, <4>1, <4>3 DEF ByteDiffers
    <3> QED
      BY <1>4, <3>1, <3>2
  <2>7. Verifying'
    <3>1. verdict' = {} /\ buflen' = Limit /\ idx' <= Limit
      BY <1>1, <1>2, <1>3, <1>6, <2>1
    <3> QED
      BY <1>1, <1>3, <1>4, <2>6, <3>1, VerifyingAfter
  <2> QED
    BY <1>1, <2>1, <2>5, <2>7 DEF CrcInv
<1>7. CASE ~(idx < Limit)
  <2>1. /\ verdict' = Result /\ step' = "done" /\ idx' = idx /\ crc' = crc
    BY <1>1, <1>3, <1>7 DEF Verify
  <2>2. idx = Limit
    BY <1>2, <1>3, <1>7
  <2>3. CrcTypeOK'
    <3>1. Result \in Octet
      BY <1>3, Parts, EmptyWord DEF Result
    <3> QED
      BY <1>1, <2>1, <3>1 DEF CrcTypeOK
  <2>4. Verified'
    <3>1. CASE SumDiffers(m, t)
      <4>1. crc = t[Limit + 1] /\ (damaged <=> recv # t[Limit + 1])
        BY <2>2, <3>1 DEF SumDiffers
      <4> QED
        BY <1>1, <2>1, <4>1 DEF Verified, Result
    <3>2. ASSUME NEW j \in 1..Limit, ByteDiffers(m, t, j) PROVE Verified'
      <4>1. damaged /\ recv = t[Limit + 1] /\ crc # t[Limit + 1]
        <5>1. ~(idx < j)
          BY <1>2, <2>2
        <5> QED
          BY <2>2, <3>2, <5>1 DEF ByteDiffers
      <4> QED
        BY <1>1, <2>1, <4>1 DEF Verified, Result
    <3> QED
      BY <1>4, <3>1, <3>2
  <2> QED
    BY <1>1, <2>1, <2>3, <2>4 DEF CrcInv
<1> QED
  BY <1>6, <1>7

LEMMA CrcInvStutter == CrcInv /\ UNCHANGED crcVars => CrcInv'
<1> SUFFICES ASSUME CrcInv, UNCHANGED crcVars PROVE CrcInv'
  OBVIOUS
<1>1. UNCHANGED <<a_buff, datalen, ap, step, idx, crc, buflen, recv, damaged, verdict>>
  BY DEF crcVars
<1>2. CrcPos' = CrcPos /\ Limit' = Limit
  BY <1>1 DEF CrcPos, CrcOffs, Limit
<1>3. CrcTypeOK'
  BY <1>1 DEF CrcInv, CrcTypeOK
<1>4. Inserting' <=> Inserting
  BY <1>1, <1>2 DEF Inserting, Zeroed
<1>5. Sent' <=> Sent
  BY <1>1, <1>2 DEF Sent, SentAs, Sums, Zeroed
<1>6. Verifying' <=> Verifying
  BY <1>1, <1>2 DEF Verifying, SumDiffers, ByteDiffers, Sums
<1>7. Verified' <=> Verified
  BY <1>1 DEF Verified
<1> QED
  BY <1>1, <1>3, <1>4, <1>5, <1>6, <1>7 DEF CrcInv

LEMMA CrcInvariant == CrcSpec => []CrcInv
<1>1. CrcInv /\ [CrcNext]_crcVars => CrcInv'
  BY CrcInvInsert, CrcInvCorrupt, CrcInvVerifyStart, CrcInvVerify, CrcInvStutter
     DEF CrcNext
<1> QED
  BY CrcInvInit, <1>1, PTL DEF CrcSpec

(* slip_verify_crc16 of a packet that slip_append_crc16 or                  *)
(* slip_prepend_crc16 closed: a packet with one damaged byte, whichever it  *)
(* is and whatever it became, is refused, and an intact one is accepted     *)
(* unless the low byte of its checksum is 0: for every content and every    *)
(* length the loop of the insertion can count.                              *)
THEOREM VerdictSafe == CrcSpec => []VerdictRight
<1>1. CrcInv => VerdictRight
  BY DEF CrcInv, Verified, VerdictRight, DamageDetected, IntactMatches
<1> QED
  BY CrcInvariant, <1>1, PTL
=============================================================================
