--------------------------- MODULE SerialTxProofs ---------------------------
(***************************************************************************)
(* SerialTx for every ring size, data length and byte set: its invariants, *)
(* and that it implements ByteQueue.                                       *)
(***************************************************************************)
EXTENDS SerialTx, RingProofs

(* Where a step uses the next byte of the data there is one, and between two *)
(* calls nothing is on offer.                                                *)
OfferBound ==
    /\ pc \in {"send_store", "send_advance", "sendc_store", "sendc_advance",
               "poll_write"} => offered # <<>>
    /\ pc \in {"idle", "init_zero"} => offered = <<>>

(* A program that initialises the port once does so with an empty ring.      *)
InitOnce ==
    ~Reinit => /\ pc = "init_zero" => ~txen
               /\ ~txen => pc \in {"idle", "init_zero"} /\ head = 0 /\ tail = 0

(* Bytes wait with the interrupt masked only inside a call that is going to  *)
(* enable it.                                                                *)
Unmasked ==
    ~Reinit /\ ~waited =>
        /\ pc \in {"send", "send_store", "send_advance", "send_enable",
                   "send_end"} => ~waitall
        /\ \/ pc \in {"send", "send_store", "send_advance", "send_enable",
                      "send_end", "sendc_enable"}
           \/ head # tail => udrie

(* Nothing is written to the data register behind the back of a poll.        *)
PollAlone ==
    ~MixPolling => /\ pc \in {"poll_wait", "poll_write"} => ~udrie
                   /\ pc = "poll_write" => udr = <<>>

IInv == /\ TypeOK
        /\ StoredBeforePublished
        /\ OfferBound
        /\ InitOnce
        /\ Unmasked
        /\ PollAlone

-----------------------------------------------------------------------------
(* The inductive invariant. *)

LEMMA InitInvariant == Init => IInv
<1> SUFFICES ASSUME Init PROVE IInv
  OBVIOUS
<1>1. Zero \in Byte /\ 0 \in Slot /\ 0 \in 0..MaxSize
  BY ByteAssumption, SizeAssumption, RingSizeAssumption DEF Slot
<1>2. TypeOK
  <2>1. ring \in [Cell -> Byte]
    BY <1>1 DEF Init
  <2>2. udr \in Seq(Byte) /\ Len(udr) <= 1 /\ offered \in Seq(Byte) /\ Len(offered) <= MaxSize
    BY EmptySeq, SizeAssumption DEF Init
  <2> QED
    BY <1>1, <2>1, <2>2 DEF Init, TypeOK, Label
<1> QED
  BY <1>2 DEF Init, IInv, StoredBeforePublished, OfferBound, InitOnce,
     Unmasked, PollAlone

LEMMA CallKeepsInvariant ==
    ASSUME IInv,
           NEW l \in {"send", "sendc", "poll_wait"},
           NEW d \in Seq(Byte), Len(d) <= MaxSize, NEW w \in BOOLEAN, Call(l, d, w),
           l = "send" => w \in WaitModes,
           l = "poll_wait" => MayPoll
    PROVE  IInv'
<1>1. Len(d) \in 0..MaxSize
  BY LenProperties, SizeAssumption
<1>2. TypeOK'
  BY <1>1 DEF IInv, TypeOK, Call, Label
<1> QED
  BY <1>2 DEF IInv, Call, MayPoll, StoredBeforePublished, OfferBound, InitOnce,
     Unmasked, PollAlone

(* The bytes a caller may pass. *)
LEMMA DataIsSeq == \A d \in Data : d \in Seq(Byte) /\ Len(d) <= MaxSize
<1> SUFFICES ASSUME NEW s \in 0..MaxSize, NEW d \in [1..s -> Byte]
             PROVE  d \in Seq(Byte) /\ Len(d) <= MaxSize
  BY DEF Data
<1>1. s \in Nat
  BY SizeAssumption
<1> QED
  BY <1>1

LEMMA TranslateIsSeq ==
    \A c \in Byte : Translate(c) \in Seq(Byte) /\ Len(Translate(c)) <= MaxSize
<1> SUFFICES ASSUME NEW c \in Byte
             PROVE  Translate(c) \in Seq(Byte) /\ Len(Translate(c)) <= MaxSize
  OBVIOUS
<1>1. CASE c = Newline
  BY <1>1, ByteAssumption, SizeAssumption DEF Translate
<1>2. CASE c # Newline
  BY <1>2, SizeAssumption DEF Translate
<1> QED
  BY <1>1, <1>2

LEMMA StartKeepsInvariant == IInv /\ StartCall => IInv'
<1> SUFFICES ASSUME IInv, StartCall PROVE IInv'
  OBVIOUS
<1>1. CASE CallSend
  <2>1. PICK d \in Data, w \in WaitModes : Call("send", d, w)
    BY <1>1 DEF CallSend
  <2>2. w \in BOOLEAN
    BY FlagAssumption
  <2> QED
    BY <2>1, <2>2, DataIsSeq, CallKeepsInvariant
<1>2. CASE CallSendc
  <2>1. PICK b \in Byte : Call("sendc", <<b>>, FALSE)
    BY <1>2 DEF CallSendc
  <2>2. <<b>> \in Seq(Byte) /\ Len(<<b>>) <= MaxSize
    BY SizeAssumption
  <2> QED
    BY <2>1, <2>2, CallKeepsInvariant
<1>3. CASE CallPollSend
  BY <1>3, DataIsSeq, CallKeepsInvariant DEF CallPollSend
<1>4. CASE CallPutc
  BY <1>4, TranslateIsSeq, CallKeepsInvariant DEF CallPutc
<1>5. CASE CallInit
  <2>1. TypeOK'
    BY <1>5, SizeAssumption DEF CallInit, IInv, TypeOK, Label
  <2> QED
    BY <1>5, <2>1 DEF CallInit, IInv, StoredBeforePublished, OfferBound,
       InitOnce, Unmasked, PollAlone
<1>6. CASE serial_install_interrupts
  BY <1>6 DEF serial_install_interrupts, calls, IInv, TypeOK, Room,
     StoredBeforePublished, OfferBound, InitOnce, Unmasked, PollAlone
<1> QED
  BY <1>1, <1>2, <1>3, <1>4, <1>5, <1>6 DEF StartCall

LEMMA IsrKeepsInvariant == IInv /\ UdreIsr => IInv'
<1> SUFFICES ASSUME IInv, UdreIsr PROVE IInv'
  OBVIOUS
<1>1. /\ UNCHANGED <<ring, head, txen, sei, calls>>
      /\ udrie
      /\ ring \in [Cell -> Byte] /\ head \in Slot /\ tail \in Slot
  BY DEF UdreIsr, IInv, TypeOK
<1>2. CASE head # tail
  <2>1. udr' = <<At(ring, tail)>> /\ loaded' = At(ring, tail) /\ tail' = After(tail)
        /\ udrie' = udrie
    BY <1>2 DEF UdreIsr
  <2>2. tail' \in Slot /\ At(ring, tail) \in Byte
    BY <1>1, <2>1, AfterIsSlot, AtType
  <2>3. udr' \in Seq(Byte) /\ Len(udr') <= 1
    BY <2>1, <2>2
  <2>4. TypeOK'
    BY <1>1, <2>1, <2>2, <2>3 DEF IInv, TypeOK, calls
  <2>5. Room => Room'
    <3>1. After(tail) = IF tail = RingSize - 1 THEN 0 ELSE tail + 1
      BY <1>1, AfterIsSlot
    <3>2. After(head) = IF head = RingSize - 1 THEN 0 ELSE head + 1
      BY <1>1, AfterIsSlot
    <3> QED
      BY <1>1, <1>2, <2>1, <3>1, <3>2, RingSizeAssumption DEF Room, Slot
  <2>6. InitOnce'
    BY <1>1, <1>2 DEF IInv, InitOnce, calls
  <2> QED
    BY <1>1, <2>1, <2>4, <2>5, <2>6
       DEF IInv, StoredBeforePublished, OfferBound, Unmasked, PollAlone, calls
<1>3. CASE head = tail
  <2>1. UNCHANGED <<tail, udr, loaded>> /\ udrie' = FALSE
    BY <1>3 DEF UdreIsr
  <2>2. TypeOK'
    BY <1>1, <2>1 DEF IInv, TypeOK, calls
  <2>3. Room' = Room
    BY <1>1, <2>1 DEF Room
  <2> QED
    BY <1>1, <1>3, <2>1, <2>2, <2>3
       DEF IInv, StoredBeforePublished, OfferBound, InitOnce, Unmasked, PollAlone, calls
<1> QED
  BY <1>2, <1>3

LEMMA StepKeepsInvariant == IInv /\ CallStep => IInv'
<1> SUFFICES ASSUME IInv, CallStep PROVE IInv'
  OBVIOUS
<1>0. /\ TypeOK
      /\ ring \in [Cell -> Byte] /\ head \in Slot /\ tail \in Slot
      /\ offered \in Seq(Byte) /\ Len(offered) \in Nat /\ Len(offered) <= MaxSize
      /\ 0 \in Slot
      /\ MaxSize \in Nat
  BY LenProperties, RingSizeAssumption, SizeAssumption DEF IInv, TypeOK, Slot
<1> USE DEF Label, Goto
<1>1. CASE Send
  <2>1. TypeOK'
    BY <1>0, <1>1 DEF Send, TypeOK
  <2> QED
    BY <1>1, <2>1 DEF Send, IInv, StoredBeforePublished, OfferBound, InitOnce,
       Unmasked, PollAlone, Room
<1>2. CASE SendStore \/ SendcStore
  <2>1. /\ offered # <<>>
        /\ Store
        /\ pc \in {"send_store", "sendc_store"}
        /\ pc' \in {"send_advance", "sendc_advance"}
        /\ pc = "send_store" <=> pc' = "send_advance"
    BY <1>2 DEF SendStore, SendcStore, IInv, OfferBound
  <2>2. Head(offered) \in Byte
    BY <1>0, <2>1, HeadTailProperties
  <2>3. ring' \in [Cell -> Byte] /\ At(ring', head) = Head(offered)
    <3>1. ring' \in [Cell -> Byte] /\ Stores(ring, ring', head, Head(offered))
      BY <1>0, <2>1, <2>2, PutStores DEF Store
    <3> QED
      BY <3>1 DEF Stores
  <2>4. TypeOK'
    BY <1>0, <2>1, <2>3 DEF Store, TypeOK
  <2>5. Room' = Room
    BY <2>1 DEF Room, Store
  <2> QED
    BY <2>1, <2>3, <2>4, <2>5 DEF Store, IInv, StoredBeforePublished,
       OfferBound, InitOnce, Unmasked, PollAlone
<1>3. CASE SendAdvance \/ SendcAdvance
  <2>1. /\ offered # <<>>
        /\ Publish
        /\ pc \in {"send_advance", "sendc_advance"}
        /\ pc' \in {"send", "sendc_enable"}
        /\ pc = "send_advance" <=> pc' = "send"
    BY <1>3 DEF SendAdvance, SendcAdvance, IInv, OfferBound
  <2>2. head' \in Slot
    BY <1>0, <2>1, AfterIsSlot DEF Publish
  <2>3. offered' \in Seq(Byte) /\ Len(offered') <= MaxSize
    BY <1>0, <2>1, HeadTailProperties, LenProperties DEF Publish
  <2>4. n' \in Nat
    BY <1>0, <2>1, SizeAssumption DEF Publish, TypeOK
  <2>5. TypeOK'
    BY <1>0, <2>1, <2>2, <2>3, <2>4 DEF Publish, TypeOK
  <2>6. InitOnce'
    BY <2>1 DEF IInv, InitOnce, Publish
  <2> QED
    BY <2>1, <2>5, <2>6 DEF Publish, IInv, StoredBeforePublished,
       OfferBound, Unmasked, PollAlone
<1>4. CASE SendEnable
  <2>1. TypeOK'
    BY <1>0, <1>4 DEF SendEnable, EnableInterrupt, TypeOK
  <2> QED
    BY <1>4, <2>1 DEF SendEnable, EnableInterrupt, IInv,
       StoredBeforePublished, OfferBound, InitOnce, Unmasked, PollAlone
<1>10. CASE SendcEnable
  <2>1. TypeOK'
    BY <1>0, <1>10 DEF SendcEnable, EnableInterrupt, TypeOK
  <2> QED
    BY <1>10, <2>1 DEF SendcEnable, EnableInterrupt, IInv,
       StoredBeforePublished, OfferBound, InitOnce, Unmasked, PollAlone
<1>5. CASE SendEnd
  <2>1. offered' \in Seq(Byte) /\ Len(offered') <= MaxSize
    BY <1>0, <1>5, EmptySeq DEF SendEnd
  <2>2. TypeOK'
    BY <1>0, <1>5, <2>1 DEF SendEnd, TypeOK
  <2> QED
    BY <1>5, <2>2 DEF SendEnd, IInv,
       StoredBeforePublished, OfferBound, InitOnce, Unmasked, PollAlone
<1>6. CASE Sendc
  <2>1. offered' \in Seq(Byte) /\ Len(offered') <= MaxSize
    <3>1. CASE offered' = offered
      BY <1>0, <3>1
    <3>2. CASE offered' = <<>>
      BY <1>0, <3>2, EmptySeq
    <3> QED
      BY <1>6, <3>1, <3>2 DEF Sendc
  <2>2. TypeOK'
    BY <1>0, <1>6, <2>1 DEF Sendc, TypeOK
  <2> QED
    BY <1>6, <2>2 DEF Sendc, IInv, Room,
       StoredBeforePublished, OfferBound, InitOnce, Unmasked, PollAlone
<1>7. CASE PollWait
  <2>1. TypeOK'
    BY <1>0, <1>7 DEF PollWait, TypeOK
  <2> QED
    BY <1>7, <2>1 DEF PollWait, IInv,
       StoredBeforePublished, OfferBound, InitOnce, Unmasked, PollAlone
<1>8. CASE PollWrite
  <2>1. offered # <<>>
    BY <1>8 DEF PollWrite, IInv, OfferBound
  <2>2. offered' \in Seq(Byte) /\ Len(offered') <= MaxSize
    BY <1>0, <1>8, <2>1, HeadTailProperties, LenProperties DEF PollWrite
  <2>3. udr' \in Seq(Byte) /\ Len(udr') <= 1
    BY <1>0, <1>8, <2>1, HeadTailProperties DEF PollWrite, TypeOK
  <2>4. TypeOK'
    BY <1>0, <1>8, <2>2, <2>3 DEF PollWrite, TypeOK
  <2> QED
    BY <1>8, <2>4 DEF PollWrite, IInv,
       StoredBeforePublished, OfferBound, InitOnce, Unmasked, PollAlone
<1>9. CASE InitZero
  <2>1. n' \in Nat /\ head' \in Slot
    BY <1>0, <1>9 DEF InitZero, TypeOK
  <2>2. TypeOK'
    BY <1>0, <1>9, <2>1 DEF InitZero, TypeOK
  <2> QED
    BY <1>9, <2>2 DEF InitZero, IInv,
       StoredBeforePublished, OfferBound, InitOnce, Unmasked, PollAlone
<1> QED
  BY <1>1, <1>2, <1>3, <1>4, <1>5, <1>6, <1>7, <1>8, <1>9, <1>10 DEF CallStep

LEMMA NextKeepsInvariant == IInv /\ [Next]_vars => IInv'
<1> SUFFICES ASSUME IInv, [Next]_vars PROVE IInv'
  OBVIOUS
<1>1. CASE Shift
  <2>1. udr' \in Seq(Byte) /\ Len(udr') <= 1 /\ udr' = <<>>
    BY <1>1, EmptySeq DEF Shift
  <2>2. TypeOK'
    BY <1>1, <2>1 DEF Shift, calls, IInv, TypeOK
  <2>3. Room' = Room
    BY <1>1 DEF Shift, Room
  <2> QED
    BY <1>1, <2>1, <2>2, <2>3 DEF Shift, calls, IInv,
       StoredBeforePublished, OfferBound, InitOnce, Unmasked, PollAlone
<1>2. CASE UNCHANGED vars
  BY <1>2 DEF vars, calls, IInv, TypeOK, Room,
     StoredBeforePublished, OfferBound, InitOnce, Unmasked, PollAlone
<1> QED
  BY <1>1, <1>2, StartKeepsInvariant, IsrKeepsInvariant, StepKeepsInvariant DEF Next

(* IInv holds in every reachable state, whatever the constants.              *)
THEOREM Invariance == Spec => []IInv
  BY InitInvariant, NextKeepsInvariant, PTL DEF Spec

(* Every variable keeps its type: in particular the indices stay in the ring *)
(* and the data register never holds more than a byte.                       *)
THEOREM TypeCorrect == Spec => []TypeOK
  BY Invariance, PTL DEF IInv

(* The head moves only past a slot that the caller has filled, although the  *)
(* interrupt moves the tail between the check for room and the store.        *)
THEOREM StoredSafe == Spec => []StoredBeforePublished
  BY Invariance, PTL DEF IInv

(* Both together: what the ring owes the interrupt, for every size.          *)
THEOREM RingSafe == Spec => []RingSound
  BY TypeCorrect, StoredSafe, PTL DEF RingSound

(* In a program that initialises the port once, no call leaves a byte behind *)
(* a masked interrupt before one of them has asked serial_send to wait.      *)
THEOREM StrandedSafe ==
    ASSUME ~Reinit
    PROVE  Spec => []NoneStranded
<1>1. IInv => NoneStranded
  BY DEF IInv, Unmasked, NoneStranded
<1> QED
  BY <1>1, Invariance, PTL

(* A polled send that is not mixed with interrupt driven ones writes only to *)
(* an empty data register.                                                   *)
THEOREM PolledSafe ==
    ASSUME ~MixPolling
    PROVE  Spec => []PolledByteTaken
<1>1. IInv => PolledByteTaken
  BY DEF IInv, PollAlone, PolledByteTaken
<1> QED
  BY <1>1, Invariance, PTL
-----------------------------------------------------------------------------
(* SerialTx implements ByteQueue. *)

LEMMA FramesValues ==
    ASSUME NEW d \in Seq(Byte)
    PROVE  /\ Frames(d) \in Seq(Queue!Frame)
           /\ Len(Frames(d)) = Len(d)
           /\ \A i \in 1..Len(d) : Frames(d)[i] = [byte |-> d[i], damaged |-> FALSE]
<1>1. Len(d) \in Nat /\ \A i \in 1..Len(d) : d[i] \in Byte
  BY LenProperties, ElementOfSeq
<1>2. \A i \in 1..Len(d) : [byte |-> d[i], damaged |-> FALSE] \in Queue!Frame
  BY <1>1 DEF Queue!Frame
<1>3. Frames(d) \in [1..Len(d) -> Queue!Frame]
  BY <1>2 DEF Frames
<1>4. \A i \in 1..Len(d) : Frames(d)[i] = [byte |-> d[i], damaged |-> FALSE]
  BY DEF Frames
<1>5. Frames(d) \in Seq(Queue!Frame) /\ Len(Frames(d)) = Len(d)
  BY <1>1, <1>3
<1> QED
  BY <1>4, <1>5

LEMMA FramesTail ==
    ASSUME NEW d \in Seq(Byte), d # <<>>
    PROVE  /\ Frames(d) # <<>>
           /\ Head(Frames(d)) = [byte |-> Head(d), damaged |-> FALSE]
           /\ Frames(Tail(d)) = Tail(Frames(d))
<1>1. /\ Len(d) \in Nat \ {0}
      /\ Tail(d) \in Seq(Byte)
      /\ Len(Tail(d)) = Len(d) - 1
      /\ \A i \in 1..Len(Tail(d)) : Tail(d)[i] = d[i + 1]
      /\ Head(d) = d[1]
  BY LenProperties, HeadTailProperties, EmptySeq
<1>2. /\ Frames(d) \in Seq(Queue!Frame)
      /\ Len(Frames(d)) = Len(d)
      /\ \A i \in 1..Len(d) : Frames(d)[i] = [byte |-> d[i], damaged |-> FALSE]
  BY FramesValues
<1>3. /\ Frames(Tail(d)) \in Seq(Queue!Frame)
      /\ Len(Frames(Tail(d))) = Len(d) - 1
      /\ \A i \in 1..(Len(d) - 1) :
            Frames(Tail(d))[i] = [byte |-> Tail(d)[i], damaged |-> FALSE]
  BY <1>1, FramesValues
<1> DEFINE s == Frames(d)
           t == Frames(Tail(d))
<1>4. s # <<>>
  BY <1>1, <1>2, EmptySeq
<1>5. Head(s) = s[1] /\ 1 \in 1..Len(d)
  BY <1>1
<1>6. \A i \in 1..(Len(d) - 1) : t[i] = s[i + 1]
  <2> SUFFICES ASSUME NEW i \in 1..(Len(d) - 1) PROVE t[i] = s[i + 1]
    OBVIOUS
  <2>1. i + 1 \in 1..Len(d) /\ Tail(d)[i] = d[i + 1]
    BY <1>1
  <2> QED
    BY <2>1, <1>2, <1>3
<1> HIDE DEF s, t
<1>7. /\ s \in Seq(Queue!Frame) /\ t \in Seq(Queue!Frame)
      /\ Len(s) = Len(d) /\ Len(t) = Len(d) - 1
  BY <1>2, <1>3 DEF s, t
<1>8. /\ Tail(s) \in Seq(Queue!Frame)
      /\ Len(Tail(s)) = Len(d) - 1
      /\ \A i \in 1..(Len(d) - 1) : Tail(s)[i] = s[i + 1]
  BY <1>1, <1>4, <1>7, HeadTailProperties
<1>9. t = Tail(s)
  BY <1>1, <1>6, <1>7, <1>8, SeqEqual
<1> QED
  BY <1>1, <1>2, <1>4, <1>5, <1>9 DEF s, t

(* The bytes in the ring. *)
LEMMA ContentsWindow ==
    ASSUME TypeOK
    PROVE  /\ Distance(tail, head) \in 0..(RingSize - 1)
           /\ Contents \in Seq(Byte)
           /\ Len(Contents) = Distance(tail, head)
           /\ ~Room => Len(Contents) = RingSize - 1
           /\ head # tail => Distance(tail, head) # 0
           /\ head = tail => Contents = <<>>
<1>1. ring \in [Cell -> Byte] /\ head \in Slot /\ tail \in Slot
  BY DEF TypeOK
<1>2. /\ Distance(tail, head) \in 0..(RingSize - 1)
      /\ Distance(tail, head) = IF head >= tail THEN head - tail
                                ELSE RingSize + head - tail
  BY <1>1, DistanceValue
<1>3. Contents \in Seq(Byte)
  BY <1>1, <1>2, WindowType DEF Contents
<1>4. Len(Contents) = Distance(tail, head)
  BY <1>2, WindowValues, RingSizeAssumption DEF Contents
<1>5. After(head) = IF head = RingSize - 1 THEN 0 ELSE head + 1
  BY <1>1, AfterIsSlot
<1>6. ~Room => Distance(tail, head) = RingSize - 1
  BY <1>1, <1>2, <1>5, RingSizeAssumption DEF Room, Slot
<1>7. /\ head # tail => Distance(tail, head) # 0
      /\ head = tail => Distance(tail, head) = 0
  BY <1>1, <1>2, RingSizeAssumption DEF Slot
<1>8. head = tail => Contents = <<>>
  BY <1>3, <1>4, <1>7, EmptySeq
<1> QED
  BY <1>2, <1>3, <1>4, <1>6, <1>7, <1>8

(* A step that changes neither the ring nor what is offered to it.           *)
LEMMA Stutters ==
    ASSUME UNCHANGED <<ring, head, tail, loaded>>, ToTheRing' = ToTheRing
    PROVE  UNCHANGED Queue!vars
<1>1. Contents' = Contents
  BY DEF Contents
<1>2. Frames(ToTheRing)' = Frames(ToTheRing)
  BY DEF Frames
<1> QED
  BY <1>1, <1>2 DEF Queue!vars

(* A call that sends through the ring offers it all its data at once.        *)
LEMMA CallOffers ==
    ASSUME IInv,
           NEW l \in {"send", "sendc", "poll_wait"},
           NEW d \in Seq(Byte), NEW w \in BOOLEAN, Call(l, d, w)
    PROVE  [Queue!Next]_(Queue!vars)
<1>1. /\ UNCHANGED <<ring, head, tail, loaded>>
      /\ pc = "idle" /\ pc' = l /\ offered' = d
      /\ offered = <<>>
  BY DEF Call, IInv, OfferBound
<1>2. ToTheRing = <<>>
  BY <1>1 DEF ToTheRing
<1>3. CASE ToTheRing' = <<>>
  BY <1>1, <1>2, <1>3, Stutters
<1>4. CASE ToTheRing' # <<>>
  <2>1. ToTheRing' = d
    BY <1>1, <1>4 DEF ToTheRing
  <2>2. d # <<>> /\ Len(d) \in Nat /\ Len(d) # 0
    BY <1>4, <2>1, EmptySeq, LenProperties
  <2>3. Contents' = Contents
    BY <1>1 DEF Contents
  <2>4. /\ Frames(ToTheRing)' = Frames(d)
        /\ Frames(d) \in Seq(Queue!Frame)
        /\ Len(Frames(d)) = Len(d)
    BY <2>1, FramesValues DEF Frames
  <2>5. Frames(ToTheRing) = <<>>
    <3>1. <<>> \in Seq(Byte) /\ Len(<<>>) = 0
      BY EmptySeq
    <3>2. Frames(<<>>) \in Seq(Queue!Frame) /\ Len(Frames(<<>>)) = 0
      BY <3>1, FramesValues
    <3> QED
      BY <1>2, <3>2, EmptySeq
  <2>6. Len(Frames(ToTheRing)) = 0
    BY <2>5, EmptySeq
  <2>7. SubSeq(Frames(d), 1, 0) = <<>>
    BY <2>4
  <2>8. Queue!Arrive
    BY <1>1, <2>2, <2>3, <2>4, <2>5, <2>6, <2>7 DEF Queue!Arrive
  <2> QED
    BY <2>8 DEF Queue!Next
<1> QED
  BY <1>3, <1>4

LEMMA QueueStep ==
    ASSUME IInv, [Next]_vars, ~Reinit
    PROVE  [Queue!Next]_(Queue!vars)
<1>0. /\ TypeOK
      /\ ring \in [Cell -> Byte] /\ head \in Slot /\ tail \in Slot
      /\ offered \in Seq(Byte)
  BY DEF IInv, TypeOK
<1>1. CASE CallSend
  <2>1. PICK d \in Data, w \in WaitModes : Call("send", d, w)
    BY <1>1 DEF CallSend
  <2>2. w \in BOOLEAN
    BY FlagAssumption
  <2> QED
    BY <2>1, <2>2, DataIsSeq, CallOffers
<1>2. CASE CallSendc
  <2>1. PICK b \in Byte : Call("sendc", <<b>>, FALSE)
    BY <1>2 DEF CallSendc
  <2>2. <<b>> \in Seq(Byte)
    OBVIOUS
  <2> QED
    BY <2>1, <2>2, CallOffers
<1>3. CASE CallPollSend
  BY <1>3, DataIsSeq, CallOffers DEF CallPollSend
<1>4. CASE CallPutc
  BY <1>4, TranslateIsSeq, CallOffers DEF CallPutc
<1>5. CASE CallInit
  <2>1. UNCHANGED <<ring, head, tail, loaded, offered>>
        /\ pc = "idle" /\ pc' = "init_zero"
    BY <1>5 DEF CallInit
  <2> QED
    BY <2>1, Stutters DEF ToTheRing
<1>6. CASE serial_install_interrupts
  <2>1. UNCHANGED <<ring, head, tail, loaded, offered, pc>>
    BY <1>6 DEF serial_install_interrupts, calls
  <2> QED
    BY <2>1, Stutters DEF ToTheRing
<1>7. CASE Send \/ Sendc
  <2>1. UNCHANGED <<ring, head, tail, loaded>> /\ pc \in {"send", "sendc"}
    BY <1>7 DEF Send, Sendc
  <2>2. CASE ToTheRing' = ToTheRing
    BY <2>1, <2>2, Stutters
  <2>3. CASE ToTheRing' # ToTheRing
    <3>1. ToTheRing' = <<>> /\ ~Room
      BY <1>7, <2>3 DEF Send, Sendc, ToTheRing
    <3>2. Len(Contents) = RingSize - 1 /\ Contents' = Contents
      BY <1>0, <2>1, <3>1, ContentsWindow DEF Contents
    <3>3. Frames(ToTheRing)' = <<>>
      <4>1. <<>> \in Seq(Byte) /\ Len(<<>>) = 0
        BY EmptySeq
      <4>2. Frames(<<>>) \in Seq(Queue!Frame) /\ Len(Frames(<<>>)) = 0
        BY <4>1, FramesValues
      <4>3. Frames(ToTheRing)' = Frames(<<>>)
        BY <3>1 DEF Frames
      <4> QED
        BY <4>2, <4>3, EmptySeq
    <3>4. Queue!GiveUp
      BY <2>1, <3>2, <3>3 DEF Queue!GiveUp
    <3> QED
      BY <3>4 DEF Queue!Next
  <2> QED
    BY <2>2, <2>3
<1>8. CASE SendStore \/ SendcStore
  <2>1. /\ Room /\ offered # <<>> /\ Store
        /\ pc \in {"send_store", "sendc_store"}
        /\ pc' \in {"send_advance", "sendc_advance"}
    BY <1>8 DEF SendStore, SendcStore, Goto, IInv, StoredBeforePublished, OfferBound
  <2>2. Head(offered) \in Byte
    BY <1>0, <2>1, HeadTailProperties
  <2>3. UNCHANGED <<head, tail, loaded, offered>>
        /\ ring' = Put(ring, head, Head(offered))
    BY <2>1 DEF Store
  <2>4. Stores(ring, ring', head, Head(offered))
    BY <1>0, <2>2, <2>3, PutStores
  <2>5. /\ Distance(tail, head) \in 0..(RingSize - 2)
        /\ Distance(tail, After(head)) \in Nat
        /\ Grows(tail, Distance(tail, head), head, Distance(tail, After(head)))
    <3>1. After(head) # tail
      BY <2>1 DEF Room
    <3> QED
      BY <1>0, <3>1, StoreDistance, RingSizeAssumption DEF Grows
  <2>6. Window(ring', tail, Distance(tail, head)) = Window(ring, tail, Distance(tail, head))
    BY <1>0, <2>4, <2>5, WindowKept
  <2>7. Contents' = Contents
    BY <2>3, <2>6 DEF Contents
  <2>8. Frames(ToTheRing)' = Frames(ToTheRing)
    BY <2>1, <2>3 DEF Frames, ToTheRing
  <2> QED
    BY <2>3, <2>7, <2>8 DEF Queue!vars
<1>9. CASE SendAdvance \/ SendcAdvance
  <2>1. /\ Room /\ offered # <<>> /\ At(ring, head) = Head(offered)
        /\ Publish
        /\ pc \in {"send_advance", "sendc_advance"}
        /\ pc' \in {"send", "sendc_enable"}
    BY <1>9 DEF SendAdvance, SendcAdvance, Goto, IInv, StoredBeforePublished
  <2>2. /\ UNCHANGED <<ring, tail, loaded>>
        /\ head' = After(head) /\ offered' = Tail(offered)
    BY <2>1 DEF Publish
  <2>3. Stores(ring, ring, head, Head(offered))
    BY <2>1 DEF Stores
  <2>4. /\ Distance(tail, head) \in 0..(RingSize - 2)
        /\ Distance(tail, After(head)) \in Nat
        /\ Grows(tail, Distance(tail, head), head, Distance(tail, After(head)))
    <3>1. After(head) # tail
      BY <2>1 DEF Room
    <3> QED
      BY <1>0, <3>1, StoreDistance, RingSizeAssumption DEF Grows
  <2>5. Appended(Window(ring, tail, Distance(tail, head)), Head(offered),
                 Window(ring, tail, Distance(tail, After(head))))
    BY <1>0, <2>3, <2>4, WindowAppend
  <2>6. Contents' = Append(Contents, Head(offered))
    BY <2>2, <2>5 DEF Contents, Appended
  <2>7. Len(Contents) < RingSize - 1
    BY <1>0, <2>4, ContentsWindow, RingSizeAssumption
  <2>8. ToTheRing = offered /\ ToTheRing' = Tail(offered)
    BY <2>1, <2>2 DEF ToTheRing
  <2>9. Frames(ToTheRing)' = Frames(Tail(offered))
    BY <2>8 DEF Frames
  <2>10. /\ Frames(offered) # <<>>
         /\ Head(Frames(offered)) = [byte |-> Head(offered), damaged |-> FALSE]
         /\ Frames(Tail(offered)) = Tail(Frames(offered))
    BY <1>0, <2>1, FramesTail
  <2>11. /\ ~Head(Frames(offered)).damaged
         /\ Head(Frames(offered)).byte = Head(offered)
    BY <2>10
  <2>12. Queue!Keep
    BY <2>2, <2>6, <2>7, <2>8, <2>9, <2>10, <2>11 DEF Queue!Keep
  <2> QED
    BY <2>12 DEF Queue!Next
<1>10. CASE SendEnable \/ SendcEnable
  <2>1. UNCHANGED <<ring, head, tail, loaded, offered>>
        /\ pc \in {"send_enable", "sendc_enable"} /\ pc' \in {"send", "sendc"}
    BY <1>10 DEF SendEnable, SendcEnable, EnableInterrupt, Goto
  <2> QED
    BY <2>1, Stutters DEF ToTheRing
<1>11. CASE SendEnd
  <2>1. UNCHANGED <<ring, head, tail, loaded>>
        /\ pc = "send_end" /\ pc' = "idle" /\ offered' = <<>>
    BY <1>11 DEF SendEnd, Goto
  <2> QED
    BY <2>1, Stutters DEF ToTheRing
<1>12. CASE PollWait \/ PollWrite
  <2>1. UNCHANGED <<ring, head, tail, loaded>>
        /\ pc \in {"poll_wait", "poll_write"}
        /\ \/ pc' \in {"poll_wait", "poll_write"}
           \/ offered' = <<>>
    BY <1>12 DEF PollWait, PollWrite, Goto
  <2> QED
    BY <2>1, Stutters DEF ToTheRing
<1>13. CASE InitZero
  <2>1. UNCHANGED <<ring, tail, loaded, offered>>
        /\ pc = "init_zero" /\ pc' \in {"init_zero", "idle"}
        /\ head' \in {head, 0}
    BY <1>13 DEF InitZero
  <2>2. head = 0
    BY <2>1 DEF IInv, InitOnce
  <2> QED
    BY <2>1, <2>2, Stutters DEF ToTheRing
<1>14. CASE UdreIsr
  <2>1. UNCHANGED <<ring, head, offered, pc>>
    BY <1>14 DEF UdreIsr, calls
  <2>2. Frames(ToTheRing)' = Frames(ToTheRing)
    BY <2>1 DEF Frames, ToTheRing
  <2>3. CASE head # tail
    <3>1. loaded' = At(ring, tail) /\ tail' = After(tail)
      BY <1>14, <2>3 DEF UdreIsr
    <3>2. /\ Distance(tail, head) \in 1..(RingSize - 1)
          /\ Distance(After(tail), head) = Distance(tail, head) - 1
      BY <1>0, <2>3, ContentsWindow, ReleaseDistance
    <3>3. /\ Contents # <<>>
          /\ Head(Contents) = At(ring, tail)
          /\ Window(ring, After(tail), Distance(tail, head) - 1) = Tail(Contents)
      BY <1>0, <3>2, WindowTail DEF Contents
    <3>4. Contents' = Tail(Contents)
      BY <2>1, <3>1, <3>2, <3>3 DEF Contents
    <3>5. Queue!Take
      BY <2>2, <3>1, <3>3, <3>4 DEF Queue!Take
    <3> QED
      BY <3>5 DEF Queue!Next
  <2>4. CASE head = tail
    <3>1. UNCHANGED <<tail, loaded>>
      BY <1>14, <2>4 DEF UdreIsr
    <3> QED
      BY <2>1, <3>1, Stutters DEF ToTheRing
  <2> QED
    BY <2>3, <2>4
<1>15. CASE Shift \/ UNCHANGED vars
  <2>1. UNCHANGED <<ring, head, tail, loaded, offered, pc>>
    BY <1>15 DEF Shift, vars, calls
  <2> QED
    BY <2>1, Stutters DEF ToTheRing
<1> QED
  BY <1>1, <1>2, <1>3, <1>4, <1>5, <1>6, <1>7, <1>8, <1>9, <1>10, <1>11, <1>12,
     <1>13, <1>14, <1>15 DEF Next, StartCall, CallStep

LEMMA QueueInit == Init => Queue!Init
<1> SUFFICES ASSUME Init PROVE Queue!Init
  OBVIOUS
<1>1. TypeOK /\ head = tail /\ loaded \in Byte
  BY InitInvariant DEF Init, IInv, TypeOK
<1>2. Contents = <<>>
  BY <1>1, ContentsWindow
<1>3. Frames(ToTheRing) = <<>>
  <2>1. <<>> \in Seq(Byte) /\ Len(<<>>) = 0
    BY EmptySeq
  <2>2. Frames(<<>>) \in Seq(Queue!Frame) /\ Len(Frames(<<>>)) = 0
    BY <2>1, FramesValues
  <2>3. ToTheRing = <<>>
    BY DEF Init, ToTheRing
  <2> QED
    BY <2>2, <2>3, EmptySeq
<1> QED
  BY <1>1, <1>2, <1>3 DEF Queue!Init

(* The transmit half of serial.c is a lossy bounded queue, for every size of *)
(* the ring: what a caller hands over is loaded into the data register in    *)
(* order, each byte once, and a byte is refused only while RingSize - 1      *)
(* bytes wait already.                                                       *)
THEOREM Refinement ==
    ASSUME ~Reinit
    PROVE  Spec => ImplementsByteQueue
<1>1. IInv /\ [Next]_vars => [Queue!Next]_(Queue!vars)
  BY QueueStep
<1> QED
  BY <1>1, QueueInit, Invariance, PTL DEF Spec, Queue!Spec, ImplementsByteQueue
=============================================================================
