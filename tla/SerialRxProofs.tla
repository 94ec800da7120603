--------------------------- MODULE SerialRxProofs ---------------------------
(***************************************************************************)
(* SerialRx for every ring size, buffer size and byte set: its invariants, *)
(* and that it implements ByteQueue.                                       *)
(***************************************************************************)
EXTENDS SerialRx, RingProofs

(* What a call has put in its buffer fits in it, with room for the next byte *)
(* where a byte is copied.                                                   *)
BufferBound ==
    /\ Len(buf) <= size
    /\ pc \in {"getc", "getc_take", "recv_take", "poll_read"} => Len(buf) < size
    /\ pc = "peek_avail" => buf = <<>>
    /\ pc = "peek_copy" => n <= size

(* The counter is zero except where a call uses it. *)
CounterIdle == pc \notin {"idle", "peek_copy", "init_zero"} => n = 0

(* Nothing is stored before the interrupt is installed, and nobody polls     *)
(* afterwards.                                                               *)
BeforeInstall ==
    /\ ~rxcie => head = 0 /\ tail = 0
    /\ ~MixPolling => /\ pc \in {"poll_wait", "poll_read"} => ~rxcie
                      /\ pc = "poll_read" => fifo # <<>>

IInv == /\ TypeOK
        /\ CopiedByteIsOldest
        /\ PeekSeesOldest
        /\ ClearingWindow
        /\ BufferBound
        /\ CounterIdle
        /\ BeforeInstall

-----------------------------------------------------------------------------
(* What the steps do to the bytes in the ring. *)

(* The window the contents are read from. *)
LEMMA ContentsWindow ==
    ASSUME TypeOK
    PROVE  /\ First \in Slot
           /\ Count \in 0..(RingSize - 1)
           /\ Contents \in Seq(Byte)
           /\ Len(Contents) = Count
<1>1. ring \in [Cell -> Byte] /\ head \in Slot /\ tail \in Slot
  BY DEF TypeOK
<1>2. Distance(tail, head) \in 0..(RingSize - 1)
  BY <1>1, DistanceValue
<1>3. 0 \in Slot
  BY RingSizeAssumption DEF Slot
<1>4. First \in Slot /\ Count \in 0..(RingSize - 1)
  BY <1>1, <1>2, <1>3 DEF First, Count, serial_available, Slot
<1> QED
  BY <1>1, <1>4, WindowType, WindowValues, RingSizeAssumption DEF Contents

(* The interrupt appends the byte it keeps. *)
LEMMA IsrStores ==
    ASSUME TypeOK, ClearingWindow, RxIsr, ~Head(fifo).damaged, Room
    PROVE  /\ Count + 1 \in 0..(RingSize - 1)
           /\ Count' = Count + 1
           /\ Contents' = Append(Contents, Head(fifo).byte)
<1> DEFINE b == Head(fifo).byte
<1>1. b \in Byte
  <2>1. fifo \in Seq(Frame) /\ fifo # <<>>
    BY DEF TypeOK, RxIsr
  <2>2. Head(fifo) \in Frame
    BY <2>1, HeadTailProperties
  <2> QED
    BY <2>2 DEF Frame
<1> HIDE DEF b
<1>2. /\ ring' = Put(ring, head, b)
      /\ head' = After(head)
      /\ UNCHANGED <<tail, pc, n>>
  BY DEF RxIsr, calls, b
<1>0. ring \in [Cell -> Byte] /\ head \in Slot /\ tail \in Slot
  BY DEF TypeOK
<1>3. Stale' = Stale /\ First' = First
  BY <1>2 DEF Stale, First
<1>4. /\ Count \in 0..(RingSize - 2)
      /\ head = (First + Count) % RingSize
      /\ Count' = Count + 1
  <2>1. CASE Stale
    <3>1. After(head) = IF head = RingSize - 1 THEN 0 ELSE head + 1
      BY <1>0, AfterIsSlot
    <3>2. head \in 0..(RingSize - 2)
      BY <1>0, <2>1, <3>1, RingSizeAssumption DEF ClearingWindow, Room, Slot
    <3>3. (0 + head) % RingSize = IF 0 + head < RingSize THEN 0 + head
                                  ELSE 0 + head - RingSize
      <4>1. 0 \in Slot /\ head \in 0..(RingSize - 1)
        BY <1>0, RingSizeAssumption DEF Slot
      <4> QED
        BY <4>1, SlotInWindow
    <3>4. First = 0 /\ Count = head /\ Count' = After(head)
      BY <2>1, <1>2, <1>3 DEF First, Count
    <3> QED
      BY <3>1, <3>2, <3>3, <3>4, RingSizeAssumption
  <2>2. CASE ~Stale
    <3>1. /\ Distance(tail, head) \in 0..(RingSize - 2)
          /\ head = (tail + Distance(tail, head)) % RingSize
          /\ Distance(tail, After(head)) = Distance(tail, head) + 1
      BY <1>0, StoreDistance DEF Room
    <3> QED
      BY <2>2, <3>1, <1>2, <1>3 DEF First, Count, serial_available
  <2> QED
    BY <2>1, <2>2
<1>5. Window(ring', First, Count') = Append(Window(ring, First, Count), b)
  <2>1. First \in Slot
    BY ContentsWindow
  <2>2. /\ ring' \in [Cell -> Byte]
        /\ Stores(ring, ring', head, b)
    BY <1>0, <1>1, <1>2, PutStores
  <2>3. Count' \in Nat /\ Grows(First, Count, head, Count')
    BY <1>4, RingSizeAssumption DEF Grows
  <2>4. Appended(Window(ring, First, Count), b, Window(ring', First, Count'))
    BY <2>1, <2>2, <2>3, <1>0, <1>4, WindowAppend
  <2> QED
    BY <2>4 DEF Appended
<1>6. Contents' = Window(ring', First', Count')
  BY DEF Contents
<1>7. Contents' = Append(Contents, b)
  BY <1>2, <1>3, <1>4, <1>5, <1>6 DEF Contents
<1> QED
  BY <1>4, <1>7, RingSizeAssumption DEF b

(* It leaves them alone when it drops the byte. *)
LEMMA IsrDrops ==
    ASSUME RxIsr, ~(~Head(fifo).damaged /\ Room)
    PROVE  Count' = Count /\ Contents' = Contents
BY DEF RxIsr, calls, Contents, First, Count, Stale, serial_available

(* Releasing the tail takes the oldest byte off. *)
LEMMA AdvanceTakes ==
    ASSUME TypeOK, ~Stale, ~Stale', Contents # <<>>, Advance
    PROVE  /\ Contents' = Tail(Contents)
           /\ Head(Contents) = At(ring, tail)
<1>1. First = tail /\ Count = Distance(tail, head)
  BY DEF First, Count, serial_available
<1>2. First' = After(tail) /\ Count' = Distance(After(tail), head)
  BY DEF First, Count, serial_available, Advance
<1>3. Distance(tail, head) # 0
  BY <1>1, ContentsWindow
<1>4. /\ Distance(tail, head) \in 1..(RingSize - 1)
      /\ Distance(After(tail), head) = Distance(tail, head) - 1
  BY <1>3, ReleaseDistance DEF TypeOK
<1>5. /\ Head(Window(ring, tail, Distance(tail, head))) = At(ring, tail)
      /\ Window(ring, After(tail), Distance(tail, head) - 1)
            = Tail(Window(ring, tail, Distance(tail, head)))
  BY <1>4, WindowTail DEF TypeOK
<1> QED
  BY <1>1, <1>2, <1>4, <1>5 DEF Contents, Advance

(* The bytes in the ring, read by their position. *)
LEMMA ContentsAt ==
    ASSUME TypeOK, ~Stale
    PROVE  /\ \A i \in 1..Count : Contents[i] = At(ring, (tail + i - 1) % RingSize)
           /\ head # tail => Count # 0
           /\ serial_available = Count
<1>1. \A i \in 1..Count : Contents[i] = At(ring, (tail + i - 1) % RingSize)
  BY ContentsWindow, WindowValues, RingSizeAssumption DEF Contents, First
<1>2. head # tail => Distance(tail, head) # 0
  <2>1. head \in Slot /\ tail \in Slot
    BY DEF TypeOK
  <2>2. Distance(tail, head) = IF head >= tail THEN head - tail
                               ELSE RingSize + head - tail
    BY <2>1, DistanceValue
  <2> QED
    BY <2>1, <2>2, RingSizeAssumption DEF Slot
<1> QED
  BY <1>1, <1>2 DEF Count, serial_available

(* A step that leaves the ring alone leaves its contents alone. *)
LEMMA SameRing ==
    ASSUME UNCHANGED <<ring, head, tail>>, Stale' = Stale
    PROVE  Contents' = Contents /\ Count' = Count
  BY DEF Contents, Count, First, serial_available

-----------------------------------------------------------------------------
(* The inductive invariant. *)

LEMMA InitInvariant == Init => IInv
<1> SUFFICES ASSUME Init PROVE IInv
  OBVIOUS
<1>1. TypeOK
  <2>1. ring \in [Cell -> Byte]
    BY ByteAssumption DEF Init
  <2>2. /\ fifo \in Seq(Frame) /\ Len(fifo) <= UdrDepth
        /\ buf \in Seq(Byte) /\ Len(buf) <= MaxSize
    BY EmptySeq, UdrDepthAssumption, MaxSizeAssumption DEF Init
  <2>3. 0 \in Slot /\ 0 \in 0..MaxSize /\ 0 \in 0..SizeofBuffer
    BY RingSizeAssumption, MaxSizeAssumption DEF Slot, SizeofBuffer
  <2> QED
    BY <2>1, <2>2, <2>3, ByteAssumption DEF Init, TypeOK, Label
<1>2. ~Stale
  BY DEF Init, Stale
<1>3. Count \in Nat
  BY <1>1, ContentsWindow, RingSizeAssumption
<1> QED
  BY <1>1, <1>2, <1>3 DEF Init, IInv, CopiedByteIsOldest, PeekSeesOldest,
     ClearingWindow, BufferBound, CounterIdle, BeforeInstall

(* A new call. *)
LEMMA CallKeepsInvariant ==
    ASSUME IInv,
           NEW l \in {"getc", "recv", "peek_avail", "flush_head", "poll_wait"},
           NEW s \in 0..MaxSize, NEW w \in BOOLEAN, Call(l, s, w),
           l = "getc" => s = 1,
           l = "poll_wait" => MixPolling \/ ~rxcie
    PROVE  IInv'
<1>1. TypeOK'
  <2>1. buf' \in Seq(Byte) /\ Len(buf') <= MaxSize
    BY MaxSizeAssumption, EmptySeq DEF Call
  <2> QED
    BY <2>1, RingSizeAssumption DEF IInv, TypeOK, Call, Label, SizeofBuffer
<1> QED
  BY <1>1 DEF IInv, Call, CopiedByteIsOldest, PeekSeesOldest, ClearingWindow,
     BufferBound, CounterIdle, BeforeInstall, Stale

LEMMA IsrKeepsInvariant == IInv /\ RxIsr => IInv'
<1> SUFFICES ASSUME IInv, RxIsr PROVE IInv'
  OBVIOUS
<1>1. TypeOK /\ ClearingWindow
  BY DEF IInv
<1>2. /\ UNCHANGED <<tail, rxen, rxcie, pc, size, waitall, n, buf, taken>>
      /\ Stale' = Stale
      /\ rxcie
  BY DEF RxIsr, calls, Stale
<1>3. fifo' \in Seq(Frame) /\ Len(fifo') <= UdrDepth
  <2>1. fifo \in Seq(Frame) /\ Len(fifo) <= UdrDepth /\ fifo # <<>>
    BY <1>1 DEF TypeOK, RxIsr
  <2>2. fifo' = Tail(fifo)
    BY <2>1 DEF RxIsr, ReadUdr
  <2>3. Tail(fifo) \in Seq(Frame) /\ Len(Tail(fifo)) = Len(fifo) - 1 /\ Len(fifo) \in Nat
    BY <2>1, HeadTailProperties, LenProperties
  <2> QED
    BY <2>1, <2>2, <2>3, UdrDepthAssumption
<1>4. CASE ~Head(fifo).damaged /\ Room
  <2>1. /\ Count + 1 \in 0..(RingSize - 1)
        /\ Count' = Count + 1
        /\ Contents' = Append(Contents, Head(fifo).byte)
    BY <1>1, <1>4, IsrStores
  <2>2. /\ Contents \in Seq(Byte)
        /\ Len(Contents) = Count
        /\ Count \in 0..(RingSize - 1)
    BY <1>1, ContentsWindow
  <2>3. Head(fifo).byte \in Byte
    <3>1. fifo \in Seq(Frame) /\ fifo # <<>>
      BY <1>1 DEF TypeOK, RxIsr
    <3>2. Head(fifo) \in Frame
      BY <3>1, HeadTailProperties
    <3> QED
      BY <3>2 DEF Frame
  <2>4. /\ Contents' # <<>>
        /\ \A i \in 1..Count : Contents'[i] = Contents[i]
    BY <2>1, <2>2, <2>3, AppendProperties
  <2>5. /\ head \in Slot /\ ring \in [Cell -> Byte]
        /\ head' = After(head)
        /\ ring' = Put(ring, head, Head(fifo).byte)
    BY <1>1, <1>4 DEF TypeOK, RxIsr
  <2>6. /\ After(head) \in Slot
        /\ After(head) = IF head = RingSize - 1 THEN 0 ELSE head + 1
    BY <2>5, AfterIsSlot
  <2>7. TypeOK'
    <3>1. ring' \in [Cell -> Byte]
      BY <2>3, <2>5, PutStores
    <3> QED
      BY <1>1, <1>2, <1>3, <2>5, <2>6, <3>1 DEF TypeOK
  <2>8. CopiedByteIsOldest'
    <3>1. Contents # <<>> => 1 \in 1..Count
      BY <2>2, EmptySeq
    <3> QED
      BY <1>2, <2>4, <3>1 DEF IInv, CopiedByteIsOldest
  <2>9. PeekSeesOldest'
    <3>1. pc = "peek_copy" => Len(buf) \in Nat /\ n \in Nat /\ Len(buf) <= n /\ n <= Count
      BY <1>1, LenProperties, RingSizeAssumption
         DEF IInv, PeekSeesOldest, TypeOK, SizeofBuffer
    <3>2. n \in Int
      BY <1>1, RingSizeAssumption DEF TypeOK, SizeofBuffer
    <3> QED
      BY <1>2, <2>1, <2>2, <2>4, <3>1, <3>2, RingSizeAssumption DEF IInv, PeekSeesOldest
  <2>10. ClearingWindow'
    BY <1>1, <1>2, <1>4, <2>5, <2>6, RingSizeAssumption
       DEF ClearingWindow, Room, TypeOK, Slot
  <2>11. BeforeInstall' /\ BufferBound' /\ CounterIdle'
    BY <1>2 DEF IInv, BeforeInstall, BufferBound, CounterIdle
  <2> QED
    BY <2>7, <2>8, <2>9, <2>10, <2>11 DEF IInv
<1>5. CASE ~(~Head(fifo).damaged /\ Room)
  <2>1. Count' = Count /\ Contents' = Contents
    BY <1>5, IsrDrops
  <2>2. UNCHANGED <<ring, head>>
    BY <1>5 DEF RxIsr
  <2>3. TypeOK'
    BY <1>1, <1>2, <1>3, <2>2 DEF TypeOK
  <2>4. BeforeInstall' /\ BufferBound' /\ CounterIdle'
    BY <1>2 DEF IInv, BeforeInstall, BufferBound, CounterIdle
  <2> QED
    BY <1>2, <2>1, <2>2, <2>3, <2>4
       DEF IInv, CopiedByteIsOldest, PeekSeesOldest, ClearingWindow
<1> QED
  BY <1>4, <1>5

(* A step that copies a byte into the buffer of the call. *)
LEMMA BufferGrows ==
    ASSUME TypeOK, Len(buf) < size, NEW b \in Byte
    PROVE  /\ Append(buf, b) \in Seq(Byte)
           /\ Append(buf, b) # <<>>
           /\ Len(Append(buf, b)) = Len(buf) + 1
           /\ Len(buf) + 1 <= size
           /\ Len(buf) + 1 <= MaxSize
           /\ Append(buf, b)[Len(buf) + 1] = b
           /\ \A i \in 1..Len(buf) : Append(buf, b)[i] = buf[i]
  BY AppendProperties, LenProperties, MaxSizeAssumption DEF TypeOK

LEMMA StepKeepsInvariant == IInv /\ CallStep => IInv'
<1> SUFFICES ASSUME IInv, CallStep PROVE IInv'
  OBVIOUS
<1>0. /\ TypeOK
      /\ ring \in [Cell -> Byte] /\ head \in Slot /\ tail \in Slot
      /\ Len(buf) \in Nat
      /\ size \in Nat
      /\ 0 \in Slot
  BY LenProperties, RingSizeAssumption, MaxSizeAssumption DEF IInv, TypeOK, Slot
<1> USE DEF Label
<1>1. CASE Getc
  <2>1. UNCHANGED <<ring, head, tail>> /\ Stale' = Stale /\ ~Stale
    BY <1>1 DEF Getc, Stale
  <2>2. Contents' = Contents /\ Count' = Count
    BY <2>1, SameRing
  <2>3. head # tail => Contents # <<>>
    BY <2>1, <1>0, ContentsAt, ContentsWindow, EmptySeq
  <2>4. TypeOK'
    BY <1>1, <1>0 DEF Getc, TypeOK
  <2>5. n = 0 /\ Count \in Nat
    BY <1>0, <1>1, ContentsWindow, RingSizeAssumption DEF Getc, IInv, CounterIdle
  <2> QED
    BY <1>1, <2>1, <2>2, <2>3, <2>4, <2>5
       DEF IInv, Getc, CopiedByteIsOldest, PeekSeesOldest, ClearingWindow,
           BufferBound, CounterIdle, BeforeInstall
<1>2. CASE GetcTake \/ RecvTake
  <2>1. UNCHANGED <<ring, head, tail>> /\ Stale' = Stale /\ ~Stale
    BY <1>2 DEF GetcTake, RecvTake, Goto, Stale
  <2>2. Contents' = Contents /\ Count' = Count
    BY <2>1, SameRing
  <2>3. Contents # <<>>
    BY <1>2 DEF GetcTake, RecvTake, Goto, IInv, CopiedByteIsOldest
  <2>4. Contents[1] = At(ring, tail)
    <3>1. Count \in 1..(RingSize - 1)
      BY <1>0, <2>3, ContentsWindow
    <3>2. Contents[1] = At(ring, (tail + 1 - 1) % RingSize)
      BY <1>0, <2>1, <3>1, ContentsAt
    <3>3. (tail + 0) % RingSize = tail /\ tail + 1 - 1 = tail + 0
      BY <1>0, RingSizeAssumption DEF Slot
    <3> QED
      BY <3>2, <3>3
  <2>5. Len(buf) < size /\ At(ring, tail) \in Byte
    BY <1>0, <1>2, AtType DEF IInv, BufferBound, GetcTake, RecvTake, Goto
  <2>6. /\ buf' = Append(buf, At(ring, tail))
        /\ UNCHANGED <<rxen, rxcie, fifo, size, waitall, n, taken>>
        /\ pc' \in {"getc_advance", "recv_advance"}
    BY <1>2 DEF GetcTake, RecvTake, Goto
  <2>7. /\ buf' \in Seq(Byte)
        /\ buf' # <<>>
        /\ Len(buf') = Len(buf) + 1
        /\ Len(buf') <= size /\ Len(buf') <= MaxSize
        /\ buf'[Len(buf')] = At(ring, tail)
    BY <1>0, <2>5, <2>6, BufferGrows
  <2>8. TypeOK'
    BY <1>0, <2>1, <2>6, <2>7 DEF TypeOK
  <2>9. n = 0
    BY <1>2 DEF GetcTake, RecvTake, Goto, IInv, CounterIdle
  <2> QED
    BY <2>1, <2>2, <2>3, <2>4, <2>6, <2>7, <2>8, <2>9
       DEF IInv, CopiedByteIsOldest, PeekSeesOldest, ClearingWindow,
           BufferBound, CounterIdle, BeforeInstall
<1>3. CASE GetcAdvance \/ RecvAdvance
  <2>1. /\ Advance
        /\ pc \in {"getc_advance", "recv_advance"}
        /\ pc' \in {"idle", "recv_avail"}
    BY <1>3 DEF GetcAdvance, RecvAdvance, Goto
  <2>2. ~Stale /\ ~Stale'
    BY <2>1 DEF Stale
  <2>3. Contents # <<>> /\ buf # <<>>
    BY <2>1 DEF IInv, CopiedByteIsOldest
  <2>4. Count' \in Nat
    <3>1. tail' \in Slot /\ head' \in Slot
      BY <1>0, <2>1, AfterIsSlot DEF Advance
    <3>2. Count' = Distance(tail', head')
      BY <2>2 DEF Count, serial_available
    <3> QED
      BY <3>1, <3>2, DistanceValue, RingSizeAssumption
  <2>5. tail' \in Slot /\ taken' \in Byte
    <3>1. buf \in Seq(Byte) /\ Len(buf) \in 1..Len(buf)
      BY <1>0, <2>3, EmptySeq DEF TypeOK
    <3> QED
      BY <1>0, <2>1, <3>1, AfterIsSlot, ElementOfSeq DEF Advance
  <2>6. TypeOK'
    BY <1>0, <2>1, <2>5 DEF TypeOK, Advance
  <2>7. n = 0
    BY <2>1 DEF IInv, CounterIdle
  <2>8. BeforeInstall'
    <3>1. rxcie
      <4>1. ~rxcie => head = 0 /\ tail = 0
        BY DEF IInv, BeforeInstall
      <4>2. head = tail => Count = 0
        BY <1>0, <2>2, DistanceValue, RingSizeAssumption DEF Count, serial_available, Slot
      <4> QED
        BY <1>0, <2>3, <4>1, <4>2, ContentsWindow, EmptySeq
    <3> QED
      BY <2>1, <3>1 DEF BeforeInstall, Advance
  <2> QED
    BY <2>1, <2>2, <2>4, <2>6, <2>7, <2>8
       DEF IInv, CopiedByteIsOldest, PeekSeesOldest, ClearingWindow,
           BufferBound, CounterIdle, Advance
<1>4. CASE Recv \/ RecvAvail
  <2>1. UNCHANGED <<ring, head, tail>> /\ Stale' = Stale /\ ~Stale
    BY <1>4 DEF Recv, RecvAvail, Stale
  <2>2. Contents' = Contents /\ Count' = Count
    BY <2>1, SameRing
  <2>3. serial_available # 0 => Contents # <<>>
    BY <2>1, <1>0, ContentsAt, ContentsWindow, EmptySeq
  <2>4. TypeOK'
    BY <1>4, <1>0 DEF Recv, RecvAvail, TypeOK
  <2>5. n = 0 /\ Count \in Nat
    BY <1>0, <1>4, ContentsWindow, RingSizeAssumption
       DEF Recv, RecvAvail, IInv, CounterIdle
  <2> QED
    BY <1>4, <2>1, <2>2, <2>3, <2>4, <2>5
       DEF IInv, Recv, RecvAvail, CopiedByteIsOldest, PeekSeesOldest,
           ClearingWindow, BufferBound, CounterIdle, BeforeInstall
<1>5. CASE PeekAvail
  <2>1. UNCHANGED <<ring, head, tail>> /\ Stale' = Stale /\ ~Stale
    BY <1>5 DEF PeekAvail, Goto, Stale
  <2>2. Contents' = Contents /\ Count' = Count
    BY <2>1, SameRing
  <2>3. serial_available = Count /\ Count \in 0..(RingSize - 1)
    BY <2>1, <1>0, ContentsAt, ContentsWindow
  <2>4. n' \in 0..SizeofBuffer /\ n' <= Count /\ n' <= size
    BY <1>0, <1>5, <2>3, RingSizeAssumption DEF PeekAvail, SizeofBuffer
  <2>5. TypeOK'
    BY <1>5, <1>0, <2>4 DEF PeekAvail, Goto, TypeOK
  <2> QED
    BY <1>5, <2>1, <2>2, <2>4, <2>5
       DEF IInv, PeekAvail, Goto, CopiedByteIsOldest, PeekSeesOldest,
           ClearingWindow, BufferBound, CounterIdle, BeforeInstall
<1>6. CASE PeekCopy
  <2>1. UNCHANGED <<ring, head, tail>> /\ Stale' = Stale /\ ~Stale
    BY <1>6 DEF PeekCopy, Stale
  <2>2. Contents' = Contents /\ Count' = Count
    BY <2>1, SameRing
  <2>3. /\ UNCHANGED <<rxen, rxcie, fifo, size, waitall, n, taken>>
        /\ n \in Nat /\ n <= Count /\ n <= size /\ Len(buf) <= n
        /\ \A i \in 1..Len(buf) : buf[i] = Contents[i]
        /\ Count \in 0..(RingSize - 1)
    BY <1>0, <1>6, ContentsWindow, RingSizeAssumption
       DEF PeekCopy, IInv, PeekSeesOldest, BufferBound, TypeOK, SizeofBuffer
  <2>4. CASE Len(buf) < n
    <3> DEFINE b == At(ring, (tail + Len(buf)) % RingSize)
    <3>1. Len(buf) \in 0..(RingSize - 1) /\ Len(buf) + 1 \in 1..Count
      BY <1>0, <2>3, <2>4, RingSizeAssumption
    <3>2. b \in Byte
      BY <1>0, <3>1, SlotInWindow, AtType
    <3>3. b = Contents[Len(buf) + 1]
      <4>1. tail + (Len(buf) + 1) - 1 = tail + Len(buf)
        BY <1>0 DEF Slot
      <4> QED
        BY <1>0, <2>1, <3>1, <4>1, ContentsAt
    <3>4. buf' = Append(buf, b) /\ pc' = pc /\ pc = "peek_copy"
      BY <1>6, <2>4 DEF PeekCopy
    <3> HIDE DEF b
    <3>5. Len(buf) < size
      BY <1>0, <2>3, <2>4
    <3>6. /\ buf' \in Seq(Byte)
          /\ Len(buf') = Len(buf) + 1
          /\ Len(buf') <= size /\ Len(buf') <= MaxSize
          /\ buf'[Len(buf) + 1] = b
          /\ \A i \in 1..Len(buf) : buf'[i] = buf[i]
      BY <1>0, <3>2, <3>4, <3>5, BufferGrows
    <3>7. \A i \in 1..Len(buf') : buf'[i] = Contents[i]
      BY <1>0, <2>3, <3>3, <3>6
    <3>8. TypeOK'
      BY <1>0, <2>1, <2>3, <3>4, <3>6 DEF TypeOK
    <3>9. Len(buf') <= n
      BY <1>0, <2>3, <2>4, <3>6
    <3> QED
      BY <2>1, <2>2, <2>3, <3>4, <3>6, <3>7, <3>8, <3>9
         DEF IInv, CopiedByteIsOldest, PeekSeesOldest, ClearingWindow,
             BufferBound, CounterIdle, BeforeInstall
  <2>5. CASE ~(Len(buf) < n)
    <3>1. buf' = buf /\ pc' = "idle"
      BY <1>6, <2>5 DEF PeekCopy
    <3>2. TypeOK'
      BY <1>0, <2>1, <2>3, <3>1 DEF TypeOK
    <3> QED
      BY <2>1, <2>2, <2>3, <3>1, <3>2
         DEF IInv, CopiedByteIsOldest, PeekSeesOldest, ClearingWindow,
             BufferBound, CounterIdle, BeforeInstall
  <2> QED
    BY <2>4, <2>5
<1>7. CASE PollWait
  <2>1. UNCHANGED <<ring, head, tail>> /\ Stale' = Stale /\ ~Stale
    BY <1>7 DEF PollWait, Stale
  <2>2. Contents' = Contents /\ Count' = Count
    BY <2>1, SameRing
  <2>3. TypeOK'
    BY <1>7, <1>0 DEF PollWait, TypeOK
  <2>4. n = 0 /\ Count \in Nat
    BY <1>0, <1>7, ContentsWindow, RingSizeAssumption DEF PollWait, IInv, CounterIdle
  <2> QED
    BY <1>0, <1>7, <2>1, <2>2, <2>3, <2>4
       DEF IInv, PollWait, CopiedByteIsOldest, PeekSeesOldest, ClearingWindow,
           BufferBound, CounterIdle, BeforeInstall
<1>8. CASE PollRead
  <2>1. UNCHANGED <<ring, head, tail>> /\ Stale' = Stale /\ ~Stale
    BY <1>8 DEF PollRead, Goto, Stale
  <2>2. Contents' = Contents /\ Count' = Count
    BY <2>1, SameRing
  <2>3. PICK b \in Byte : buf' = Append(buf, b) /\ taken' = b
    BY <1>8 DEF PollRead
  <2>4. Len(buf) < size
    BY <1>8 DEF PollRead, Goto, IInv, BufferBound
  <2>5. /\ buf' \in Seq(Byte)
        /\ Len(buf') = Len(buf) + 1
        /\ Len(buf') <= size /\ Len(buf') <= MaxSize
    BY <1>0, <2>3, <2>4, BufferGrows
  <2>6. fifo' \in Seq(Frame) /\ Len(fifo') <= UdrDepth
    BY <1>0, <1>8, HeadTailProperties, LenProperties, UdrDepthAssumption
       DEF PollRead, ReadUdr, TypeOK
  <2>7. TypeOK'
    BY <1>0, <1>8, <2>3, <2>5, <2>6 DEF PollRead, Goto, TypeOK
  <2>8. n = 0
    BY <1>8 DEF PollRead, Goto, IInv, CounterIdle
  <2> QED
    BY <1>8, <2>1, <2>2, <2>5, <2>7, <2>8
       DEF IInv, PollRead, Goto, CopiedByteIsOldest, PeekSeesOldest,
           ClearingWindow, BufferBound, CounterIdle, BeforeInstall
<1>9. CASE InitZero
  <2>1. n \in Nat /\ n <= SizeofBuffer /\ n - 1 < SizeofBuffer
    BY <1>0, RingSizeAssumption DEF TypeOK, SizeofBuffer
  <2>2. n' \in 0..SizeofBuffer /\ head' \in Slot
    BY <1>0, <1>9, <2>1, RingSizeAssumption DEF InitZero, TypeOK, SizeofBuffer
  <2>3. TypeOK'
    BY <1>0, <1>9, <2>2 DEF InitZero, TypeOK
  <2>4. ClearingWindow'
    BY <1>0, <1>9, <2>1, RingSizeAssumption
       DEF IInv, InitZero, ClearingWindow, Stale, Slot, SizeofBuffer
  <2> QED
    BY <1>9, <2>3, <2>4
       DEF IInv, InitZero, CopiedByteIsOldest, PeekSeesOldest,
           BufferBound, CounterIdle, BeforeInstall
<1>10. CASE FlushHead \/ FlushTail
  <2>1. TypeOK'
    BY <1>0, <1>10 DEF FlushHead, FlushTail, Goto, TypeOK
  <2>2. ClearingWindow'
    BY <1>0, <1>10 DEF FlushHead, FlushTail, Goto, ClearingWindow, Stale, Slot
  <2>3. n = 0
    BY <1>10 DEF FlushHead, FlushTail, Goto, IInv, CounterIdle
  <2> QED
    BY <1>10, <2>1, <2>2, <2>3
       DEF IInv, FlushHead, FlushTail, Goto, CopiedByteIsOldest, PeekSeesOldest,
           BufferBound, CounterIdle, BeforeInstall
<1>11. CASE FlushWait \/ FlushRead
  <2>1. UNCHANGED <<ring, head, tail>> /\ Stale' = Stale /\ ~Stale
    BY <1>11 DEF FlushWait, FlushRead, Goto, Stale
  <2>2. Contents' = Contents /\ Count' = Count
    BY <2>1, SameRing
  <2>3. fifo' \in Seq(Frame) /\ Len(fifo') <= UdrDepth
    <3>1. fifo \in Seq(Frame) /\ Len(fifo) <= UdrDepth
      BY <1>0 DEF TypeOK
    <3>2. fifo' = fifo \/ (fifo # <<>> /\ fifo' = Tail(fifo))
      BY <1>11 DEF FlushWait, FlushRead, ReadUdr
    <3> QED
      BY <3>1, <3>2, HeadTailProperties, LenProperties, UdrDepthAssumption
  <2>4. TypeOK'
    BY <1>0, <1>11, <2>3 DEF FlushWait, FlushRead, Goto, TypeOK
  <2>5. n = 0 /\ Count \in Nat
    BY <1>0, <1>11, ContentsWindow, RingSizeAssumption
       DEF FlushWait, FlushRead, Goto, IInv, CounterIdle
  <2> QED
    BY <1>11, <2>1, <2>2, <2>4, <2>5
       DEF IInv, FlushWait, FlushRead, Goto, CopiedByteIsOldest, PeekSeesOldest,
           ClearingWindow, BufferBound, CounterIdle, BeforeInstall
<1> QED
  BY <1>1, <1>2, <1>3, <1>4, <1>5, <1>6, <1>7, <1>8, <1>9, <1>10, <1>11
     DEF CallStep

LEMMA NextKeepsInvariant == IInv /\ [Next]_vars => IInv'
<1> SUFFICES ASSUME IInv, [Next]_vars PROVE IInv'
  OBVIOUS
<1>1. CASE CallGetc
  <2>1. 1 \in 0..MaxSize
    BY MaxSizeAssumption
  <2> QED
    BY <1>1, <2>1, CallKeepsInvariant DEF CallGetc
<1>2. CASE CallRecv \/ CallPeek \/ CallFlush \/ CallPollRecv
  <2>1. 0 \in 0..MaxSize
    BY MaxSizeAssumption
  <2> QED
    BY <1>2, <2>1, CallKeepsInvariant
       DEF CallRecv, CallPeek, CallFlush, CallPollRecv
<1>3. CASE CallAvailable
  <2>1. UNCHANGED <<ring, head, tail>> /\ Stale' = Stale /\ ~Stale /\ TypeOK
    BY <1>3 DEF CallAvailable, Stale, IInv
  <2>2. Contents' = Contents /\ Count' = Count
    BY <2>1, SameRing
  <2>3. n' = Count /\ Count \in 0..(RingSize - 1)
    BY <1>3, <2>1, ContentsAt, ContentsWindow DEF CallAvailable
  <2>4. TypeOK'
    BY <1>3, <2>1, <2>3, RingSizeAssumption DEF CallAvailable, TypeOK, SizeofBuffer
  <2> QED
    BY <1>3, <2>1, <2>2, <2>3, <2>4, RingSizeAssumption
       DEF IInv, CallAvailable, CopiedByteIsOldest, PeekSeesOldest,
           ClearingWindow, BufferBound, CounterIdle, BeforeInstall
<1>4. CASE CallInit
  <2>1. buf' \in Seq(Byte) /\ Len(buf') = 0 /\ 0 \in 0..MaxSize
    BY <1>4, MaxSizeAssumption, EmptySeq DEF CallInit
  <2>2. n' \in 0..SizeofBuffer
    BY <1>4, RingSizeAssumption DEF CallInit, SizeofBuffer
  <2>3. /\ pc' \in Label /\ size' \in 0..MaxSize /\ waitall' \in BOOLEAN
        /\ UNCHANGED <<ring, head, tail, rxen, rxcie, fifo, taken>>
    BY <1>4, <2>1 DEF CallInit, Label
  <2>4. Len(buf') <= MaxSize
    BY <2>1, MaxSizeAssumption
  <2>5. TypeOK'
    BY <2>1, <2>2, <2>3, <2>4 DEF IInv, TypeOK
  <2>6. ~Stale'
    BY <1>4, RingSizeAssumption DEF CallInit, Stale, SizeofBuffer
  <2> QED
    BY <1>4, <2>1, <2>5, <2>6
       DEF IInv, CallInit, CopiedByteIsOldest, PeekSeesOldest,
           ClearingWindow, BufferBound, CounterIdle, BeforeInstall
<1>5. CASE serial_install_interrupts
  <2>1. UNCHANGED <<ring, head, tail>> /\ Stale' = Stale
    BY <1>5 DEF serial_install_interrupts, Stale, calls
  <2>2. Contents' = Contents /\ Count' = Count
    BY <2>1, SameRing
  <2>3. TypeOK'
    BY <1>5 DEF serial_install_interrupts, calls, IInv, TypeOK
  <2> QED
    BY <1>5, <2>1, <2>2, <2>3
       DEF IInv, serial_install_interrupts, calls, CopiedByteIsOldest,
           PeekSeesOldest, ClearingWindow, BufferBound, CounterIdle, BeforeInstall
<1>6. CASE Arrive
  <2>1. UNCHANGED <<ring, head, tail>> /\ Stale' = Stale
    BY <1>6 DEF Arrive, Stale, calls
  <2>2. Contents' = Contents /\ Count' = Count
    BY <2>1, SameRing
  <2>3. fifo' \in Seq(Frame) /\ fifo' # <<>> /\ Len(fifo') <= UdrDepth
    BY <1>6, AppendProperties, LenProperties, UdrDepthAssumption
       DEF Arrive, IInv, TypeOK
  <2>4. TypeOK'
    BY <1>6, <2>3 DEF Arrive, calls, IInv, TypeOK
  <2> QED
    BY <1>6, <2>1, <2>2, <2>3, <2>4
       DEF IInv, Arrive, calls, CopiedByteIsOldest, PeekSeesOldest,
           ClearingWindow, BufferBound, CounterIdle, BeforeInstall
<1>7. CASE UNCHANGED vars
  <2>1. UNCHANGED <<ring, head, tail>> /\ Stale' = Stale
    BY <1>7 DEF vars, Stale, calls
  <2>2. Contents' = Contents /\ Count' = Count
    BY <2>1, SameRing
  <2> QED
    BY <1>7, <2>1, <2>2
       DEF IInv, vars, calls, TypeOK, CopiedByteIsOldest, PeekSeesOldest,
           ClearingWindow, BufferBound, CounterIdle, BeforeInstall
<1> QED
  BY <1>1, <1>2, <1>3, <1>4, <1>5, <1>6, <1>7,
     IsrKeepsInvariant, StepKeepsInvariant DEF Next, StartCall

(* The inductive invariant holds in every reachable state. *)
THEOREM Invariance == Spec => []IInv
  BY InitInvariant, NextKeepsInvariant, PTL DEF Spec

(* Every variable keeps its type: in particular the indices stay in the ring *)
(* and no call writes past the end of the caller's buffer.                   *)
THEOREM TypeCorrect == Spec => []TypeOK
  BY Invariance, PTL DEF IInv

(* The interrupt never overwrites the byte a read has copied and not yet     *)
(* released.                                                                 *)
THEOREM CopiedByteSafe == Spec => []CopiedByteIsOldest
  BY Invariance, PTL DEF IInv

(* What serial_available and serial_peek answer stays true while the         *)
(* interrupt fills the ring.                                                 *)
THEOREM PeekSafe == Spec => []PeekSeesOldest
  BY Invariance, PTL DEF IInv

(* The interrupt stops short of the stale tail of a clearing call.           *)
THEOREM ClearingSafe == Spec => []ClearingWindow
  BY Invariance, PTL DEF IInv

(* All of it: what the ring owes its readers, for every size.               *)
THEOREM RingSafe == Spec => []RingSound
  BY TypeCorrect, CopiedByteSafe, PeekSafe, ClearingSafe, PTL DEF RingSound

(* Polling is sound as long as the interrupt is not installed beside it.     *)
THEOREM PollingSafe ==
    ASSUME ~MixPolling
    PROVE  Spec => []PollInOrder
<1>1. IInv => PollInOrder
  <2> SUFFICES ASSUME IInv, pc = "poll_read"
               PROVE  fifo # <<>> /\ Contents = <<>>
    BY DEF PollInOrder
  <2>1. TypeOK /\ head = 0 /\ tail = 0 /\ fifo # <<>> /\ ~Stale
    BY DEF IInv, BeforeInstall, Stale
  <2>2. 0 \in Slot
    BY RingSizeAssumption DEF Slot
  <2>3. Count = 0
    BY <2>1, <2>2, DistanceValue DEF Count, serial_available
  <2> QED
    BY <2>1, <2>3, ContentsWindow, EmptySeq
<1> QED
  BY <1>1, Invariance, PTL

-----------------------------------------------------------------------------
(* The refinement. *)

LEMMA QueueInit == Init => Queue!Init
<1> SUFFICES ASSUME Init PROVE Queue!Init
  OBVIOUS
<1>1. TypeOK /\ ~Stale
  BY InitInvariant DEF IInv, Init, Stale
<1>2. 0 \in Slot
  BY RingSizeAssumption DEF Slot
<1>3. Count = 0
  BY <1>1, <1>2, DistanceValue DEF Init, Count, serial_available
<1>4. Contents = <<>>
  BY <1>1, <1>3, ContentsWindow, EmptySeq
<1> QED
  BY <1>4, ByteAssumption DEF Queue!Init, Init

LEMMA QueueStep == ~MixPolling /\ IInv /\ [Next]_vars => [Queue!Next]_(Queue!vars)
<1> SUFFICES ASSUME ~MixPolling, IInv, [Next]_vars
             PROVE  [Queue!Next]_(Queue!vars)
  OBVIOUS
<1> DEFINE Clearing == pc \in {"init_zero", "init_flush", "flush_head",
                               "flush_tail", "flush_wait", "flush_read"}
<1>0. /\ TypeOK /\ ClearingWindow
      /\ ring \in [Cell -> Byte] /\ head \in Slot /\ tail \in Slot
      /\ fifo \in Seq(Frame)
      /\ Contents \in Seq(Byte) /\ Len(Contents) = Count
      /\ 0 \in Slot
  BY ContentsWindow, RingSizeAssumption DEF IInv, TypeOK, Slot
<1>1. ASSUME UNCHANGED <<ring, head, tail, fifo, taken>>, Stale' = Stale,
             Clearing' = Clearing
      PROVE  UNCHANGED Queue!vars
  BY <1>1, SameRing DEF Queue!vars
<1>2. CASE RxIsr
  <2>1. /\ fifo # <<>> /\ fifo' = Tail(fifo)
        /\ UNCHANGED <<tail, rxen, rxcie, pc, n, taken>>
    BY <1>2 DEF RxIsr, ReadUdr, calls
  <2>2. CASE ~Head(fifo).damaged /\ Room
    <3>1. /\ Count + 1 \in 0..(RingSize - 1)
          /\ Contents' = Append(Contents, Head(fifo).byte)
      BY <1>0, <1>2, <2>2, IsrStores
    <3>2. Len(Contents) < RingSize - 1
      BY <1>0, <3>1, ContentsWindow, RingSizeAssumption
    <3>3. Queue!Keep
      BY <2>1, <2>2, <3>1, <3>2 DEF Queue!Keep
    <3> QED
      BY <3>3 DEF Queue!Next
  <2>3. CASE ~(~Head(fifo).damaged /\ Room)
    <3>1. Contents' = Contents
      BY <1>2, <2>3, IsrDrops
    <3>2. Head(fifo).damaged \/ Len(Contents) = RingSize - 1 \/ Clearing
      <4>1. CASE ~Room /\ ~Stale
        <5>1. After(head) = tail
          BY <4>1 DEF Room
        <5>2. After(head) = IF head = RingSize - 1 THEN 0 ELSE head + 1
          BY <1>0, AfterIsSlot
        <5>3. Distance(tail, head) = IF head >= tail THEN head - tail
                                     ELSE RingSize + head - tail
          BY <1>0, DistanceValue
        <5>4. Distance(tail, head) = RingSize - 1
          BY <1>0, <5>1, <5>2, <5>3, RingSizeAssumption DEF Slot
        <5> QED
          BY <1>0, <4>1, <5>4 DEF Count, serial_available
      <4>2. CASE Stale
        BY <4>2 DEF Stale
      <4> QED
        BY <2>3, <4>1, <4>2
    <3>3. Queue!Drop
      BY <2>1, <3>1, <3>2 DEF Queue!Drop
    <3> QED
      BY <3>3 DEF Queue!Next
  <2> QED
    BY <2>2, <2>3
<1>3. CASE GetcAdvance \/ RecvAdvance
  <2>1. /\ Advance /\ ~Stale /\ ~Stale' /\ ~Clearing /\ ~Clearing'
        /\ pc \in {"getc_advance", "recv_advance"}
    BY <1>3 DEF GetcAdvance, RecvAdvance, Goto, Stale
  <2>2. Contents # <<>> /\ buf[Len(buf)] = Contents[1]
    BY <2>1 DEF IInv, CopiedByteIsOldest
  <2>3. Contents' = Tail(Contents)
    BY <1>0, <2>1, <2>2, AdvanceTakes
  <2>4. Queue!Take
    BY <2>1, <2>2, <2>3 DEF Queue!Take, Advance
  <2> QED
    BY <2>4 DEF Queue!Next
<1>4. CASE \/ Getc \/ GetcTake \/ Recv \/ RecvAvail \/ RecvTake
           \/ PeekAvail \/ PeekCopy \/ PollWait
  <2>1. UNCHANGED <<ring, head, tail, fifo, taken>>
    BY <1>4 DEF Getc, GetcTake, Recv, RecvAvail, RecvTake, PeekAvail,
                PeekCopy, PollWait, Goto
  <2>2. Stale' = Stale /\ Clearing' = Clearing
    BY <1>4 DEF Getc, GetcTake, Recv, RecvAvail, RecvTake, PeekAvail,
                PeekCopy, PollWait, Goto, Stale
  <2> QED
    BY <1>1, <2>1, <2>2
<1>5. CASE PollRead
  <2>1. UNCHANGED <<ring, head, tail>> /\ Stale' = Stale /\ ~Stale
        /\ ~Clearing /\ ~Clearing'
    BY <1>5 DEF PollRead, Goto, Stale
  <2>2. Contents' = Contents /\ Count' = Count
    BY <2>1, SameRing
  <2>3. fifo # <<>> /\ head = 0 /\ tail = 0
    BY <1>5 DEF PollRead, Goto, IInv, BeforeInstall
  <2>4. Count = 0
    BY <1>0, <2>1, <2>3, DistanceValue DEF Count, serial_available
  <2>5. Contents = <<>>
    BY <1>0, <2>4, EmptySeq
  <2>6. Queue!TakeFromWire
    BY <1>5, <2>1, <2>2, <2>3, <2>5 DEF PollRead, ReadUdr, Queue!TakeFromWire
  <2> QED
    BY <2>6 DEF Queue!Next
<1>6. CASE InitZero \/ FlushHead
  <2>1. UNCHANGED <<fifo, taken, tail>> /\ Clearing /\ Clearing'
    BY <1>6 DEF InitZero, FlushHead
  <2>2. CASE head' = 0 /\ Stale'
    <3>1. Count' = 0 /\ TypeOK'
      BY <2>2, NextKeepsInvariant DEF Count, IInv
    <3>2. Contents' = Window(ring', First', Count')
      BY DEF Contents
    <3>3. Contents' = <<>>
      BY <3>1, <3>2 DEF Window
    <3>4. Queue!Clear
      BY <2>1, <3>3 DEF Queue!Clear
    <3> QED
      BY <3>4 DEF Queue!Next
  <2>3. CASE ~(head' = 0 /\ Stale')
    <3>1. InitZero /\ n = 0 /\ pc' = "init_flush" /\ UNCHANGED <<head, ring>>
      BY <1>0, <1>6, <2>3, RingSizeAssumption
         DEF InitZero, FlushHead, Stale, TypeOK, SizeofBuffer
    <3>2. Stale /\ Stale'
      BY <3>1, RingSizeAssumption DEF InitZero, Stale, SizeofBuffer
    <3> QED
      BY <1>1, <2>1, <3>1, <3>2
  <2> QED
    BY <2>2, <2>3
<1>7. CASE FlushTail
  <2>1. /\ Stale /\ ~Stale' /\ Clearing /\ Clearing'
        /\ tail' = 0 /\ UNCHANGED <<ring, head, fifo, taken>>
    BY <1>7 DEF FlushTail, Goto, Stale
  <2>2. Count = head /\ First = 0
    BY <2>1 DEF Count, First
  <2>3. Count' = Distance(0, head) /\ First' = 0
    BY <2>1 DEF Count, First, serial_available
  <2>4. Distance(0, head) = head
    BY <1>0, DistanceValue, RingSizeAssumption DEF Slot
  <2> QED
    BY <2>1, <2>2, <2>3, <2>4 DEF Queue!vars, Contents
<1>8. CASE FlushWait
  <2>1. /\ UNCHANGED <<ring, head, tail, fifo, taken>>
        /\ Stale' = Stale /\ Clearing
    BY <1>8 DEF FlushWait, Stale
  <2>2. Contents' = Contents
    BY <2>1, SameRing
  <2>3. CASE Clearing'
    BY <1>1, <2>1, <2>3
  <2>4. CASE ~Clearing'
    <3>1. Queue!EndClear
      BY <2>1, <2>2, <2>4 DEF Queue!EndClear
    <3> QED
      BY <3>1 DEF Queue!Next
  <2> QED
    BY <2>3, <2>4
<1>9. CASE FlushRead
  <2>1. /\ UNCHANGED <<ring, head, tail, taken>>
        /\ Stale' = Stale /\ Clearing /\ Clearing'
        /\ fifo' = IF fifo = <<>> THEN <<>> ELSE Tail(fifo)
    BY <1>9 DEF FlushRead, Goto, ReadUdr, Stale
  <2>2. Contents' = Contents
    BY <2>1, SameRing
  <2>3. CASE fifo = <<>>
    BY <2>1, <2>3, <1>1
  <2>4. CASE fifo # <<>>
    <3>1. Queue!Drop
      BY <2>1, <2>2, <2>4 DEF Queue!Drop
    <3> QED
      BY <3>1 DEF Queue!Next
  <2> QED
    BY <2>3, <2>4
<1>10. CASE CallGetc \/ CallRecv \/ CallPeek \/ CallPollRecv \/ CallAvailable
            \/ serial_install_interrupts \/ UNCHANGED vars
  <2>1. UNCHANGED <<ring, head, tail, fifo, taken>>
    BY <1>10 DEF CallGetc, CallRecv, CallPeek, CallPollRecv, CallAvailable,
                 Call, serial_install_interrupts, vars, calls
  <2>2. Stale' = Stale /\ Clearing' = Clearing
    BY <1>10 DEF CallGetc, CallRecv, CallPeek, CallPollRecv, CallAvailable,
                 Call, serial_install_interrupts, vars, calls, Stale
  <2> QED
    BY <1>1, <2>1, <2>2
<1>11. CASE CallFlush \/ CallInit
  <2>1. /\ UNCHANGED <<ring, head, tail, fifo, taken>>
        /\ Stale' = Stale /\ ~Clearing /\ Clearing'
    BY <1>11, RingSizeAssumption DEF CallFlush, CallInit, Call, Stale, SizeofBuffer
  <2>2. Contents' = Contents
    BY <2>1, SameRing
  <2>3. Queue!BeginClear
    BY <2>1, <2>2 DEF Queue!BeginClear
  <2> QED
    BY <2>3 DEF Queue!Next
<1>12. CASE Arrive
  <2>1. /\ UNCHANGED <<ring, head, tail, taken>>
        /\ Stale' = Stale /\ Clearing' = Clearing
        /\ \E f \in Frame : fifo' = Append(fifo, f)
    BY <1>12 DEF Arrive, calls, Stale
  <2>2. Contents' = Contents
    BY <2>1, SameRing
  <2>3. Queue!Arrive
    <3>1. PICK f \in Frame : fifo' = Append(fifo, f)
      BY <2>1
    <3>2. fifo \in Seq(Frame)
      BY <1>0 DEF TypeOK
    <3>3. /\ fifo' \in Seq(Frame)
          /\ Len(fifo') = Len(fifo) + 1 /\ Len(fifo) \in Nat
          /\ \A i \in 1..Len(fifo) : fifo'[i] = fifo[i]
      BY <3>1, <3>2, AppendProperties, LenProperties
    <3>4. SubSeq(fifo', 1, Len(fifo)) = fifo
      BY <3>2, <3>3
    <3> QED
      BY <2>1, <2>2, <3>3, <3>4 DEF Queue!Arrive, Frame, Queue!Frame
  <2> QED
    BY <2>3 DEF Queue!Next
<1> QED
  BY <1>2, <1>3, <1>4, <1>5, <1>6, <1>7, <1>8, <1>9, <1>10, <1>11, <1>12
     DEF Next, StartCall, CallStep

(* The receive half of serial.c is a lossy bounded queue, for every size of  *)
(* the ring: bytes reach the reader in the order they were received, none    *)
(* twice, and a byte is lost only if it is damaged, if RingSize - 1 bytes    *)
(* wait already, or during a clearing call.                                  *)
THEOREM Refinement ==
    ASSUME ~MixPolling
    PROVE  Spec => ImplementsByteQueue
<1>1. IInv /\ [Next]_vars => [Queue!Next]_(Queue!vars)
  BY QueueStep
<1> QED
  BY <1>1, QueueInit, Invariance, PTL DEF Spec, Queue!Spec, ImplementsByteQueue
=============================================================================
