------------------------------ MODULE SerialRx ------------------------------
(***************************************************************************)
(* The interrupt driven receive half of serial.c.                          *)
(*                                                                         *)
(* USART_RX_vect is ISR_BLOCK, so it runs between two steps of the main    *)
(* program and is one action.  The main program runs one call of the API   *)
(* at a time; every access it makes to a volatile field of g_rx_buff or    *)
(* to a USART register is a step of its own, labelled by pc.               *)
(***************************************************************************)
EXTENDS Ring

CONSTANTS Byte,         \* the byte values
          Zero,         \* the byte .bss is filled with
          UdrDepth,     \* frames the USART holds before it loses the next one
          MaxSize,      \* the largest buffer a caller passes (bound)
          MixPolling    \* the program polls although the interrupt is installed

ASSUME ByteAssumption == Zero \in Byte
ASSUME UdrDepthAssumption == UdrDepth \in Nat \ {0}
ASSUME MaxSizeAssumption == MaxSize \in Nat \ {0}
ASSUME MixPollingAssumption == MixPolling \in BOOLEAN

VARIABLES ring, head, tail,   \* g_rx_buff.u.r
          rxen, rxcie,        \* UCSR0B: receiver enabled, receive interrupt enabled
          fifo,               \* frames the USART holds, what UDR0 reads next first
          pc,                 \* the step the main program takes next
          size, waitall,      \* a_size and a_waitall of the running call
          n,                  \* its counter, or what serial_available returned
          buf,                \* the bytes it has put in the caller's buffer
          taken               \* the byte a call consumed last

calls == <<pc, size, waitall, n, buf, taken>>
vars == <<ring, head, tail, rxen, rxcie, fifo, calls>>

Frame == [byte : Byte, damaged : BOOLEAN]

(* sizeof(g_rx_buff), the number of turns common_zero_mem makes *)
SizeofBuffer == RingSize + 2

Label == {"idle", "getc", "getc_take", "getc_advance",
          "recv", "recv_avail", "recv_take", "recv_advance",
          "peek_avail", "peek_copy", "poll_wait", "poll_read",
          "init_zero", "init_flush",
          "flush_head", "flush_tail", "flush_wait", "flush_read"}

TypeOK == /\ ring \in [Cell -> Byte]
          /\ head \in Slot
          /\ tail \in Slot
          /\ rxen \in BOOLEAN
          /\ rxcie \in BOOLEAN
          /\ fifo \in Seq(Frame) /\ Len(fifo) <= UdrDepth
          /\ pc \in Label
          /\ size \in 0..MaxSize
          /\ waitall \in BOOLEAN
          /\ n \in 0..SizeofBuffer
          /\ buf \in Seq(Byte) /\ Len(buf) <= MaxSize
          /\ taken \in Byte

Init == /\ ring = [i \in Cell |-> Zero]
        /\ head = 0
        /\ tail = 0
        /\ rxen = FALSE
        /\ rxcie = FALSE
        /\ fifo = <<>>
        /\ pc = "idle"
        /\ size = 0
        /\ waitall = FALSE
        /\ n = 0
        /\ buf = <<>>
        /\ taken = Zero

-----------------------------------------------------------------------------
(* The ring. *)

RoomTakenForGranted == TRUE         \* fault: the interrupt overruns the ring

(* There is a free slot besides the one that tells a full ring from an empty *)
(* one.                                                                      *)
Room == After(head) # tail

serial_available == Distance(tail, head)

-----------------------------------------------------------------------------
(* The hardware and the interrupt. *)

(* A frame is received.  One that finds the USART full is lost to the        *)
(* hardware before the library sees it.                                      *)
Arrive == /\ rxen
          /\ Len(fifo) < UdrDepth
          /\ \E f \in Frame : fifo' = Append(fifo, f)
          /\ UNCHANGED <<ring, head, tail, rxen, rxcie, calls>>

(* fault: a damaged frame is left in the data register *)
ReadUdrIfGood == fifo' = IF fifo = <<>> \/ Head(fifo).damaged THEN fifo
                         ELSE Tail(fifo)

(* Reading UDR0 takes the oldest frame out of the USART. *)
ReadUdr == fifo' = IF fifo = <<>> THEN <<>> ELSE Tail(fifo)

(* USART_RX_vect *)
RxIsr == /\ rxcie
         /\ fifo # <<>>
         /\ ReadUdr
         /\ IF ~Head(fifo).damaged /\ Room
            THEN /\ ring' = Put(ring, head, Head(fifo).byte)
                 /\ head' = After(head)
            ELSE UNCHANGED <<ring, head>>
         /\ UNCHANGED <<tail, rxen, rxcie, calls>>

-----------------------------------------------------------------------------
(* The calls of the API. *)

(* A call starts at label l with arguments s and w and an empty buffer. *)
Call(l, s, w) == /\ pc = "idle"
                 /\ pc' = l
                 /\ size' = s
                 /\ waitall' = w
                 /\ n' = 0
                 /\ buf' = <<>>
                 /\ UNCHANGED <<ring, head, tail, rxen, rxcie, fifo, taken>>

Goto(from, to) == pc = from /\ pc' = to

(* serial_getc, or with w the loop _serial_getc makes of it *)
CallGetc == \E w \in BOOLEAN : Call("getc", 1, w)
CallRecv == \E s \in 0..MaxSize, w \in BOOLEAN : Call("recv", s, w)
CallPeek == \E s \in 0..MaxSize : Call("peek_avail", s, FALSE)
CallFlush == Call("flush_head", 0, FALSE)
CallPollRecv == /\ MixPolling \/ ~rxcie
                /\ \E s \in 0..MaxSize : Call("poll_wait", s, TRUE)

(* serial_available called by the program, which keeps the answer *)
CallAvailable == /\ pc = "idle"
                 /\ n' = serial_available
                 /\ UNCHANGED <<ring, head, tail, rxen, rxcie, fifo,
                                pc, size, waitall, buf, taken>>

(* serial_init up to the clearing of the ring *)
CallInit == /\ pc = "idle"
            /\ pc' = "init_zero"
            /\ n' = SizeofBuffer
            /\ size' = 0
            /\ waitall' = FALSE
            /\ buf' = <<>>
            /\ UNCHANGED <<ring, head, tail, rxen, rxcie, fifo, taken>>

serial_install_interrupts == /\ pc = "idle"
                             /\ rxcie' = TRUE
                             /\ UNCHANGED <<ring, head, tail, rxen, fifo, calls>>

-----------------------------------------------------------------------------
(* serial_getc *)

Getc == /\ pc = "getc"
        /\ pc' = IF head # tail THEN "getc_take"
                 ELSE IF waitall THEN "getc" ELSE "idle"
        /\ UNCHANGED <<ring, head, tail, rxen, rxcie, fifo,
                       size, waitall, n, buf, taken>>

GetcTake == /\ Goto("getc_take", "getc_advance")
            /\ buf' = Append(buf, At(ring, tail))
            /\ UNCHANGED <<ring, head, tail, rxen, rxcie, fifo,
                           size, waitall, n, taken>>

Advance == /\ tail' = After(tail)
           /\ taken' = buf[Len(buf)]
           /\ UNCHANGED <<ring, head, rxen, rxcie, fifo, size, waitall, n, buf>>

GetcAdvance == Goto("getc_advance", "idle") /\ Advance

-----------------------------------------------------------------------------
(* serial_recv *)

(* The early return, and the test of the outer loop. *)
Recv == /\ pc = "recv"
        /\ pc' = IF \/ Len(buf) >= size
                    \/ ~waitall /\ head = tail
                 THEN "idle" ELSE "recv_avail"
        /\ UNCHANGED <<ring, head, tail, rxen, rxcie, fifo,
                       size, waitall, n, buf, taken>>

(* The test of the inner loop, and the break of the outer one. *)
RecvAvail == /\ pc = "recv_avail"
             /\ pc' = IF serial_available # 0 /\ Len(buf) < size THEN "recv_take"
                      ELSE IF waitall THEN "recv" ELSE "idle"
             /\ UNCHANGED <<ring, head, tail, rxen, rxcie, fifo,
                            size, waitall, n, buf, taken>>

RecvTake == /\ Goto("recv_take", "recv_advance")
            /\ buf' = Append(buf, At(ring, tail))
            /\ UNCHANGED <<ring, head, tail, rxen, rxcie, fifo,
                           size, waitall, n, taken>>

RecvAdvance == Goto("recv_advance", "recv_avail") /\ Advance

-----------------------------------------------------------------------------
(* serial_peek *)

PeekAvail == /\ Goto("peek_avail", "peek_copy")
             /\ n' = IF serial_available > size THEN size ELSE serial_available
             /\ UNCHANGED <<ring, head, tail, rxen, rxcie, fifo,
                            size, waitall, buf, taken>>

PeekCopy == /\ pc = "peek_copy"
            /\ IF Len(buf) < n
               THEN /\ buf' = Append(buf, At(ring, (tail + Len(buf)) % RingSize))
                    /\ pc' = pc
               ELSE /\ pc' = "idle"
                    /\ buf' = buf
            /\ UNCHANGED <<ring, head, tail, rxen, rxcie, fifo,
                           size, waitall, n, taken>>

-----------------------------------------------------------------------------
(* serial_poll_recv *)

(* fault: RXC0 is not looked at *)
PollAtOnce == /\ pc = "poll_wait"
              /\ pc' = IF Len(buf) >= size THEN "idle" ELSE "poll_read"
              /\ UNCHANGED <<ring, head, tail, rxen, rxcie, fifo,
                             size, waitall, n, buf, taken>>

PollWait == /\ pc = "poll_wait"
            /\ pc' = IF Len(buf) >= size THEN "idle"
                     ELSE IF fifo # <<>> THEN "poll_read" ELSE "poll_wait"
            /\ UNCHANGED <<ring, head, tail, rxen, rxcie, fifo,
                           size, waitall, n, buf, taken>>

(* UDR0 read while nothing is in it gives an arbitrary byte. *)
PollRead == /\ Goto("poll_read", "poll_wait")
            /\ \E b \in Byte : /\ fifo # <<>> => b = Head(fifo).byte
                               /\ buf' = Append(buf, b)
                               /\ taken' = b
            /\ ReadUdr
            /\ UNCHANGED <<ring, head, tail, rxen, rxcie, size, waitall, n>>

-----------------------------------------------------------------------------
(* serial_flush and serial_init *)

(* common_zero_mem writes the first byte of g_rx_buff, the head, again and   *)
(* again; the tail keeps its value until serial_flush.                       *)
InitZero == /\ pc = "init_zero"
            /\ IF n = 0
               THEN /\ pc' = "init_flush"
                    /\ rxen' = TRUE
                    /\ UNCHANGED <<n, head>>
               ELSE /\ head' = 0
                    /\ n' = n - 1
                    /\ UNCHANGED <<pc, rxen>>
            /\ UNCHANGED <<ring, tail, rxcie, fifo, size, waitall, buf, taken>>

FlushHead == /\ pc \in {"init_flush", "flush_head"}
             /\ pc' = "flush_tail"
             /\ head' = 0
             /\ UNCHANGED <<ring, tail, rxen, rxcie, fifo,
                            size, waitall, n, buf, taken>>

FlushTail == /\ Goto("flush_tail", "flush_wait")
             /\ tail' = 0
             /\ UNCHANGED <<ring, head, rxen, rxcie, fifo,
                            size, waitall, n, buf, taken>>

FlushWait == /\ pc = "flush_wait"
             /\ pc' = IF fifo # <<>> THEN "flush_read" ELSE "idle"
             /\ UNCHANGED <<ring, head, tail, rxen, rxcie, fifo,
                            size, waitall, n, buf, taken>>

FlushRead == /\ Goto("flush_read", "flush_wait")
             /\ ReadUdr
             /\ UNCHANGED <<ring, head, tail, rxen, rxcie,
                            size, waitall, n, buf, taken>>

-----------------------------------------------------------------------------

StartCall == \/ CallGetc \/ CallRecv \/ CallPeek \/ CallFlush \/ CallPollRecv
             \/ CallAvailable \/ CallInit \/ serial_install_interrupts

CallStep == \/ Getc \/ GetcTake \/ GetcAdvance
            \/ Recv \/ RecvAvail \/ RecvTake \/ RecvAdvance
            \/ PeekAvail \/ PeekCopy
            \/ PollWait \/ PollRead
            \/ InitZero \/ FlushHead \/ FlushTail \/ FlushWait \/ FlushRead

Next == StartCall \/ CallStep \/ RxIsr \/ Arrive

Spec == Init /\ [][Next]_vars

(* A started call goes on, a pending interrupt is served, and a peer that    *)
(* talks sends undamaged frames again and again.                             *)
GoodFrame == Arrive /\ ~fifo'[Len(fifo')].damaged

FairSpec == Spec /\ WF_vars(CallStep) /\ WF_vars(RxIsr) /\ SF_vars(GoodFrame)

-----------------------------------------------------------------------------
(* Correctness. *)

(* Between the first write to head and the write to tail of a clearing call  *)
(* the old tail is still there, and the ring holds what is below the head.   *)
Stale == \/ pc = "init_zero" /\ n < SizeofBuffer
         \/ pc \in {"init_flush", "flush_tail"}

First == IF Stale THEN 0 ELSE tail
Count == IF Stale THEN head ELSE serial_available

(* The bytes in the ring, oldest first. *)
Contents == Window(ring, First, Count)

(* The slot a read is about to release still holds the byte the read copied  *)
(* out of it: the interrupt, which runs between the copy and the release,    *)
(* never writes the slot at the tail.                                        *)
CopiedByteIsOldest ==
    /\ pc \in {"getc_take", "recv_take"} => Contents # <<>>
    /\ pc \in {"getc_advance", "recv_advance"} =>
           Contents # <<>> /\ buf # <<>> /\ buf[Len(buf)] = Contents[1]

(* What serial_available answered, and what serial_peek works with while     *)
(* the interrupt goes on filling the ring, stays a lower bound of what is    *)
(* there, and the bytes peeked are the oldest ones, in their order.          *)
PeekSeesOldest ==
    /\ pc \in {"idle", "peek_copy"} => n <= Count
    /\ pc = "peek_copy" => /\ Len(buf) <= n
                           /\ \A i \in 1..Len(buf) : buf[i] = Contents[i]

(* While a clearing call has reset the head but not yet the tail, the        *)
(* interrupt may go on storing, and stops short of the stale tail: once the  *)
(* tail is reset too, every byte it stored is there and none other.          *)
ClearingWindow == Stale => tail = 0 \/ head < tail

(* What the ring owes its readers while the interrupt goes on filling it.   *)
RingSound == TypeOK /\ CopiedByteIsOldest /\ PeekSeesOldest /\ ClearingWindow

(* A polled byte never overtakes one that is waiting in the ring, and is a   *)
(* byte that was received: serial_poll_recv finds the ring empty and the     *)
(* frame it waited for still there.                                          *)
PollInOrder == pc = "poll_read" => fifo # <<>> /\ Contents = <<>>

(* Through a ring that is filled by the interrupt and emptied by the calls,  *)
(* the library is the lossy bounded queue of ByteQueue.                      *)
Queue == INSTANCE ByteQueue WITH
             Capacity <- RingSize - 1,
             wire <- fifo,
             queue <- Contents,
             clearing <- pc \in {"init_zero", "init_flush", "flush_head",
                                 "flush_tail", "flush_wait", "flush_read"},
             taken <- taken

ImplementsByteQueue == Queue!Spec

(* Once the interrupt is installed a blocking read (serial_recv with         *)
(* a_waitall, or the stdin wrapper around serial_getc) returns, if the peer  *)
(* goes on sending.                                                          *)
BlockingReadReturns ==
    rxen /\ rxcie /\ pc \in {"getc", "recv"} ~> pc = "idle"
=============================================================================
