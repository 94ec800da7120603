------------------------------ MODULE SerialTx ------------------------------
(***************************************************************************)
(* The interrupt driven transmit half of serial.c, with the polled sends   *)
(* and the stdout wrapper that share the data register with it.            *)
(*                                                                         *)
(* USART_UDRE_vect is ISR_BLOCK and one action.  The main program runs one *)
(* call at a time; its accesses to g_tx_buff, UCSR0B and UDR0 are steps,   *)
(* labelled by pc.                                                         *)
(***************************************************************************)
EXTENDS Ring

CONSTANTS Byte,          \* the byte values
          Zero,          \* the byte .bss is filled with
          Newline,       \* '\n'
          CarriageReturn,\* '\r'
          SizeofBuffer,  \* sizeof(g_tx_buff): turns of common_zero_mem
          CharSize,      \* 256, the values of the uint8_t that counts in serial_send
          MaxSize,       \* the longest data a caller passes (bound)
          WaitModes,     \* the values of a_waitall the program uses
          StdoutPoll,    \* SERIAL_STDOUT_POLL
          MixPolling,    \* the program polls while the interrupt transmits
          Reinit         \* the program calls serial_init more than once

ASSUME ByteAssumption == {Zero, Newline, CarriageReturn} \subseteq Byte
ASSUME SizeAssumption == /\ SizeofBuffer \in Nat \ {0}
                         /\ CharSize \in Nat \ {0, 1}
                         /\ MaxSize \in Nat \ {0, 1}
ASSUME FlagAssumption == /\ WaitModes \subseteq BOOLEAN
                         /\ {StdoutPoll, MixPolling, Reinit} \subseteq BOOLEAN

VARIABLES ring, head, tail,   \* g_tx_buff.u.r
          txen, udrie,        \* UCSR0B: transmitter enabled, UDRE interrupt enabled
          sei,                \* interrupts are enabled
          udr,                \* UDR0: empty, or the byte that waits to be shifted out
          pc,                 \* the step the main program takes next
          offered,            \* what is left of the data of the running call
          size, waitall,      \* its a_size and a_waitall
          waited,             \* a call of serial_send has asked to wait (for the properties)
          initiated,          \* initiated in serial_send
          n,                  \* its counter
          loaded              \* the byte the interrupt loaded last

calls == <<pc, offered, size, waitall, waited, initiated, n>>
vars == <<ring, head, tail, txen, udrie, sei, udr, calls, loaded>>

Label == {"idle", "send", "send_store", "send_advance", "send_enable", "send_end",
          "sendc", "sendc_store", "sendc_advance", "sendc_enable",
          "poll_wait", "poll_write", "init_zero"}

TypeOK == /\ ring \in [Cell -> Byte]
          /\ head \in Slot
          /\ tail \in Slot
          /\ txen \in BOOLEAN
          /\ udrie \in BOOLEAN
          /\ sei \in BOOLEAN
          /\ udr \in Seq(Byte) /\ Len(udr) <= 1
          /\ pc \in Label
          /\ offered \in Seq(Byte) /\ Len(offered) <= MaxSize
          /\ size \in 0..MaxSize
          /\ waitall \in BOOLEAN
          /\ waited \in BOOLEAN
          /\ initiated \in BOOLEAN
          /\ n \in Nat
          /\ loaded \in Byte

Init == /\ ring = [i \in Cell |-> Zero]
        /\ head = 0
        /\ tail = 0
        /\ txen = FALSE
        /\ udrie = FALSE
        /\ sei = FALSE
        /\ udr = <<>>
        /\ pc = "idle"
        /\ offered = <<>>
        /\ size = 0
        /\ waitall = FALSE
        /\ waited = FALSE
        /\ initiated = FALSE
        /\ n = 0
        /\ loaded = Zero

-----------------------------------------------------------------------------
(* The hardware and the interrupt. *)

(* The byte in UDR0 goes to the shift register and from there onto the line. *)
Shift == /\ txen
         /\ udr # <<>>
         /\ udr' = <<>>
         /\ UNCHANGED <<ring, head, tail, txen, udrie, sei, calls, loaded>>

(* fault: the interrupt masks itself with the last byte still in the ring *)
UdreIsrMasksEarly ==
    /\ sei /\ udrie /\ udr = <<>>
    /\ IF head \notin {tail, After(tail)}
       THEN /\ udr' = <<At(ring, tail)>>
            /\ loaded' = At(ring, tail)
            /\ tail' = After(tail)
            /\ UNCHANGED udrie
       ELSE /\ udrie' = FALSE
            /\ UNCHANGED <<udr, loaded, tail>>
    /\ UNCHANGED <<ring, head, txen, sei, calls>>

(* USART_UDRE_vect *)
UdreIsr == /\ sei /\ udrie /\ udr = <<>>
           /\ IF head # tail
              THEN /\ udr' = <<At(ring, tail)>>
                   /\ loaded' = At(ring, tail)
                   /\ tail' = After(tail)
                   /\ UNCHANGED udrie
              ELSE /\ udrie' = FALSE
                   /\ UNCHANGED <<udr, loaded, tail>>
           /\ UNCHANGED <<ring, head, txen, sei, calls>>

-----------------------------------------------------------------------------
(* The calls of the API, on a port that was initialised. *)

Data == UNION {[1..s -> Byte] : s \in 0..MaxSize}

(* A call starts at label l with data d and the flag w. *)
Call(l, d, w) == /\ pc = "idle"
                 /\ txen
                 /\ pc' = l
                 /\ offered' = d
                 /\ size' = Len(d)
                 /\ waitall' = w
                 /\ waited' = (waited \/ (l = "send" /\ w))
                 /\ initiated' = FALSE
                 /\ n' = 0
                 /\ UNCHANGED <<ring, head, tail, txen, udrie, sei, udr, loaded>>

(* A program that does not mix polls only while the interrupt has nothing to *)
(* send.                                                                     *)
MayPoll == MixPolling \/ (~udrie /\ head = tail)

CallSend == \E d \in Data, w \in WaitModes : Call("send", d, w)
CallSendc == \E b \in Byte : Call("sendc", <<b>>, FALSE)
CallPollSend == MayPoll /\ \E d \in Data : Call("poll_wait", d, TRUE)

(* _serial_putc *)
Translate(c) == IF c = Newline THEN <<CarriageReturn, Newline>> ELSE <<c>>

CallPutc ==
    \E c \in Byte : IF StdoutPoll
                    THEN MayPoll /\ Call("poll_wait", Translate(c), TRUE)
                    ELSE Call("sendc", Translate(c), TRUE)

(* serial_init up to the clearing of the ring *)
CallInit == /\ pc = "idle"
            /\ Reinit \/ ~txen
            /\ pc' = "init_zero"
            /\ n' = SizeofBuffer
            /\ UNCHANGED <<ring, head, tail, txen, udrie, sei, udr,
                           offered, size, waitall, waited, initiated, loaded>>

serial_install_interrupts ==
    /\ pc = "idle"
    /\ sei' = TRUE
    /\ UNCHANGED <<ring, head, tail, txen, udrie, udr, calls, loaded>>

-----------------------------------------------------------------------------
(* What the sending calls share. *)

Goto(from, to) == pc = from /\ pc' = to

RoomTakenForGranted == TRUE        \* fault: the caller overruns the ring

Room == After(head) # tail

(* fault: the byte goes to the slot after the head *)
StoreAhead == /\ ring' = Put(ring, After(head), Head(offered))
              /\ UNCHANGED <<head, tail, txen, udrie, sei, udr, offered,
                             size, waitall, waited, initiated, n, loaded>>

Store == /\ ring' = Put(ring, head, Head(offered))
         /\ UNCHANGED <<head, tail, txen, udrie, sei, udr, offered,
                        size, waitall, waited, initiated, n, loaded>>

Publish == /\ head' = After(head)
           /\ offered' = Tail(offered)
           /\ n' = (n + 1) % CharSize
           /\ UNCHANGED <<ring, tail, txen, udrie, sei, udr,
                          size, waitall, waited, initiated, loaded>>

(* UCSR0B |= _BV(UDRIE0).  The read and the write are not one instruction,   *)
(* but what the interrupt may clear between them is set again anyway.        *)
EnableInterrupt == /\ udrie' = TRUE
                   /\ UNCHANGED <<ring, head, tail, txen, sei, udr, offered,
                                  size, waitall, waited, n, loaded>>

-----------------------------------------------------------------------------
(* serial_send *)

Send == /\ pc = "send"
        /\ pc' = IF offered = <<>> THEN "send_end"
                 ELSE IF Room THEN "send_store"
                 ELSE IF ~waitall THEN "send_end"
                 ELSE IF initiated THEN "send" ELSE "send_enable"
        /\ UNCHANGED <<ring, head, tail, txen, udrie, sei, udr, offered,
                       size, waitall, waited, initiated, n, loaded>>

SendStore == Goto("send_store", "send_advance") /\ Store

SendAdvance == Goto("send_advance", "send") /\ Publish

SendEnable == /\ Goto("send_enable", "send")
              /\ initiated' = TRUE
              /\ EnableInterrupt

(* fault: the interrupt is left masked after a short count *)
SendEndForgets ==
    /\ Goto("send_end", "idle")
    /\ offered' = <<>>
    /\ IF offered = <<>> THEN udrie' = TRUE ELSE UNCHANGED udrie
    /\ UNCHANGED <<ring, head, tail, txen, sei, udr,
                   size, waitall, waited, initiated, n, loaded>>

SendEnd == /\ Goto("send_end", "idle")
           /\ offered' = <<>>
           /\ IF ~waitall \/ ~initiated
              THEN udrie' = TRUE /\ initiated' = TRUE
              ELSE UNCHANGED <<udrie, initiated>>
           /\ UNCHANGED <<ring, head, tail, txen, sei, udr,
                          size, waitall, waited, n, loaded>>

-----------------------------------------------------------------------------
(* serial_sendc, and the loop _serial_putc makes of it *)

Sendc == /\ pc = "sendc"
         /\ IF offered # <<>> /\ Room
            THEN pc' = "sendc_store" /\ UNCHANGED offered
            ELSE IF offered # <<>> /\ waitall
            THEN UNCHANGED <<pc, offered>>
            ELSE pc' = "idle" /\ offered' = <<>>
         /\ UNCHANGED <<ring, head, tail, txen, udrie, sei, udr,
                        size, waitall, waited, initiated, n, loaded>>

SendcStore == Goto("sendc_store", "sendc_advance") /\ Store

SendcAdvance == Goto("sendc_advance", "sendc_enable") /\ Publish

SendcEnable == /\ Goto("sendc_enable", "sendc")
               /\ UNCHANGED initiated
               /\ EnableInterrupt

-----------------------------------------------------------------------------
(* serial_poll_send *)

(* fault: UDRE0 is not looked at *)
PollAtOnce == /\ pc = "poll_wait"
              /\ pc' = IF offered = <<>> THEN "idle" ELSE "poll_write"
              /\ UNCHANGED <<ring, head, tail, txen, udrie, sei, udr, offered,
                             size, waitall, waited, initiated, n, loaded>>

PollWait == /\ pc = "poll_wait"
            /\ pc' = IF offered = <<>> THEN "idle"
                     ELSE IF udr = <<>> THEN "poll_write" ELSE "poll_wait"
            /\ UNCHANGED <<ring, head, tail, txen, udrie, sei, udr, offered,
                           size, waitall, waited, initiated, n, loaded>>

(* The USART ignores what is written to UDR0 while it is not empty. *)
PollWrite == /\ Goto("poll_write", "poll_wait")
             /\ udr' = IF udr = <<>> THEN <<Head(offered)>> ELSE udr
             /\ offered' = Tail(offered)
             /\ UNCHANGED <<ring, head, tail, txen, udrie, sei,
                            size, waitall, waited, initiated, n, loaded>>

-----------------------------------------------------------------------------
(* serial_init: common_zero_mem writes the head again and again and never    *)
(* the tail, and serial_flush does not touch this ring.                      *)
InitZero == /\ pc = "init_zero"
            /\ IF n = 0
               THEN /\ pc' = "idle"
                    /\ txen' = TRUE
                    /\ UNCHANGED <<n, head>>
               ELSE /\ head' = 0
                    /\ n' = n - 1
                    /\ UNCHANGED <<pc, txen>>
            /\ UNCHANGED <<ring, tail, udrie, sei, udr, offered,
                           size, waitall, waited, initiated, loaded>>

-----------------------------------------------------------------------------

StartCall == \/ CallSend \/ CallSendc \/ CallPutc \/ CallPollSend
             \/ CallInit \/ serial_install_interrupts

CallStep == \/ Send \/ SendStore \/ SendAdvance \/ SendEnable \/ SendEnd
            \/ Sendc \/ SendcStore \/ SendcAdvance \/ SendcEnable
            \/ PollWait \/ PollWrite
            \/ InitZero

Next == StartCall \/ CallStep \/ UdreIsr \/ Shift

Spec == Init /\ [][Next]_vars

(* A started call goes on, a pending interrupt is served, and the hardware   *)
(* shifts out what it was given.                                             *)
FairSpec == Spec /\ WF_vars(CallStep) /\ WF_vars(UdreIsr) /\ WF_vars(Shift)

-----------------------------------------------------------------------------
(* Correctness. *)

(* The bytes in the ring, oldest first. *)
Contents == Window(ring, tail, Distance(tail, head))

(* The head moves past a slot only after the byte is in it, so the interrupt *)
(* never loads a slot that is not written yet, and there is room for it      *)
(* although the interrupt moved the tail meanwhile.                          *)
StoredBeforePublished ==
    /\ pc \in {"send_store", "sendc_store"} => Room
    /\ pc \in {"send_advance", "sendc_advance"} =>
           Room /\ offered # <<>> /\ At(ring, head) = Head(offered)

(* What the ring owes the interrupt that drains it.                         *)
RingSound == TypeOK /\ StoredBeforePublished

(* Between two calls the interrupt is enabled whenever bytes wait for it, as *)
(* long as the program never asked serial_send to wait.                      *)
NoneStranded == pc = "idle" /\ head # tail => udrie \/ waited

(* A polled byte is written while the data register is empty, so that the    *)
(* hardware takes it.                                                        *)
PolledByteTaken == pc = "poll_write" => udr = <<>>

(* The transmit half of serial.c is the lossy bounded queue of ByteQueue: a  *)
(* call offers its data, the ring keeps it or, only when it is full, refuses *)
(* the rest, and the interrupt takes the bytes in order, each once.          *)
Frames(d) == [i \in 1..Len(d) |-> [byte |-> d[i], damaged |-> FALSE]]

ToTheRing == IF pc \in {"send_end", "poll_wait", "poll_write"} THEN <<>>
             ELSE offered

Queue == INSTANCE ByteQueue WITH
             Capacity <- RingSize - 1,
             wire <- Frames(ToTheRing),
             queue <- Contents,
             clearing <- FALSE,
             taken <- loaded

ImplementsByteQueue == Queue!Spec

(* On a port with interrupts enabled, a byte in the ring is loaded sooner or *)
(* later, as long as the program never asks serial_send to wait.             *)
BytesLeave == \A t \in Slot : sei /\ tail = t /\ head # t ~> tail # t \/ waited

(* serial.h says of a_waitall: block until everything is sent.  The call     *)
(* must then come back.                                                      *)
BlockingSendReturns == sei /\ pc = "send" ~> pc = "idle"

(* serial.h says that serial_send returns the number of characters sent.     *)
ReturnsNumberSent == pc = "send_end" => n = size - Len(offered)

(* serial_init says that it clears the rings.                                *)
InitClearsRing == [][pc = "init_zero" /\ pc' = "idle" => head' = tail']_vars
=============================================================================
