-------------------------------- MODULE Slip --------------------------------
(***************************************************************************)
(* SLIP framing (slip.c): slip_send on one side of a serial line and       *)
(* slip_recv on the other, over the receive ring as ByteQueue states it.   *)
(*                                                                         *)
(* Every character on the line carries the number of the packet it is part *)
(* of and its place in it, for the properties; slip_recv looks at the      *)
(* character only.  Place 0 is the END in front, the place after the last  *)
(* byte is the END behind, and the two characters that stand for an        *)
(* escaped byte have the place of the byte.                                *)
(***************************************************************************)
EXTENDS Integers, Sequences, FiniteSets

CONSTANTS END, ESC, ESC_END, ESC_ESC,  \* the characters SLIP gives a meaning to
          Plain,        \* other characters
          Data,         \* the characters packets are made of
          MaxLen,       \* the longest packet (bound)
          Packets,      \* how many packets are sent (bound)
          BufLen,       \* a_buflen of slip_recv
          Capacity,     \* what the receive ring holds
          Lossy         \* whether characters get lost

Special == {END, ESC, ESC_END, ESC_ESC}
Char == Special \cup Plain

ASSUME CharAssumption == /\ END \notin {ESC, ESC_END, ESC_ESC}
                         /\ ESC \notin {ESC_END, ESC_ESC} /\ ESC_END # ESC_ESC
                         /\ Special \cap Plain = {}
                         /\ Data \subseteq Char
ASSUME SizeAssumption == /\ {MaxLen, Packets, BufLen, Capacity} \subseteq Nat \ {0}
                         /\ BufLen < 256 /\ Lossy \in BOOLEAN

VARIABLES sent,     \* the packets, in order
          left,     \* what slip_send still has to transmit of the last one
          spc,      \* its step
          wire,     \* characters on the line
          queue,    \* characters in the receive ring
          clearing, \* whether serial_flush runs: not while packets are exchanged
          c,        \* the character slip_recv took last
          escape,   \* !escape of slip_recv: the next character is escaped
          buff,     \* a_buff[0 .. recv - 1]
          rpc,      \* the step of slip_recv
          got,      \* the packets slip_recv returned, each with the number of the last one seen
          lost      \* numbers of the packets of which a character was lost

sender == <<sent, left, spc>>
receiver == <<escape, buff, rpc, got>>
vars == <<sender, wire, queue, clearing, c, receiver, lost>>

Tagged == [char : Char, of : 0..Packets, at : 0..(MaxLen + 1)]

Packet == UNION {[1..l -> Data] : l \in 0..MaxLen}

Ring == INSTANCE ByteQueue WITH Byte <- Tagged, taken <- c

TypeOK == /\ sent \in Seq(Packet) /\ Len(sent) <= Packets
          /\ left \in Seq(Data)
          /\ spc \in {"idle", "data", "second"}
          /\ wire \in Seq(Ring!Frame)
          /\ queue \in Seq(Tagged) /\ Len(queue) <= Capacity
          /\ c \in Tagged /\ clearing = FALSE
          /\ escape \in BOOLEAN
          /\ buff \in Seq(Char) /\ Len(buff) <= BufLen
          /\ rpc \in {"take", "switch"}
          /\ got \in Seq([data : Seq(Char), of : 0..Packets])
          /\ lost \subseteq 1..Packets

Init == /\ sent = <<>> /\ left = <<>> /\ spc = "idle"
        /\ wire = <<>> /\ queue = <<>> /\ clearing = FALSE
        /\ c = [char |-> END, of |-> 0, at |-> 0]
        /\ escape = FALSE /\ buff = <<>> /\ rpc = "take" /\ got = <<>>
        /\ lost = {}

-----------------------------------------------------------------------------
(* slip_send *)

(* SLIP_CHAR_SEND of x.  The line delivers it before the next one is sent. *)
Send(x, k) == /\ wire = <<>>
              /\ \E d \in IF Lossy THEN BOOLEAN ELSE {FALSE} :
                     wire' = <<[byte |-> [char |-> x, of |-> Len(sent'), at |-> k],
                                damaged |-> d]>>
              /\ UNCHANGED <<queue, clearing, c, receiver, lost>>

(* Where *a_buff is, counted from 1. *)
Place == Len(sent[Len(sent)]) - Len(left) + 1

(* fault: the two are swapped *)
SubstituteSwapped(x) == IF x = END THEN ESC_ESC ELSE ESC_END

(* The character that replaces x after an ESC. *)
Substitute(x) == IF x = END THEN ESC_END ELSE ESC_ESC

Escaped(x) == x \in {END, ESC}

SendStart == /\ spc = "idle"
             /\ Len(sent) < Packets
             /\ \E d \in Packet :
                    sent' = Append(sent, d) /\ left' = d
             /\ spc' = "data"
             /\ Send(END, 0)

SendData == /\ spc = "data"
            /\ left # <<>>
            /\ UNCHANGED sent
            /\ IF Escaped(Head(left))
               THEN Send(ESC, Place) /\ spc' = "second" /\ UNCHANGED left
               ELSE Send(Head(left), Place) /\ left' = Tail(left) /\ UNCHANGED spc

SendSecond == /\ spc = "second"
              /\ UNCHANGED sent
              /\ Send(Substitute(Head(left)), Place)
              /\ left' = Tail(left)
              /\ spc' = "data"

SendEnd == /\ spc = "data"
           /\ left = <<>>
           /\ UNCHANGED <<sent, left>>
           /\ Send(END, Place)
           /\ spc' = "idle"

-----------------------------------------------------------------------------
(* The receive ring: it keeps a character, or drops it when it is damaged   *)
(* or the ring is full.                                                     *)

Keep == Ring!Keep /\ UNCHANGED <<sender, receiver, lost>>

(* Without losses the reader is fast enough. *)
Drop == /\ Lossy
        /\ Ring!Drop
        /\ lost' = lost \cup {Head(wire).byte.of}
        /\ UNCHANGED <<sender, receiver>>

-----------------------------------------------------------------------------
(* slip_recv, called again with an empty buffer when it returns *)

(* SLIP_CHAR_RECV *)
RecvTake == /\ rpc = "take"
            /\ Ring!Take
            /\ rpc' = "switch"
            /\ UNCHANGED <<sender, escape, buff, got, lost>>

Received == /\ rpc = "switch"
            /\ rpc' = "take"
            /\ UNCHANGED <<sender, wire, queue, clearing, c, lost>>

(* fault: an empty packet is returned *)
RecvEndAlways == /\ Received
                 /\ c.char = END
                 /\ got' = Append(got, [data |-> buff, of |-> c.of])
                 /\ buff' = <<>> /\ escape' = FALSE

RecvEnd == /\ Received
           /\ c.char = END
           /\ IF buff # <<>>
              THEN /\ got' = Append(got, [data |-> buff, of |-> c.of])
                   /\ buff' = <<>> /\ escape' = FALSE
              ELSE UNCHANGED <<got, buff, escape>>

RecvEsc == /\ Received
           /\ c.char = ESC
           /\ escape' = TRUE
           /\ UNCHANGED <<buff, got>>

Original(x) == CASE x = ESC_END -> END [] x = ESC_ESC -> ESC [] OTHER -> x

(* fault: escaped or not *)
StoredAlways == Original(c.char)

Stored == IF escape THEN Original(c.char) ELSE c.char

(* fault: a packet that is too long is stored over the last place *)
RecvDataOver == /\ Received
                /\ c.char \notin {END, ESC}
                /\ escape' = FALSE
                /\ buff' = Append(buff, Stored)
                /\ UNCHANGED got

RecvData == /\ Received
            /\ c.char \notin {END, ESC}
            /\ escape' = FALSE
            /\ buff' = IF Len(buff) < BufLen THEN Append(buff, Stored) ELSE buff
            /\ UNCHANGED got

Sender == SendStart \/ SendData \/ SendSecond \/ SendEnd
Receiver == RecvTake \/ RecvEnd \/ RecvEsc \/ RecvData

Next == Sender \/ Keep \/ Drop \/ Receiver

Spec == Init /\ [][Next]_vars

(* A call of slip_send goes on, the interrupt stores what came, and the     *)
(* reader, which is polling the ring, gets its turn.                        *)
LiveSpec == /\ Spec
            /\ WF_vars(SendData \/ SendSecond \/ SendEnd)
            /\ WF_vars(Keep \/ Drop)
            /\ WF_vars(Receiver)

-----------------------------------------------------------------------------
(* Properties. *)

(* What a packet is received as: a long one is cut. *)
Truncated(d) == SubSeq(d, 1, IF Len(d) < BufLen THEN Len(d) ELSE BufLen)

(* The packets that can be received: empty ones are not. *)
Deliverable == {p \in 1..Len(sent) : sent[p] # <<>>}

(* As long as the line loses nothing, slip_recv returns the packets that    *)
(* slip_send was given, in order, each once, and nothing else.              *)
ReceivedAsSent ==
    lost = {} =>
        /\ \A j \in 1..Len(got) : /\ got[j].of \in Deliverable
                                  /\ got[j].data = Truncated(sent[got[j].of])
        /\ \A j \in 1..Len(got), k \in 1..Len(got) : j < k => got[j].of < got[k].of
        /\ \A j \in 1..Len(got), p \in Deliverable :
               p < got[j].of => \E k \in 1..Len(got) : got[k].of = p

(* The same, by a receiver that never writes past its buffer.               *)
DeliveredAsSent == TypeOK /\ ReceivedAsSent

(* A packet that lost none of its characters is received as it was sent,    *)
(* whatever was lost of the packets before it: the END that slip_send puts  *)
(* in front flushes what the receiver holds.                                *)
Quiet == spc = "idle" /\ wire = <<>> /\ queue = <<>> /\ rpc = "take"
Intact == Deliverable \ lost
IsReceived(p) == \E j \in 1..Len(got) : got[j] = [data |-> Truncated(sent[p]), of |-> p]
IntactReceived == Quiet => \A p \in Intact : IsReceived(p)

(* The same, but for packets that begin with a character which a pending    *)
(* escape gives another meaning (slip_recv: escape survives END).           *)
IntactPlainReceived ==
    Quiet => \A p \in Intact : Head(sent[p]) \in {ESC_END, ESC_ESC} \/ IsReceived(p)

(* On a line that loses nothing every packet that can be received is, in    *)
(* the end.                                                                 *)
AllReceived == <>[](lost # {} \/ Len(got) = Cardinality(Deliverable))
=============================================================================
