----------------------------- MODULE ByteQueue -----------------------------
(***************************************************************************)
(* What an interrupt driven buffer promises to its reader and its writer,  *)
(* whatever the buffer is made of.                                         *)
(*                                                                         *)
(* Frames wait in the order they came.  One after the other they are put   *)
(* at the end of a queue of at most Capacity bytes or are dropped, and the *)
(* reader takes the bytes of the queue from its front.  A frame may be     *)
(* dropped for three reasons only: it is damaged, the queue is full, or    *)
(* the reader is clearing the queue.                                       *)
(***************************************************************************)
EXTENDS Integers, Sequences

CONSTANTS Byte,       \* the byte values
          Capacity    \* the most bytes the queue holds

VARIABLES wire,       \* frames that came and are not handled yet, oldest first
          queue,      \* the bytes the reader may take, oldest first
          clearing,   \* the reader is emptying the queue
          taken       \* the byte the reader took last

vars == <<wire, queue, clearing, taken>>

Frame == [byte : Byte, damaged : BOOLEAN]

Init == /\ wire = <<>>
        /\ queue = <<>>
        /\ clearing = FALSE
        /\ taken \in Byte

(* One or more frames come in behind those that wait. *)
Arrive == /\ wire' \in Seq(Frame)
          /\ Len(wire') > Len(wire)
          /\ SubSeq(wire', 1, Len(wire)) = wire
          /\ UNCHANGED <<queue, clearing, taken>>

Keep == /\ wire # <<>>
        /\ ~Head(wire).damaged
        /\ Len(queue) < Capacity
        /\ wire' = Tail(wire)
        /\ queue' = Append(queue, Head(wire).byte)
        /\ UNCHANGED <<clearing, taken>>

Drop == /\ wire # <<>>
        /\ Head(wire).damaged \/ Len(queue) = Capacity \/ clearing
        /\ wire' = Tail(wire)
        /\ UNCHANGED <<queue, clearing, taken>>

(* The writer gives up all that waits, because the queue is full. *)
GiveUp == /\ Len(queue) = Capacity
          /\ wire' = <<>>
          /\ UNCHANGED <<queue, clearing, taken>>

Take == /\ queue # <<>>
        /\ taken' = Head(queue)
        /\ queue' = Tail(queue)
        /\ UNCHANGED <<wire, clearing>>

(* A reader that does without the queue takes the oldest frame off the wire. *)
TakeFromWire == /\ wire # <<>>
                /\ queue = <<>>
                /\ taken' = Head(wire).byte
                /\ wire' = Tail(wire)
                /\ UNCHANGED <<queue, clearing>>

BeginClear == /\ ~clearing
              /\ clearing' = TRUE
              /\ UNCHANGED <<wire, queue, taken>>

Clear == /\ clearing
         /\ queue' = <<>>
         /\ UNCHANGED <<wire, clearing, taken>>

EndClear == /\ clearing
            /\ clearing' = FALSE
            /\ UNCHANGED <<wire, queue, taken>>

Next == \/ Arrive \/ Keep \/ Drop \/ GiveUp
        \/ Take \/ TakeFromWire
        \/ BeginClear \/ Clear \/ EndClear

Spec == Init /\ [][Next]_vars
=============================================================================
