-------------------------------- MODULE Gpio --------------------------------
(***************************************************************************)
(* GPIO lines on one port (gpio.h), and the list of operations that a call *)
(* of a display driver comes to.                                           *)
(*                                                                         *)
(* Setting a line loads PORT, changes a bit and stores PORT, in an atomic  *)
(* block.  A driver's list holds operations of its own, which its module   *)
(* replaces by the operations they come to.                                *)
(***************************************************************************)
EXTENDS Integers, Sequences

VARIABLES port,  \* the lines whose bit of PORT is set
          ddr,   \* the lines that are outputs
          held,  \* what an atomic block loaded of PORT: <<>> or <<value>>
          todo   \* the operations the running call has left

gpio == <<port, ddr, held, todo>>

Low(p) == [op |-> "low", pin |-> p, val |-> 0]
High(p) == [op |-> "high", pin |-> p, val |-> 0]
Output(p) == [op |-> "output", pin |-> p, val |-> 0]
Delay(us) == [op |-> "delay", pin |-> "none", val |-> us]

GpioInit == port = {} /\ ddr = {} /\ held = <<>> /\ todo = <<>>

Doing(op) == todo # <<>> /\ Head(todo).op = op
Rest == todo' = Tail(todo)

(* Replaces the operation at the head of the list. *)
Becomes(ops) == todo' = ops \o Tail(todo) /\ UNCHANGED <<port, ddr, held>>

(* fault: no ATOMIC_BLOCK *)
InterruptibleAlways == TRUE

(* Whether a handler may run. *)
Interruptible == held = <<>>

Load == /\ Doing("low") \/ Doing("high")
        /\ held = <<>> /\ held' = <<port>>
        /\ UNCHANGED <<port, ddr, todo>>

Store == /\ held # <<>> /\ held' = <<>>
         /\ port' = IF Doing("high") THEN held[1] \cup {Head(todo).pin}
                                     ELSE held[1] \ {Head(todo).pin}
         /\ Rest /\ UNCHANGED ddr

(* GPIO_CONFIGURE_AS_OUTPUT; no handler touches DDR. *)
Configure == /\ Doing("output")
             /\ ddr' = ddr \cup {Head(todo).pin}
             /\ Rest /\ UNCHANGED <<port, held>>

(* _delay_us and _delay_ms *)
Pause == Doing("delay") /\ Rest /\ UNCHANGED <<port, ddr, held>>
=============================================================================
