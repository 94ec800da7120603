------------------------------ MODULE OneWire -------------------------------
(***************************************************************************)
(* The 1-wire bus made of one GPIO line (soft_onewire.c), with one device  *)
(* on it, bit by bit.                                                      *)
(*                                                                         *)
(* Times are in microseconds from the start of a slot.  A slot and a reset *)
(* run with interrupts disabled, so each is one step; what it comes to     *)
(* depends on when the device looks at the line and for how long it holds  *)
(* it.  A call is the list of its bus operations, kept in todo.            *)
(***************************************************************************)
EXTENDS Integers, Sequences

CONSTANTS PresenceDelay,  \* when a device starts its presence pulse, after the reset
          PresenceLength, \* how long the pulse lasts
          SampleAt,       \* when a device reads the line in a slot
          HoldFor,        \* for how long a device holds the line low to send a 0
          IsrTimes        \* for how long interrupt handlers may run (bound)

ASSUME TimeAssumption ==
    /\ IsrTimes \subseteq 1..400  \* a line low for longer is a reset
    /\ PresenceDelay \cup PresenceLength \cup SampleAt \cup HoldFor \subseteq Nat

VARIABLES todo,     \* the bus operations the running call has left
          n,        \* the bit the loop is at
          data,     \* data of sow_read_byte
          rx,       \* the bytes read by the call
          presence, \* what sow_reset returned last
          strong,   \* the line is driven high
          low,      \* the line is driven low between two slots
          weak,     \* how long handlers ran before the last pull-up, in microseconds
          present,  \* the device is connected
          pulse,    \* for how long its presence pulse still lasts
          dstate,   \* what the device does
          dcnt,     \* bits of the byte it receives or sends
          dacc      \* that byte: the bits received, or what is to be sent

master == <<todo, n, data, rx, presence, strong, low, weak>>

Reset == [op |-> "reset", val |-> 0]
Write(b) == [op |-> "write", val |-> b]
Read == [op |-> "read", val |-> 0]
Pullup == [op |-> "pullup", val |-> 1]

(* sow_write_data and sow_read_data, and through them f_send, f_sendc,      *)
(* f_recv and f_getc of the bus.                                            *)
WriteData(s) == [i \in 1..Len(s) |-> Write(s[i])]
ReadData(len) == [i \in 1..len |-> Read]
BusSend(s) == WriteData(s)
BusRecv(len) == ReadData(len)

(* struct soft_ow.conf: the power mode in bit 0, the topology in bit 1. *)
ConfMake(power, topology) == 2 * (topology % 2) + (power % 2)
PowerModeGet(conf) == conf % 2
TopologyGet(conf) == (conf \div 2) % 2

BitOf(b, i) == (b \div 2^i) % 2

Listening == {"rom", "function", "write"}
Sending == dstate = "read"

Doing(op) == todo # <<>> /\ Head(todo).op = op
Done == todo' = Tail(todo)

(* The device hears the bit of a slot, or sends the one that is due. *)
Hears == present /\ pulse = 0 /\ dstate \in Listening
Sends == present /\ pulse = 0 /\ Sending
PulseAfter(t) == IF pulse > t THEN pulse - t ELSE 0

-----------------------------------------------------------------------------
(* sow_init: the line is released; the pull-up holds it high. *)
InitLine == strong' = FALSE /\ low' = FALSE

(* The line is low 50 us after the reset, and high again 300 us later. *)
Answers(delay, length) == delay <= 50 /\ 50 < delay + length
Ends(delay, length) == delay + length <= 350

(* sow_reset.  A device that answers later than 50 us is not seen, and its  *)
(* pulse goes on into the slots that follow.                                *)
ResetSlot ==
    /\ Doing("reset") /\ Done
    /\ InitLine
    /\ \E delay \in PresenceDelay, length \in PresenceLength :
          /\ presence' = IF present /\ Answers(delay, length) /\ Ends(delay, length) THEN 1 ELSE 0
          /\ pulse' = IF present /\ ~Answers(delay, length) THEN delay + length - 50 ELSE 0
    /\ dstate' = IF present THEN "rom" ELSE dstate
    /\ dcnt' = 0 /\ dacc' = 0
    /\ UNCHANGED <<n, data, rx, weak, present>>

(* When _sow_write_bit releases the line. *)
ReleasedAt(b) == IF b = 1 THEN 5 ELSE 85

(* fault: the most significant bit goes first *)
DueBitReversed == BitOf(Head(todo).val, 7 - n)

(* The bit sow_write_byte is at. *)
DueBit == BitOf(Head(todo).val, n)

(* What the device may hear in the slot of _sow_write_bit. *)
Heard == {IF at < ReleasedAt(DueBit) THEN 0 ELSE 1 : at \in SampleAt}

(* What _sow_read_bit may return: it looks after 1 + 12 us. *)
Sampled == {IF Sends /\ BitOf(dacc, dcnt) = 0 /\ 13 <= hold THEN 0 ELSE 1 : hold \in HoldFor}

(* fault: the loops go on to a ninth bit *)
NextBitNinth == /\ n' = (n + 1) % 9
                /\ IF n = 8 THEN Done ELSE UNCHANGED todo

(* The loops of sow_write_byte and sow_read_byte. *)
NextBit == /\ n' = (n + 1) % 8
           /\ IF n = 7 THEN Done ELSE UNCHANGED todo

(* The slot was seen by the device and is not the last one of a byte. *)
MoreBits(b) == IF Hears THEN dacc' = dacc + b * 2^dcnt ELSE UNCHANGED dacc
=============================================================================
