------------------------------- MODULE D7seg --------------------------------
(***************************************************************************)
(* Seven segment digits (dev_d7seg.c), multiplexed by a timer interrupt:   *)
(* one digit is selected at a time, and the lines of the segments are      *)
(* common to all.  Interrupts are disabled in the handler.                 *)
(***************************************************************************)
EXTENDS Gpio, FiniteSets

CONSTANT Displays  \* D7SEG_MAX_DISPLAYS (bound: at most 4)

ASSUME DisplaysAssumption == Displays \in 1..4

VARIABLES selected, \* _selected of struct dev_d7seg_ctx
          segdata,  \* _data: what each digit shows, a byte
          phase,    \* the handler: "out", "update" or "select"
          sei       \* interrupts are enabled

seg == <<selected, segdata, phase, sei>>

(* g_d7seg_chars, from CHAR_0 *)
SegmentFont == << 63, 6, 91, 79, 102, 109, 125, 39, 127, 111,
                  119, 57, 121, 113, 118, 14, 56, 115, 62,
                  124, 88, 94, 116, 12, 84, 92, 120, 110, 15, 64, 99, 0 >>
CHAR_MINUS == 29

(* An index outside the table reads a byte of other data: here all lit. *)
CharByte(i) == IF i \in 0..Len(SegmentFont) - 1 THEN SegmentFont[i + 1] ELSE 255
Dotted(b) == IF b < 128 THEN b + 128 ELSE b

Sel(d) == <<"sel0", "sel1", "sel2", "sel3">>[d + 1]
Segment(i) == <<"segA", "segB", "segC", "segD", "segE", "segF", "segG", "dot">>[i + 1]
Sels == {Sel(d) : d \in 0..Displays - 1}
Segments == {Segment(i) : i \in 0..7}
Lit(b) == {Segment(i) : i \in {j \in 0..7 : (b \div 2^j) % 2 = 1}}

SegInit == /\ selected = 0 /\ segdata = [d \in 0..Displays - 1 |-> 0]
           /\ phase = "out" /\ sei = FALSE

(* common_zero_mem, which writes the first byte as often as there are bytes. *)
Zeroed == [segdata EXCEPT ![0] = 0]

Lighted(b) == (port \ Segments) \cup Lit(b)

(* d7seg_init; then the program puts chars in some digits (d7seg_chr_p) and *)
(* enables interrupts.                                                      *)
d7seg_init(chars) == /\ ~sei /\ sei' = TRUE
                     /\ selected' = Displays - 1
                     /\ segdata' = [d \in 0..Displays - 1 |->
                                       IF d \in DOMAIN chars THEN chars[d] ELSE Zeroed[d]]
                     /\ ddr' = ddr \cup Sels \cup Segments
                     /\ port' = Lighted(Zeroed[Displays - 1])
                     /\ UNCHANGED <<held, todo, phase>>

-----------------------------------------------------------------------------
(* fault: the digit shown last stays selected *)
DeselectedNot == port

Deselected == port \ {Sel(selected)}

Deselect == /\ phase = "out" /\ sei /\ Interruptible
            /\ port' = Deselected
            /\ phase' = "update"
            /\ UNCHANGED <<ddr, held, todo, selected, segdata, sei>>

(* fault: the digit counted down to is the one after the first *)
NextSelectedSkips == IF selected <= 1 THEN Displays - 1 ELSE selected - 1

(* _selected-- in 8 bits, and the comparison that catches the wrap. *)
NextSelected == LET s == (selected + 255) % 256 IN IF s > Displays - 1 THEN Displays - 1 ELSE s

(* _d7seg_update *)
Updated(d) == Lighted(segdata[d])

Update == /\ phase = "update"
          /\ selected' = NextSelected
          /\ port' = Updated(selected')
          /\ phase' = "select"
          /\ UNCHANGED <<ddr, held, todo, segdata, sei>>

Select == /\ phase = "select"
          /\ port' = port \cup {Sel(selected)}
          /\ phase' = "out"
          /\ UNCHANGED <<ddr, held, todo, selected, segdata, sei>>

(* d7seg_multiplex in TIMER0_COMPA_vect *)
Multiplex == Deselect \/ Update \/ Select

-----------------------------------------------------------------------------
(* No two digits are lit at once, and none while the handler is at work,    *)
(* whatever lines of the same port the program sets meanwhile               *)
(* (d7seg_multiplex, GPIO_SET_LOW, GPIO_SET_HIGH).                          *)
OneDigitLit ==
    /\ port \cap Sels \subseteq {Sel(selected)}
    /\ phase # "out" => port \cap Sels = {}

(* The segments change only while no digit is lit, so no digit shows what   *)
(* is another's (d7seg_multiplex).                                          *)
NoGhosts == [][sei /\ sei' /\ port' \cap Segments # port \cap Segments
                  => port \cap Sels = {} /\ port' \cap Sels = {}]_<<port, sei>>

(* Every digit is lit again and again (d7seg_multiplex).                    *)
EveryDigitLit == \A d \in 0..Displays - 1 : <>[]sei => []<>(Sel(d) \in port)
=============================================================================
