----------------------------- MODULE BoardProofs ----------------------------
(***************************************************************************)
(* Proofs about the programs of Board.                                     *)
(***************************************************************************)
EXTENDS Board, SequenceTheorems, WellFoundedInduction, TLAPS

-----------------------------------------------------------------------------
(* The operations that a call comes to.                                     *)

Pins == {"none", "rs", "e", "d0", "d1", "d2", "d3", "res", "dc", "sce", "cmd", "data"}
LineKinds == {"low", "high"}
Kinds == {"low", "high", "output", "delay", "nibble", "write", "pcd8544_write",
          "send", "wait", "recv"}

Fit(o) == /\ o.op \in {"write", "pcd8544_write", "send"} => o.val \in 0..255
          /\ o.op = "nibble" => o.val \in 0..15
Op == {o \in [op : Kinds, pin : Pins, val : Nat] : Fit(o)}

(* Those that are not steps of a transfer on the bus.                       *)
PlainOp == {o \in Op : o.op \notin {"send", "wait", "recv"}}

(* In a list, a byte is sent and then awaited, and read after that.         *)
Framed(s) ==
    /\ s \in Seq(Op)
    /\ \A i \in 1..Len(s) : s[i].op = "send" => i + 1 \in 1..Len(s) /\ s[i + 1].op = "wait"
    /\ \A i \in 2..Len(s) : /\ s[i].op = "wait" => s[i - 1].op = "send"
                            /\ s[i].op = "recv" => s[i - 1].op = "wait"
Whole(s) == Framed(s) /\ (s # <<>> => s[1].op \notin {"wait", "recv"})

LEMMA LineOps ==
    ASSUME NEW p \in Pins, NEW n \in Nat
    PROVE  {Low(p), High(p), Output(p), Delay(n)} \subseteq PlainOp
  BY DEF Low, High, Output, Delay, PlainOp, Op, Fit, Kinds, Pins

LEMMA WriteOp ==
    ASSUME NEW v \in 0..255, NEW p \in {"none", "rs"}
    PROVE  Write(v, p) \in PlainOp
  BY DEF Write, PlainOp, Op, Fit, Kinds, Pins

LEMMA NibbleOp ==
    ASSUME NEW v \in 0..15
    PROVE  Nibble(v) \in PlainOp
  BY DEF Nibble, PlainOp, Op, Fit, Kinds, Pins

LEMMA ByteOp ==
    ASSUME NEW v \in 0..255, NEW m \in {"cmd", "data"}
    PROVE  Byte(m, v) \in PlainOp
  BY DEF Byte, PlainOp, Op, Fit, Kinds, Pins

LEMMA BusOps ==
    ASSUME NEW v \in 0..255
    PROVE  Send(v) \in Op /\ Wait \in Op /\ Recv \in Op
  BY DEF Send, Wait, Recv, Op, Fit, Kinds, Pins

LEMMA PlainWhole ==
    ASSUME NEW s \in Seq(PlainOp)
    PROVE  Whole(s)
<1>1. \A i \in 1..Len(s) : s[i] \in PlainOp
  OBVIOUS
<1>2. s \in Seq(Op)
  BY PlainOp \subseteq Op DEF PlainOp
<1> QED
  BY <1>1, <1>2 DEF Whole, Framed, PlainOp

LEMMA PlainConcat ==
    ASSUME NEW s \in Seq(PlainOp), NEW t \in Seq(PlainOp)
    PROVE  s \o t \in Seq(PlainOp)
  OBVIOUS

(* What a concatenation of two lists holds.                                 *)
LEMMA Concatenated ==
    ASSUME NEW S, NEW s \in Seq(S), NEW t \in Seq(S)
    PROVE  /\ s \o t \in Seq(S) /\ Len(s \o t) = Len(s) + Len(t)
           /\ \A i \in 1..Len(s) + Len(t) : (s \o t)[i] = IF i <= Len(s) THEN s[i] ELSE t[i - Len(s)]
  OBVIOUS

LEMMA WholeConcat ==
    ASSUME NEW s, NEW t, Whole(s), Whole(t)
    PROVE  Whole(s \o t)
<1> DEFINE m == Len(s)
           n == Len(t)
           c == s \o t
<1>1. /\ s \in Seq(Op) /\ t \in Seq(Op) /\ m \in Nat /\ n \in Nat
  BY DEF Whole, Framed
<1>2. /\ c \in Seq(Op) /\ Len(c) = m + n
      /\ \A i \in 1..m + n : c[i] = IF i <= m THEN s[i] ELSE t[i - m]
  BY <1>1, Concatenated
<1> HIDE DEF c
<1>3. ASSUME NEW i \in 1..m + n, c[i].op = "send"
      PROVE  i + 1 \in 1..m + n /\ c[i + 1].op = "wait"
  <2>1. CASE i <= m
    <3>1. s[i].op = "send" /\ i \in 1..m
      BY <1>1, <1>2, <1>3, <2>1
    <3>2. i + 1 \in 1..m /\ s[i + 1].op = "wait"
      BY <1>1, <3>1 DEF Whole, Framed
    <3> QED
      BY <1>1, <1>2, <3>2
  <2>2. CASE i > m
    <3> DEFINE j == i - m
    <3>1. t[j].op = "send" /\ j \in 1..n
      BY <1>1, <1>2, <1>3, <2>2
    <3>2. j + 1 \in 1..n /\ t[j + 1].op = "wait"
      BY <1>1, <3>1 DEF Whole, Framed
    <3>3. i + 1 \in 1..m + n /\ c[i + 1] = t[j + 1]
      BY <1>1, <1>2, <2>2, <3>2
    <3> QED
      BY <3>2, <3>3
  <2> QED
    BY <1>1, <2>1, <2>2
<1>4. ASSUME NEW i \in 2..m + n
      PROVE  /\ c[i].op = "wait" => c[i - 1].op = "send"
             /\ c[i].op = "recv" => c[i - 1].op = "wait"
  <2>1. CASE i <= m
    <3>1. /\ i \in 2..m /\ c[i] = s[i] /\ c[i - 1] = s[i - 1]
      BY <1>1, <1>2, <1>4, <2>1
    <3> QED
      BY <3>1 DEF Whole, Framed
  <2>2. CASE i = m + 1
    <3>1. c[i] = t[1] /\ 1 \in 1..n
      BY <1>1, <1>2, <1>4, <2>2
    <3>2. t # <<>>
      BY <1>1, <3>1
    <3> QED
      BY <3>1, <3>2 DEF Whole
  <2>3. CASE i > m + 1
    <3> DEFINE j == i - m
    <3>1. /\ j \in 2..n /\ c[i] = t[j] /\ c[i - 1] = t[j - 1]
      BY <1>1, <1>2, <1>4, <2>3
    <3> QED
      BY <3>1 DEF Whole, Framed
  <2> QED
    BY <1>1, <2>1, <2>2, <2>3
<1>5. ASSUME c # <<>>
      PROVE  c[1].op \notin {"wait", "recv"}
  <2>1. m + n >= 1
    BY <1>1, <1>2, <1>5
  <2>2. CASE m = 0
    <3>1. c[1] = t[1] /\ t # <<>>
      BY <1>1, <1>2, <2>1, <2>2
    <3> QED
      BY <3>1 DEF Whole
  <2>3. CASE m > 0
    <3>1. c[1] = s[1] /\ s # <<>>
      BY <1>1, <1>2, <2>1, <2>3
    <3> QED
      BY <3>1 DEF Whole
  <2> QED
    BY <1>1, <2>2, <2>3
<1>6. Whole(c)
  BY <1>2, <1>3, <1>4, <1>5 DEF Whole, Framed
<1> QED
  BY <1>6 DEF c

(* Without its first operation a list is framed still.                      *)
LEMMA FramedTail ==
    ASSUME NEW s, Framed(s), s # <<>>
    PROVE  /\ Framed(Tail(s))
           /\ Head(s).op = "send" => Tail(s) # <<>> /\ Head(Tail(s)).op = "wait"
           /\ Head(s).op \notin {"send", "wait"} => Whole(Tail(s))
           /\ Head(s).op = "wait" => (Tail(s) # <<>> => Head(Tail(s)).op # "wait")
<1> DEFINE t == Tail(s)
           n == Len(s)
<1>1. /\ s \in Seq(Op) /\ n \in Nat /\ n >= 1 /\ Head(s) = s[1]
      /\ t \in Seq(Op) /\ Len(t) = n - 1 /\ \A i \in 1..n - 1 : t[i] = s[i + 1]
  BY DEF Framed
<1>2. t # <<>> => Head(t) = s[2] /\ 2 \in 1..n /\ t[1] = s[2] /\ s[2 - 1] = s[1]
  BY <1>1
<1> HIDE DEF t
<1>3. ASSUME NEW i \in 1..n - 1, t[i].op = "send"
      PROVE  i + 1 \in 1..n - 1 /\ t[i + 1].op = "wait"
  <2>1. i + 1 \in 1..n /\ s[i + 1].op = "send"
    BY <1>1, <1>3
  <2>2. (i + 1) + 1 \in 1..n /\ s[(i + 1) + 1].op = "wait"
    BY <2>1 DEF Framed
  <2> QED
    BY <1>1, <2>2
<1>4. ASSUME NEW i \in 2..n - 1
      PROVE  /\ t[i].op = "wait" => t[i - 1].op = "send"
             /\ t[i].op = "recv" => t[i - 1].op = "wait"
  <2>1. /\ i + 1 \in 2..n /\ t[i] = s[i + 1] /\ t[i - 1] = s[(i + 1) - 1]
    BY <1>1, <1>4
  <2> QED
    BY <2>1 DEF Framed
<1>5. Framed(t)
  BY <1>1, <1>3, <1>4 DEF Framed
<1>6. s[1].op = "send" => t # <<>> /\ s[2].op = "wait"
  <2>1. s[1].op = "send" => 1 + 1 \in 1..n /\ s[1 + 1].op = "wait"
    BY <1>1 DEF Framed
  <2> QED
    BY <1>1, <2>1
<1>7. t # <<>> => /\ s[2].op = "wait" => s[1].op = "send"
                  /\ s[2].op = "recv" => s[1].op = "wait"
  <2>1. SUFFICES ASSUME t # <<>>
                 PROVE  /\ s[2].op = "wait" => s[1].op = "send"
                        /\ s[2].op = "recv" => s[1].op = "wait"
    OBVIOUS
  <2>2. 2 \in 2..n
    BY <1>1, <1>2, <2>1
  <2> QED
    BY <1>2, <2>1, <2>2 DEF Framed
<1>8. /\ Framed(t)
      /\ Head(s).op = "send" => t # <<>> /\ Head(t).op = "wait"
      /\ Head(s).op \notin {"send", "wait"} => Whole(t)
      /\ Head(s).op = "wait" => (t # <<>> => Head(t).op # "wait")
  BY <1>1, <1>2, <1>5, <1>6, <1>7 DEF Whole
<1> QED
  BY <1>8 DEF t

-----------------------------------------------------------------------------
(* The lists of the calls.                                                  *)

LEMMA DataLines ==
    ASSUME NEW i \in 0..3
    PROVE  DataLine(i) \in Pins
<1>1. i = 0 \/ i = 1 \/ i = 2 \/ i = 3
  OBVIOUS
<1> QED
  BY <1>1 DEF DataLine, Pins

LEMMA LatchPlain == Latch \in Seq(PlainOp)
<1>1. /\ Low("e") \in PlainOp /\ High("e") \in PlainOp /\ Delay(1) \in PlainOp
  BY LineOps DEF Pins
<1> QED
  BY <1>1 DEF Latch

LEMMA NibblePlain ==
    ASSUME NEW v \in 0..15
    PROVE  NibbleOps(v) \in Seq(PlainOp)
<1> DEFINE lines == [i \in 1..4 |-> IF Bit(v, 4 - i) = 1 THEN High(DataLine(4 - i))
                                                        ELSE Low(DataLine(4 - i))]
<1>1. \A i \in 1..4 : High(DataLine(4 - i)) \in PlainOp /\ Low(DataLine(4 - i)) \in PlainOp
  BY DataLines, LineOps
<1>2. lines \in Seq(PlainOp)
  BY <1>1
<1> QED
  BY <1>2, LatchPlain, PlainConcat DEF NibbleOps

LEMMA WritePlain ==
    ASSUME NEW v \in 0..255, NEW p
    PROVE  WriteOps(v, p) \in Seq(PlainOp)
<1>1. v \div 16 \in 0..15 /\ v % 16 \in 0..15
  OBVIOUS
<1>2. Nibble(v \div 16) \in PlainOp /\ Nibble(v % 16) \in PlainOp
  BY <1>1, NibbleOp
<1>3. High("rs") \in PlainOp /\ Low("rs") \in PlainOp
  BY LineOps DEF Pins
<1> QED
  BY <1>2, <1>3 DEF WriteOps

LEMMA CmdPlain ==
    ASSUME NEW v \in 0..255
    PROVE  Cmd(v) \in Seq(PlainOp)
<1>1. Write(v, "none") \in PlainOp
  BY WriteOp
<1>2. Delay(40) \in PlainOp
  BY LineOps DEF Pins
<1> QED
  BY <1>1, <1>2 DEF Cmd

LEMMA ClrscrPlain == Clrscr \in Seq(PlainOp)
<1>1. Cmd(1) \in Seq(PlainOp)
  BY CmdPlain
<1>2. <<Delay(1700)>> \in Seq(PlainOp)
  BY LineOps DEF Pins
<1> QED
  BY <1>1, <1>2, PlainConcat DEF Clrscr

LEMMA GotoPlain ==
    ASSUME NEW a \in 0..Cells - 1
    PROVE  Goto(a) \in Seq(PlainOp)
<1>1. 128 + a \in 0..255
  BY LcdAssumption
<1> QED
  BY <1>1, CmdPlain DEF Goto

LEMMA PutsPlain ==
    ASSUME NEW s \in Strings
    PROVE  Puts(s) \in Seq(PlainOp)
<1>1. PICK n \in 1..MaxText : s \in [1..n -> Chars]
  BY DEF Strings
<1>2. n \in Nat /\ Len(s) = n
  BY <1>1, LcdAssumption
<1>3. \A i \in 1..n : Write(s[i], "rs") \in PlainOp
  BY <1>1, WriteOp, LcdAssumption
<1>4. [i \in 1..Len(s) |-> Write(s[i], "rs")] \in Seq(PlainOp)
  BY <1>2, <1>3
<1>5. <<Delay(40)>> \in Seq(PlainOp)
  BY LineOps DEF Pins
<1> QED
  BY <1>4, <1>5, PlainConcat DEF Puts

LEMMA LineUpPlain ==
    ASSUME NEW i \in 0..3
    PROVE  LineUp(i) \in Seq(PlainOp)
<1>1. Output(DataLine(i)) \in PlainOp /\ High(DataLine(i)) \in PlainOp
  BY DataLines, LineOps
<1> QED
  BY <1>1 DEF LineUp

LEMMA InitPlain == InitOps \in Seq(PlainOp)
<1>1. <<Output("rs"), Output("e"), Low("rs"), Low("e")>> \in Seq(PlainOp)
  BY LineOps DEF Pins
<1>2. <<Delay(50000), Low("d3"), Low("d2")>> \in Seq(PlainOp)
  BY LineOps DEF Pins
<1>3. /\ <<Delay(5000)>> \in Seq(PlainOp) /\ <<Delay(100), Low("d0")>> \in Seq(PlainOp)
      /\ <<Delay(10)>> \in Seq(PlainOp)
  BY LineOps DEF Pins
<1>4. /\ LineUp(3) \in Seq(PlainOp) /\ LineUp(2) \in Seq(PlainOp)
      /\ LineUp(1) \in Seq(PlainOp) /\ LineUp(0) \in Seq(PlainOp)
  BY LineUpPlain
<1>5. /\ FunctionSet(0, IF Lines >= 2 THEN 1 ELSE 0, Font) \in 0..255
      /\ DisplayControl(1, 0, 0) \in 0..255 /\ EntryMode(1, 0) \in 0..255
  BY LcdAssumption DEF FunctionSet, DisplayControl, EntryMode
<1>6. /\ Cmd(FunctionSet(0, IF Lines >= 2 THEN 1 ELSE 0, Font)) \in Seq(PlainOp)
      /\ Cmd(DisplayControl(1, 0, 0)) \in Seq(PlainOp)
      /\ Cmd(EntryMode(1, 0)) \in Seq(PlainOp)
  BY <1>5, CmdPlain
<1> QED
  BY <1>1, <1>2, <1>3, <1>4, <1>6, LatchPlain, ClrscrPlain, PlainConcat DEF InitOps

(* Three lists written as one.                                              *)
LEMMA Joined ==
    ASSUME NEW S, NEW a \in S, NEW b \in S, NEW c \in S, NEW d \in S, NEW e \in S
    PROVE  <<a, b>> \o <<c, d>> \o <<e>> = <<a, b, c, d, e>>
<1> DEFINE t == <<a, b>> \o <<c, d>> \o <<e>>
           s == <<a, b, c, d, e>>
<1>1. t \in Seq(S) /\ Len(t) = 5
  OBVIOUS
<1>2. s \in Seq(S) /\ Len(s) = 5
  OBVIOUS
<1>3. t[1] = a /\ t[2] = b /\ t[3] = c /\ t[4] = d /\ t[5] = e
  OBVIOUS
<1>4. s[1] = a /\ s[2] = b /\ s[3] = c /\ s[4] = d /\ s[5] = e
  OBVIOUS
<1> HIDE DEF s, t
<1>5. \A i \in 1..5 : i = 1 \/ i = 2 \/ i = 3 \/ i = 4 \/ i = 5
  OBVIOUS
<1>6. \A i \in 1..5 : s[i] = t[i]
  BY <1>3, <1>4, <1>5
<1>7. s = t
  BY <1>1, <1>2, <1>6, SeqEqual
<1> QED
  BY <1>7 DEF s, t

LEMMA ByteOpsWhole ==
    ASSUME NEW v \in 0..255, NEW m
    PROVE  Whole(ByteOps(m, v))
<1> DEFINE dc == IF m = "data" THEN High("dc") ELSE Low("dc")
           s == <<dc, Low("sce"), Send(v), Wait, High("sce")>>
<1>1. /\ High("dc") \in PlainOp /\ Low("dc") \in PlainOp
      /\ Low("sce") \in PlainOp /\ High("sce") \in PlainOp
  BY LineOps DEF Pins
<1>2. dc \in PlainOp /\ PlainOp \subseteq Op
  BY <1>1 DEF PlainOp
<1>3. Send(v) \in Op /\ Wait \in Op
  BY BusOps
<1>4. /\ dc.op \in LineKinds /\ Low("sce").op = "low" /\ High("sce").op = "high"
      /\ Send(v).op = "send" /\ Wait.op = "wait"
  BY DEF High, Low, Send, Wait, LineKinds
<1>5. ByteOps(m, v) = s
  <2>1. ByteOps(m, v) = <<dc, Low("sce")>> \o <<Send(v), Wait>> \o <<High("sce")>>
    BY DEF ByteOps, BusSendOps, SendOps
  <2> QED
    BY <1>1, <1>2, <1>3, <2>1, Joined
<1> HIDE DEF dc
<1>6. /\ s \in Seq(Op) /\ Len(s) = 5
      /\ s[1] = dc /\ s[2] = Low("sce") /\ s[3] = Send(v) /\ s[4] = Wait /\ s[5] = High("sce")
  BY <1>1, <1>2, <1>3
<1> HIDE DEF s
<1>7. \A i \in 1..5 : i = 1 \/ i = 2 \/ i = 3 \/ i = 4 \/ i = 5
  OBVIOUS
<1>8. /\ s[1].op \in LineKinds /\ s[2].op = "low" /\ s[3].op = "send" /\ s[4].op = "wait"
      /\ s[5].op = "high"
  BY <1>4, <1>6
<1>9. \A i \in 1..5 : s[i].op = "send" => i + 1 \in 1..5 /\ s[i + 1].op = "wait"
  BY <1>7, <1>8 DEF LineKinds
<1>10. \A i \in 2..5 : /\ s[i].op = "wait" => s[i - 1].op = "send"
                       /\ s[i].op = "recv" => s[i - 1].op = "wait"
  BY <1>7, <1>8 DEF LineKinds
<1>11. Whole(s)
  BY <1>6, <1>8, <1>9, <1>10 DEF Whole, Framed, LineKinds
<1> QED
  BY <1>5, <1>11

LEMMA CommandPlain ==
    ASSUME NEW v \in 0..255
    PROVE  Command(v) \in Seq(PlainOp) /\ Data(v) \in Seq(PlainOp)
  BY ByteOp DEF Command, Data

(* A quotient and its remainder.                                            *)
LEMMA Quotient ==
    ASSUME NEW n \in Nat \ {0}, NEW b \in Nat, NEW k \in 0..b * n - 1
    PROVE  k \div n \in 0..b - 1 /\ k % n \in 0..n - 1 /\ k = (k \div n) * n + (k % n)
<1>0. b * n \in Nat /\ k \in Nat /\ k < b * n
  OBVIOUS
<1>1. k \div n \in Int /\ k % n \in 0..n - 1
  BY <1>0
<1>2. k = (k \div n) * n + (k % n)
  BY <1>0
<1>3. PICK q \in Int : q = k \div n
  BY <1>1
<1>4. PICK r \in 0..n - 1 : r = k % n
  BY <1>1
<1>5. k = n * q + r
  <2>1. k = q * n + r
    BY <1>2, <1>3, <1>4
  <2> QED
    BY <1>3, <2>1
<1>6. q >= 0
  <2>1. SUFFICES ASSUME q <= -1 PROVE FALSE
    BY <1>3
  <2>2. n * q <= n * (-1)
    BY <1>3, <2>1
  <2> QED
    BY <1>0, <1>4, <1>5, <2>2
<1>7. q < b
  <2>1. SUFFICES ASSUME q >= b PROVE FALSE
    BY <1>3
  <2>2. n * q >= n * b
    BY <1>3, <2>1
  <2>3. n * b = b * n
    OBVIOUS
  <2> QED
    BY <1>0, <1>4, <1>5, <2>2, <2>3
<1>8. q \in 0..b - 1
  BY <1>6, <1>7
<1>9. k \div n \in 0..b - 1
  BY <1>3, <1>8
<1> QED
  BY <1>1, <1>2, <1>9

Pictures == [0..Banks - 1 -> [0..Width - 1 -> 0..255]]

LEMMA GotoOpsPlain ==
    ASSUME NEW x \in 0..Width - 1, NEW y \in Nat
    PROVE  GotoOps(x, y) \in Seq(PlainOp)
<1>1. SetX(x) \in 0..255 /\ SetY(y) \in 0..255
  BY ShapeAssumption DEF SetX, SetY
<1> QED
  BY <1>1, CommandPlain, PlainConcat DEF GotoOps

LEMMA RowOpPlain ==
    ASSUME NEW value \in Pictures, NEW y \in 0..Banks - 1, NEW i \in 0..Width + 1
    PROVE  RowOp(value, y, i) \in PlainOp
<1>1. SetX(0) \in 0..255 /\ SetY(y) \in 0..255
  BY ShapeAssumption DEF SetX, SetY
<1>2. CASE i \in 0..1
  BY <1>1, <1>2, ByteOp DEF RowOp
<1>3. CASE i \notin 0..1
  <2>1. i - 2 \in 0..Width - 1
    BY <1>3, ShapeAssumption
  <2>2. value[y][i - 2] \in 0..255
    BY <2>1 DEF Pictures
  <2> QED
    BY <1>3, <2>2, ByteOp DEF RowOp
<1> QED
  BY <1>2, <1>3

LEMMA FillPlain ==
    ASSUME NEW value \in Pictures
    PROVE  FillOps(value) \in Seq(PlainOp)
<1>1. ASSUME NEW i \in 1..Banks * (Width + 2)
      PROVE  RowOp(value, (i - 1) \div (Width + 2), (i - 1) % (Width + 2)) \in PlainOp
  <2>1. Width + 2 \in Nat \ {0} /\ Banks \in Nat /\ Width \in Nat
    BY ShapeAssumption
  <2>2. i - 1 \in 0..Banks * (Width + 2) - 1
    BY <2>1
  <2>3. /\ (i - 1) \div (Width + 2) \in 0..Banks - 1
        /\ (i - 1) % (Width + 2) \in 0..(Width + 2) - 1
    BY <2>1, <2>2, Quotient
  <2>4. (i - 1) % (Width + 2) \in 0..Width + 1
    BY <2>1, <2>3
  <2> QED
    BY <2>3, <2>4, RowOpPlain
<1>2. Banks * (Width + 2) \in Nat
  BY ShapeAssumption
<1> QED
  BY <1>1, <1>2 DEF FillOps

LEMMA SettingBytes ==
    /\ Len(Settings) = 6
    /\ Settings[1] = 33 /\ Settings[2] = 5 /\ Settings[3] = 20
    /\ Settings[4] = 192 /\ Settings[5] = 32 /\ Settings[6] = 12
  BY DEF Settings, GraphicFunctionSet

LEMMA GraphicInitPlain == GraphicInitOps \in Seq(PlainOp)
<1> DEFINE s == [i \in 1..2 * Len(Settings) |-> IF i % 2 = 1 THEN Byte("cmd", Settings[(i + 1) \div 2])
                                                ELSE Delay(1000)]
<1>1. <<Output("res"), Output("dc"), Output("sce"), Low("res"), Delay(10000), High("res")>> \in Seq(PlainOp)
  BY LineOps DEF Pins
<1>2. \A k \in 1..6 : Settings[k] \in 0..255
  <2>1. \A k \in 1..6 : k = 1 \/ k = 2 \/ k = 3 \/ k = 4 \/ k = 5 \/ k = 6
    OBVIOUS
  <2> QED
    BY <2>1, SettingBytes
<1>3. ASSUME NEW i \in 1..12
      PROVE  (IF i % 2 = 1 THEN Byte("cmd", Settings[(i + 1) \div 2]) ELSE Delay(1000)) \in PlainOp
  <2>1. (i + 1) \div 2 \in 1..6
    OBVIOUS
  <2>2. Settings[(i + 1) \div 2] \in 0..255
    BY <1>2, <2>1
  <2>3. Byte("cmd", Settings[(i + 1) \div 2]) \in PlainOp
    BY <2>2, ByteOp
  <2>4. Delay(1000) \in PlainOp
    BY LineOps DEF Pins
  <2> QED
    BY <2>3, <2>4
<1>4. s \in Seq(PlainOp)
  BY <1>3, SettingBytes
<1> QED
  BY <1>1, <1>4, PlainConcat DEF GraphicInitOps

LEMMA CharPlain ==
    ASSUME NEW c \in Letters, pos.x \in 0..Width, pos.y \in 0..Banks - 1
    PROVE  CharOps(c) \in Seq(PlainOp)
<1>1. GotoOps(0, pos.y + 1) \in Seq(PlainOp)
  <2>1. 0 \in 0..Width - 1 /\ pos.y + 1 \in Nat
    BY ShapeAssumption
  <2> QED
    BY <2>1, GotoOpsPlain
<1>2. (IF NoRoom THEN GotoOps(0, pos.y + 1) ELSE <<>>) \in Seq(PlainOp)
  BY <1>1
<1>3. \A i \in 1..FontLength + 1 : (IF i = 1 THEN 0 ELSE Glyph(c, i - 1)) \in 0..255
  BY ShapeAssumption DEF Glyph
<1>4. FontLength + 1 \in Nat
  BY ShapeAssumption
<1>5. \A i \in 1..FontLength + 1 : Byte("data", IF i = 1 THEN 0 ELSE Glyph(c, i - 1)) \in PlainOp
  BY <1>3, ByteOp
<1>6. [i \in 1..FontLength + 1 |-> Byte("data", IF i = 1 THEN 0 ELSE Glyph(c, i - 1))] \in Seq(PlainOp)
  BY <1>4, <1>5
<1> QED
  BY <1>2, <1>6, PlainConcat DEF CharOps

LEMMA JoinedThree ==
    ASSUME NEW S, NEW a \in S, NEW b \in S, NEW c \in S
    PROVE  <<a, b>> \o <<c>> = <<a, b, c>>
<1> DEFINE t == <<a, b>> \o <<c>>
           s == <<a, b, c>>
<1>1. t \in Seq(S) /\ Len(t) = 3 /\ t[1] = a /\ t[2] = b /\ t[3] = c
  OBVIOUS
<1>2. s \in Seq(S) /\ Len(s) = 3 /\ s[1] = a /\ s[2] = b /\ s[3] = c
  OBVIOUS
<1> HIDE DEF s, t
<1>3. \A i \in 1..3 : i = 1 \/ i = 2 \/ i = 3
  OBVIOUS
<1>4. \A i \in 1..3 : s[i] = t[i]
  BY <1>1, <1>2, <1>3
<1>5. s = t
  BY <1>1, <1>2, <1>4, SeqEqual
<1> QED
  BY <1>5 DEF s, t

(* A byte sent before the display is set up, and its answer read.           *)
LEMMA ExchangeWhole == Whole(BusSendOps(0) \o <<Recv>>)
<1> DEFINE s == <<Send(0), Wait, Recv>>
<1>1. Send(0) \in Op /\ Wait \in Op /\ Recv \in Op
  BY BusOps
<1>2. BusSendOps(0) \o <<Recv>> = s
  <2>1. BusSendOps(0) \o <<Recv>> = <<Send(0), Wait>> \o <<Recv>>
    BY DEF BusSendOps, SendOps
  <2>2. <<Send(0), Wait>> \o <<Recv>> = s
    BY <1>1, JoinedThree
  <2> QED
    BY <2>1, <2>2
<1>3. s \in Seq(Op) /\ Len(s) = 3 /\ s[1] = Send(0) /\ s[2] = Wait /\ s[3] = Recv
  BY <1>1
<1>4. Send(0).op = "send" /\ Wait.op = "wait" /\ Recv.op = "recv"
  BY DEF Send, Wait, Recv
<1> HIDE DEF s
<1>5. \A i \in 1..3 : i = 1 \/ i = 2 \/ i = 3
  OBVIOUS
<1>6. s[1].op = "send" /\ s[2].op = "wait" /\ s[3].op = "recv"
  BY <1>3, <1>4
<1>7. \A i \in 1..3 : s[i].op = "send" => i + 1 \in 1..3 /\ s[i + 1].op = "wait"
  BY <1>5, <1>6
<1>8. \A i \in 2..3 : /\ s[i].op = "wait" => s[i - 1].op = "send"
                      /\ s[i].op = "recv" => s[i - 1].op = "wait"
  BY <1>5, <1>6
<1>9. Whole(s)
  BY <1>3, <1>6, <1>7, <1>8 DEF Whole, Framed
<1> QED
  BY <1>2, <1>9

-----------------------------------------------------------------------------
(* The lines.  An atomic block holds what PORT is, and the handler waits    *)
(* for its end; the operations left are none of the handler's lines.        *)

HeldOK == held = <<>> \/ /\ held = <<port>> /\ phase = "out"
                         /\ todo # <<>> /\ Head(todo).op \in LineKinds

ListOK == /\ Framed(todo)
          /\ program = "thermometer" \/ (program = "text" /\ ~sei) => todo = <<>>

HandlerOK == /\ phase \in {"out", "update", "select"} /\ sei \in BOOLEAN
             /\ ~sei => phase = "out" /\ port \cap Sels = {}
             /\ program = "graphic" => ~sei

DigitsOK == selected \in 0..Displays - 1 /\ segdata \in [0..Displays - 1 -> 0..255]

PosOK == pos \in [x : 0..Width, y : 0..Banks - 1]

LineInv == /\ program \in {"text", "graphic", "thermometer"}
           /\ HeldOK /\ ListOK /\ HandlerOK /\ DigitsOK /\ PosOK /\ OneDigitLit

LEMMA SelNames ==
    ASSUME NEW d \in 0..Displays - 1
    PROVE  Sel(d) \in {"sel0", "sel1", "sel2", "sel3"} /\ Sel(d) \in Sels
<1>1. d \in 0..3 /\ (d = 0 \/ d = 1 \/ d = 2 \/ d = 3)
  BY DisplaysAssumption
<1>2. Sel(d) \in {"sel0", "sel1", "sel2", "sel3"}
  BY <1>1 DEF Sel
<1> QED
  BY <1>2 DEF Sels

LEMMA SegmentNames ==
    ASSUME NEW i \in 0..7
    PROVE  Segment(i) \in {"segA", "segB", "segC", "segD", "segE", "segF", "segG", "dot"}
<1>1. i = 0 \/ i = 1 \/ i = 2 \/ i = 3 \/ i = 4 \/ i = 5 \/ i = 6 \/ i = 7
  OBVIOUS
<1> QED
  BY <1>1 DEF Segment

(* The digits, the segments and the lines of the displays are different.    *)
LEMMA LinesApart ==
    /\ Sels \cap Segments = {} /\ Pins \cap Sels = {} /\ Pins \cap Segments = {}
    /\ \A b : Lit(b) \subseteq Segments
<1>1. \A s \in Sels : s \in {"sel0", "sel1", "sel2", "sel3"}
  BY SelNames DEF Sels
<1>2. \A s \in Segments : s \in {"segA", "segB", "segC", "segD", "segE", "segF", "segG", "dot"}
  BY SegmentNames DEF Segments
<1>3. \A b : Lit(b) \subseteq Segments
  BY DEF Lit, Segments
<1>4. Sels \cap Segments = {}
  BY <1>1, <1>2
<1>5. Pins \cap Sels = {} /\ Pins \cap Segments = {}
  BY <1>1, <1>2 DEF Pins
<1> QED
  BY <1>3, <1>4, <1>5

LEMMA HeadOp ==
    ASSUME Framed(todo), todo # <<>>
    PROVE  Head(todo) \in Op /\ Head(todo).pin \in Pins /\ Head(todo).op \in Kinds
  BY DEF Framed, Op

(* The steps of a list: it stays framed, and no line of the handler moves.  *)
LEMMA GpioStep ==
    ASSUME Framed(todo), HeldOK, phase = "out", phase' = "out",
           Load \/ Store \/ Configure \/ Pause
    PROVE  /\ Framed(todo') /\ HeldOK'
           /\ port' \cap Sels = port \cap Sels /\ port' \cap Segments = port \cap Segments
<1>1. CASE Load
  BY <1>1 DEF Load, HeldOK, Doing, LineKinds
<1>2. CASE Store
  <2>1. /\ todo # <<>> /\ held = <<port>> /\ Head(todo).op \in LineKinds
        /\ held' = <<>> /\ todo' = Tail(todo)
    BY <1>2 DEF Store, HeldOK, Rest
  <2>2. Framed(todo')
    BY <2>1, FramedTail
  <2>3. Head(todo).pin \in Pins /\ held[1] = port
    BY <2>1, HeadOp
  <2>4. port' = port \cup {Head(todo).pin} \/ port' = port \ {Head(todo).pin}
    BY <1>2, <2>3 DEF Store
  <2>5. Head(todo).pin \notin Sels /\ Head(todo).pin \notin Segments
    BY <2>3, LinesApart
  <2> QED
    BY <2>1, <2>2, <2>4, <2>5 DEF HeldOK
<1>3. CASE Configure \/ Pause
  <2>1. /\ todo # <<>> /\ Head(todo).op \in {"output", "delay"}
        /\ todo' = Tail(todo) /\ port' = port /\ held' = held
    BY <1>3 DEF Configure, Pause, Doing, Rest
  <2>2. held = <<>>
    BY <2>1 DEF HeldOK, LineKinds
  <2> QED
    BY <2>1, <2>2, FramedTail DEF HeldOK
<1> QED
  BY <1>1, <1>2, <1>3

LEMMA BecomesStep ==
    ASSUME Framed(todo), HeldOK, todo # <<>>, Head(todo).op \notin LineKinds,
           NEW ops, Whole(ops), Becomes(ops),
           ops = <<>> \/ Head(todo).op \notin {"send", "wait"}
    PROVE  /\ Framed(todo') /\ HeldOK'
           /\ port' \cap Sels = port \cap Sels /\ port' \cap Segments = port \cap Segments
<1>1. /\ todo' = ops \o Tail(todo) /\ held' = held /\ port' = port
  BY DEF Becomes
<1>2. held = <<>>
  BY DEF HeldOK
<1>3. Framed(Tail(todo)) /\ (Head(todo).op \notin {"send", "wait"} => Whole(Tail(todo)))
  BY FramedTail
<1>4. Framed(todo')
  <2>1. CASE ops = <<>>
    <3>1. Tail(todo) \in Seq(Op)
      BY <1>3 DEF Framed
    <3>2. todo' = Tail(todo)
      BY <1>1, <2>1, <3>1
    <3> QED
      BY <1>3, <3>2
  <2>2. CASE ops # <<>>
    BY <1>1, <1>3, <2>2, WholeConcat DEF Whole
  <2> QED
    BY <2>1, <2>2
<1> QED
  BY <1>1, <1>2, <1>4 DEF HeldOK

LEMMA BeginStep ==
    ASSUME HeldOK, todo = <<>>, Whole(todo'), held' = held, port' = port
    PROVE  /\ Framed(todo') /\ HeldOK'
           /\ port' \cap Sels = port \cap Sels /\ port' \cap Segments = port \cap Segments
  BY DEF HeldOK, Whole

LEMMA NothingWhole == Whole(<<>>)
  BY DEF Whole, Framed

(* What a step must not do to a digit that is lit.                          *)
Ghostless == sei /\ sei' /\ port' \cap Segments # port \cap Segments
                => port \cap Sels = {} /\ port' \cap Sels = {}

LEMMA SegKept ==
    ASSUME LineInv, UNCHANGED <<seg, program>>, Framed(todo'), HeldOK', PosOK',
           program = "thermometer" \/ (program = "text" /\ ~sei) => todo' = <<>>,
           port' \cap Sels = port \cap Sels, port' \cap Segments = port \cap Segments
    PROVE  LineInv' /\ Ghostless
<1>1. /\ selected' = selected /\ segdata' = segdata /\ phase' = phase /\ sei' = sei
      /\ program' = program
  BY DEF seg
<1>2. Sels' = Sels
  BY DEF Sels, Sel
<1>3. HandlerOK' /\ DigitsOK'
  BY <1>1, <1>2 DEF LineInv, HandlerOK, DigitsOK
<1>4. OneDigitLit'
  BY <1>1, <1>2 DEF LineInv, OneDigitLit, Sel
<1>5. ListOK'
  BY <1>1 DEF ListOK
<1> QED
  BY <1>1, <1>3, <1>4, <1>5 DEF LineInv, Ghostless

(* What the programs put in a digit is a byte.                              *)
LEMMA FontBytes ==
    ASSUME NEW i
    PROVE  CharByte(i) \in 0..255
<1>1. Len(SegmentFont) = 32 /\ SegmentFont \in Seq(0..255)
  BY DEF SegmentFont
<1> HIDE DEF SegmentFont
<1>2. CASE i \in 0..31
  <2>1. i + 1 \in 1..32
    BY <1>2
  <2>2. SegmentFont[i + 1] \in 0..255
    BY <1>1, <2>1, ElementOfSeq
  <2> QED
    BY <1>1, <1>2, <2>2 DEF CharByte
<1>3. CASE i \notin 0..31
  BY <1>1, <1>3 DEF CharByte
<1> QED
  BY <1>2, <1>3

(* d7seg_init leaves a byte in every digit and no digit selected.           *)
LEMMA DigitsInit ==
    ASSUME NEW chars, \A d \in DOMAIN chars : chars[d] \in 0..255, d7seg_init(chars), DigitsOK
    PROVE  DigitsOK'
<1>1. 0 \in 0..Displays - 1 /\ Displays - 1 \in 0..Displays - 1
  BY DisplaysAssumption
<1>2. Zeroed \in [0..Displays - 1 -> 0..255]
  BY <1>1 DEF Zeroed, DigitsOK
<1>3. /\ selected' = Displays - 1
      /\ segdata' = [d \in 0..Displays - 1 |-> IF d \in DOMAIN chars THEN chars[d] ELSE Zeroed[d]]
  BY DEF d7seg_init
<1> HIDE DEF Zeroed
<1>4. \A d \in 0..Displays - 1 : (IF d \in DOMAIN chars THEN chars[d] ELSE Zeroed[d]) \in 0..255
  BY <1>2
<1> QED
  BY <1>1, <1>3, <1>4 DEF DigitsOK

LEMMA LightedSels ==
    ASSUME NEW b
    PROVE  Lighted(b) \cap Sels = port \cap Sels /\ Sels' = Sels
  BY LinesApart DEF Lighted, Sels, Sel

LEMMA TextLines ==
    ASSUME LineInv, Text_
    PROVE  LineInv' /\ Ghostless
<1>1. /\ program = "text" /\ phase = "out" /\ PosOK' /\ program' = program
      /\ Framed(todo) /\ HeldOK
  BY DEF LineInv, ListOK, PosOK, Text_, graphic, board
<1>2. CASE d7seg_init([d \in 1..Displays - 1 |-> CharByte(d)])
  <2>0. DigitsOK'
    <3>1. PICK chars : chars = [d \in 1..Displays - 1 |-> CharByte(d)]
      OBVIOUS
    <3>2. \A d \in DOMAIN chars : chars[d] \in 0..255
      BY <3>1, FontBytes
    <3>3. d7seg_init(chars)
      BY <1>2, <3>1
    <3>4. DigitsOK
      BY DEF LineInv
    <3> QED
      BY <3>2, <3>3, <3>4, DigitsInit
  <2>1. /\ ~sei /\ sei' = TRUE /\ port' = Lighted(Zeroed[Displays - 1])
        /\ held' = held /\ todo' = todo /\ phase' = phase
    BY <1>2 DEF d7seg_init
  <2>2. todo = <<>> /\ held = <<>> /\ port \cap Sels = {}
    BY <1>1, <2>1 DEF LineInv, ListOK, HeldOK, HandlerOK
  <2>3. HeldOK' /\ ListOK' /\ HandlerOK'
    BY <1>1, <2>1, <2>2, LightedSels DEF LineInv, ListOK, HeldOK, HandlerOK
  <2>4. port' \cap Sels = {} /\ Sels' = Sels
    BY <2>1, <2>2, LightedSels
  <2>5. OneDigitLit'
    BY <2>4 DEF OneDigitLit
  <2> QED
    BY <1>1, <2>0, <2>1, <2>3, <2>5 DEF LineInv, Ghostless
<1>3. CASE sei /\ (hd44780_init \/ LcdCalls \/ LcdStep) /\ UNCHANGED seg
  <2>0. /\ UNCHANGED <<seg, program>> /\ phase' = "out"
        /\ (program = "thermometer" \/ (program = "text" /\ ~sei) => todo' = <<>>)
    BY <1>1, <1>3 DEF seg
  <2>1. CASE hd44780_init \/ LcdCalls
    <3>1. PICK ops \in Seq(PlainOp) : todo = <<>> /\ todo' = ops /\ held' = held /\ port' = port
      <4>1. CASE hd44780_init
        BY <4>1, InitPlain DEF hd44780_init, LcdBegin
      <4>2. CASE LcdCalls
        BY <4>2, ClrscrPlain, GotoPlain, PutsPlain DEF LcdCalls, LcdBegin
      <4> QED
        BY <2>1, <4>1, <4>2
    <3>2. Whole(todo')
      BY <3>1, PlainWhole
    <3> QED
      BY <1>1, <2>0, <3>1, <3>2, BeginStep, SegKept
  <2>2. CASE Load \/ Store \/ Configure \/ Pause
    BY <1>1, <2>0, <2>2, GpioStep, SegKept
  <2>3. CASE Doing("write") /\ Becomes(WriteOps(Head(todo).val, Head(todo).pin))
    <3>1. todo # <<>> /\ Head(todo).op = "write" /\ Head(todo).val \in 0..255
      BY <1>1, <2>3, HeadOp DEF Doing, Op, Fit
    <3>2. Whole(WriteOps(Head(todo).val, Head(todo).pin))
      BY <3>1, WritePlain, PlainWhole
    <3> QED
      BY <1>1, <2>0, <2>3, <3>1, <3>2, BecomesStep, SegKept DEF LineKinds
  <2>4. CASE Doing("nibble") /\ Becomes(NibbleOps(Head(todo).val))
    <3>1. todo # <<>> /\ Head(todo).op = "nibble" /\ Head(todo).val \in 0..15
      BY <1>1, <2>4, HeadOp DEF Doing, Op, Fit
    <3>2. Whole(NibbleOps(Head(todo).val))
      BY <3>1, NibblePlain, PlainWhole
    <3> QED
      BY <1>1, <2>0, <2>4, <3>1, <3>2, BecomesStep, SegKept DEF LineKinds
  <2> QED
    BY <1>3, <2>1, <2>2, <2>3, <2>4 DEF LcdStep, SetLine
<1> QED
  BY <1>2, <1>3 DEF Text_

(* The calls of the graphic display begin whole lists, and the position the *)
(* driver keeps is one of the display, or the end of a line.                *)
LEMMA CallsPlain ==
    ASSUME PosOK, pcd8544_init \/ GraphicCalls
    PROVE  \E ops \in Seq(PlainOp), p \in [x : 0..Width, y : 0..Banks - 1] :
              todo = <<>> /\ todo' = ops /\ pos' = p /\ held' = held /\ port' = port
<1>0. \A b \in 0..255 : Filled(b) \in Pictures
  BY DEF Filled, Pictures
<1>1. /\ Width \in Nat /\ Width >= 2 /\ Banks \in Nat /\ Banks >= 1
      /\ FontLength \in Nat /\ FontLength + 1 <= Width
      /\ 0 \in 0..Width - 1 /\ 0 \in 0..Banks - 1
  BY ShapeAssumption
<1>2. GotoOps(0, 0) \in Seq(PlainOp)
  BY <1>1, GotoOpsPlain
<1>3. CASE pcd8544_init
  BY <1>3, GraphicInitPlain DEF pcd8544_init, GraphicBegin, PosOK
<1>4. CASE pcd8544_clrscr
  <2>1. FillOps(Filled(0)) \o GotoOps(0, 0) \in Seq(PlainOp)
    BY <1>0, <1>2, FillPlain, PlainConcat
  <2>2. [x |-> 0, y |-> 0] \in [x : 0..Width, y : 0..Banks - 1]
    BY <1>1
  <2> QED
    BY <1>4, <2>1, <2>2 DEF pcd8544_clrscr, GraphicBegin
<1>5. CASE pcd8544_blit
  <2>1. Picture \in Pictures
    BY <1>1 DEF Picture, Pictures
  <2>2. GotoOps(0, 0) \o FillOps(Picture) \in Seq(PlainOp)
    BY <1>2, <2>1, FillPlain, PlainConcat
  <2>3. [x |-> 0, y |-> 0] \in [x : 0..Width, y : 0..Banks - 1]
    BY <1>1
  <2> QED
    BY <1>5, <2>2, <2>3 DEF pcd8544_blit, GraphicBegin
<1>6. ASSUME NEW x \in 0..Width - 1, NEW y \in 0..Banks - 1, pcd8544_gotoxy(x, y)
      PROVE  \E ops \in Seq(PlainOp), p \in [x : 0..Width, y : 0..Banks - 1] :
                todo = <<>> /\ todo' = ops /\ pos' = p /\ held' = held /\ port' = port
  <2>1. GotoOps(x, y) \in Seq(PlainOp)
    BY <1>1, GotoOpsPlain
  <2>2. [x |-> x, y |-> y] \in [x : 0..Width, y : 0..Banks - 1]
    BY <1>1
  <2> QED
    BY <1>6, <2>1, <2>2 DEF pcd8544_gotoxy, GraphicBegin
<1>7. ASSUME NEW c \in Letters, pcd8544_putc(c)
      PROVE  \E ops \in Seq(PlainOp), p \in [x : 0..Width, y : 0..Banks - 1] :
                todo = <<>> /\ todo' = ops /\ pos' = p /\ held' = held /\ port' = port
  <2>1. pos.x \in 0..Width /\ pos.y \in 0..Banks - 1
    BY DEF PosOK
  <2>2. CharOps(c) \in Seq(PlainOp)
    BY <2>1, CharPlain
  <2>3. /\ CharAt.x \in 0..Width /\ CharAt.x + FontLength + 1 <= Width
        /\ CharAt.y \in 0..Banks - 1
    <3>1. CharAt.y < Banks
      BY <1>7 DEF pcd8544_putc
    <3>2. CASE NoRoom
      BY <1>1, <2>1, <3>1, <3>2 DEF CharAt
    <3>3. CASE ~NoRoom
      BY <1>1, <2>1, <3>3 DEF CharAt, NoRoom
    <3> QED
      BY <3>2, <3>3
  <2>4. [x |-> AfterChar(CharAt.x), y |-> CharAt.y] \in [x : 0..Width, y : 0..Banks - 1]
    BY <1>1, <2>3 DEF AfterChar
  <2> QED
    BY <1>7, <2>2, <2>4 DEF pcd8544_putc, GraphicBegin
<1>8. ASSUME NEW b \in Patterns, pcd8544_fill(b)
      PROVE  \E ops \in Seq(PlainOp), p \in [x : 0..Width, y : 0..Banks - 1] :
                todo = <<>> /\ todo' = ops /\ pos' = p /\ held' = held /\ port' = port
  <2>1. FillOps(Filled(b)) \in Seq(PlainOp)
    BY <1>0, FillPlain, ShapeAssumption
  <2> QED
    BY <1>8, <2>1 DEF pcd8544_fill, GraphicBegin, PosOK
<1>9. ASSUME NEW b \in Patterns, pcd8544_putblock(Width - 1, 0, b)
      PROVE  \E ops \in Seq(PlainOp), p \in [x : 0..Width, y : 0..Banks - 1] :
                todo = <<>> /\ todo' = ops /\ pos' = p /\ held' = held /\ port' = port
  <2>1. GotoOps(Width - 1, 0) \in Seq(PlainOp) /\ Data(b) \in Seq(PlainOp)
    <3>1. Width - 1 \in 0..Width - 1 /\ 0 \in Nat /\ b \in 0..255
      BY <1>1, ShapeAssumption
    <3> QED
      BY <3>1, GotoOpsPlain, CommandPlain
  <2>2. GotoOps(Width - 1, 0) \o Data(b) \in Seq(PlainOp)
    BY <2>1, PlainConcat
  <2>3. [x |-> Width - 1, y |-> 0] \in [x : 0..Width, y : 0..Banks - 1]
    BY <1>1
  <2> QED
    BY <1>9, <2>2, <2>3 DEF pcd8544_putblock, GraphicBegin
<1> QED
  BY <1>3, <1>4, <1>5, <1>6, <1>7, <1>8, <1>9 DEF GraphicCalls

LEMMA GraphicLines ==
    ASSUME LineInv, Graphic_
    PROVE  LineInv' /\ Ghostless
<1>1. /\ program = "graphic" /\ phase = "out" /\ phase' = "out" /\ UNCHANGED <<seg, program>>
      /\ Framed(todo) /\ HeldOK /\ PosOK
      /\ (program = "thermometer" \/ (program = "text" /\ ~sei) => todo' = <<>>)
  BY DEF LineInv, ListOK, HandlerOK, Graphic_, board, seg
<1>2. CASE ~spi.spe /\ UNCHANGED graphic /\ \E master \in BOOLEAN, speed \in Speeds : spi_hw_poll_init(master, speed)
  <2>1. todo = <<>> /\ todo' = todo /\ held' = held /\ port' = port /\ PosOK'
    BY <1>1, <1>2 DEF spi_hw_poll_init, graphic, PosOK
  <2> QED
    BY <1>1, <2>1, NothingWhole, BeginStep, SegKept
<1>3. CASE UNCHANGED graphic /\ \E m \in Modes : spi_hw_poll_clock_mode_set(m)
  <2>1. todo = <<>> /\ todo' = todo /\ held' = held /\ port' = port /\ PosOK'
    BY <1>1, <1>3 DEF spi_hw_poll_clock_mode_set, graphic, gpio, PosOK
  <2> QED
    BY <1>1, <2>1, NothingWhole, BeginStep, SegKept
<1>4. CASE Exchange
  <2>1. /\ todo = <<>> /\ Whole(todo') /\ held' = held /\ port' = port /\ PosOK'
    BY <1>1, <1>4, ExchangeWhole DEF Exchange, graphic, PosOK
  <2> QED
    BY <1>1, <2>1, BeginStep, SegKept
<1>5. CASE pcd8544_init \/ GraphicCalls
  <2>1. PICK ops \in Seq(PlainOp), p \in [x : 0..Width, y : 0..Banks - 1] :
           todo = <<>> /\ todo' = ops /\ pos' = p /\ held' = held /\ port' = port
    BY <1>1, <1>5, CallsPlain DEF PosOK
  <2>2. Whole(todo') /\ PosOK'
    BY <2>1, PlainWhole DEF PosOK
  <2> QED
    BY <1>1, <2>1, <2>2, BeginStep, SegKept
<1>6. CASE GraphicStep
  <2>0. PosOK'
    BY <1>1, <1>6 DEF GraphicStep, SetGraphicLine, Transfer, graphic, PosOK
  <2>1. CASE Load \/ Store \/ Configure \/ Pause
    BY <1>1, <2>0, <2>1, GpioStep, SegKept
  <2>2. CASE Transfer
    <3>1. todo' = todo /\ held' = held /\ port' = port
      BY <2>2 DEF Transfer, Shifted, gpio
    <3> QED
      BY <1>1, <2>0, <3>1, SegKept DEF HeldOK
  <2>3. CASE SendByte \/ AwaitEnd \/ RecvByte
    <3>1. todo # <<>> /\ Head(todo).op \in {"send", "wait", "recv"} /\ Becomes(<<>>)
      BY <2>3 DEF SendByte, AwaitEnd, RecvByte, Doing
    <3> QED
      BY <1>1, <2>0, <3>1, NothingWhole, BecomesStep, SegKept DEF LineKinds
  <2>4. CASE Doing("pcd8544_write") /\ Becomes(ByteOps(Head(todo).pin, Head(todo).val))
    <3>1. todo # <<>> /\ Head(todo).op = "pcd8544_write" /\ Head(todo).val \in 0..255
      BY <1>1, <2>4, HeadOp DEF Doing, Op, Fit
    <3>2. Whole(ByteOps(Head(todo).pin, Head(todo).val))
      BY <3>1, ByteOpsWhole
    <3> QED
      BY <1>1, <2>0, <2>4, <3>1, <3>2, BecomesStep, SegKept DEF LineKinds
  <2> QED
    BY <1>6, <2>1, <2>2, <2>3, <2>4 DEF GraphicStep, SetGraphicLine
<1> QED
  BY <1>2, <1>3, <1>4, <1>5, <1>6 DEF Graphic_

LEMMA DigitBytes ==
    ASSUME NEW r, NEW d \in 0..3
    PROVE  DigitByte(r, d) \in 0..255
<1>1. \A i : CharByte(i) \in 0..255 /\ Dotted(CharByte(i)) \in 0..255
  BY FontBytes DEF Dotted
<1>2. d = 0 \/ d = 1 \/ d = 2 \/ d = 3
  OBVIOUS
<1>3. CASE Negative(r)
  BY <1>1, <1>2, <1>3 DEF DigitByte
<1>4. CASE ~Negative(r)
  BY <1>1, <1>2, <1>4 DEF DigitByte
<1> QED
  BY <1>3, <1>4

LEMMA ThermometerLines ==
    ASSUME LineInv, Thermometer_
    PROVE  LineInv' /\ Ghostless
<1>1. /\ program = "thermometer" /\ PosOK' /\ program' = program
      /\ Framed(todo) /\ HeldOK /\ todo = <<>> /\ held = <<>>
  BY DEF LineInv, ListOK, PosOK, Thermometer_, graphic, board, HeldOK
<1>2. CASE d7seg_init([d \in 0..3 |-> CharByte(0)])
  <2>0. DigitsOK'
    <3>1. PICK chars : chars = [d \in 0..3 |-> CharByte(0)]
      OBVIOUS
    <3>2. \A d \in DOMAIN chars : chars[d] \in 0..255
      BY <3>1, FontBytes
    <3>3. d7seg_init(chars)
      BY <1>2, <3>1
    <3>4. DigitsOK
      BY DEF LineInv
    <3> QED
      BY <3>2, <3>3, <3>4, DigitsInit
  <2>1. /\ ~sei /\ sei' = TRUE /\ port' = Lighted(Zeroed[Displays - 1])
        /\ held' = held /\ todo' = todo /\ phase' = phase
    BY <1>2 DEF d7seg_init
  <2>2. port \cap Sels = {}
    BY <2>1 DEF LineInv, HandlerOK
  <2>4. HeldOK' /\ ListOK' /\ HandlerOK'
    BY <1>1, <2>1, <2>2, LightedSels DEF LineInv, ListOK, HeldOK, HandlerOK
  <2>5. port' \cap Sels = {} /\ Sels' = Sels
    BY <2>1, <2>2, LightedSels
  <2>6. OneDigitLit'
    BY <2>5 DEF OneDigitLit
  <2> QED
    BY <1>1, <2>0, <2>1, <2>4, <2>6 DEF LineInv, Ghostless
<1>3. CASE ThermoStep
  <2>1. UNCHANGED gpio /\ selected' = selected /\ phase' = phase /\ sei' = sei
    BY <1>3 DEF ThermoStep, Trigger, Poll, Smooth, PutDigit, Sleep, seg
  <2>2. DigitsOK'
    <3>1. CASE PutDigit
      <4>1. PICK d \in 0..3 : segdata' = [segdata EXCEPT ![d] = DigitByte(smooth, d)]
        BY <3>1 DEF PutDigit
      <4>2. DigitByte(smooth, d) \in 0..255
        BY DigitBytes
      <4> QED
        BY <2>1, <4>1, <4>2 DEF LineInv, DigitsOK
    <3>2. CASE ~PutDigit
      BY <1>3, <2>1, <3>2 DEF ThermoStep, Trigger, Poll, Smooth, Sleep, seg, LineInv, DigitsOK
    <3> QED
      BY <3>1, <3>2
  <2>3. port' = port /\ held' = held /\ todo' = todo
    BY <2>1 DEF gpio
  <2>4. Sels' = Sels
    BY DEF Sels, Sel
  <2>5. HeldOK' /\ ListOK' /\ HandlerOK' /\ OneDigitLit'
    BY <1>1, <2>1, <2>3, <2>4 DEF LineInv, ListOK, HeldOK, HandlerOK, OneDigitLit, Sel
  <2> QED
    BY <1>1, <2>2, <2>3, <2>5 DEF LineInv, Ghostless
<1> QED
  BY <1>2, <1>3 DEF Thermometer_

LEMMA HandlerLines ==
    ASSUME LineInv, Handler
    PROVE  LineInv' /\ Ghostless
<1>1. /\ program' = program /\ PosOK' /\ todo' = todo /\ held' = held /\ sei' = sei
      /\ segdata' = segdata /\ Sels' = Sels
  BY DEF LineInv, PosOK, Handler, Multiplex, Deselect, Update, Select, graphic, board, Sels, Sel
<1>2. sei
  BY DEF Handler, Multiplex, Deselect, Update, Select, LineInv, HandlerOK
<1>3. held = <<>>
  BY DEF Handler, Multiplex, Deselect, Update, Select, LineInv, HeldOK, Interruptible
<1>4. selected \in 0..Displays - 1 /\ Displays \in 1..4
  BY DisplaysAssumption DEF LineInv, DigitsOK
<1>5. HeldOK' /\ ListOK'
  BY <1>1, <1>2, <1>3 DEF LineInv, HeldOK, ListOK
<1>6. program' # "graphic"
  BY <1>1, <1>2 DEF LineInv, HandlerOK
<1>7. CASE Deselect
  <2>1. /\ port' = port \ {Sel(selected)} /\ phase' = "update" /\ selected' = selected
    BY <1>7 DEF Deselect, Deselected
  <2>2. port \cap Sels \subseteq {Sel(selected)}
    BY DEF LineInv, OneDigitLit
  <2>3. port' \cap Sels = {}
    BY <2>1, <2>2
  <2>4. port' \cap Segments = port \cap Segments
    <3>1. Sel(selected) \notin Segments
      BY <1>4, SelNames, LinesApart
    <3> QED
      BY <2>1, <3>1
  <2>5. HandlerOK' /\ DigitsOK' /\ OneDigitLit'
    BY <1>1, <1>2, <1>6, <2>1, <2>3 DEF LineInv, HandlerOK, DigitsOK, OneDigitLit
  <2> QED
    BY <1>1, <1>5, <2>4, <2>5 DEF LineInv, Ghostless
<1>8. CASE Update
  <2>1. /\ phase = "update" /\ selected' = NextSelected /\ port' = Updated(selected')
        /\ phase' = "select"
    BY <1>8 DEF Update
  <2>2. port \cap Sels = {}
    BY <2>1 DEF LineInv, OneDigitLit
  <2>3. port' \cap Sels = {}
    BY <2>1, <2>2, LinesApart DEF Updated, Lighted
  <2>4. selected' \in 0..Displays - 1
    BY <1>4, <2>1 DEF NextSelected
  <2>5. HandlerOK' /\ DigitsOK' /\ OneDigitLit'
    BY <1>1, <1>2, <1>6, <2>1, <2>3, <2>4 DEF LineInv, HandlerOK, DigitsOK, OneDigitLit
  <2> QED
    BY <1>1, <1>5, <2>2, <2>3, <2>5 DEF LineInv, Ghostless
<1>9. CASE Select
  <2>1. /\ phase = "select" /\ port' = port \cup {Sel(selected)} /\ phase' = "out"
        /\ selected' = selected
    BY <1>9 DEF Select
  <2>2. port \cap Sels = {}
    BY <2>1 DEF LineInv, OneDigitLit
  <2>3. Sel(selected)' = Sel(selected) /\ Sel(selected) \in Sels /\ Sel(selected) \notin Segments
    BY <1>4, <2>1, SelNames, LinesApart DEF Sel
  <2>4. port' \cap Sels = {Sel(selected)} /\ port' \cap Segments = port \cap Segments
    BY <2>1, <2>2, <2>3
  <2>5. HandlerOK' /\ DigitsOK' /\ OneDigitLit'
    BY <1>1, <1>2, <1>6, <2>1, <2>3, <2>4 DEF LineInv, HandlerOK, DigitsOK, OneDigitLit
  <2> QED
    BY <1>1, <1>5, <2>4, <2>5 DEF LineInv, Ghostless
<1> QED
  BY <1>7, <1>8, <1>9 DEF Handler, Multiplex

LEMMA ResetLines ==
    ASSUME LineInv, NEW power \in BOOLEAN, Reset(power)
    PROVE  LineInv' /\ Ghostless
<1>1. /\ port' = {} /\ held' = <<>> /\ todo' = <<>> /\ sei' = FALSE /\ phase' = "out"
      /\ selected' = 0 /\ segdata' = [d \in 0..Displays - 1 |-> 0]
      /\ pos' = [x |-> 0, y |-> 0] /\ program' = program
  BY DEF Reset
<1>2. HeldOK' /\ ListOK' /\ HandlerOK' /\ OneDigitLit'
  BY <1>1, NothingWhole DEF HeldOK, ListOK, HandlerOK, OneDigitLit, Whole
<1>3. DigitsOK' /\ PosOK'
  BY <1>1, DisplaysAssumption, ShapeAssumption DEF DigitsOK, PosOK
<1> QED
  BY <1>1, <1>2, <1>3 DEF LineInv, Ghostless

LEMMA LineInit == Init => LineInv
<1> SUFFICES ASSUME Init PROVE LineInv
  OBVIOUS
<1> USE DEF Init, GpioInit, GraphicInit, SegInit
<1>1. HeldOK /\ ListOK /\ HandlerOK /\ OneDigitLit
  BY NothingWhole DEF HeldOK, ListOK, HandlerOK, OneDigitLit, Whole
<1>2. DigitsOK /\ PosOK
  BY DisplaysAssumption, ShapeAssumption DEF DigitsOK, PosOK
<1> QED
  BY <1>1, <1>2, BoardAssumption DEF LineInv

LEMMA LineStep ==
    ASSUME LineInv, [Next]_vars
    PROVE  LineInv' /\ Ghostless
<1>1. CASE Text_
  BY <1>1, TextLines
<1>2. CASE Graphic_
  BY <1>2, GraphicLines
<1>3. CASE Thermometer_
  BY <1>3, ThermometerLines
<1>4. CASE Handler
  BY <1>4, HandlerLines
<1>5. CASE Converter \/ Voltage \/ UNCHANGED vars
  <2>1. UNCHANGED <<gpio, seg, graphic, board>>
    BY <1>5 DEF Converter, Converted, Voltage, Drift, vars
  <2>2. UNCHANGED <<seg, program, port, held, todo, phase, pos>>
    BY <2>1 DEF gpio, board, graphic, seg
  <2>3. Framed(todo') /\ HeldOK' /\ PosOK'
    BY <2>2 DEF LineInv, ListOK, HeldOK, PosOK
  <2>4. program = "thermometer" \/ (program = "text" /\ ~sei) => todo' = <<>>
    BY <2>2 DEF LineInv, ListOK
  <2> QED
    BY <2>2, <2>3, <2>4, SegKept
<1>6. ASSUME NEW power \in BOOLEAN, Reset(power)
      PROVE  LineInv' /\ Ghostless
  BY <1>6, ResetLines
<1> QED
  BY <1>1, <1>2, <1>3, <1>4, <1>5, <1>6 DEF Next, Main

(* A segment changes only while no digit is lit, whatever the program does: *)
(* no digit shows what is another's (d7seg_multiplex, d7seg_init).          *)
THEOREM GhostsSafe == Spec => NoGhosts
<1>1. LineInv /\ [Next]_vars => LineInv'
  BY LineStep
<1>2. LineInv /\ [Next]_vars => [sei /\ sei' /\ port' \cap Segments # port \cap Segments
                  => port \cap Sels = {} /\ port' \cap Sels = {}]_<<port, sei>>
  BY LineStep DEF Ghostless
<1> QED
  BY <1>1, <1>2, LineInit, PTL DEF Spec, NoGhosts

-----------------------------------------------------------------------------
(* The displays, the port of the bus and the converter.                     *)

Addresses == 0..Cells - 1
Halves == -1..15
Memory == [Addresses -> -1..255]
DispType == [wide : BOOLEAN, half : Halves, busy : Nat, cold : 0..2, addr : Addresses,
             inc : 0..1, on : 0..1, two : 0..1, ram : Memory]

Columns == 0..Width - 1
Rows == 0..Banks - 1
Voltages == 0..127
Plane == [Rows -> [Columns -> -1..255]]
GlcdType == [x : Columns, y : Rows, h : 0..1, mode : 0..7, vop : Voltages,
             bias : 0..7, tc : 0..3, ram : Plane]

SpiType == [spe : BOOLEAN, mstr : BOOLEAN, spr : 0..3, x2 : 0..1, cmode : 0..3,
            spif : BOOLEAN, seen : BOOLEAN, shifting : BOOLEAN, spdr : Byte_]

AdcType == [mux : Byte_, presc : 0..7, auto : {0}, busy : BOOLEAN, data : Readings \cup {0}]

LcdTypes == disp \in DispType /\ disp.busy <= WarmUp /\ gpioUs \in GpioTimes
GlcdTypes == glcd \in GlcdType /\ calls \in -1..MaxCalls + 1
SpiTypes == spi \in SpiType /\ asked \in [master : BOOLEAN, speed : 0..6, cmode : 0..3]
ThermoTypes == /\ adc \in AdcType /\ level \in Readings
               /\ result \in Readings \cup {0} /\ smooth \in Readings \cup {0}
               /\ counter \in 0..CounterMod - 1

LEMMA BitType == ASSUME NEW v \in Nat, NEW x \in {0, 1, 2, 3, 4} PROVE Bit(v, x) \in 0..1
<1>1. 2^0 = 1 /\ 2^1 = 2 /\ 2^2 = 4 /\ 2^3 = 8 /\ 2^4 = 16
  OBVIOUS
<1>2. 2^x \in {1, 2, 4, 8, 16}
  BY <1>1
<1>3. \A d \in {1, 2, 4, 8, 16} : (v \div d) % 2 \in 0..1
  OBVIOUS
<1> QED
  BY <1>2, <1>3 DEF Bit

LEMMA WarmUpType == WarmUp \in Nat
  BY DEF WarmUp

LEMMA ClearedType ==
    ASSUME NEW d \in DispType, NEW m \in Memory, NEW n \in Nat, NEW a \in Addresses, NEW i \in 0..1
    PROVE  [d EXCEPT !.ram = m, !.addr = a, !.inc = i, !.busy = n] \in DispType
  BY DEF DispType

LEMMA ExecuteType ==
    ASSUME NEW d \in DispType, d.busy <= WarmUp, NEW data \in BOOLEAN, NEW b \in 0..255
    PROVE  Execute(d, data, b) \in DispType /\ Execute(d, data, b).busy <= WarmUp
<1> DEFINE e == Execute(d, data, b)
<1>0. /\ d.addr \in Addresses /\ d.inc \in 0..1 /\ d.cold \in 0..2 /\ d.ram \in Memory
  BY DEF DispType
<1>a. ASSUME NEW a \in Int PROVE \E q \in Addresses : q = a % Cells
  <2>1. PICK n \in Nat \ {0} : n = Cells
    BY LcdAssumption
  <2>2. a % n \in 0..n - 1
    BY <2>1
  <2> QED
    BY <2>1, <2>2 DEF Addresses
<1>b. 0 \in Addresses
  BY LcdAssumption DEF Addresses
<1>c. 37 <= WarmUp
  BY DEF WarmUp
<1>d. PICK k \in Nat : k = 1520 /\ k <= WarmUp
  BY DEF WarmUp
<1>1. CASE data
  <2>1. d.addr + Cells + 2 * d.inc - 1 \in Int
    BY <1>0, LcdAssumption DEF Addresses
  <2>2. PICK q \in Addresses : q = (d.addr + Cells + 2 * d.inc - 1) % Cells
    BY <1>a, <2>1
  <2>3. [d.ram EXCEPT ![d.addr] = b] \in Memory
    BY <1>0 DEF Memory
  <2>4. PICK m \in Memory : m = [d.ram EXCEPT ![d.addr] = b]
    BY <2>3
  <2>5. e = [d EXCEPT !.ram = m, !.busy = 37, !.addr = q]
    BY <1>1, <2>2, <2>4 DEF Execute, DispType
  <2> HIDE DEF e
  <2>6. e.busy = 37
    BY <2>5 DEF DispType
  <2>7. e \in DispType
    BY <2>5 DEF DispType
  <2> QED
    BY <1>c, <2>6, <2>7 DEF e
<1>2. CASE ~data /\ b >= 128
  <2>1. PICK q \in Addresses : q = (b - 128) % Cells
    BY <1>a
  <2>3. e = [d EXCEPT !.addr = q, !.busy = 37]
    BY <1>2, <2>1 DEF Execute
  <2> HIDE DEF e
  <2>4. e.busy = 37
    BY <2>3 DEF DispType
  <2>5. e \in DispType
    BY <2>3 DEF DispType
  <2> QED
    BY <1>c, <2>4, <2>5 DEF e
<1>3. CASE ~data /\ b \in 32..63
  <2>1. PICK i \in 0..1 : i = Bit(b, 3)
    BY BitType
  <2>3. PICK c \in 0..2 : c = IF Bit(b, 4) = 1 /\ d.cold > 0 THEN d.cold - 1 ELSE 0
    BY <1>0
  <2>4. PICK n \in Nat : n <= WarmUp /\ n = CASE d.cold = 2 -> 4100 [] d.cold = 1 -> 100 [] OTHER -> 37
    BY <1>0 DEF WarmUp
  <2>5. e = [d EXCEPT !.wide = Bit(b, 4) = 1, !.two = i, !.cold = c, !.busy = n]
    BY <1>3, <2>1, <2>3, <2>4 DEF Execute, DispType
  <2>6. (Bit(b, 4) = 1) \in BOOLEAN
    OBVIOUS
  <2> HIDE DEF e
  <2>7. e.busy = n /\ e \in DispType
    BY <2>5, <2>6 DEF DispType
  <2> QED
    BY <2>4, <2>7 DEF e
<1>4. CASE ~data /\ b \in 8..15
  <2>1. PICK i \in 0..1 : i = Bit(b, 2)
    BY BitType
  <2>2. e = [d EXCEPT !.on = i, !.busy = 37]
    BY <1>4, <2>1 DEF Execute
  <2> HIDE DEF e
  <2>3. e.busy = 37 /\ e \in DispType
    BY <2>2 DEF DispType
  <2> QED
    BY <1>c, <2>3 DEF e
<1>5. CASE ~data /\ b \in 4..7
  <2>1. PICK i \in 0..1 : i = Bit(b, 1)
    BY BitType
  <2>2. e = [d EXCEPT !.inc = i, !.busy = 37]
    BY <1>5, <2>1 DEF Execute
  <2> HIDE DEF e
  <2>3. e.busy = 37 /\ e \in DispType
    BY <2>2 DEF DispType
  <2> QED
    BY <1>c, <2>3 DEF e
<1>6. CASE ~data /\ b \in 1..3
  <2>1. Blank \in Memory
    BY DEF Blank, Space, Memory, Addresses
  <2>2. CASE b \in 2..3
    <3>1. e = [d EXCEPT !.addr = 0, !.busy = k]
      BY <1>6, <1>d, <2>2 DEF Execute
    <3> HIDE DEF e
    <3>2. e.busy = k /\ e \in DispType
      BY <1>b, <3>1 DEF DispType
    <3> QED
      BY <1>d, <3>2 DEF e
  <2>3. CASE b = 1
    <3>0. PICK m \in Memory : m = Blank
      BY <2>1
    <3>1. e = [d EXCEPT !.ram = m, !.addr = 0, !.inc = 1, !.busy = k]
      BY <1>6, <1>d, <2>3, <3>0 DEF Execute
    <3> HIDE DEF e
    <3>2. e.busy = k
      BY <3>1 DEF DispType
    <3>3. e \in DispType
      <4>1. [d EXCEPT !.ram = m, !.addr = 0, !.inc = 1, !.busy = k] \in DispType
        <5>1. 1 \in 0..1
          OBVIOUS
        <5> QED
          BY <1>b, <5>1, ClearedType
      <4> QED
        BY <3>1, <4>1
    <3> QED
      BY <1>d, <3>2, <3>3 DEF e
  <2> QED
    BY <1>6, <2>2, <2>3
<1>7. CASE ~data /\ (b = 0 \/ b \in 16..31 \/ b \in 64..127)
  BY <1>7 DEF Execute
<1> QED
  BY <1>1, <1>2, <1>3, <1>4, <1>5, <1>6, <1>7

LEMMA OnLinesType == ASSUME NEW p PROVE OnLines(p) \in 0..15
<1>1. 2^0 = 1 /\ 2^1 = 2 /\ 2^2 = 4 /\ 2^3 = 8
  OBVIOUS
<1> QED
  BY <1>1 DEF OnLines

LEMMA TakenType ==
    ASSUME NEW d \in DispType, d.busy <= WarmUp, NEW data \in BOOLEAN, NEW v \in 0..15
    PROVE  Taken(d, data, v) \in DispType /\ Taken(d, data, v).busy <= WarmUp
<1>1. d.wide \in BOOLEAN /\ d.half \in Halves
  BY DEF DispType
<1>2. CASE d.wide
  <2>1. 16 * v \in 0..255
    OBVIOUS
  <2>2. Taken(d, data, v) = Execute(d, data, 16 * v)
    BY <1>2 DEF Taken
  <2> QED
    BY <2>1, <2>2, ExecuteType
<1>3. CASE ~d.wide /\ d.half = -1
  <2>1. v \in Halves
    BY DEF Halves
  <2> QED
    BY <1>3, <2>1 DEF Taken, DispType
<1>4. CASE ~d.wide /\ d.half # -1
  <2>1. -1 \in Halves
    BY DEF Halves
  <2>2. [d EXCEPT !.half = -1] \in DispType /\ [d EXCEPT !.half = -1].busy = d.busy
    BY <2>1 DEF DispType
  <2>3. 16 * d.half + v \in 0..255
    BY <1>1, <1>4 DEF Halves
  <2>4. Taken(d, data, v) = Execute([d EXCEPT !.half = -1], data, 16 * d.half + v)
    BY <1>4 DEF Taken
  <2> QED
    BY <2>2, <2>3, <2>4, ExecuteType
<1> QED
  BY <1>1, <1>2, <1>3, <1>4

LEMMA LaterType ==
    ASSUME NEW d \in DispType, NEW b \in Nat, d.busy <= b, NEW us \in Nat
    PROVE  Later(d, us) \in DispType /\ Later(d, us).busy <= b
<1>1. d.busy \in Nat
  BY DEF DispType
<1> DEFINE n == IF d.busy > us THEN d.busy - us ELSE 0
<1>2. n \in Nat /\ n <= b
  BY <1>1
<1>3. Later(d, us) = [d EXCEPT !.busy = n]
  BY DEF Later, DispType
<1> HIDE DEF n
<1> QED
  BY <1>2, <1>3 DEF DispType

LEMMA PowerOnType == PowerOn \in DispType /\ PowerOn.busy <= WarmUp
<1>1. 0 \in Addresses /\ -1 \in Halves /\ [a \in 0..Cells - 1 |-> -1] \in Memory
  BY LcdAssumption DEF Addresses, Halves, Memory
<1>2. WarmUp \in Nat /\ WarmUp <= WarmUp
  BY DEF WarmUp
<1> QED
  BY <1>1, <1>2 DEF PowerOn, DispType

LEMMA LcdTypesStep ==
    ASSUME LcdTypes, LineInv, [Next]_vars
    PROVE  LcdTypes'
<1> USE DEF LcdTypes
<1>1. CASE UNCHANGED lcd
  BY <1>1 DEF lcd
<1>2. CASE Text_ /\ ~UNCHANGED lcd
  <2>1. CASE hd44780_init \/ LcdCalls
    BY <2>1 DEF hd44780_init, LcdCalls, LcdBegin
  <2>2. CASE SetLine
    <3>1. gpioUs \in Nat
      BY LcdAssumption
    <3> DEFINE d == Later(disp, gpioUs)
               t == Taken(d, "rs" \in port, OnLines(port))
    <3>2. d \in DispType /\ d.busy <= WarmUp
      BY <3>1, WarmUpType, LaterType
    <3>3. t \in DispType /\ t.busy <= WarmUp
      <4>1. ("rs" \in port) \in BOOLEAN /\ OnLines(port) \in 0..15
        BY OnLinesType
      <4> QED
        BY <3>2, <4>1, TakenType
    <3> QED
      BY <2>2, <3>2, <3>3 DEF SetLine
  <2>3. CASE Pause /\ disp' = Later(disp, Head(todo).val)
             /\ UNCHANGED <<lcdCall, gpioUs, screen, rushed, missed, torn>>
    <3>1. Head(todo).val \in Nat
      BY <2>3, HeadOp DEF Pause, Doing, LineInv, ListOK, Op
    <3> QED
      BY <2>3, <3>1, WarmUpType, LaterType
  <2> QED
    BY <1>2, <2>1, <2>2, <2>3 DEF Text_, LcdStep
<1>3. ASSUME NEW power \in BOOLEAN, Reset(power)
      PROVE  LcdTypes'
  <2>1. ("rs" \in port) \in BOOLEAN /\ OnLines(port) \in 0..15
    BY OnLinesType
  <2>2. PICK t : t = Taken(disp, "rs" \in port, OnLines(port)) /\ t \in DispType /\ t.busy <= WarmUp
    BY <2>1, TakenType
  <2>3. disp' \in {PowerOn, disp, t} /\ gpioUs' = gpioUs
    BY <1>3, <2>2 DEF Reset
  <2> QED
    BY <2>2, <2>3, PowerOnType
<1> QED
  BY <1>1, <1>2, <1>3 DEF Next, Main, Graphic_, Thermometer_, Handler, Converter, Voltage, vars

LEMMA GlcdOffType == GlcdOff \in GlcdType
<1>1. 0 \in Columns /\ 0 \in Rows /\ 0 \in Voltages /\ Filled(-1) \in Plane
  BY ShapeAssumption DEF Columns, Rows, Voltages, Plane, Filled
<1> QED
  BY <1>1 DEF GlcdOff, GlcdType

LEMMA InstructionType ==
    ASSUME NEW d \in GlcdType, NEW b \in 0..255
    PROVE  Instruction(d, b) \in GlcdType
<1>0. d.h \in 0..1
  BY DEF GlcdType
<1>1. CASE b >= 128 /\ d.h = 1
  <2>1. b - 128 \in Voltages
    BY <1>1 DEF Voltages
  <2> QED
    BY <1>1, <2>1 DEF Instruction, GlcdType
<1>2. CASE b >= 128 /\ d.h = 0
  <2>1. (b - 128) % Width \in Columns
    BY <1>2, ShapeAssumption DEF Columns
  <2> QED
    BY <1>2, <2>1 DEF Instruction, GlcdType
<1>3. CASE b \in 64..127 /\ d.h = 0
  <2>1. (b - 64) % Banks \in Rows
    BY <1>3, ShapeAssumption DEF Rows
  <2> QED
    BY <1>3, <2>1 DEF Instruction, GlcdType
<1>4. CASE b \in 32..39
  BY <1>4 DEF Instruction, GlcdType
<1>5. CASE b \in 16..23 /\ d.h = 1
  BY <1>5 DEF Instruction, GlcdType
<1>6. CASE b \in 4..7 /\ d.h = 1
  BY <1>6 DEF Instruction, GlcdType
<1>7. CASE b \in 8..15 /\ d.h = 0
  BY <1>7 DEF Instruction, GlcdType
<1>8. CASE /\ ~(b >= 128) /\ ~(b \in 64..127 /\ d.h = 0) /\ b \notin 32..39
           /\ ~(b \in 16..23 /\ d.h = 1) /\ ~(b \in 4..7 /\ d.h = 1)
           /\ ~(b \in 8..15 /\ d.h = 0)
  BY <1>8 DEF Instruction
<1> QED
  BY <1>0, <1>1, <1>2, <1>3, <1>4, <1>5, <1>6, <1>7, <1>8

LEMMA ShownType ==
    ASSUME NEW d \in GlcdType, NEW b \in 0..255
    PROVE  Shown(d, b) \in GlcdType
<1>1. d.x \in Columns /\ d.y \in Rows /\ d.ram \in Plane
  BY DEF GlcdType
<1> DEFINE n == Advanced([x |-> d.x, y |-> d.y])
           r == [d.ram EXCEPT ![d.y] = [d.ram[d.y] EXCEPT ![d.x] = b]]
<1>2. n.x \in Columns /\ n.y \in Rows
  BY <1>1, ShapeAssumption DEF Advanced, Columns, Rows
<1>3. r \in Plane
  BY <1>1 DEF Plane
<1>4. Shown(d, b) = [d EXCEPT !.ram = r, !.x = n.x, !.y = n.y]
  BY DEF Shown, GlcdType
<1> HIDE DEF n, r
<1> QED
  BY <1>2, <1>3, <1>4 DEF GlcdType

LEMMA GlcdTypesStep ==
    ASSUME GlcdTypes, SpiTypes, [Next]_vars
    PROVE  GlcdTypes'
<1> USE DEF GlcdTypes
<1>0. MaxCalls \in Nat
  BY ShapeAssumption
<1>1. CASE UNCHANGED graphic
  BY <1>1 DEF graphic
<1>2. CASE Graphic_ /\ ~UNCHANGED graphic
  <2>1. CASE pcd8544_init \/ GraphicCalls
    <3>1. glcd' = glcd /\ (calls' = 0 \/ Counted)
      BY <2>1 DEF pcd8544_init, GraphicCalls, pcd8544_clrscr, pcd8544_blit, pcd8544_gotoxy,
                  pcd8544_putc, pcd8544_fill, pcd8544_putblock, Counting, GraphicBegin
    <3> QED
      BY <1>0, <3>1 DEF Counted
  <2>2. CASE SetGraphicLine
    <3>1. [GlcdOff EXCEPT !.ram = glcd.ram] \in GlcdType
      BY GlcdOffType DEF GlcdType
    <3> QED
      BY <2>2, <3>1 DEF SetGraphicLine
  <2>3. CASE Transfer
    <3>1. spi.spdr \in 0..255
      BY DEF SpiTypes, SpiType, Byte_
    <3> QED
      BY <2>3, <3>1, ShownType, InstructionType DEF Transfer
  <2> QED
    BY <1>2, <2>1, <2>2, <2>3 DEF Graphic_, GraphicStep, Exchange
<1>3. ASSUME NEW power \in BOOLEAN, Reset(power)
      PROVE  GlcdTypes'
  BY <1>0, <1>3, GlcdOffType DEF Reset
<1> QED
  BY <1>1, <1>2, <1>3 DEF Next, Main, Text_, Thermometer_, Handler, Converter, Voltage, vars

-----------------------------------------------------------------------------
(* The bus.  A byte is shifted out only while the program awaits its end,   *)
(* SPIF was seen before the next is sent, and the byte read is the answer.  *)

Shifting == spi.shifting => Doing("wait") /\ ~spi.spif
FlagSeen == spi.spif /\ ~Doing("wait") => spi.seen
AnswerThere == Doing("recv") \/ (Doing("wait") /\ spi.spif) => ~spi.shifting /\ spi.spdr = answer

Exchanging == calls = -1 => \/ todo = <<>> /\ (got # -1 => got = answer)
                            \/ todo = <<Send(0), Wait, Recv>> /\ got = -1
                            \/ todo = <<Wait, Recv>> /\ got = -1
                            \/ todo = <<Recv>> /\ got = -1

BusInv == /\ SpiTypes /\ SpiAsAsked /\ ~garbled
          /\ IF program = "graphic" THEN Shifting /\ FlagSeen /\ AnswerThere /\ Exchanging
                                    ELSE got = -1

LEMMA BusInit_ == Init => BusInv
<1> SUFFICES ASSUME Init PROVE BusInv
  OBVIOUS
<1> USE DEF Init, GpioInit, GraphicInit, BusInit
<1>1. SpiTypes /\ SpiAsAsked
  BY DEF SpiTypes, SpiType, Byte_, SpiAsAsked
<1>2. Shifting /\ FlagSeen /\ AnswerThere /\ Exchanging
  BY DEF Shifting, FlagSeen, AnswerThere, Exchanging, Doing
<1> QED
  BY <1>1, <1>2 DEF BusInv

(* A speed in its bits is the divider that names it.                        *)
LEMMA Speed ==
    ASSUME NEW s \in 0..6
    PROVE  /\ s % 4 \in 0..3 /\ Doubled(s) \in 0..1
           /\ (IF Doubled(s) = 1 THEN <<2, 8, 32, 64>>[(s % 4) + 1] ELSE <<4, 16, 64, 128>>[(s % 4) + 1])
                 = SpeedName(s)
<1>1. s = 0 \/ s = 1 \/ s = 2 \/ s = 3 \/ s = 4 \/ s = 5 \/ s = 6
  OBVIOUS
<1>2. Doubled(s) = IF s < 4 THEN 0 ELSE 1
  BY <1>1 DEF Doubled
<1>3. s % 4 = IF s < 4 THEN s ELSE s - 4
  BY <1>1
<1>4. CASE s < 4
  BY <1>1, <1>2, <1>3, <1>4 DEF SpeedName
<1>5. CASE s >= 4
  BY <1>1, <1>2, <1>3, <1>5 DEF SpeedName
<1> QED
  BY <1>4, <1>5

LEMMA SpiSet ==
    ASSUME NEW s \in SpiType, NEW m \in BOOLEAN, NEW n \in 0..3, NEW x \in 0..1
    PROVE  [s EXCEPT !.spe = TRUE, !.mstr = m, !.spr = n, !.x2 = x, !.cmode = 0] \in SpiType
<1>1. PICK t : t = [s EXCEPT !.spe = TRUE, !.mstr = m]
  OBVIOUS
<1>2. t \in SpiType
  BY <1>1 DEF SpiType
<1>3. PICK u : u = [t EXCEPT !.spr = n]
  OBVIOUS
<1>4. u \in SpiType
  BY <1>2, <1>3 DEF SpiType
<1>5. PICK v : v = [u EXCEPT !.x2 = x]
  OBVIOUS
<1>6. v \in SpiType
  BY <1>4, <1>5 DEF SpiType
<1>7. [v EXCEPT !.cmode = 0] \in SpiType
  BY <1>6 DEF SpiType
<1>8. [s EXCEPT !.spe = TRUE, !.mstr = m, !.spr = n, !.x2 = x, !.cmode = 0] = [v EXCEPT !.cmode = 0]
  BY <1>1, <1>3, <1>5 DEF SpiType
<1> QED
  BY <1>7, <1>8

LEMMA SetUpBus ==
    ASSUME BusInv, program = "graphic", program' = program, UNCHANGED graphic,
           \/ ~spi.spe /\ \E master \in BOOLEAN, speed \in Speeds : spi_hw_poll_init(master, speed)
           \/ spi.spe /\ calls = -1 /\ \E m \in Modes : spi_hw_poll_clock_mode_set(m)
    PROVE  BusInv'
<1>0. spi \in SpiType /\ asked \in [master : BOOLEAN, speed : 0..6, cmode : 0..3]
  BY DEF BusInv, SpiTypes
<1>1. garbled' = garbled /\ calls' = calls
  BY DEF graphic
<1>2. CASE ~spi.spe /\ \E master \in BOOLEAN, speed \in Speeds : spi_hw_poll_init(master, speed)
  <2>1. PICK master \in BOOLEAN, speed \in Speeds : spi_hw_poll_init(master, speed)
    BY <1>2
  <2>2. speed \in 0..6
    BY BoardAssumption
  <2> DEFINE n == speed % 4
             x == Doubled(speed)
  <2>3. /\ todo = <<>> /\ todo' = todo /\ got' = got /\ answer' = answer
        /\ spi' = [spi EXCEPT !.spe = TRUE, !.mstr = master, !.spr = n, !.x2 = x, !.cmode = 0]
        /\ asked' = [master |-> master, speed |-> speed, cmode |-> 0]
    BY <2>1 DEF spi_hw_poll_init
  <2>4. /\ n \in 0..3 /\ x \in 0..1
        /\ (IF x = 1 THEN <<2, 8, 32, 64>>[n + 1] ELSE <<4, 16, 64, 128>>[n + 1]) = SpeedName(speed)
    BY <2>2, Speed
  <2> HIDE DEF n, x
  <2>5. spi' \in SpiType
    BY <1>0, <2>3, <2>4, SpiSet
  <2>6. asked' \in [master : BOOLEAN, speed : 0..6, cmode : 0..3]
    BY <2>2, <2>3
  <2>7. /\ spi'.spr = n /\ spi'.x2 = x /\ spi'.cmode = 0 /\ spi'.mstr = master
        /\ spi'.spif = spi.spif /\ spi'.seen = spi.seen /\ spi'.shifting = spi.shifting
        /\ asked'.speed = speed /\ asked'.cmode = 0 /\ asked'.master = master
    BY <1>0, <2>3 DEF SpiType
  <2>8. SpiAsAsked'
    BY <2>4, <2>7 DEF SpiAsAsked, SpiDivider, SpeedName
  <2>9. Shifting' /\ FlagSeen' /\ AnswerThere' /\ Exchanging'
    BY <1>1, <2>3, <2>7 DEF BusInv, Shifting, FlagSeen, AnswerThere, Exchanging, Doing
  <2> QED
    BY <1>1, <2>5, <2>6, <2>8, <2>9 DEF BusInv, SpiTypes
<1>3. CASE spi.spe /\ calls = -1 /\ \E m \in Modes : spi_hw_poll_clock_mode_set(m)
  <2>1. PICK m \in Modes : spi_hw_poll_clock_mode_set(m)
    BY <1>3
  <2>2. m \in 0..3 /\ m % 4 = m
    BY BoardAssumption
  <2>3. /\ todo = <<>> /\ todo' = todo /\ got' = got /\ answer' = answer
        /\ spi' = [spi EXCEPT !.cmode = m]
        /\ asked' = [asked EXCEPT !.cmode = m]
    BY <2>1, <2>2 DEF spi_hw_poll_clock_mode_set, gpio
  <2>4. spi' \in SpiType /\ asked' \in [master : BOOLEAN, speed : 0..6, cmode : 0..3]
    BY <1>0, <2>2, <2>3 DEF SpiType
  <2>5. /\ spi'.spr = spi.spr /\ spi'.x2 = spi.x2 /\ spi'.cmode = m /\ spi'.mstr = spi.mstr
        /\ spi'.spif = spi.spif /\ spi'.seen = spi.seen /\ spi'.shifting = spi.shifting
        /\ spi'.spe = spi.spe
        /\ asked'.speed = asked.speed /\ asked'.cmode = m /\ asked'.master = asked.master
    BY <1>0, <2>3 DEF SpiType
  <2>6. SpiAsAsked'
    BY <2>5 DEF BusInv, SpiAsAsked, SpiDivider, SpeedName
  <2>7. Shifting' /\ FlagSeen' /\ AnswerThere' /\ Exchanging'
    BY <1>1, <2>3, <2>5 DEF BusInv, Shifting, FlagSeen, AnswerThere, Exchanging, Doing
  <2> QED
    BY <1>1, <2>4, <2>6, <2>7 DEF BusInv, SpiTypes
<1> QED
  BY <1>2, <1>3

(* A list of a call does not begin with a step of a transfer.               *)
LEMMA BeginBus ==
    ASSUME BusInv, program = "graphic", program' = program, UNCHANGED bus, garbled' => garbled,
           todo = <<>>, Whole(todo'), Exchanging'
    PROVE  BusInv'
<1>1. /\ spi' = spi /\ asked' = asked /\ answer' = answer /\ got' = got
  BY DEF bus
<1>2. ~Doing("wait") /\ ~Doing("recv")
  BY DEF Doing
<1>3. ~Doing("wait")' /\ ~Doing("recv")'
  BY DEF Doing, Whole, Framed
<1>4. Shifting' /\ FlagSeen' /\ AnswerThere'
  BY <1>1, <1>2, <1>3 DEF BusInv, Shifting, FlagSeen, AnswerThere
<1>5. SpiTypes' /\ SpiAsAsked'
  BY <1>1 DEF BusInv, SpiTypes, SpiAsAsked, SpiDivider, SpeedName
<1> QED
  BY <1>4, <1>5 DEF BusInv

(* A step of a list that is not one of a transfer.                          *)
LEMMA PlainBus ==
    ASSUME BusInv, ListOK, program = "graphic", program' = program, UNCHANGED bus, garbled' => garbled,
           calls' = calls, calls # -1,
           \/ todo # <<>> /\ Head(todo).op \notin {"send", "wait"} /\ todo' = Tail(todo)
           \/ UNCHANGED todo
           \/ \E ops : /\ todo # <<>> /\ Head(todo).op \notin {"send", "wait"} /\ ops # <<>>
                       /\ Whole(ops) /\ todo' = ops \o Tail(todo)
    PROVE  BusInv'
<1>1. /\ spi' = spi /\ asked' = asked /\ answer' = answer /\ got' = got
  BY DEF bus
<1>2. SpiTypes' /\ SpiAsAsked'
  BY <1>1 DEF BusInv, SpiTypes, SpiAsAsked, SpiDivider, SpeedName
<1>3. Framed(todo)
  BY DEF ListOK
<1>4. Exchanging'
  BY DEF Exchanging
<1>5. CASE UNCHANGED todo
  BY <1>1, <1>2, <1>4, <1>5 DEF BusInv, Shifting, FlagSeen, AnswerThere, Doing
<1>6. CASE todo # <<>> /\ Head(todo).op \notin {"send", "wait"} /\ Whole(todo')
  <2>1. ~Doing("wait")
    BY <1>6 DEF Doing
  <2>2. ~Doing("wait")' /\ ~Doing("recv")'
    BY <1>6 DEF Doing, Whole, Framed
  <2>3. Shifting' /\ FlagSeen' /\ AnswerThere'
    BY <1>1, <2>1, <2>2 DEF BusInv, Shifting, FlagSeen, AnswerThere
  <2> QED
    BY <1>2, <1>4, <2>3 DEF BusInv
<1>7. CASE todo # <<>> /\ Head(todo).op \notin {"send", "wait"} /\ todo' = Tail(todo)
  BY <1>3, <1>6, <1>7, FramedTail
<1>8. CASE \E ops : /\ todo # <<>> /\ Head(todo).op \notin {"send", "wait"} /\ ops # <<>>
                    /\ Whole(ops) /\ todo' = ops \o Tail(todo)
  <2>1. PICK ops : /\ todo # <<>> /\ Head(todo).op \notin {"send", "wait"} /\ ops # <<>>
                   /\ Whole(ops) /\ todo' = ops \o Tail(todo)
    BY <1>8
  <2>2. Whole(Tail(todo))
    BY <1>3, <2>1, FramedTail
  <2>3. Whole(todo')
    BY <2>1, <2>2, WholeConcat
  <2> QED
    BY <1>6, <2>1, <2>3
<1> QED
  BY <1>5, <1>7, <1>8

(* The steps of a transfer.                                                 *)
LEMMA TransferBus ==
    ASSUME BusInv, LineInv, program = "graphic", program' = program, calls' = calls,
           garbled' => garbled, SendByte \/ AwaitEnd \/ RecvByte \/ \E b \in Answers : Shifted(b)
    PROVE  BusInv'
<1>0. /\ spi \in SpiType /\ asked \in [master : BOOLEAN, speed : 0..6, cmode : 0..3]
      /\ Framed(todo) /\ Shifting /\ FlagSeen /\ AnswerThere /\ Exchanging /\ SpiAsAsked
      /\ ~garbled
  BY DEF BusInv, SpiTypes, LineInv, ListOK
<1>1. asked' = asked
  BY DEF SendByte, AwaitEnd, RecvByte, Shifted
<1>2. ASSUME spi' \in SpiType, spi'.spr = spi.spr, spi'.x2 = spi.x2, spi'.cmode = spi.cmode,
             spi'.mstr = spi.mstr, spi'.spe = spi.spe
      PROVE  SpiTypes' /\ SpiAsAsked'
  BY <1>0, <1>1, <1>2 DEF SpiTypes, SpiAsAsked, SpiDivider, SpeedName
<1>x. /\ Send(0).op = "send" /\ Wait.op = "wait" /\ Recv.op = "recv"
      /\ Send(0) \in Op /\ Wait \in Op /\ Recv \in Op
  BY BusOps DEF Send, Wait, Recv
<1>3. CASE SendByte
  <2>1. /\ todo # <<>> /\ Head(todo).op = "send" /\ todo' = <<>> \o Tail(todo)
        /\ spi' = [Accessed EXCEPT !.spdr = Head(todo).val, !.shifting = spi.spe]
        /\ got' = got
    BY <1>3 DEF SendByte, Doing, Becomes
  <2>2. /\ Framed(Tail(todo)) /\ Tail(todo) # <<>> /\ Head(Tail(todo)).op = "wait"
    BY <1>0, <2>1, FramedTail
  <2>3. todo' = Tail(todo)
    BY <2>1, <2>2 DEF Framed
  <2>4. Doing("wait")' /\ ~Doing("recv")'
    BY <2>2, <2>3 DEF Doing
  <2>5. spi.spif => spi.seen
    BY <1>0, <2>1 DEF FlagSeen, Doing
  <2>6. Head(todo).val \in Byte_
    BY <1>0, <2>1, HeadOp DEF Op, Fit, Byte_
  <2>7. /\ Accessed = [spi EXCEPT !.spif = FALSE, !.seen = FALSE]
    BY <1>0, <2>5 DEF Accessed, SpiType
  <2>8. spi' = [spi EXCEPT !.spif = FALSE, !.seen = FALSE, !.spdr = Head(todo).val,
                           !.shifting = spi.spe]
    BY <1>0, <2>1, <2>7 DEF SpiType
  <2>9. /\ spi'.spr = spi.spr /\ spi'.x2 = spi.x2 /\ spi'.cmode = spi.cmode
        /\ spi'.mstr = spi.mstr /\ spi'.spe = spi.spe /\ spi'.spif = FALSE
    BY <1>0, <2>8 DEF SpiType
  <2>10. spi' \in SpiType
    BY <1>0, <2>6, <2>8 DEF SpiType
  <2>11. Shifting' /\ FlagSeen' /\ AnswerThere'
    BY <2>4, <2>9 DEF Shifting, FlagSeen, AnswerThere
  <2>12. Exchanging'
    <3>1. CASE calls # -1
      BY <3>1 DEF Exchanging
    <3>2. CASE calls = -1
      <4>1. todo = <<Send(0), Wait, Recv>> /\ got = -1
        BY <1>0, <1>x, <2>1, <3>2 DEF Exchanging
      <4>2. todo' = <<Wait, Recv>>
        BY <1>x, <2>3, <4>1
      <4> QED
        BY <2>1, <4>1, <4>2 DEF Exchanging
    <3> QED
      BY <3>1, <3>2
  <2> QED
    BY <1>0, <1>2, <2>9, <2>10, <2>11, <2>12 DEF BusInv
<1>4. CASE AwaitEnd
  <2>1. /\ todo # <<>> /\ Head(todo).op = "wait" /\ todo' = <<>> \o Tail(todo)
        /\ spi' = [spi EXCEPT !.seen = TRUE] /\ spi.spif /\ Doing("wait")
        /\ got' = got /\ answer' = answer
    BY <1>4 DEF AwaitEnd, Doing, Becomes
  <2>2. /\ Framed(Tail(todo)) /\ (Tail(todo) # <<>> => Head(Tail(todo)).op # "wait")
    BY <1>0, <2>1, FramedTail
  <2>3. todo' = Tail(todo)
    BY <2>1, <2>2 DEF Framed
  <2>4. ~Doing("wait")'
    BY <2>2, <2>3 DEF Doing
  <2>5. ~spi.shifting /\ spi.spdr = answer
    BY <1>0, <2>1 DEF AnswerThere
  <2>6. /\ spi'.spr = spi.spr /\ spi'.x2 = spi.x2 /\ spi'.cmode = spi.cmode
        /\ spi'.mstr = spi.mstr /\ spi'.spe = spi.spe /\ spi'.seen = TRUE
        /\ spi'.shifting = spi.shifting /\ spi'.spdr = spi.spdr /\ spi' \in SpiType
    BY <1>0, <2>1 DEF SpiType
  <2>7. Shifting' /\ FlagSeen' /\ AnswerThere'
    BY <2>1, <2>4, <2>5, <2>6 DEF Shifting, FlagSeen, AnswerThere
  <2>8. Exchanging'
    <3>1. CASE calls # -1
      BY <3>1 DEF Exchanging
    <3>2. CASE calls = -1
      <4>1. todo = <<Wait, Recv>> /\ got = -1
        BY <1>0, <1>x, <2>1, <3>2 DEF Exchanging
      <4>2. todo' = <<Recv>>
        BY <1>x, <2>3, <4>1
      <4> QED
        BY <2>1, <4>1, <4>2 DEF Exchanging
    <3> QED
      BY <3>1, <3>2
  <2> QED
    BY <1>0, <1>2, <2>6, <2>7, <2>8 DEF BusInv
<1>5. CASE RecvByte
  <2>1. /\ todo # <<>> /\ Head(todo).op = "recv" /\ todo' = <<>> \o Tail(todo)
        /\ spi' = [spi EXCEPT !.spif = FALSE, !.seen = FALSE] /\ Doing("recv")
        /\ got' = spi.spdr /\ answer' = answer
    BY <1>5 DEF RecvByte, Doing, Becomes
  <2>2. Framed(Tail(todo)) /\ Whole(Tail(todo))
    BY <1>0, <2>1, FramedTail
  <2>3. todo' = Tail(todo)
    BY <2>1, <2>2 DEF Framed
  <2>4. ~Doing("wait")' /\ ~Doing("recv")'
    BY <2>2, <2>3 DEF Doing, Whole, Framed
  <2>5. ~spi.shifting /\ spi.spdr = answer
    BY <1>0, <2>1 DEF AnswerThere
  <2>6. /\ spi'.spr = spi.spr /\ spi'.x2 = spi.x2 /\ spi'.cmode = spi.cmode
        /\ spi'.mstr = spi.mstr /\ spi'.spe = spi.spe /\ spi'.spif = FALSE
        /\ spi'.shifting = spi.shifting /\ spi' \in SpiType
    BY <1>0, <2>1 DEF SpiType
  <2>7. Shifting' /\ FlagSeen' /\ AnswerThere'
    BY <2>4, <2>5, <2>6 DEF Shifting, FlagSeen, AnswerThere
  <2>8. Exchanging'
    <3>1. CASE calls # -1
      BY <3>1 DEF Exchanging
    <3>2. CASE calls = -1
      <4>1. todo = <<Recv>>
        BY <1>0, <1>x, <2>1, <3>2 DEF Exchanging
      <4>2. todo' = <<>>
        BY <1>x, <2>3, <4>1
      <4> QED
        BY <2>1, <2>5, <4>2 DEF Exchanging
    <3> QED
      BY <3>1, <3>2
  <2> QED
    BY <1>0, <1>2, <2>6, <2>7, <2>8 DEF BusInv
<1>6. CASE \E b \in Answers : Shifted(b)
  <2>1. PICK b \in Byte_ : Shifted(b)
    BY <1>6, AnswersAssumption DEF Byte_
  <2>2. /\ spi.shifting /\ todo' = todo /\ got' = got /\ answer' = b
        /\ spi' = [spi EXCEPT !.shifting = FALSE, !.spif = TRUE, !.spdr = b]
    BY <2>1 DEF Shifted, gpio
  <2>3. Doing("wait") /\ Doing("wait")' /\ ~Doing("recv")
    BY <1>0, <2>2 DEF Shifting, Doing
  <2>4. /\ spi'.spr = spi.spr /\ spi'.x2 = spi.x2 /\ spi'.cmode = spi.cmode
        /\ spi'.mstr = spi.mstr /\ spi'.spe = spi.spe
        /\ spi'.shifting = FALSE /\ spi'.spdr = b /\ spi' \in SpiType
    BY <1>0, <2>2 DEF SpiType
  <2>5. Shifting' /\ FlagSeen' /\ AnswerThere'
    BY <2>2, <2>3, <2>4 DEF Shifting, FlagSeen, AnswerThere
  <2>6. Exchanging'
    <3>1. CASE calls # -1
      BY <3>1 DEF Exchanging
    <3>2. CASE calls = -1
      <4>1. todo # <<>>
        BY <2>3 DEF Doing
      <4> QED
        BY <1>0, <2>2, <3>2, <4>1 DEF Exchanging
    <3> QED
      BY <3>1, <3>2
  <2> QED
    BY <1>0, <1>2, <2>4, <2>5, <2>6 DEF BusInv
<1> QED
  BY <1>3, <1>4, <1>5, <1>6

(* Before the display is set up nothing but a transfer is under way.        *)
LEMMA SetUpFirst ==
    ASSUME Exchanging, todo # <<>>, Head(todo).op \notin {"send", "wait", "recv"}
    PROVE  calls # -1
<1>1. Send(0).op = "send" /\ Wait.op = "wait" /\ Recv.op = "recv"
  BY DEF Send, Wait, Recv
<1>2. SUFFICES ASSUME calls = -1 PROVE FALSE
  OBVIOUS
<1>3. Head(todo) \in {Send(0), Wait, Recv}
  BY <1>2 DEF Exchanging
<1> QED
  BY <1>1, <1>3

LEMMA GraphicBus ==
    ASSUME BusInv, LineInv, Graphic_
    PROVE  BusInv'
<1>0. /\ program = "graphic" /\ program' = program /\ ListOK /\ HeldOK /\ PosOK /\ Framed(todo)
      /\ Shifting /\ Exchanging
  BY DEF Graphic_, board, BusInv, LineInv, ListOK
<1>1. CASE \/ ~spi.spe /\ UNCHANGED graphic
              /\ \E master \in BOOLEAN, speed \in Speeds : spi_hw_poll_init(master, speed)
           \/ /\ spi.spe /\ calls = -1 /\ got = -1 /\ UNCHANGED graphic
              /\ \E m \in Modes : spi_hw_poll_clock_mode_set(m)
  BY <1>0, <1>1, SetUpBus
<1>2. CASE Exchange
  <2>1. /\ todo = <<>> /\ todo' = BusSendOps(0) \o <<Recv>> /\ UNCHANGED <<bus, graphic>>
        /\ got = -1
    BY <1>2 DEF Exchange
  <2>2. Whole(todo')
    BY <2>1, ExchangeWhole
  <2>3. todo' = <<Send(0), Wait, Recv>>
    <3>1. todo' = <<Send(0), Wait>> \o <<Recv>>
      BY <2>1 DEF BusSendOps, SendOps
    <3> QED
      BY <3>1, BusOps, JoinedThree
  <2>4. Exchanging'
    BY <2>1, <2>3 DEF Exchanging, bus
  <2> QED
    BY <1>0, <2>1, <2>2, <2>4, BeginBus DEF graphic
<1>3. CASE pcd8544_init \/ GraphicCalls
  <2>1. PICK ops \in Seq(PlainOp) : todo = <<>> /\ todo' = ops
    BY <1>0, <1>3, CallsPlain
  <2>2. Whole(todo')
    BY <2>1, PlainWhole
  <2>3. UNCHANGED bus /\ garbled' = garbled /\ (calls' = 0 \/ Counted)
    BY <1>3 DEF pcd8544_init, GraphicCalls, pcd8544_clrscr, pcd8544_blit, pcd8544_gotoxy,
                pcd8544_putc, pcd8544_fill, pcd8544_putblock, Counting, GraphicBegin
  <2>4. calls' # -1
    BY <2>3, ShapeAssumption DEF Counted
  <2> QED
    BY <1>0, <2>1, <2>2, <2>3, <2>4, BeginBus DEF Exchanging
<1>4. CASE SetGraphicLine
  <2>1. /\ todo # <<>> /\ Head(todo).op \in LineKinds /\ todo' = Tail(todo)
        /\ UNCHANGED bus /\ calls' = calls
        /\ garbled' = (garbled \/ (spi.shifting /\ port # port'))
    BY <1>0, <1>4 DEF SetGraphicLine, Store, HeldOK, Rest
  <2>2. ~spi.shifting
    BY <1>0, <2>1 DEF Shifting, Doing, LineKinds
  <2>3. garbled' => garbled
    BY <2>1, <2>2
  <2>4. Head(todo).op \notin {"send", "wait", "recv"}
    BY <2>1 DEF LineKinds
  <2> QED
    BY <1>0, <2>1, <2>3, <2>4, SetUpFirst, PlainBus
<1>5. CASE (Load \/ Configure \/ Pause) /\ UNCHANGED <<bus, graphic>>
  <2>1. /\ todo # <<>> /\ Head(todo).op \in {"low", "high", "output", "delay"}
        /\ todo' = Tail(todo) \/ UNCHANGED todo
    BY <1>5 DEF Load, Configure, Pause, Rest, Doing
  <2>2. calls # -1
    BY <1>0, <2>1, SetUpFirst
  <2> QED
    BY <1>0, <1>5, <2>1, <2>2, PlainBus DEF graphic
<1>6. CASE /\ Doing("pcd8544_write") /\ Becomes(ByteOps(Head(todo).pin, Head(todo).val))
           /\ UNCHANGED <<bus, graphic>>
  <2> DEFINE ops == ByteOps(Head(todo).pin, Head(todo).val)
  <2>1. todo # <<>> /\ Head(todo).op = "pcd8544_write" /\ Head(todo).val \in 0..255
    BY <1>0, <1>6, HeadOp DEF Doing, Op, Fit
  <2>2. Whole(ops)
    BY <2>1, ByteOpsWhole
  <2>3. todo' = ops \o Tail(todo)
    BY <1>6 DEF Becomes
  <2>4. calls # -1
    BY <1>0, <2>1, SetUpFirst
  <2>5. Tail(todo) \in Seq(Op) /\ Whole(Tail(todo))
    BY <1>0, <2>1, FramedTail DEF Framed
  <2>6. CASE ops = <<>>
    <3>1. todo' = Tail(todo)
      BY <2>3, <2>5, <2>6
    <3> QED
      BY <1>0, <1>6, <2>1, <2>4, <3>1, PlainBus DEF graphic
  <2>7. CASE ops # <<>>
    <3> HIDE DEF ops
    <3> QED
      BY <1>0, <1>6, <2>1, <2>2, <2>3, <2>4, <2>7, PlainBus DEF graphic
  <2> QED
    BY <2>6, <2>7
<1>7. CASE Transfer \/ ((SendByte \/ AwaitEnd \/ RecvByte) /\ UNCHANGED graphic)
  BY <1>0, <1>7, TransferBus DEF Transfer, graphic
<1> QED
  BY <1>1, <1>2, <1>3, <1>4, <1>5, <1>6, <1>7 DEF Graphic_, GraphicStep

LEMMA ResetBus ==
    ASSUME BusInv, NEW power \in BOOLEAN, Reset(power)
    PROVE  BusInv'
<1>0. spi \in SpiType
  BY DEF BusInv, SpiTypes
<1>1. /\ todo' = <<>> /\ answer' = -1 /\ got' = -1 /\ garbled' = garbled /\ calls' = -1
      /\ asked' = [master |-> FALSE, speed |-> 0, cmode |-> 0] /\ program' = program
      /\ spi' = [spi EXCEPT !.spe = FALSE, !.mstr = FALSE, !.spr = 0, !.x2 = 0, !.cmode = 0,
                            !.spif = FALSE, !.seen = FALSE, !.shifting = FALSE, !.spdr = 0]
  BY DEF Reset
<1>2. spi' = [spe |-> FALSE, mstr |-> FALSE, spr |-> 0, x2 |-> 0, cmode |-> 0,
              spif |-> FALSE, seen |-> FALSE, shifting |-> FALSE, spdr |-> 0]
  BY <1>0, <1>1 DEF SpiType
<1>3. SpiTypes' /\ SpiAsAsked'
  <2>1. spi' \in SpiType
    BY <1>2 DEF SpiType, Byte_
  <2>2. asked' \in [master : BOOLEAN, speed : 0..6, cmode : 0..3]
    BY <1>1
  <2>3. SpiAsAsked'
    BY <1>2 DEF SpiAsAsked
  <2> QED
    BY <2>1, <2>2, <2>3 DEF SpiTypes
<1>4. Shifting' /\ FlagSeen' /\ AnswerThere' /\ Exchanging'
  BY <1>1, <1>2 DEF Shifting, FlagSeen, AnswerThere, Exchanging, Doing
<1> QED
  BY <1>1, <1>3, <1>4 DEF BusInv

LEMMA BusStep ==
    ASSUME BusInv, LineInv, [Next]_vars
    PROVE  BusInv'
<1>1. CASE Graphic_
  BY <1>1, GraphicBus
<1>2. ASSUME NEW power \in BOOLEAN, Reset(power)
      PROVE  BusInv'
  BY <1>2, ResetBus
<1>3. CASE Text_ \/ Thermometer_ \/ Handler \/ Converter \/ Voltage \/ UNCHANGED vars
  <2>1. UNCHANGED <<bus, graphic, program>>
    BY <1>3 DEF Text_, Thermometer_, Handler, Converter, Voltage, board, vars
  <2>2. program = "graphic" => UNCHANGED todo
    BY <1>3 DEF Text_, Thermometer_, Handler, Multiplex, Deselect, Update, Select, Converter,
                Converted, Voltage, Drift, gpio, vars
  <2>3. /\ spi' = spi /\ asked' = asked /\ answer' = answer /\ got' = got
        /\ garbled' = garbled /\ calls' = calls /\ program' = program
    BY <2>1 DEF bus, graphic
  <2>4. SpiTypes' /\ SpiAsAsked'
    BY <2>3 DEF BusInv, SpiTypes, SpiAsAsked, SpiDivider, SpeedName
  <2>5. program = "graphic" => Shifting' /\ FlagSeen' /\ AnswerThere' /\ Exchanging'
    BY <2>2, <2>3 DEF BusInv, Shifting, FlagSeen, AnswerThere, Exchanging, Doing
  <2> QED
    BY <2>3, <2>4, <2>5 DEF BusInv
<1> QED
  BY <1>1, <1>2, <1>3 DEF Next, Main

(* A byte is never cut short, and the answer read is that to the byte sent. *)
LEMMA BusFramed ==
    ASSUME BusInv, LineInv
    PROVE  BytesFramed /\ SpiAsAsked
<1>1. ASSUME program = "graphic", got # -1, calls = -1
      PROVE  got = answer
  BY <1>1 DEF BusInv, Exchanging
<1> QED
  BY <1>1 DEF BusInv, BytesFramed

-----------------------------------------------------------------------------
(* The converter.                                                           *)

(* The settings that the programs ask for come to these registers.          *)
LEMMA Registers ==
    /\ AdcInit(0) = [mux |-> 64, presc |-> 7, auto |-> 0, busy |-> FALSE, data |-> 0]
    /\ Sensor = [mux |-> 200, presc |-> 7, auto |-> 0, busy |-> FALSE, data |-> 0]
    /\ AdcSet(0, 0, 7) = [mux |-> 0, presc |-> 7, auto |-> 0, busy |-> FALSE, data |-> 0]
<1>1. ReferenceSet(0, AVCC) = 64
  BY DEF ReferenceSet, AVCC
<1>2. AdcInit(0) = [mux |-> 64, presc |-> 7, auto |-> 0, busy |-> FALSE, data |-> 0]
  BY <1>1 DEF AdcInit
<1>3. ReferenceSet(ChannelSet(64, 8), INTERNAL_11) = 200
  <2>1. ChannelSet(64, 8) = 72
    BY DEF ChannelSet
  <2> QED
    BY <2>1 DEF ReferenceSet, INTERNAL_11
<1>4. ReferenceSet(ChannelSet(64, 0), 0) = 0
  <2>1. ChannelSet(64, 0) = 64
    BY DEF ChannelSet
  <2> QED
    BY <2>1 DEF ReferenceSet
<1>5. ASSUME NEW c, NEW r
      PROVE  AdcSet(c, r, 7) = [mux |-> ReferenceSet(ChannelSet(64, c), r), presc |-> 7,
                                auto |-> 0, busy |-> FALSE, data |-> 0]
  <2>1. PICK a : a = AdcInit(0)
    OBVIOUS
  <2>2. PICK m : m = ReferenceSet(ChannelSet(a.mux, c), r)
    OBVIOUS
  <2>3. PICK p : p = 7 % 8
    OBVIOUS
  <2>4. AdcSet(c, r, 7) = [a EXCEPT !.mux = m, !.presc = p]
    BY <2>1, <2>2, <2>3 DEF AdcSet
  <2>5. a = [mux |-> 64, presc |-> 7, auto |-> 0, busy |-> FALSE, data |-> 0] /\ p = 7
    BY <1>2, <2>1, <2>3
  <2>6. AdcSet(c, r, 7) = [mux |-> m, presc |-> 7, auto |-> 0, busy |-> FALSE, data |-> 0]
    BY <2>4, <2>5
  <2> QED
    BY <2>2, <2>5, <2>6
<1> QED
  BY <1>2, <1>3, <1>4, <1>5 DEF Sensor

LEMMA RegistersType ==
    ASSUME NEW a, a = AdcInit(0) \/ a = Sensor \/ a = AdcSet(0, 0, 7)
    PROVE  a \in AdcType
<1>1. PICK m \in Byte_ : a = [mux |-> m, presc |-> 7, auto |-> 0, busy |-> FALSE, data |-> 0]
  <2>1. 64 \in Byte_ /\ 200 \in Byte_ /\ 0 \in Byte_
    BY DEF Byte_
  <2> QED
    BY <2>1, Registers
<1> QED
  BY <1>1 DEF AdcType

ThermoInv == ThermoTypes /\ AdcAsAsked

LEMMA ThermoInit_ == Init => ThermoInv
<1> SUFFICES ASSUME Init PROVE ThermoInv
  OBVIOUS
<1> USE DEF Init, ThermoInit
<1>1. AdcInit(0) \in AdcType
  BY RegistersType
<1>2. AdcAsAsked
  BY Registers DEF AdcAsAsked, AVCC
<1> QED
  BY <1>1, <1>2, ThermometerAssumption DEF ThermoInv, ThermoTypes

LEMMA ThermoStep_ ==
    ASSUME ThermoInv, [Next]_vars
    PROVE  ThermoInv'
<1>0. /\ adc \in AdcType /\ level \in Readings /\ result \in Readings \cup {0}
      /\ smooth \in Readings \cup {0} /\ counter \in 0..CounterMod - 1 /\ AdcAsAsked
      /\ CounterMod \in Nat \ {0}
  BY ThermometerAssumption DEF ThermoInv, ThermoTypes
<1>1. CASE UNCHANGED thermo
  BY <1>1 DEF thermo, ThermoInv, ThermoTypes, AdcAsAsked
<1>2. ASSUME NEW power \in BOOLEAN, Reset(power)
      PROVE  ThermoInv'
  <2>1. /\ adc' = AdcInit(0) /\ wanted' = [channel |-> 0, ref |-> AVCC, presc |-> 7]
        /\ result' = 0 /\ smooth' = 0 /\ counter' = 0 /\ level' = level
    BY <1>2 DEF Reset
  <2>2. AdcInit(0) \in AdcType
    BY RegistersType
  <2>3. AdcAsAsked'
    BY <2>1, Registers DEF AdcAsAsked, AVCC
  <2> QED
    BY <1>0, <2>1, <2>2, <2>3 DEF ThermoInv, ThermoTypes
<1>3. CASE SetUpAdc /\ UNCHANGED <<level, result, smooth, counter>>
  <2>1. adc' \in AdcType
    <3>1. Sensor \in AdcType /\ AdcSet(0, 0, 7) \in AdcType
      BY RegistersType
    <3> QED
      BY <1>3, <3>1 DEF SetUpAdc
  <2>2. AdcAsAsked'
    BY <1>3, Registers DEF SetUpAdc, AdcAsAsked, INTERNAL_11
  <2> QED
    BY <1>0, <1>3, <2>1, <2>2 DEF ThermoInv, ThermoTypes
<1>4. CASE Trigger
  <2>1. adc' \in AdcType /\ AdcAsAsked'
    BY <1>0, <1>4 DEF Trigger, AdcType, AdcAsAsked
  <2> QED
    BY <1>0, <1>4, <2>1 DEF Trigger, ThermoInv, ThermoTypes
<1>5. CASE Converted
  <2>1. adc' \in AdcType /\ AdcAsAsked'
    BY <1>0, <1>5 DEF Converted, AdcType, AdcAsAsked
  <2> QED
    BY <1>0, <1>5, <2>1 DEF Converted, ThermoInv, ThermoTypes
<1>6. CASE Poll
  <2>1. result' \in Readings \cup {0} /\ AdcAsAsked'
    BY <1>0, <1>6 DEF Poll, AdcType, AdcAsAsked
  <2> QED
    BY <1>0, <1>6, <2>1 DEF Poll, ThermoInv, ThermoTypes
<1>7. CASE Smooth
  <2>1. NextCount \in 0..CounterMod - 1 /\ 0 \in 0..CounterMod - 1
    BY <1>0 DEF NextCount
  <2>2. counter' \in 0..CounterMod - 1 /\ smooth' \in Readings \cup {0} /\ AdcAsAsked'
    BY <1>0, <1>7, <2>1 DEF Smooth, AdcAsAsked
  <2> QED
    BY <1>0, <1>7, <2>2 DEF Smooth, ThermoInv, ThermoTypes
<1>8. CASE PutDigit \/ Sleep
  <2>1. UNCHANGED <<adc, wanted, level, result, smooth, counter>>
    BY <1>8 DEF PutDigit, Sleep
  <2>2. AdcAsAsked'
    BY <1>0, <2>1 DEF AdcAsAsked
  <2> QED
    BY <1>0, <2>1, <2>2 DEF ThermoInv, ThermoTypes
<1>9. CASE Drift
  <2>1. level' \in Readings /\ AdcAsAsked'
    BY <1>0, <1>9 DEF Drift, AdcAsAsked
  <2> QED
    BY <1>0, <1>9, <2>1 DEF Drift, ThermoInv, ThermoTypes
<1> QED
  BY <1>1, <1>2, <1>3, <1>4, <1>5, <1>6, <1>7, <1>8, <1>9
     DEF Next, Main, Text_, Graphic_, Thermometer_, ThermoStep, Handler, Converter, Voltage, vars

-----------------------------------------------------------------------------
(* The invariant of the whole.                                              *)

BoardInv == LineInv /\ LcdTypes /\ GlcdTypes /\ BusInv /\ ThermoInv

LEMMA BoardInit == Init => BoardInv
<1> SUFFICES ASSUME Init PROVE BoardInv
  OBVIOUS
<1>1. LcdTypes
  BY PowerOnType DEF Init, LcdInit, LcdTypes
<1>2. GlcdTypes
  BY GlcdOffType, ShapeAssumption DEF Init, GraphicInit, GlcdTypes
<1> QED
  BY <1>1, <1>2, LineInit, BusInit_, ThermoInit_ DEF BoardInv

LEMMA BoardStep == BoardInv /\ [Next]_vars => BoardInv'
  BY LineStep, LcdTypesStep, GlcdTypesStep, BusStep, ThermoStep_ DEF BoardInv, BusInv

LEMMA BoardTypes == BoardInv => LinesSound
<1> SUFFICES ASSUME BoardInv PROVE LinesSound
  OBVIOUS
<1> USE DEF BoardInv
<1>1. Len(held) <= 1 /\ (held # <<>> => todo # <<>> /\ held[1] = port)
  <2>1. CASE held = <<>>
    BY <2>1
  <2>2. CASE held = <<port>> /\ todo # <<>>
    BY <2>2
  <2> QED
    BY <2>1, <2>2 DEF LineInv, HeldOK
<1>2. disp.addr \in 0..Cells - 1 /\ disp.half \in -1..15
  BY DEF LcdTypes, DispType, Addresses, Halves
<1>3. disp.busy \in 0..WarmUp
  <2>1. disp.busy \in Nat /\ disp.busy <= WarmUp
    BY DEF LcdTypes, DispType
  <2>2. WarmUp \in Nat
    BY DEF WarmUp
  <2> QED
    BY <2>1, <2>2
<1>4. spi.spdr \in Byte_
  BY DEF BusInv, SpiTypes, SpiType
<1>5. glcd.x \in 0..Width - 1 /\ glcd.y \in 0..Banks - 1
  BY DEF GlcdTypes, GlcdType, Columns, Rows
<1>6. pos.x \in 0..Width /\ pos.y \in 0..Banks - 1
  BY DEF LineInv, PosOK
<1>7. selected \in 0..Displays - 1 /\ \A d \in 0..Displays - 1 : segdata[d] \in Byte_
  BY DEF LineInv, DigitsOK, Byte_
<1>8. counter \in 0..CounterMod - 1 /\ smooth \in Readings \cup {0} /\ adc.mux \in Byte_
  BY DEF ThermoInv, ThermoTypes, AdcType
<1>9. OneDigitLit
  BY DEF LineInv
<1> QED
  BY <1>1, <1>2, <1>3, <1>4, <1>5, <1>6, <1>7, <1>8, <1>9 DEF LinesSound, TypeOK

(* Whatever the handler interrupts, the lines, registers and digits stay in *)
(* the states that the other steps expect, and no two digits are lit        *)
(* (GPIO_SET_LOW, GPIO_SET_HIGH, d7seg_multiplex).                          *)
THEOREM LinesSafe == Spec => []LinesSound
  BY BoardInit, BoardStep, BoardTypes, PTL DEF Spec

(* The SPI port and the converter are set up as asked, no byte is cut short *)
(* and the byte read is the answer (spi_hw_poll.c, adc.h).                  *)
THEOREM PeripheralsSafe == Spec => []PeripheralsAsAsked
<1>1. BoardInv => PeripheralsAsAsked
  BY BusFramed DEF BoardInv, ThermoInv, PeripheralsAsAsked
<1> QED
  BY <1>1, BoardInit, BoardStep, PTL DEF Spec

-----------------------------------------------------------------------------
(* What a list of operations leads to: from the states D it ends in E, by   *)
(* the moves T, which are triples of a state, an operation and a state that *)
(* it may leave.  P[i] are the states before operation i.                   *)

Leads(T, D, s, E) ==
    \E P : /\ D \subseteq P[1] /\ P[Len(s) + 1] \subseteq E
           /\ \A i \in 1..Len(s) : \A x \in P[i] : \A y : <<x, s[i], y>> \in T => y \in P[i + 1]

LEMMA LeadsNowhere ==
    ASSUME NEW T, NEW D, NEW E, D \subseteq E
    PROVE  Leads(T, D, <<>>, E)
<1> DEFINE P == [i \in 1..1 |-> D]
<1>1. P[1] = D
  OBVIOUS
<1>2. D \subseteq P[1] /\ P[Len(<<>>) + 1] \subseteq E
  BY <1>1
<1> HIDE DEF P
<1> QED
  BY <1>2 DEF Leads

LEMMA LeadsEnd ==
    ASSUME NEW T, NEW D, NEW E, Leads(T, D, <<>>, E)
    PROVE  D \subseteq E
  BY DEF Leads

LEMMA LeadsWeaken ==
    ASSUME NEW T, NEW D, NEW E, NEW s, Leads(T, D, s, E), NEW F, F \subseteq D, NEW G, E \subseteq G
    PROVE  Leads(T, F, s, G)
  BY DEF Leads

LEMMA LeadsOne ==
    ASSUME NEW T, NEW D, NEW E, NEW o, \A x \in D : \A y : <<x, o, y>> \in T => y \in E
    PROVE  Leads(T, D, <<o>>, E)
<1> DEFINE P == [i \in 1..2 |-> IF i = 1 THEN D ELSE E]
           s == <<o>>
<1>1. P[1] = D /\ P[2] = E /\ Len(s) = 1 /\ s[1] = o
  OBVIOUS
<1> HIDE DEF P, s
<1>2. D \subseteq P[1] /\ P[Len(s) + 1] \subseteq E
  BY <1>1
<1>3. ASSUME NEW i \in 1..Len(s), NEW x \in P[i], NEW y, <<x, s[i], y>> \in T
      PROVE  y \in P[i + 1]
  <2>1. i = 1 /\ i + 1 = 2
    BY <1>1, <1>3
  <2> QED
    BY <1>1, <1>3, <2>1
<1>4. Leads(T, D, s, E)
  BY <1>2, <1>3 DEF Leads
<1> QED
  BY <1>4 DEF s

LEMMA LeadsTail ==
    ASSUME NEW T, NEW D, NEW E, NEW S, NEW s \in Seq(S), s # <<>>, Leads(T, D, s, E)
    PROVE  \E F : /\ \A x \in D : \A y : <<x, Head(s), y>> \in T => y \in F
                  /\ Leads(T, F, Tail(s), E)
<1> DEFINE n == Len(s)
           t == Tail(s)
<1>1. /\ n \in Nat /\ n >= 1 /\ Head(s) = s[1]
      /\ Len(t) = n - 1 /\ \A i \in 1..n - 1 : t[i] = s[i + 1]
  OBVIOUS
<1> HIDE DEF t
<1>2. PICK P : /\ D \subseteq P[1] /\ P[n + 1] \subseteq E
               /\ \A i \in 1..n : \A x \in P[i] : \A y : <<x, s[i], y>> \in T => y \in P[i + 1]
  BY DEF Leads
<1> DEFINE Q == [i \in 1..n |-> P[i + 1]]
<1>3. \A x \in D : \A y : <<x, Head(s), y>> \in T => y \in P[2]
  <2>1. 1 \in 1..n /\ 1 + 1 = 2
    BY <1>1
  <2> QED
    BY <1>1, <1>2, <2>1
<1>4. /\ \A i \in 1..n : Q[i] = P[i + 1]
      /\ 1 \in 1..n /\ n \in 1..n /\ Len(t) + 1 = n /\ 1 + 1 = 2
  BY <1>1
<1> HIDE DEF Q
<1>5. P[2] \subseteq Q[1] /\ Q[Len(t) + 1] \subseteq E
  BY <1>2, <1>4
<1>6. ASSUME NEW i \in 1..Len(t), NEW x \in Q[i], NEW y, <<x, t[i], y>> \in T
      PROVE  y \in Q[i + 1]
  <2>1. i \in 1..n /\ i + 1 \in 1..n /\ t[i] = s[i + 1]
    BY <1>1, <1>6
  <2>2. Q[i] = P[i + 1] /\ Q[i + 1] = P[(i + 1) + 1]
    BY <1>4, <2>1
  <2> QED
    BY <1>2, <1>6, <2>1, <2>2
<1>7. Leads(T, P[2], t, E)
  BY <1>5, <1>6 DEF Leads
<1> QED
  BY <1>3, <1>7 DEF t

LEMMA LeadsConcat ==
    ASSUME NEW T, NEW D, NEW E, NEW F, NEW S, NEW s \in Seq(S), NEW t \in Seq(S),
           Leads(T, D, s, E), Leads(T, E, t, F)
    PROVE  Leads(T, D, s \o t, F)
<1> DEFINE m == Len(s)
           n == Len(t)
           c == s \o t
<1>1. /\ m \in Nat /\ n \in Nat /\ Len(c) = m + n
      /\ \A i \in 1..m + n : c[i] = IF i <= m THEN s[i] ELSE t[i - m]
  BY Concatenated
<1> HIDE DEF c
<1>2. PICK P : /\ D \subseteq P[1] /\ P[m + 1] \subseteq E
               /\ \A i \in 1..m : \A x \in P[i] : \A y : <<x, s[i], y>> \in T => y \in P[i + 1]
  BY DEF Leads
<1>3. PICK Q : /\ E \subseteq Q[1] /\ Q[n + 1] \subseteq F
               /\ \A i \in 1..n : \A x \in Q[i] : \A y : <<x, t[i], y>> \in T => y \in Q[i + 1]
  BY DEF Leads
<1> DEFINE R == [i \in 1..m + n + 1 |-> IF i <= m THEN P[i] ELSE Q[i - m]]
<1>4. \A i \in 1..m + n + 1 : R[i] = IF i <= m THEN P[i] ELSE Q[i - m]
  OBVIOUS
<1> HIDE DEF R
<1>5. D \subseteq R[1]
  <2>1. CASE m = 0
    <3>1. R[1] = Q[1]
      <4>1. 1 \in 1..m + n + 1 /\ ~(1 <= m) /\ 1 - m = 1
        BY <1>1, <2>1
      <4> QED
        BY <1>4, <4>1
    <3>2. m + 1 = 1
      BY <2>1
    <3> QED
      BY <1>2, <1>3, <3>1, <3>2
  <2>2. CASE m > 0
    <3>1. R[1] = P[1]
      <4>1. 1 \in 1..m + n + 1 /\ 1 <= m
        BY <1>1, <2>2
      <4> QED
        BY <1>4, <4>1
    <3> QED
      BY <1>2, <3>1
  <2> QED
    BY <1>1, <2>1, <2>2
<1>6. R[Len(c) + 1] \subseteq F
  <2>1. /\ m + n + 1 \in 1..m + n + 1 /\ ~(m + n + 1 <= m) /\ (m + n + 1) - m = n + 1
        /\ Len(c) + 1 = m + n + 1
    BY <1>1
  <2>2. R[m + n + 1] = Q[n + 1]
    BY <1>4, <2>1
  <2> QED
    BY <1>3, <2>1, <2>2
<1>7. ASSUME NEW i \in 1..Len(c), NEW x \in R[i], NEW y, <<x, c[i], y>> \in T
      PROVE  y \in R[i + 1]
  <2>1. i \in 1..m + n /\ i \in 1..m + n + 1 /\ i + 1 \in 1..m + n + 1
    BY <1>1
  <2>2. CASE i < m
    <3>1. i \in 1..m /\ i <= m /\ i + 1 <= m
      BY <1>1, <2>1, <2>2
    <3>2. R[i] = P[i] /\ R[i + 1] = P[i + 1] /\ c[i] = s[i]
      BY <1>1, <1>4, <2>1, <3>1
    <3> QED
      BY <1>2, <1>7, <3>1, <3>2
  <2>3. CASE i = m
    <3>1. i \in 1..m /\ i <= m /\ ~(i + 1 <= m) /\ (i + 1) - m = 1 /\ i + 1 = m + 1
      BY <1>1, <2>1, <2>3
    <3>2. R[i] = P[i] /\ R[i + 1] = Q[1] /\ c[i] = s[i]
      BY <1>1, <1>4, <2>1, <3>1
    <3>3. y \in P[m + 1]
      BY <1>2, <1>7, <3>1, <3>2
    <3> QED
      BY <1>2, <1>3, <3>2, <3>3
  <2>4. CASE i > m
    <3>1. /\ i - m \in 1..n /\ ~(i <= m) /\ ~(i + 1 <= m) /\ (i + 1) - m = (i - m) + 1
      BY <1>1, <2>1, <2>4
    <3>2. R[i] = Q[i - m] /\ R[i + 1] = Q[(i - m) + 1] /\ c[i] = t[i - m]
      BY <1>1, <1>4, <2>1, <3>1
    <3> QED
      BY <1>3, <1>7, <3>1, <3>2
  <2> QED
    BY <1>1, <2>1, <2>2, <2>3, <2>4
<1>8. Leads(T, D, c, F)
  BY <1>5, <1>6, <1>7 DEF Leads
<1> QED
  BY <1>8 DEF c

LEMMA LeadsMove ==
    ASSUME NEW T, NEW D, NEW E, NEW o, Leads(T, D, <<o>>, E),
           NEW d \in D, NEW e, <<d, o, e>> \in T
    PROVE  e \in E
<1> DEFINE s == <<o>>
<1>1. Len(s) = 1 /\ s[1] = o
  OBVIOUS
<1> HIDE DEF s
<1>2. PICK P : /\ D \subseteq P[1] /\ P[Len(s) + 1] \subseteq E
               /\ \A i \in 1..Len(s) : \A x \in P[i] : \A y : <<x, s[i], y>> \in T => y \in P[i + 1]
  BY DEF Leads, s
<1>3. e \in P[1 + 1]
  BY <1>1, <1>2
<1> QED
  BY <1>1, <1>2, <1>3

(* The graphic display.  What an operation of a call makes of it: only the  *)
(* bytes and the reset line, which may be low already, matter.              *)

GlcdAfter(d, o) ==
    IF o.op = "pcd8544_write" THEN {IF o.pin = "data" THEN Shown(d, o.val) ELSE Instruction(d, o.val)}
    ELSE IF o.op = "low" /\ o.pin = "res" THEN {d, [GlcdOff EXCEPT !.ram = d.ram]} ELSE {d}
GlcdMoves == {t \in GlcdType \X PlainOp \X GlcdType : t[3] \in GlcdAfter(t[1], t[2])}

LEMMA GlcdMove ==
    ASSUME NEW d, NEW o, NEW e
    PROVE  <<d, o, e>> \in GlcdMoves
              <=> d \in GlcdType /\ o \in PlainOp /\ e \in GlcdType /\ e \in GlcdAfter(d, o)
  BY DEF GlcdMoves

LEMMA BlankedType ==
    ASSUME NEW d \in GlcdType
    PROVE  [GlcdOff EXCEPT !.ram = d.ram] \in GlcdType
  BY GlcdOffType DEF GlcdType

LEMMA GlcdAfterType ==
    ASSUME NEW d \in GlcdType, NEW o \in PlainOp
    PROVE  GlcdAfter(d, o) \subseteq GlcdType
<1>1. o.op = "pcd8544_write" => o.val \in 0..255
  BY DEF PlainOp, Op, Fit
<1> QED
  BY <1>1, BlankedType, ShownType, InstructionType DEF GlcdAfter

(* A step that is none of the display's leaves the rest as it was.          *)
Still(o) == o.op # "pcd8544_write" /\ ~(o.op = "low" /\ o.pin = "res")

LEMMA StillMove ==
    ASSUME NEW o, Still(o), NEW d, NEW e, <<d, o, e>> \in GlcdMoves
    PROVE  e = d
  BY GlcdMove DEF Still, GlcdAfter

(* The display as pcd8544_init leaves it, at a position, with a picture.    *)
Configured(d) == d.mode = 4 /\ d.vop = 64 /\ d.bias = 4 /\ d.tc = 1 /\ d.h = 0

Showing(x, y, ram) ==
    {d \in GlcdType : Configured(d) /\ d.x = x /\ d.y = y /\ d.ram = ram}

LEMMA ShowingX ==
    ASSUME NEW x, NEW y, NEW ram, NEW v \in Columns
    PROVE  Leads(GlcdMoves, Showing(x, y, ram), Command(SetX(v)), Showing(v, y, ram))
<1>1. SetX(v) \in 128..255 /\ (SetX(v) - 128) % Width = v
  BY ShapeAssumption DEF SetX, Columns
<1>2. ASSUME NEW d \in Showing(x, y, ram), NEW e, <<d, Byte("cmd", SetX(v)), e>> \in GlcdMoves
      PROVE  e \in Showing(v, y, ram)
  <2>1. d \in GlcdType /\ e \in GlcdType /\ e = Instruction(d, SetX(v))
    BY <1>2, GlcdMove DEF GlcdAfter, Byte, Showing
  <2>2. d.h = 0
    BY <1>2 DEF Showing, Configured
  <2>3. e = [d EXCEPT !.x = v]
    BY <1>1, <2>1, <2>2 DEF Instruction
  <2>4. e.x = v /\ e.y = d.y /\ e.ram = d.ram /\ Configured(e)
    BY <1>2, <2>1, <2>3 DEF GlcdType, Configured, Showing
  <2> QED
    BY <1>2, <2>1, <2>4 DEF Showing
<1> QED
  BY <1>2, LeadsOne DEF Command

LEMMA ShowingY ==
    ASSUME NEW x, NEW y, NEW ram, NEW v \in Rows
    PROVE  Leads(GlcdMoves, Showing(x, y, ram), Command(SetY(v)), Showing(x, v, ram))
<1>1. SetY(v) \in 64..127 /\ (SetY(v) - 64) % Banks = v
  BY ShapeAssumption DEF SetY, Rows
<1>2. ASSUME NEW d \in Showing(x, y, ram), NEW e, <<d, Byte("cmd", SetY(v)), e>> \in GlcdMoves
      PROVE  e \in Showing(x, v, ram)
  <2>1. d \in GlcdType /\ e \in GlcdType /\ e = Instruction(d, SetY(v))
    BY <1>2, GlcdMove DEF GlcdAfter, Byte, Showing
  <2>2. d.h = 0
    BY <1>2 DEF Showing, Configured
  <2>3. e = [d EXCEPT !.y = v]
    BY <1>1, <2>1, <2>2 DEF Instruction
  <2>4. e.y = v /\ e.x = d.x /\ e.ram = d.ram /\ Configured(e)
    BY <1>2, <2>1, <2>3 DEF GlcdType, Configured, Showing
  <2> QED
    BY <1>2, <2>1, <2>4 DEF Showing
<1> QED
  BY <1>2, LeadsOne DEF Command

(* pcd8544_gotoxy puts the display where it was asked.                      *)
LEMMA ShowingGoto ==
    ASSUME NEW x, NEW y, NEW ram, NEW v \in Columns, NEW w \in Rows
    PROVE  Leads(GlcdMoves, Showing(x, y, ram), GotoOps(v, w), Showing(v, w, ram))
<1>1. SetX(v) \in 0..255 /\ SetY(w) \in 0..255
  BY ShapeAssumption DEF SetX, SetY, Columns, Rows
<1>2. Command(SetX(v)) \in Seq(PlainOp) /\ Command(SetY(w)) \in Seq(PlainOp)
  BY <1>1, CommandPlain
<1>3. Leads(GlcdMoves, Showing(x, y, ram), Command(SetX(v)), Showing(v, y, ram))
  BY ShowingX
<1>4. Leads(GlcdMoves, Showing(v, y, ram), Command(SetY(w)), Showing(v, w, ram))
  BY ShowingY
<1> QED
  BY <1>2, <1>3, <1>4, LeadsConcat DEF GotoOps

Put(ram, x, y, b) == [ram EXCEPT ![y] = [ram[y] EXCEPT ![x] = b]]
NextX(x) == IF x + 1 < Width THEN x + 1 ELSE 0
NextY(x, y) == IF x + 1 < Width THEN y ELSE (y + 1) % Banks

LEMMA DataMove ==
    ASSUME NEW x, NEW y, NEW ram, NEW b, NEW d \in Showing(x, y, ram), NEW e,
           <<d, Byte("data", b), e>> \in GlcdMoves
    PROVE  e \in Showing(NextX(x), NextY(x, y), Put(ram, x, y, b))
<1>1. d \in GlcdType /\ e \in GlcdType /\ e = Shown(d, b)
  BY GlcdMove DEF GlcdAfter, Byte, Showing
<1>2. d.x = x /\ d.y = y /\ d.ram = ram /\ Configured(d)
  BY DEF Showing
<1>3. PICK n : n = Advanced([x |-> d.x, y |-> d.y])
  OBVIOUS
<1>4. n.x = NextX(x) /\ n.y = NextY(x, y)
  BY <1>2, <1>3 DEF Advanced, NextX, NextY
<1>5. PICK r : r = Put(ram, x, y, b)
  OBVIOUS
<1>6. e = [d EXCEPT !.ram = r, !.x = n.x, !.y = n.y]
  BY <1>1, <1>2, <1>3, <1>5 DEF Shown, Put, GlcdType
<1>7. e.x = n.x /\ e.y = n.y /\ e.ram = r /\ Configured(e)
  BY <1>1, <1>2, <1>6 DEF GlcdType, Configured
<1> QED
  BY <1>1, <1>4, <1>5, <1>7 DEF Showing

(* pcd8544_init, whatever the display was.                                  *)
Set(k) == {d \in GlcdType : /\ k \in 1..4 => d.h = 1
                            /\ k \in 2..6 => d.tc = 1
                            /\ k \in 3..6 => d.bias = 4
                            /\ k \in 4..6 => d.vop = 64
                            /\ k \in 5..6 => d.h = 0
                            /\ k = 6 => d.mode = 4}

LEMMA SettingMove ==
    ASSUME NEW k \in 0..5, NEW d \in Set(k), NEW v, v = Settings[k + 1]
    PROVE  Instruction(d, v) \in Set(k + 1)
<1>0. d \in GlcdType
  BY DEF Set
<1>1. k = 0 \/ k = 1 \/ k = 2 \/ k = 3 \/ k = 4 \/ k = 5
  OBVIOUS
<1>2. PICK e : e = Instruction(d, v)
  OBVIOUS
<1>3. e \in GlcdType
  <2>1. v \in 0..255
    BY <1>1, SettingBytes
  <2> QED
    BY <1>0, <1>2, <2>1, InstructionType
<1>4. CASE k = 0
  <2>1. v = 33
    BY <1>4, SettingBytes
  <2>2. e = [d EXCEPT !.h = 1]
    BY <1>2, <2>1 DEF Instruction
  <2> QED
    BY <1>0, <1>2, <1>3, <1>4, <2>2 DEF Set, GlcdType
<1>5. CASE k = 1
  <2>1. v = 5 /\ d.h = 1
    BY <1>5, SettingBytes DEF Set
  <2>2. e = [d EXCEPT !.tc = 1]
    BY <1>2, <2>1 DEF Instruction
  <2> QED
    BY <1>0, <1>2, <1>3, <1>5, <2>1, <2>2 DEF Set, GlcdType
<1>6. CASE k = 2
  <2>1. v = 20 /\ d.h = 1 /\ d.tc = 1
    BY <1>6, SettingBytes DEF Set
  <2>2. e = [d EXCEPT !.bias = 4]
    BY <1>2, <2>1 DEF Instruction
  <2> QED
    BY <1>0, <1>2, <1>3, <1>6, <2>1, <2>2 DEF Set, GlcdType
<1>7. CASE k = 3
  <2>1. v = 192 /\ d.h = 1 /\ d.tc = 1 /\ d.bias = 4
    BY <1>7, SettingBytes DEF Set
  <2>2. e = [d EXCEPT !.vop = 64]
    BY <1>2, <2>1 DEF Instruction
  <2> QED
    BY <1>0, <1>2, <1>3, <1>7, <2>1, <2>2 DEF Set, GlcdType
<1>8. CASE k = 4
  <2>1. v = 32 /\ d.tc = 1 /\ d.bias = 4 /\ d.vop = 64
    BY <1>8, SettingBytes DEF Set
  <2>2. e = [d EXCEPT !.h = 0]
    BY <1>2, <2>1 DEF Instruction
  <2> QED
    BY <1>0, <1>2, <1>3, <1>8, <2>1, <2>2 DEF Set, GlcdType
<1>9. CASE k = 5
  <2>1. v = 12 /\ d.h = 0 /\ d.tc = 1 /\ d.bias = 4 /\ d.vop = 64
    BY <1>9, SettingBytes DEF Set
  <2>2. e = [d EXCEPT !.mode = 4]
    BY <1>2, <2>1 DEF Instruction
  <2> QED
    BY <1>0, <1>2, <1>3, <1>9, <2>1, <2>2 DEF Set, GlcdType
<1> QED
  BY <1>1, <1>4, <1>5, <1>6, <1>7, <1>8, <1>9

(* An operation leaves a display a display.                                 *)
LEMMA LeadsAnywhere ==
    ASSUME NEW s \in Seq(PlainOp)
    PROVE  Leads(GlcdMoves, GlcdType, s, GlcdType)
<1> DEFINE n == Len(s)
           P == [i \in 1..n + 1 |-> GlcdType]
<1>1. n \in Nat /\ \A i \in 1..n + 1 : P[i] = GlcdType
  OBVIOUS
<1> HIDE DEF P
<1>2. GlcdType \subseteq P[1] /\ P[n + 1] \subseteq GlcdType
  BY <1>1
<1>3. ASSUME NEW i \in 1..n, NEW d \in P[i], NEW e, <<d, s[i], e>> \in GlcdMoves
      PROVE  e \in P[i + 1]
  <2>1. e \in GlcdType /\ i + 1 \in 1..n + 1
    BY <1>1, <1>3, GlcdMove
  <2> QED
    BY <1>1, <2>1
<1> QED
  BY <1>2, <1>3 DEF Leads

LEMMA InitLeads ==
    Leads(GlcdMoves, GlcdType, GraphicInitOps, {d \in GlcdType : Configured(d)})
<1> DEFINE op(i) == IF i % 2 = 1 THEN Byte("cmd", Settings[(i + 1) \div 2]) ELSE Delay(1000)
           t == [i \in 1..2 * Len(Settings) |-> op(i)]
           s == <<Output("res"), Output("dc"), Output("sce"), Low("res"), Delay(10000), High("res")>>
           P == [i \in 1..13 |-> Set(i \div 2)]
<1>1. s \in Seq(PlainOp)
  BY LineOps DEF Pins
<1>2. t \in Seq(PlainOp) /\ Len(t) = 12 /\ \A i \in 1..12 : t[i] = op(i)
  <2>1. \A k \in 1..6 : Settings[k] \in 0..255
    <3>1. \A k \in 1..6 : k = 1 \/ k = 2 \/ k = 3 \/ k = 4 \/ k = 5 \/ k = 6
      OBVIOUS
    <3> QED
      BY <3>1, SettingBytes
  <2>2. ASSUME NEW i \in 1..12 PROVE op(i) \in PlainOp
    <3>1. (i + 1) \div 2 \in 1..6
      OBVIOUS
    <3>2. Byte("cmd", Settings[(i + 1) \div 2]) \in PlainOp
      BY <2>1, <3>1, ByteOp
    <3>3. Delay(1000) \in PlainOp
      BY LineOps DEF Pins
    <3> QED
      BY <3>2, <3>3
  <2>3. 2 * Len(Settings) = 12
    BY SettingBytes
  <2> HIDE DEF op
  <2> QED
    BY <2>2, <2>3
<1>3. \A i \in 1..13 : P[i] = Set(i \div 2)
  OBVIOUS
<1> HIDE DEF s, t, P
<1>4. GlcdType \subseteq P[1] /\ P[12 + 1] \subseteq {d \in GlcdType : Configured(d)}
  <2>1. 1 \div 2 = 0 /\ 13 \div 2 = 6 /\ 12 + 1 = 13
    OBVIOUS
  <2>2. P[1] = Set(0) /\ P[12 + 1] = Set(6)
    BY <1>3, <2>1
  <2>3. GlcdType \subseteq Set(0) /\ Set(6) \subseteq {d \in GlcdType : Configured(d)}
    BY DEF Set, Configured
  <2> QED
    BY <2>2, <2>3
<1>5. ASSUME NEW i \in 1..12, NEW d \in P[i], NEW e, <<d, t[i], e>> \in GlcdMoves
      PROVE  e \in P[i + 1]
  <2>0. i \in 1..13 /\ i + 1 \in 1..13
    OBVIOUS
  <2>1. d \in Set(i \div 2) /\ P[i + 1] = Set((i + 1) \div 2) /\ t[i] = op(i)
    <3>1. P[i] = Set(i \div 2) /\ P[i + 1] = Set((i + 1) \div 2)
      BY <1>3, <2>0
    <3> HIDE DEF op
    <3> QED
      BY <1>2, <1>5, <3>1
  <2>2. CASE i % 2 = 1
    <3>1. PICK k \in 0..5 : k = i \div 2 /\ k + 1 = (i + 1) \div 2
      BY <2>2
    <3>2. t[i] = Byte("cmd", Settings[k + 1])
      BY <2>1, <2>2, <3>1
    <3>3. e = Instruction(d, Settings[k + 1])
      BY <1>5, <3>2, GlcdMove DEF GlcdAfter, Byte
    <3>4. e \in Set(k + 1)
      BY <2>1, <3>1, <3>3, SettingMove
    <3> QED
      BY <2>1, <3>1, <3>4
  <2>3. CASE i % 2 # 1
    <3>1. i \div 2 = (i + 1) \div 2
      BY <2>3
    <3>2. t[i] = Delay(1000)
      BY <2>1, <2>3
    <3>3. e = d
      BY <1>5, <3>2, StillMove DEF Still, Delay
    <3> QED
      BY <2>1, <3>1, <3>3
  <2> QED
    BY <2>2, <2>3
<1> HIDE DEF op
<1>6. Leads(GlcdMoves, GlcdType, t, {d \in GlcdType : Configured(d)})
  BY <1>2, <1>4, <1>5 DEF Leads
<1>7. Leads(GlcdMoves, GlcdType, s, GlcdType)
  BY <1>1, LeadsAnywhere
<1>8. GraphicInitOps = s \o t
  BY DEF GraphicInitOps, s, t, op
<1> QED
  BY <1>1, <1>2, <1>6, <1>7, <1>8, LeadsConcat

(* A row is filled byte by byte: `Part' is the picture after q rows and c   *)
(* columns.                                                                 *)
Part(value, old, q, c) ==
    [y \in Rows |-> [x \in Columns |-> IF y < q \/ (y = q /\ x < c) THEN value[y][x] ELSE old[y][x]]]

LEMMA PartNone ==
    ASSUME NEW value \in Pictures, NEW old \in Plane
    PROVE  Part(value, old, 0, 0) = old
<1>1. \A y \in Rows, x \in Columns : ~(y < 0 \/ (y = 0 /\ x < 0))
  BY ShapeAssumption DEF Rows, Columns
<1>2. \A y \in Rows : [x \in Columns |-> old[y][x]] = old[y]
  BY DEF Plane
<1>3. Part(value, old, 0, 0) = [y \in Rows |-> [x \in Columns |-> old[y][x]]]
  BY <1>1 DEF Part
<1> QED
  BY <1>2, <1>3 DEF Plane

LEMMA PartAll ==
    ASSUME NEW value \in Pictures, NEW old \in Plane
    PROVE  Part(value, old, Banks, 0) = value
<1>1. \A y \in Rows : y < Banks
  BY ShapeAssumption DEF Rows
<1>2. value \in [Rows -> [Columns -> 0..255]]
  BY DEF Pictures, Rows, Columns
<1>3. \A y \in Rows : [x \in Columns |-> value[y][x]] = value[y]
  BY <1>2
<1>4. Part(value, old, Banks, 0) = [y \in Rows |-> [x \in Columns |-> value[y][x]]]
  BY <1>1 DEF Part
<1> QED
  BY <1>2, <1>3, <1>4

LEMMA PartRow ==
    ASSUME NEW value \in Pictures, NEW old \in Plane, NEW q \in Rows
    PROVE  Part(value, old, q, Width) = Part(value, old, q + 1, 0)
<1>1. \A y \in Rows, x \in Columns :
         (y < q \/ (y = q /\ x < Width)) <=> (y < q + 1 \/ (y = q + 1 /\ x < 0))
  BY ShapeAssumption DEF Rows, Columns
<1> QED
  BY <1>1 DEF Part

LEMMA PartPut ==
    ASSUME NEW value \in Pictures, NEW old \in Plane, NEW q \in Rows, NEW c \in Columns
    PROVE  Put(Part(value, old, q, c), c, q, value[q][c]) = Part(value, old, q, c + 1)
<1> DEFINE f == Part(value, old, q, c)
           g == Part(value, old, q, c + 1)
<1>1. /\ \A y \in Rows, x \in Columns :
            f[y][x] = IF y < q \/ (y = q /\ x < c) THEN value[y][x] ELSE old[y][x]
      /\ \A y \in Rows, x \in Columns :
            g[y][x] = IF y < q \/ (y = q /\ x < c + 1) THEN value[y][x] ELSE old[y][x]
  BY DEF Part
<1>2. /\ f = [y \in Rows |-> [x \in Columns |-> f[y][x]]]
      /\ g = [y \in Rows |-> [x \in Columns |-> g[y][x]]]
  BY DEF Part
<1> HIDE DEF f, g
<1>3. Put(f, c, q, value[q][c])
         = [y \in Rows |-> [x \in Columns |-> IF y = q /\ x = c THEN value[q][c] ELSE f[y][x]]]
  <2> DEFINE row == [f[q] EXCEPT ![c] = value[q][c]]
  <2>1. f[q] = [x \in Columns |-> f[q][x]]
    BY <1>2
  <2>2. row = [x \in Columns |-> IF x = c THEN value[q][c] ELSE f[q][x]]
    BY <2>1
  <2> HIDE DEF row
  <2>3. [f EXCEPT ![q] = row] = [y \in Rows |-> IF y = q THEN row ELSE f[y]]
    BY <1>2
  <2>4. \A y \in Rows : f[y] = [x \in Columns |-> f[y][x]]
    BY <1>2
  <2>5. \A y \in Rows : (IF y = q THEN row ELSE f[y])
           = [x \in Columns |-> IF y = q /\ x = c THEN value[q][c] ELSE f[y][x]]
    BY <2>2, <2>4
  <2> QED
    BY <2>3, <2>5 DEF Put, row
<1>4. \A y \in Rows, x \in Columns : y \in Int /\ x \in Int
  BY DEF Rows, Columns
<1>5. \A y \in Rows, x \in Columns : (IF y = q /\ x = c THEN value[q][c] ELSE f[y][x]) = g[y][x]
  <2> TAKE y \in Rows, x \in Columns
  <2>1. y \in Int /\ x \in Int /\ q \in Int /\ c \in Int
    BY <1>4
  <2> QED
    BY <1>1, <2>1
<1> QED
  BY <1>2, <1>3, <1>5 DEF f, g

Stage(value, old, q, r) ==
    {d \in GlcdType : /\ Configured(d)
                      /\ d.ram = Part(value, old, q, IF r <= 1 THEN 0 ELSE r - 2)
                      /\ r = 0 /\ q = Banks => d.x = 0 /\ d.y = 0
                      /\ r >= 1 => d.x = IF r = 1 THEN 0 ELSE r - 2
                      /\ r >= 2 => d.y = q}

LEMMA StageShowing ==
    ASSUME NEW value, NEW old, NEW q \in Rows, NEW r \in 2..Width + 1
    PROVE  Stage(value, old, q, r) = Showing(r - 2, q, Part(value, old, q, r - 2))
<1>1. Width \in Nat /\ r \in Nat /\ ~(r <= 1) /\ r # 0 /\ r >= 1 /\ r # 1 /\ r >= 2
  BY ShapeAssumption
<1> QED
  BY <1>1 DEF Stage, Showing

LEMMA RowMove ==
    ASSUME NEW value \in Pictures, NEW old \in Plane, NEW q \in Rows, NEW r \in 0..Width + 1,
           NEW d \in Stage(value, old, q, r), NEW e, <<d, RowOp(value, q, r), e>> \in GlcdMoves
    PROVE  e \in IF r <= Width THEN Stage(value, old, q, r + 1) ELSE Stage(value, old, q + 1, 0)
<1>0. /\ Width \in Nat /\ Width >= 2 /\ Banks \in Nat /\ q \in Nat /\ q < Banks /\ r \in Nat
      /\ 0 \in Columns
  BY ShapeAssumption DEF Rows, Columns
<1>1. CASE r = 0
  <2>1. RowOp(value, q, r) = Byte("cmd", SetX(0))
    BY <1>1 DEF RowOp
  <2>2. d \in Showing(d.x, d.y, d.ram) /\ d.ram = Part(value, old, q, 0)
    BY <1>1 DEF Stage, Showing
  <2>3. e \in Showing(0, d.y, d.ram)
    <3>1. Leads(GlcdMoves, Showing(d.x, d.y, d.ram), <<Byte("cmd", SetX(0))>>, Showing(0, d.y, d.ram))
      BY <1>0, ShowingX DEF Command
    <3> QED
      BY <2>1, <2>2, <3>1, LeadsMove
  <2> QED
    BY <1>0, <1>1, <2>2, <2>3 DEF Stage, Showing
<1>2. CASE r = 1
  <2>1. RowOp(value, q, r) = Byte("cmd", SetY(q))
    BY <1>2 DEF RowOp
  <2>2. d \in Showing(0, d.y, d.ram) /\ d.ram = Part(value, old, q, 0)
    BY <1>2 DEF Stage, Showing
  <2>3. e \in Showing(0, q, d.ram)
    <3>1. Leads(GlcdMoves, Showing(0, d.y, d.ram), <<Byte("cmd", SetY(q))>>, Showing(0, q, d.ram))
      BY ShowingY DEF Command
    <3> QED
      BY <2>1, <2>2, <3>1, LeadsMove
  <2>4. r + 1 \in 2..Width + 1 /\ (r + 1) - 2 = 0
    BY <1>0, <1>2
  <2> QED
    BY <1>0, <1>2, <2>2, <2>3, <2>4, StageShowing
<1>3. CASE r >= 2
  <2>1. PICK c \in Columns : c = r - 2
    BY <1>0, <1>3 DEF Columns
  <2>2. RowOp(value, q, r) = Byte("data", value[q][c])
    BY <1>0, <1>3, <2>1 DEF RowOp
  <2>3. d \in Showing(c, q, Part(value, old, q, c))
    BY <1>0, <1>3, <2>1, StageShowing
  <2>4. e \in Showing(NextX(c), NextY(c, q), Part(value, old, q, c + 1))
    BY <2>2, <2>3, DataMove, PartPut
  <2>5. CASE r <= Width
    <3>1. r + 1 \in 2..Width + 1 /\ (r + 1) - 2 = c + 1 /\ c + 1 < Width
      BY <1>0, <1>3, <2>1, <2>5
    <3>2. NextX(c) = c + 1 /\ NextY(c, q) = q
      BY <3>1 DEF NextX, NextY
    <3> QED
      BY <2>4, <2>5, <3>1, <3>2, StageShowing
  <2>6. CASE ~(r <= Width)
    <3>1. c + 1 = Width
      BY <1>0, <2>1, <2>6
    <3>2. NextX(c) = 0 /\ NextY(c, q) = (q + 1) % Banks
      BY <1>0, <3>1 DEF NextX, NextY
    <3>3. e \in Showing(0, (q + 1) % Banks, Part(value, old, q + 1, 0))
      BY <2>4, <3>1, <3>2, PartRow
    <3>4. q + 1 = Banks => (q + 1) % Banks = 0
      BY <1>0
    <3> QED
      BY <2>6, <3>3, <3>4 DEF Stage, Showing
  <2> QED
    BY <2>5, <2>6
<1> QED
  BY <1>0, <1>1, <1>2, <1>3

LEMMA Divided ==
    ASSUME NEW n \in Nat \ {0}, NEW q \in Nat, NEW r \in 0..n - 1
    PROVE  (q * n + r) \div n = q /\ (q * n + r) % n = r
<1>1. PICK k \in Nat : k = q * n + r
  OBVIOUS
<1>2. k \in 0..(q + 1) * n - 1
  <2>1. (q + 1) * n = q * n + n /\ q * n \in Nat
    OBVIOUS
  <2> QED
    BY <1>1, <2>1
<1>3. k \div n \in 0..(q + 1) - 1 /\ k % n \in 0..n - 1 /\ k = (k \div n) * n + (k % n)
  <2>1. q + 1 \in Nat
    OBVIOUS
  <2> QED
    BY <1>2, <2>1, Quotient
<1>4. PICK p \in Nat : p = k \div n
  BY <1>3
<1>5. PICK s \in 0..n - 1 : s = k % n
  BY <1>3
<1>6. q * n + r = p * n + s
  BY <1>1, <1>3, <1>4, <1>5
<1>7. ~(q < p)
  <2>1. SUFFICES ASSUME q + 1 <= p PROVE FALSE
    BY <1>4
  <2>2. (q + 1) * n <= p * n /\ (q + 1) * n = q * n + n
    BY <1>4, <2>1
  <2>3. q * n \in Nat /\ p * n \in Nat
    BY <1>4
  <2> QED
    BY <1>5, <1>6, <2>2, <2>3
<1>8. ~(p < q)
  <2>1. SUFFICES ASSUME p + 1 <= q PROVE FALSE
    BY <1>4
  <2>2. (p + 1) * n <= q * n /\ (p + 1) * n = p * n + n
    BY <1>4, <2>1
  <2>3. q * n \in Nat /\ p * n \in Nat
    BY <1>4
  <2> QED
    BY <1>5, <1>6, <2>2, <2>3
<1>9. p = q /\ s = r
  <2>1. p = q
    BY <1>4, <1>7, <1>8
  <2>2. q * n \in Nat
    OBVIOUS
  <2> QED
    BY <1>5, <1>6, <2>1, <2>2
<1> QED
  BY <1>1, <1>4, <1>5, <1>9

LEMMA FillLeads ==
    ASSUME NEW value \in Pictures, NEW x, NEW y, NEW old \in Plane
    PROVE  Leads(GlcdMoves, Showing(x, y, old), FillOps(value), Showing(0, 0, value))
<1> DEFINE w == Width + 2
           n == Banks * w
           s == FillOps(value)
           P == [i \in 1..n + 1 |-> Stage(value, old, (i - 1) \div w, (i - 1) % w)]
<1>1. /\ Banks \in Nat /\ Banks >= 1 /\ Width \in Nat /\ Width >= 2
      /\ w \in Nat \ {0} /\ n \in Nat
  BY ShapeAssumption
<1>2. Len(s) = n /\ \A i \in 1..n : s[i] = RowOp(value, (i - 1) \div w, (i - 1) % w)
  BY <1>1 DEF FillOps
<1>3. \A i \in 1..n + 1 : P[i] = Stage(value, old, (i - 1) \div w, (i - 1) % w)
  OBVIOUS
<1> HIDE DEF s, P
<1>4. ASSUME NEW q \in Nat, NEW r \in 0..w - 1, q * w + r \in 0..n
      PROVE  P[q * w + r + 1] = Stage(value, old, q, r)
  <2>1. PICK k \in 0..n : k = q * w + r
    BY <1>4
  <2>2. k \div w = q /\ k % w = r
    BY <1>1, <2>1, Divided
  <2> HIDE DEF n, w
  <2>3. k + 1 \in 1..n + 1 /\ (k + 1) - 1 = k
    BY <1>1
  <2>4. P[k + 1] = Stage(value, old, k \div w, k % w)
    BY <1>3, <2>3
  <2> QED
    BY <2>1, <2>2, <2>4
<1>5. Showing(x, y, old) \subseteq P[1]
  <2>1. 0 \in 0..w - 1 /\ 0 * w + 0 \in 0..n /\ 0 * w + 0 + 1 = 1
    BY <1>1
  <2>2. P[1] = Stage(value, old, 0, 0)
    BY <1>4, <2>1
  <2>3. Part(value, old, 0, 0) = old
    BY PartNone
  <2> QED
    BY <1>1, <2>2, <2>3 DEF Stage, Showing
<1>6. P[n + 1] \subseteq Showing(0, 0, value)
  <2>1. 0 \in 0..w - 1 /\ Banks * w + 0 \in 0..n /\ Banks * w + 0 + 1 = n + 1
    BY <1>1
  <2>2. P[n + 1] = Stage(value, old, Banks, 0)
    BY <1>1, <1>4, <2>1
  <2>3. Part(value, old, Banks, 0) = value
    BY PartAll
  <2> QED
    BY <1>1, <2>2, <2>3 DEF Stage, Showing
<1>7. ASSUME NEW i \in 1..n, NEW d \in P[i], NEW e, <<d, s[i], e>> \in GlcdMoves
      PROVE  e \in P[i + 1]
  <2>1. i - 1 \in 0..Banks * w - 1
    BY <1>1
  <2>2. PICK q \in 0..Banks - 1 : q = (i - 1) \div w
    BY <1>1, <2>1, Quotient
  <2>3. PICK r \in 0..w - 1 : r = (i - 1) % w
    BY <1>1, <2>1, Quotient
  <2>4. i - 1 = q * w + r
    BY <1>1, <2>1, <2>2, <2>3, Quotient
  <2>5. s[i] = RowOp(value, q, r)
    BY <1>2, <2>2, <2>3
  <2>6. d \in Stage(value, old, q, r)
    <3>1. q * w + r \in 0..n /\ q * w + r + 1 = i
      BY <1>1, <2>4
    <3> QED
      BY <1>4, <1>7, <3>1
  <2>7. q \in Rows /\ r \in 0..Width + 1
    BY <1>1 DEF Rows
  <2>8. e \in IF r <= Width THEN Stage(value, old, q, r + 1) ELSE Stage(value, old, q + 1, 0)
    BY <1>7, <2>5, <2>6, <2>7, RowMove
  <2>9. CASE r <= Width
    <3>1. r + 1 \in 0..w - 1 /\ q * w + (r + 1) \in 0..n /\ q * w + (r + 1) + 1 = i + 1
      BY <1>1, <2>4, <2>7, <2>9
    <3>2. P[i + 1] = Stage(value, old, q, r + 1)
      BY <1>4, <3>1
    <3> QED
      BY <2>8, <2>9, <3>2
  <2>10. CASE ~(r <= Width)
    <3>1. r = w - 1
      BY <1>1, <2>7, <2>10
    <3>2. (q + 1) * w = q * w + w
      BY <1>1
    <3>3. 0 \in 0..w - 1 /\ (q + 1) * w + 0 \in 0..n /\ (q + 1) * w + 0 + 1 = i + 1
      BY <1>1, <2>4, <3>1, <3>2
    <3>4. P[i + 1] = Stage(value, old, q + 1, 0)
      BY <1>4, <3>3
    <3> QED
      BY <2>8, <2>10, <3>4
  <2> QED
    BY <2>9, <2>10
<1>8. Leads(GlcdMoves, Showing(x, y, old), s, Showing(0, 0, value))
  BY <1>2, <1>5, <1>6, <1>7 DEF Leads
<1> QED
  BY <1>8 DEF s

(* A character: the empty column and those of its glyph.                    *)
Columned(c, i) == IF i = 1 THEN 0 ELSE Glyph(c, i - 1)
CharPart(old, x0, y0, c, j) ==
    [y \in Rows |-> [x \in Columns |-> IF y = y0 /\ x0 <= x /\ x < x0 + j THEN Columned(c, x - x0 + 1)
                                       ELSE old[y][x]]]

LEMMA CharPartPut ==
    ASSUME NEW old \in Plane, NEW x0 \in Columns, NEW y0 \in Rows, NEW c, NEW j \in Nat,
           x0 + j \in Columns
    PROVE  Put(CharPart(old, x0, y0, c, j), x0 + j, y0, Columned(c, j + 1))
              = CharPart(old, x0, y0, c, j + 1)
<1> DEFINE f == CharPart(old, x0, y0, c, j)
           g == CharPart(old, x0, y0, c, j + 1)
           v == Columned(c, j + 1)
<1>1. /\ \A y \in Rows, x \in Columns :
            f[y][x] = IF y = y0 /\ x0 <= x /\ x < x0 + j THEN Columned(c, x - x0 + 1) ELSE old[y][x]
      /\ \A y \in Rows, x \in Columns :
            g[y][x] = IF y = y0 /\ x0 <= x /\ x < x0 + (j + 1) THEN Columned(c, x - x0 + 1)
                      ELSE old[y][x]
  BY DEF CharPart
<1>2. /\ f = [y \in Rows |-> [x \in Columns |-> f[y][x]]]
      /\ g = [y \in Rows |-> [x \in Columns |-> g[y][x]]]
  BY DEF CharPart
<1> HIDE DEF f, g, v
<1>3. Put(f, x0 + j, y0, v)
         = [y \in Rows |-> [x \in Columns |-> IF y = y0 /\ x = x0 + j THEN v ELSE f[y][x]]]
  <2> DEFINE k == x0 + j
             row == [f[y0] EXCEPT ![k] = v]
  <2> HIDE DEF k
  <2>1. f[y0] = [x \in Columns |-> f[y0][x]]
    BY <1>2
  <2>2. row = [x \in Columns |-> IF x = k THEN v ELSE f[y0][x]]
    BY <2>1
  <2> HIDE DEF row
  <2>3. [f EXCEPT ![y0] = row] = [y \in Rows |-> IF y = y0 THEN row ELSE f[y]]
    BY <1>2
  <2>4. \A y \in Rows : f[y] = [x \in Columns |-> f[y][x]]
    BY <1>2
  <2>5. \A y \in Rows : (IF y = y0 THEN row ELSE f[y])
           = [x \in Columns |-> IF y = y0 /\ x = k THEN v ELSE f[y][x]]
    BY <2>2, <2>4
  <2> QED
    BY <2>3, <2>5 DEF Put, row, k
<1>4. ASSUME NEW y \in Rows, NEW x \in Columns
      PROVE  (IF y = y0 /\ x = x0 + j THEN v ELSE f[y][x]) = g[y][x]
  <2>1. y \in Int /\ x \in Int /\ x0 \in Int /\ y0 \in Int
    BY DEF Rows, Columns
  <2>2. CASE y = y0 /\ x = x0 + j
    <3>1. x0 <= x /\ x < x0 + (j + 1) /\ x - x0 + 1 = j + 1
      BY <2>1, <2>2
    <3> QED
      BY <1>1, <2>2, <3>1 DEF v
  <2>3. CASE ~(y = y0 /\ x = x0 + j)
    <3>1. (y = y0 /\ x0 <= x /\ x < x0 + j) <=> (y = y0 /\ x0 <= x /\ x < x0 + (j + 1))
      BY <2>1, <2>3
    <3>2. f[y][x] = g[y][x]
      BY <1>1, <3>1
    <3> QED
      BY <2>3, <3>2
  <2> QED
    BY <2>2, <2>3
<1> QED
  BY <1>2, <1>3, <1>4 DEF f, g, v

LEMMA CharPartNone ==
    ASSUME NEW old \in Plane, NEW x0 \in Columns, NEW y0 \in Rows, NEW c
    PROVE  CharPart(old, x0, y0, c, 0) = old
<1>1. \A y \in Rows, x \in Columns : ~(y = y0 /\ x0 <= x /\ x < x0 + 0)
  BY DEF Rows, Columns
<1>2. \A y \in Rows : [x \in Columns |-> old[y][x]] = old[y]
  BY DEF Plane
<1>3. CharPart(old, x0, y0, c, 0) = [y \in Rows |-> [x \in Columns |-> old[y][x]]]
  BY <1>1 DEF CharPart
<1> QED
  BY <1>2, <1>3 DEF Plane

(* The end of a line is the start of the next.                              *)
EndX(x) == IF x < Width THEN x ELSE 0
EndY(x, y) == IF x < Width THEN y ELSE (y + 1) % Banks

GlyphOps(c) == [i \in 1..FontLength + 1 |-> Byte("data", IF i = 1 THEN 0 ELSE Glyph(c, i - 1))]

LEMMA GlyphLeads ==
    ASSUME NEW c \in Letters, NEW old \in Plane, NEW x0 \in Columns, NEW y0 \in Rows,
           x0 + FontLength + 1 <= Width
    PROVE  Leads(GlcdMoves, Showing(x0, y0, old), GlyphOps(c),
                 Showing(EndX(x0 + FontLength + 1), EndY(x0 + FontLength + 1, y0),
                         CharPart(old, x0, y0, c, FontLength + 1)))
<1> DEFINE n == FontLength + 1
           s == GlyphOps(c)
           At(j) == Showing(EndX(x0 + j), EndY(x0 + j, y0), CharPart(old, x0, y0, c, j))
           P == [i \in 1..n + 1 |-> At(i - 1)]
<1>1. Width \in Nat /\ FontLength \in Nat /\ n \in Nat /\ n >= 1 /\ x0 \in Nat /\ x0 + n <= Width
  BY ShapeAssumption DEF Columns
<1>2. Len(s) = n /\ \A i \in 1..n : s[i] = Byte("data", Columned(c, i))
  BY <1>1 DEF GlyphOps, Columned
<1> HIDE DEF At
<1>3. \A i \in 1..n + 1 : P[i] = At(i - 1)
  OBVIOUS
<1> HIDE DEF s, P
<1>4. Showing(x0, y0, old) \subseteq P[1]
  <2>1. 1 \in 1..n + 1 /\ 1 - 1 = 0 /\ x0 + 0 = x0 /\ x0 < Width
    BY <1>1
  <2>2. P[1] = At(0)
    BY <1>3, <2>1
  <2>3. EndX(x0 + 0) = x0 /\ EndY(x0 + 0, y0) = y0
    BY <2>1 DEF EndX, EndY
  <2>4. CharPart(old, x0, y0, c, 0) = old
    BY CharPartNone
  <2> QED
    BY <2>2, <2>3, <2>4 DEF At
<1>5. P[n + 1] = At(n)
  <2>1. n + 1 \in 1..n + 1 /\ (n + 1) - 1 = n
    BY <1>1
  <2> QED
    BY <1>3, <2>1
<1>6. ASSUME NEW i \in 1..n, NEW d \in P[i], NEW e, <<d, s[i], e>> \in GlcdMoves
      PROVE  e \in P[i + 1]
  <2>1. PICK j \in Nat : j = i - 1
    BY <1>1
  <2>2. i \in 1..n + 1 /\ i + 1 \in 1..n + 1 /\ (i + 1) - 1 = j + 1 /\ i = j + 1
    BY <1>1, <2>1
  <2>3. P[i] = At(j) /\ P[i + 1] = At(j + 1)
    BY <1>3, <2>1, <2>2
  <2>4. x0 + j \in Columns /\ x0 + j < Width /\ x0 + (j + 1) = (x0 + j) + 1
    BY <1>1, <2>1 DEF Columns
  <2>5. EndX(x0 + j) = x0 + j /\ EndY(x0 + j, y0) = y0
    BY <2>4 DEF EndX, EndY
  <2>6. d \in Showing(x0 + j, y0, CharPart(old, x0, y0, c, j))
    BY <1>6, <2>3, <2>5 DEF At
  <2>7. s[i] = Byte("data", Columned(c, j + 1))
    BY <1>2, <2>2
  <2>8. e \in Showing(NextX(x0 + j), NextY(x0 + j, y0), CharPart(old, x0, y0, c, j + 1))
    BY <1>6, <2>4, <2>6, <2>7, DataMove, CharPartPut
  <2>9. NextX(x0 + j) = EndX(x0 + (j + 1)) /\ NextY(x0 + j, y0) = EndY(x0 + (j + 1), y0)
    BY <2>4 DEF NextX, NextY, EndX, EndY
  <2> QED
    BY <2>3, <2>8, <2>9 DEF At
<1>7. Leads(GlcdMoves, Showing(x0, y0, old), s, At(n))
  BY <1>2, <1>4, <1>5, <1>6 DEF Leads
<1>8. x0 + n = x0 + FontLength + 1
  BY <1>1
<1> QED
  BY <1>7, <1>8 DEF s, At

LEMMA CharAtType ==
    ASSUME PosOK, CharAt.y < Banks
    PROVE  /\ CharAt.x \in Columns /\ CharAt.y \in Rows
           /\ CharAt.x + FontLength + 1 <= Width
           /\ ~NoRoom => CharAt = pos
           /\ NoRoom => CharAt.x = 0 /\ CharAt.y = pos.y + 1
<1>1. pos.x \in 0..Width /\ pos.y \in 0..Banks - 1
  BY DEF PosOK
<1>2. /\ Width \in Nat /\ Width >= 2 /\ Banks \in Nat /\ FontLength \in Nat /\ FontLength >= 1
      /\ FontLength + 1 <= Width
  BY ShapeAssumption
<1>3. CASE NoRoom
  BY <1>1, <1>2, <1>3 DEF CharAt, Columns, Rows
<1>4. CASE ~NoRoom
  BY <1>1, <1>2, <1>4 DEF CharAt, NoRoom, Columns, Rows
<1> QED
  BY <1>3, <1>4

LEMMA CharLeads ==
    ASSUME NEW c \in Letters, NEW old \in Plane, PosOK, CharAt.y < Banks,
           NEW x, NEW y, pos.x < Width => x = pos.x /\ y = pos.y
    PROVE  Leads(GlcdMoves, Showing(x, y, old), CharOps(c),
                 Showing(EndX(AfterChar(CharAt.x)), EndY(AfterChar(CharAt.x), CharAt.y),
                         CharPart(old, CharAt.x, CharAt.y, c, FontLength + 1)))
<1>0. /\ CharAt.x \in Columns /\ CharAt.y \in Rows /\ CharAt.x + FontLength + 1 <= Width
      /\ ~NoRoom => CharAt = pos
      /\ NoRoom => CharAt.x = 0 /\ CharAt.y = pos.y + 1
  BY CharAtType
<1> DEFINE go == IF NoRoom THEN GotoOps(0, pos.y + 1) ELSE <<>>
           E == Showing(EndX(AfterChar(CharAt.x)), EndY(AfterChar(CharAt.x), CharAt.y),
                        CharPart(old, CharAt.x, CharAt.y, c, FontLength + 1))
<1>1. Leads(GlcdMoves, Showing(CharAt.x, CharAt.y, old), GlyphOps(c), E)
  BY <1>0, GlyphLeads DEF AfterChar
<1> HIDE DEF E
<1>2. go \in Seq(PlainOp) /\ Leads(GlcdMoves, Showing(x, y, old), go, Showing(CharAt.x, CharAt.y, old))
  <2>1. CASE NoRoom
    <3>1. go = GotoOps(CharAt.x, CharAt.y)
      BY <1>0, <2>1
    <3>2. CharAt.x \in 0..Width - 1 /\ CharAt.y \in Nat
      BY <1>0, ShapeAssumption DEF Columns, Rows
    <3>3. GotoOps(CharAt.x, CharAt.y) \in Seq(PlainOp)
      BY <3>2, GotoOpsPlain
    <3> QED
      BY <1>0, <3>1, <3>3, ShowingGoto
  <2>2. CASE ~NoRoom
    <3>1. pos.x < Width
      <4>1. pos.x + FontLength + 1 <= Width /\ FontLength >= 1 /\ FontLength \in Nat /\ Width \in Nat
        BY <1>0, <2>2, ShapeAssumption
      <4>2. pos.x \in Nat
        BY DEF PosOK
      <4> QED
        BY <4>1, <4>2
    <3>2. x = CharAt.x /\ y = CharAt.y
      BY <1>0, <2>2, <3>1
    <3> QED
      BY <2>2, <3>2, LeadsNowhere
  <2> QED
    BY <2>1, <2>2
<1>3. GlyphOps(c) \in Seq(PlainOp)
  <2>1. \A i \in 1..FontLength + 1 : (IF i = 1 THEN 0 ELSE Glyph(c, i - 1)) \in 0..255
    BY ShapeAssumption DEF Glyph
  <2>2. FontLength + 1 \in Nat
    BY ShapeAssumption
  <2>3. \A i \in 1..FontLength + 1 : Byte("data", IF i = 1 THEN 0 ELSE Glyph(c, i - 1)) \in PlainOp
    BY <2>1, ByteOp
  <2> QED
    BY <2>2, <2>3 DEF GlyphOps
<1>4. CharOps(c) = go \o GlyphOps(c)
  BY DEF CharOps, GlyphOps
<1> HIDE DEF go
<1>5. Leads(GlcdMoves, Showing(x, y, old), CharOps(c), E)
  BY <1>1, <1>2, <1>3, <1>4, LeadsConcat
<1> QED
  BY <1>5 DEF E

(* What pcd8544_putc makes of the picture.                                  *)
CharTyped(old, x0, y0, c) ==
    [old EXCEPT ![y0] = [x \in 0..Width - 1 |->
                            CASE x = x0 -> 0
                              [] x \in x0 + 1 .. x0 + FontLength -> Glyph(c, x - x0)
                              [] OTHER -> old[y0][x]]]

LEMMA CharImage ==
    ASSUME NEW c \in Letters, NEW old \in Plane, NEW x0 \in Columns, NEW y0 \in Rows
    PROVE  CharTyped(old, x0, y0, c) = CharPart(old, x0, y0, c, FontLength + 1)
<1> DEFINE v(x) == CASE x = x0 -> 0
                     [] x \in x0 + 1 .. x0 + FontLength -> Glyph(c, x - x0)
                     [] OTHER -> old[y0][x]
           w(y, x) == IF y = y0 /\ x0 <= x /\ x < x0 + (FontLength + 1) THEN Columned(c, x - x0 + 1)
                      ELSE old[y][x]
           row == [x \in Columns |-> v(x)]
<1>1. FontLength \in Nat /\ x0 \in Int
  BY ShapeAssumption DEF Columns
<1>2. ASSUME NEW x \in Columns
      PROVE  v(x) = w(y0, x)
  <2>1. x \in Int
    BY DEF Columns
  <2>2. CASE x = x0
    <3>1. x0 <= x /\ x < x0 + (FontLength + 1) /\ x - x0 + 1 = 1
      BY <1>1, <2>2
    <3> QED
      BY <2>2, <3>1 DEF Columned
  <2>3. CASE x \in x0 + 1 .. x0 + FontLength
    <3>1. x0 <= x /\ x < x0 + (FontLength + 1) /\ x - x0 + 1 # 1 /\ (x - x0 + 1) - 1 = x - x0 /\ x # x0
      BY <1>1, <2>1, <2>3
    <3> QED
      BY <2>3, <3>1 DEF Columned
  <2>4. CASE x # x0 /\ x \notin x0 + 1 .. x0 + FontLength
    <3>1. ~(x0 <= x /\ x < x0 + (FontLength + 1))
      BY <1>1, <2>1, <2>4
    <3> QED
      BY <2>4, <3>1
  <2> QED
    BY <2>2, <2>3, <2>4
<1>3. \A y \in Rows : y # y0 => \A x \in Columns : w(y, x) = old[y][x]
  OBVIOUS
<1>4. \A y \in Rows : old[y] = [x \in Columns |-> old[y][x]]
  BY DEF Plane
<1>5. CharPart(old, x0, y0, c, FontLength + 1) = [y \in Rows |-> [x \in Columns |-> w(y, x)]]
  BY DEF CharPart
<1> HIDE DEF w, v
<1>6. row = [x \in Columns |-> w(y0, x)]
  BY <1>2
<1> HIDE DEF row
<1>7. [old EXCEPT ![y0] = row] = [y \in Rows |-> IF y = y0 THEN row ELSE old[y]]
  BY DEF Plane
<1>8. \A y \in Rows : (IF y = y0 THEN row ELSE old[y]) = [x \in Columns |-> w(y, x)]
  BY <1>3, <1>4, <1>6
<1>9. [old EXCEPT ![y0] = row] = CharPart(old, x0, y0, c, FontLength + 1)
  BY <1>5, <1>7, <1>8
<1> QED
  BY <1>9 DEF CharTyped, row, v, Columns

LEMMA PictureType == Picture \in Pictures
<1>1. ASSUME NEW y \in 0..Banks - 1, NEW x \in 0..Width - 1
      PROVE  (Width * y + x) % 256 \in 0..255
  <2>1. PICK n \in Int : n = Width * y + x
    BY ShapeAssumption
  <2>2. n % 256 \in 0..255
    OBVIOUS
  <2> QED
    BY <2>1, <2>2
<1> QED
  BY <1>1 DEF Picture, Pictures

-----------------------------------------------------------------------------
(* What a call leaves the display showing.                                  *)
Goal == {d \in GlcdType : /\ Configured(d)
                          /\ calls > 0 => d.ram = image
                          /\ ~stale => d.x = EndX(pos.x) /\ d.y = EndY(pos.x, pos.y)}

LEMMA GoalDrawn ==
    ASSUME PosOK, calls >= 0 /\ todo = <<>> => glcd \in Goal
    PROVE  DrawnAsCalled
<1>1. pos \in [x : 0..Width, y : 0..Banks - 1]
  BY DEF PosOK
<1>2. CASE calls >= 0 /\ todo = <<>>
  <2>1. glcd \in Goal
    BY <1>2
  <2>2. [x |-> EndX(pos.x), y |-> EndY(pos.x, pos.y)]
           = IF pos.x < Width THEN pos ELSE [x |-> 0, y |-> (pos.y + 1) % Banks]
    BY <1>1 DEF EndX, EndY
  <2> QED
    BY <2>1, <2>2 DEF Goal, Configured, DrawnAsCalled, PointerTracked, CellsAsCalled, ConfiguredAfterInit
<1>3. CASE ~(calls >= 0 /\ todo = <<>>)
  BY <1>3 DEF DrawnAsCalled, PointerTracked, CellsAsCalled, ConfiguredAfterInit, Settled
<1> QED
  BY <1>2, <1>3

LEMMA ShowingGoal ==
    ASSUME NEW x, NEW y, NEW ram, calls' > 0 => ram = image',
           ~stale' => x = EndX(pos'.x) /\ y = EndY(pos'.x, pos'.y)
    PROVE  Showing(x, y, ram) \subseteq Goal'
  BY DEF Showing, Goal, EndX, EndY

LEMMA InitCall ==
    ASSUME GlcdTypes, pcd8544_init
    PROVE  todo' = GraphicInitOps /\ Leads(GlcdMoves, {glcd'}, GraphicInitOps, Goal')
<1>1. todo' = GraphicInitOps /\ calls' = 0 /\ stale' = TRUE /\ glcd' = glcd
  BY DEF pcd8544_init, GraphicBegin
<1>2. {d \in GlcdType : Configured(d)} \subseteq Goal'
  BY <1>1 DEF Goal
<1>3. {glcd'} \subseteq GlcdType
  BY <1>1 DEF GlcdTypes
<1>4. Leads(GlcdMoves, GlcdType, GraphicInitOps, {d \in GlcdType : Configured(d)})
  BY InitLeads
<1> QED
  BY <1>1, <1>2, <1>3, <1>4, LeadsWeaken

LEMMA GraphicCall ==
    ASSUME GlcdTypes, PosOK, glcd \in Goal, GraphicCalls
    PROVE  Leads(GlcdMoves, {glcd'}, todo', Goal')
<1> DEFINE x == glcd.x
           y == glcd.y
           ram == glcd.ram
           G(ops) == Leads(GlcdMoves, {glcd'}, ops, Goal')
<1>0. /\ glcd \in Showing(x, y, ram) /\ x \in Columns /\ y \in Rows /\ ram \in Plane
      /\ calls > 0 => ram = image
      /\ ~stale => x = EndX(pos.x) /\ y = EndY(pos.x, pos.y)
  BY DEF Goal, Showing, GlcdType
<1>1. 0 \in Columns /\ 0 \in Rows /\ Width - 1 \in Columns /\ Width \in Nat /\ 0 < Width
  BY ShapeAssumption DEF Columns, Rows
<1>2. glcd' = glcd /\ pos \in [x : 0..Width, y : 0..Banks - 1]
  BY DEF GraphicCalls, pcd8544_clrscr, pcd8544_blit, pcd8544_gotoxy, pcd8544_putc, pcd8544_fill,
         pcd8544_putblock, GraphicBegin, PosOK
<1>3. \A b \in 0..255 : Filled(b) \in Pictures
  BY DEF Filled, Pictures
<1>4. ASSUME NEW ops, NEW u, NEW v, NEW r,
             Leads(GlcdMoves, Showing(x, y, ram), ops, Showing(u, v, r)),
             calls' > 0 => r = image',
             ~stale' => u = EndX(pos'.x) /\ v = EndY(pos'.x, pos'.y)
      PROVE  G(ops)
  <2>1. {glcd'} \subseteq Showing(x, y, ram)
    BY <1>0, <1>2
  <2>2. Showing(u, v, r) \subseteq Goal'
    BY <1>4, ShowingGoal
  <2> QED
    BY <1>4, <2>1, <2>2, LeadsWeaken
<1>5. \A v \in Columns, w \in Rows : EndX(v) = v /\ EndY(v, w) = w
  BY <1>1 DEF Columns, EndX, EndY
<1>6. GotoOps(0, 0) \in Seq(PlainOp)
  BY <1>1, GotoOpsPlain DEF Columns
<1> HIDE DEF x, y, ram, G
<1>7. CASE pcd8544_clrscr
  <2>1. todo' = FillOps(Filled(0)) \o GotoOps(0, 0) /\ image' = Filled(0) /\ pos' = [x |-> 0, y |-> 0]
    BY <1>7 DEF pcd8544_clrscr, GraphicBegin
  <2>2. FillOps(Filled(0)) \in Seq(PlainOp)
    BY <1>3, FillPlain
  <2>3. Leads(GlcdMoves, Showing(x, y, ram), FillOps(Filled(0)), Showing(0, 0, Filled(0)))
    BY <1>0, <1>3, FillLeads
  <2>4. Leads(GlcdMoves, Showing(0, 0, Filled(0)), GotoOps(0, 0), Showing(0, 0, Filled(0)))
    BY <1>1, ShowingGoto
  <2>5. Leads(GlcdMoves, Showing(x, y, ram), todo', Showing(0, 0, Filled(0)))
    BY <1>6, <2>1, <2>2, <2>3, <2>4, LeadsConcat
  <2>6. pos'.x = 0 /\ pos'.y = 0
    BY <2>1
  <2> QED
    BY <1>1, <1>4, <1>5, <2>1, <2>5, <2>6 DEF G
<1>8. CASE pcd8544_blit
  <2>1. todo' = GotoOps(0, 0) \o FillOps(Picture) /\ image' = Picture /\ pos' = [x |-> 0, y |-> 0]
    BY <1>8 DEF pcd8544_blit, GraphicBegin
  <2>2. Picture \in Pictures
    BY PictureType
  <2>3. FillOps(Picture) \in Seq(PlainOp)
    BY <2>2, FillPlain
  <2>4. Leads(GlcdMoves, Showing(0, 0, ram), FillOps(Picture), Showing(0, 0, Picture))
    BY <1>0, <2>2, FillLeads
  <2>5. Leads(GlcdMoves, Showing(x, y, ram), GotoOps(0, 0), Showing(0, 0, ram))
    BY <1>1, ShowingGoto
  <2>6. Leads(GlcdMoves, Showing(x, y, ram), todo', Showing(0, 0, Picture))
    BY <1>6, <2>1, <2>3, <2>4, <2>5, LeadsConcat
  <2>7. pos'.x = 0 /\ pos'.y = 0
    BY <2>1
  <2> QED
    BY <1>1, <1>4, <1>5, <2>1, <2>6, <2>7 DEF G
<1>9. ASSUME NEW v \in 0..Width - 1, NEW w \in 0..Banks - 1, pcd8544_gotoxy(v, w)
      PROVE  G(todo')
  <2>1. /\ todo' = GotoOps(v, w) /\ image' = image /\ pos' = [x |-> v, y |-> w] /\ calls > 0
    BY <1>9 DEF pcd8544_gotoxy, GraphicBegin, Counting
  <2>2. v \in Columns /\ w \in Rows /\ pos'.x = v /\ pos'.y = w
    BY <2>1 DEF Columns, Rows
  <2>3. Leads(GlcdMoves, Showing(x, y, ram), todo', Showing(v, w, ram))
    BY <2>1, <2>2, ShowingGoto
  <2> QED
    BY <1>0, <1>4, <1>5, <2>1, <2>2, <2>3
<1>10. ASSUME NEW c \in Letters, pcd8544_putc(c)
       PROVE  G(todo')
  <2>1. todo' = CharOps(c) /\ calls > 0 /\ ~stale /\ CharAt.y < Banks
    BY <1>10 DEF pcd8544_putc, GraphicBegin, Counting
  <2>2. pos'.x = AfterChar(CharAt.x) /\ pos'.y = CharAt.y
    BY <1>10 DEF pcd8544_putc, GraphicBegin
  <2>3. image' = CharTyped(image, CharAt.x, CharAt.y, c)
    BY <1>10 DEF pcd8544_putc, GraphicBegin, CharTyped
  <2>4. CharAt.x \in Columns /\ CharAt.y \in Rows /\ image = ram
    BY <1>0, <2>1, CharAtType
  <2>5. image' = CharPart(ram, CharAt.x, CharAt.y, c, FontLength + 1)
    BY <1>0, <2>3, <2>4, CharImage
  <2>6. pos.x < Width => x = pos.x /\ y = pos.y
    BY <1>0, <2>1 DEF EndX, EndY
  <2>7. Leads(GlcdMoves, Showing(x, y, ram), todo',
              Showing(EndX(AfterChar(CharAt.x)), EndY(AfterChar(CharAt.x), CharAt.y), image'))
    BY <1>0, <2>1, <2>5, <2>6, CharLeads
  <2> QED
    BY <1>4, <2>2, <2>7
<1>11. ASSUME NEW b \in Patterns, pcd8544_fill(b)
       PROVE  G(todo')
  <2>1. todo' = FillOps(Filled(b)) /\ image' = Filled(b) /\ stale' = TRUE
    BY <1>11 DEF pcd8544_fill, GraphicBegin
  <2>2. Filled(b) \in Pictures
    BY <1>3, ShapeAssumption
  <2>3. Leads(GlcdMoves, Showing(x, y, ram), todo', Showing(0, 0, Filled(b)))
    BY <1>0, <2>1, <2>2, FillLeads
  <2> QED
    BY <1>4, <2>1, <2>3
<1>12. ASSUME NEW b \in Patterns, pcd8544_putblock(Width - 1, 0, b)
       PROVE  G(todo')
  <2> DEFINE p == Put(ram, Width - 1, 0, b)
             u == NextX(Width - 1)
             v == NextY(Width - 1, 0)
  <2>1. /\ todo' = GotoOps(Width - 1, 0) \o Data(b) /\ stale' = TRUE /\ calls > 0
        /\ image' = [image EXCEPT ![0][Width - 1] = b]
    BY <1>12 DEF pcd8544_putblock, GraphicBegin, Counting
  <2>2. image' = p
    BY <1>0, <2>1 DEF Put
  <2> HIDE DEF p, u, v
  <2>3. b \in 0..255
    BY ShapeAssumption
  <2>4. GotoOps(Width - 1, 0) \in Seq(PlainOp) /\ Data(b) \in Seq(PlainOp)
    BY <1>1, <2>3, GotoOpsPlain, CommandPlain DEF Columns
  <2>5. Leads(GlcdMoves, Showing(x, y, ram), GotoOps(Width - 1, 0), Showing(Width - 1, 0, ram))
    BY <1>1, ShowingGoto
  <2>6. Leads(GlcdMoves, Showing(Width - 1, 0, ram), Data(b), Showing(u, v, p))
    BY DataMove, LeadsOne DEF Data, p, u, v
  <2>7. Leads(GlcdMoves, Showing(x, y, ram), todo', Showing(u, v, p))
    BY <2>1, <2>4, <2>5, <2>6, LeadsConcat
  <2> QED
    BY <1>4, <2>1, <2>2, <2>7
<1>13. G(todo')
  BY <1>7, <1>8, <1>9, <1>10, <1>11, <1>12 DEF GraphicCalls, G
<1> QED
  BY <1>13 DEF G

-----------------------------------------------------------------------------
(* The invariant of the drawing: what is left of a call leads to what the   *)
(* call asked for, from what the display is, or will be once it has taken   *)
(* the byte that is on its way.                                             *)
DcLine(o) == IF o.pin = "data" THEN High("dc") ELSE Low("dc")
DcSet(o) == "dc" \in port <=> o.pin = "data"

Calling == todo \in Seq(PlainOp) /\ Leads(GlcdMoves, {glcd}, todo, Goal)

Sending(o, r) ==
    \/ todo = <<DcLine(o)>> \o (<<Low("sce")>> \o (<<Send(o.val)>> \o (<<Wait>> \o r)))
    \/ DcSet(o) /\ todo = <<Low("sce")>> \o (<<Send(o.val)>> \o (<<Wait>> \o r))
    \/ DcSet(o) /\ "sce" \notin port /\ todo = <<Send(o.val)>> \o (<<Wait>> \o r)
    \/ /\ DcSet(o) /\ "sce" \notin port /\ todo = <<Wait>> \o r
       /\ spi.shifting /\ spi.spdr = o.val
ByteLeft == \E o \in PlainOp, r \in Seq(PlainOp) :
               /\ o.op = "pcd8544_write" /\ Sending(o, r)
               /\ Leads(GlcdMoves, GlcdAfter(glcd, o), r, Goal)

ByteTaken == \E r \in Seq(PlainOp) : /\ todo = <<Wait>> \o r /\ ~spi.shifting
                                     /\ Leads(GlcdMoves, {glcd}, r, Goal)

DrawInv == /\ asked.master => spi.spe
           /\ calls # -1 => program = "graphic" /\ spi.spe /\ (Calling \/ ByteLeft \/ ByteTaken)

LEMMA Cons ==
    ASSUME NEW S, NEW a \in S, NEW r \in Seq(S)
    PROVE  /\ <<a>> \o r \in Seq(S) /\ <<a>> \o r # <<>>
           /\ Head(<<a>> \o r) = a /\ Tail(<<a>> \o r) = r
<1> DEFINE s == <<a>> \o r
<1>1. s \in Seq(S) /\ Len(s) = 1 + Len(r) /\ s[1] = a
  OBVIOUS
<1>2. s # <<>> /\ Head(s) = a
  BY <1>1
<1>3. Tail(s) \in Seq(S) /\ Len(Tail(s)) = Len(r)
  BY <1>1
<1>4. \A i \in 1..Len(r) : Tail(s)[i] = r[i]
  OBVIOUS
<1>5. Tail(s) = r
  BY <1>3, <1>4, SeqEqual
<1> QED
  BY <1>1, <1>2, <1>5

(* The same list, written from its head on.                                 *)
FromHead(a, b, c, d, e, r) == <<a>> \o (<<b>> \o (<<c>> \o (<<d>> \o (<<e>> \o r))))
FiveAnd(a, b, c, d, e, r) == <<a, b, c, d, e>> \o r

LEMMA Unrolled ==
    ASSUME NEW a \in Op, NEW b \in Op, NEW c \in Op, NEW d \in Op, NEW e \in Op, NEW r \in Seq(Op)
    PROVE  FiveAnd(a, b, c, d, e, r) = FromHead(a, b, c, d, e, r)
<1> DEFINE n == Len(r)
           r1 == <<e>> \o r
           r2 == <<d>> \o r1
           r3 == <<c>> \o r2
           r4 == <<b>> \o r3
           r5 == <<a>> \o r4
           s == <<a, b, c, d, e>> \o r
<1>1. n \in Nat
  OBVIOUS
<1>2. s \in Seq(Op) /\ Len(s) = n + 5 /\ s[1] = a /\ s[2] = b /\ s[3] = c /\ s[4] = d /\ s[5] = e
      /\ \A i \in 1..n : s[i + 5] = r[i]
  OBVIOUS
<1> HIDE DEF s
<1>3. r1 \in Seq(Op) /\ Len(r1) = n + 1 /\ r1[1] = e /\ \A i \in 1..n : r1[i + 1] = r[i]
  OBVIOUS
<1> HIDE DEF r1
<1>4. r2 \in Seq(Op) /\ Len(r2) = n + 2 /\ r2[1] = d /\ \A i \in 1..n + 1 : r2[i + 1] = r1[i]
  BY <1>3
<1> HIDE DEF r2
<1>5. r3 \in Seq(Op) /\ Len(r3) = n + 3 /\ r3[1] = c /\ \A i \in 1..n + 2 : r3[i + 1] = r2[i]
  BY <1>4
<1> HIDE DEF r3
<1>6. r4 \in Seq(Op) /\ Len(r4) = n + 4 /\ r4[1] = b /\ \A i \in 1..n + 3 : r4[i + 1] = r3[i]
  BY <1>5
<1> HIDE DEF r4
<1>7. r5 \in Seq(Op) /\ Len(r5) = n + 5 /\ r5[1] = a /\ \A i \in 1..n + 4 : r5[i + 1] = r4[i]
  BY <1>6
<1> HIDE DEF r5
<1>8. ASSUME NEW i \in 1..n + 5
      PROVE  s[i] = r5[i]
  <2>1. CASE i \in 1..5
    <3>1. 1 \in 1..n + 1 /\ 1 \in 1..n + 2 /\ 2 \in 1..n + 2 /\ 1 \in 1..n + 3 /\ 2 \in 1..n + 3
          /\ 3 \in 1..n + 3 /\ 1 \in 1..n + 4 /\ 2 \in 1..n + 4 /\ 3 \in 1..n + 4 /\ 4 \in 1..n + 4
          /\ 1 + 1 = 2 /\ 2 + 1 = 3 /\ 3 + 1 = 4 /\ 4 + 1 = 5
      BY <1>1
    <3>2. r5[2] = b
      BY <1>6, <1>7, <3>1
    <3>3. r5[3] = c
      BY <1>5, <1>6, <1>7, <3>1
    <3>4. r5[4] = d
      BY <1>4, <1>5, <1>6, <1>7, <3>1
    <3>5. r5[5] = e
      BY <1>3, <1>4, <1>5, <1>6, <1>7, <3>1
    <3>6. i = 1 \/ i = 2 \/ i = 3 \/ i = 4 \/ i = 5
      BY <2>1
    <3> QED
      BY <1>2, <1>7, <3>2, <3>3, <3>4, <3>5, <3>6
  <2>2. CASE i \notin 1..5
    <3>1. PICK j \in 1..n : i = j + 5
      BY <1>1, <2>2
    <3>2. s[i] = r[j]
      BY <1>2, <3>1
    <3>3. r1[j + 1] = r[j]
      BY <1>3, <3>1
    <3>4. r2[j + 2] = r[j]
      <4>1. j + 1 \in 1..n + 1 /\ (j + 1) + 1 = j + 2
        BY <1>1
      <4> QED
        BY <1>4, <3>3, <4>1
    <3>5. r3[j + 3] = r[j]
      <4>1. j + 2 \in 1..n + 2 /\ (j + 2) + 1 = j + 3
        BY <1>1
      <4> QED
        BY <1>5, <3>4, <4>1
    <3>6. r4[j + 4] = r[j]
      <4>1. j + 3 \in 1..n + 3 /\ (j + 3) + 1 = j + 4
        BY <1>1
      <4> QED
        BY <1>6, <3>5, <4>1
    <3>7. r5[j + 5] = r[j]
      <4>1. j + 4 \in 1..n + 4 /\ (j + 4) + 1 = j + 5
        BY <1>1
      <4> QED
        BY <1>7, <3>6, <4>1
    <3> QED
      BY <3>1, <3>2, <3>7
  <2> QED
    BY <2>1, <2>2
<1>9. s = r5
  BY <1>2, <1>7, <1>8, SeqEqual
<1> QED
  BY <1>9 DEF FiveAnd, FromHead, s, r5, r4, r3, r2, r1

LEMMA ByteUnrolled ==
    ASSUME NEW o \in PlainOp, o.op = "pcd8544_write", NEW t \in Seq(PlainOp)
    PROVE  /\ <<High("sce")>> \o t \in Seq(PlainOp)
           /\ ByteOps(o.pin, o.val) \o t
                 = <<DcLine(o)>> \o (<<Low("sce")>> \o (<<Send(o.val)>> \o (<<Wait>> \o (<<High("sce")>> \o t))))
<1>1. o.val \in 0..255 /\ PlainOp \subseteq Op
  BY DEF PlainOp, Op, Fit
<1>2. /\ High("dc") \in PlainOp /\ Low("dc") \in PlainOp
      /\ Low("sce") \in PlainOp /\ High("sce") \in PlainOp
  BY LineOps DEF Pins
<1>3. DcLine(o) \in Op /\ Low("sce") \in Op /\ High("sce") \in Op /\ t \in Seq(Op)
  BY <1>1, <1>2 DEF DcLine
<1>4. Send(o.val) \in Op /\ Wait \in Op
  BY <1>1, BusOps
<1>5. ByteOps(o.pin, o.val) = <<DcLine(o), Low("sce"), Send(o.val), Wait, High("sce")>>
  <2>1. ByteOps(o.pin, o.val) = <<DcLine(o), Low("sce")>> \o <<Send(o.val), Wait>> \o <<High("sce")>>
    BY DEF ByteOps, BusSendOps, SendOps, DcLine
  <2> QED
    BY <1>3, <1>4, <2>1, Joined
<1>6. <<High("sce")>> \o t \in Seq(PlainOp)
  BY <1>2, Cons
<1>7. FiveAnd(DcLine(o), Low("sce"), Send(o.val), Wait, High("sce"), t)
         = FromHead(DcLine(o), Low("sce"), Send(o.val), Wait, High("sce"), t)
  BY <1>3, <1>4, Unrolled
<1> QED
  BY <1>5, <1>6, <1>7 DEF FiveAnd, FromHead

LEMMA GoalSame ==
    ASSUME UNCHANGED <<calls, image, pos, stale>>
    PROVE  Goal' = Goal
  BY DEF Goal, EndX, EndY

(* Where the sending of a byte is.                                          *)
LEMMA SendingAt ==
    ASSUME NEW o \in PlainOp, o.op = "pcd8544_write", NEW r \in Seq(PlainOp), Sending(o, r)
    PROVE  /\ todo # <<>>
           /\ \/ /\ Head(todo) = DcLine(o)
                 /\ Tail(todo) = <<Low("sce")>> \o (<<Send(o.val)>> \o (<<Wait>> \o r))
              \/ /\ DcSet(o) /\ Head(todo) = Low("sce")
                 /\ Tail(todo) = <<Send(o.val)>> \o (<<Wait>> \o r)
              \/ /\ DcSet(o) /\ "sce" \notin port
                 /\ Head(todo) = Send(o.val) /\ Tail(todo) = <<Wait>> \o r
              \/ /\ DcSet(o) /\ "sce" \notin port /\ Head(todo) = Wait /\ Tail(todo) = r
                 /\ spi.shifting /\ spi.spdr = o.val
<1>1. o.val \in 0..255 /\ PlainOp \subseteq Op
  BY DEF PlainOp, Op, Fit
<1>2. DcLine(o) \in Op /\ Low("sce") \in Op /\ r \in Seq(Op) /\ Send(o.val) \in Op /\ Wait \in Op
  <2>1. High("dc") \in PlainOp /\ Low("dc") \in PlainOp /\ Low("sce") \in PlainOp
    BY LineOps DEF Pins
  <2>2. DcLine(o) \in PlainOp
    BY <2>1 DEF DcLine
  <2>3. r \in Seq(Op)
    BY <1>1
  <2>4. Send(o.val) \in Op /\ Wait \in Op
    BY <1>1, BusOps
  <2> QED
    BY <1>1, <2>1, <2>2, <2>3, <2>4
<1> DEFINE r1 == <<Wait>> \o r
           r2 == <<Send(o.val)>> \o r1
           r3 == <<Low("sce")>> \o r2
<1>3. r1 \in Seq(Op)
  BY <1>2, Cons
<1> HIDE DEF r1
<1>4. r2 \in Seq(Op)
  BY <1>2, <1>3, Cons
<1> HIDE DEF r2
<1>5. r3 \in Seq(Op)
  BY <1>2, <1>4, Cons
<1> HIDE DEF r3
<1>6. CASE todo = <<DcLine(o)>> \o r3
  BY <1>2, <1>5, <1>6, Cons DEF r3, r2, r1
<1>7. CASE DcSet(o) /\ todo = r3
  BY <1>2, <1>4, <1>7, Cons DEF r3, r2, r1
<1>8. CASE DcSet(o) /\ "sce" \notin port /\ todo = r2
  BY <1>2, <1>3, <1>8, Cons DEF r2, r1
<1>9. CASE DcSet(o) /\ "sce" \notin port /\ todo = r1 /\ spi.shifting /\ spi.spdr = o.val
  BY <1>2, <1>9, Cons DEF r1
<1> QED
  BY <1>6, <1>7, <1>8, <1>9 DEF Sending, r3, r2, r1

LEMMA TakenAt ==
    ASSUME ByteTaken
    PROVE  /\ todo # <<>> /\ Head(todo) = Wait /\ ~spi.shifting
           /\ Tail(todo) \in Seq(PlainOp) /\ Leads(GlcdMoves, {glcd}, Tail(todo), Goal)
<1>1. PICK r \in Seq(PlainOp) : /\ todo = <<Wait>> \o r /\ ~spi.shifting
                                /\ Leads(GlcdMoves, {glcd}, r, Goal)
  BY DEF ByteTaken
<1>2. Wait \in Op /\ r \in Seq(Op)
  <2>1. PlainOp \subseteq Op
    BY DEF PlainOp
  <2>2. r \in Seq(Op)
    BY <2>1
  <2>3. 0 \in 0..255
    OBVIOUS
  <2>4. Wait \in Op
    BY <2>3, BusOps
  <2> QED
    BY <2>2, <2>4
<1> QED
  BY <1>1, <1>2, Cons

LEMMA CallingAt ==
    ASSUME Calling, todo # <<>>
    PROVE  /\ Head(todo) \in PlainOp /\ Tail(todo) \in Seq(PlainOp)
           /\ \E F : /\ \A d : <<glcd, Head(todo), d>> \in GlcdMoves => d \in F
                     /\ Leads(GlcdMoves, F, Tail(todo), Goal)
<1>1. todo \in Seq(PlainOp) /\ Leads(GlcdMoves, {glcd}, todo, Goal)
  BY DEF Calling
<1>2. Head(todo) \in PlainOp /\ Tail(todo) \in Seq(PlainOp)
  BY <1>1
<1>3. \E F : /\ \A d \in {glcd} : \A e : <<d, Head(todo), e>> \in GlcdMoves => e \in F
             /\ Leads(GlcdMoves, F, Tail(todo), Goal)
  BY <1>1, LeadsTail
<1> QED
  BY <1>2, <1>3

(* A step that the display may make on the way of a call.                   *)
LEMMA CallingMove ==
    ASSUME Calling, todo # <<>>, todo' = Tail(todo), UNCHANGED <<calls, image, pos, stale>>,
           glcd \in GlcdType, glcd' \in GlcdAfter(glcd, Head(todo))
    PROVE  Calling'
<1>1. PICK F : /\ \A d : <<glcd, Head(todo), d>> \in GlcdMoves => d \in F
               /\ Leads(GlcdMoves, F, Tail(todo), Goal)
  BY CallingAt
<1>2. Head(todo) \in PlainOp /\ Tail(todo) \in Seq(PlainOp)
  BY CallingAt
<1>3. <<glcd, Head(todo), glcd'>> \in GlcdMoves
  BY <1>2, GlcdMove, GlcdAfterType
<1>4. {glcd'} \subseteq F
  BY <1>1, <1>3
<1>5. Leads(GlcdMoves, {glcd'}, Tail(todo), Goal)
  BY <1>1, <1>4, LeadsWeaken
<1> QED
  BY <1>2, <1>5, GoalSame DEF Calling

LEMMA LineDrawn ==
    ASSUME DrawInv, program' = program, calls # -1, HeldOK, GlcdTypes, SetGraphicLine
    PROVE  DrawInv'
<1> DEFINE h == Head(todo)
<1>1. /\ todo # <<>> /\ h.op \in LineKinds /\ todo' = Tail(todo)
      /\ port' = IF h.op = "high" THEN port \cup {h.pin} ELSE port \ {h.pin}
      /\ glcd' = IF "res" \in port /\ "res" \notin port' THEN [GlcdOff EXCEPT !.ram = glcd.ram] ELSE glcd
      /\ UNCHANGED <<bus, pos, image, stale, calls>>
  <2>1. /\ todo # <<>> /\ h.op \in LineKinds /\ held = <<port>>
    BY DEF SetGraphicLine, Store, HeldOK
  <2>2. held[1] = port
    BY <2>1
  <2> QED
    BY <2>1, <2>2 DEF SetGraphicLine, Store, Doing, Rest
<1>2. spi' = spi /\ asked' = asked /\ spi.spe /\ Goal' = Goal /\ (Calling \/ ByteLeft \/ ByteTaken)
  BY <1>1, GoalSame DEF bus, DrawInv
<1>3. glcd \in GlcdType
  BY DEF GlcdTypes
<1>4. CASE Calling
  <2>1. glcd' \in GlcdAfter(glcd, h)
    <3>1. h.op # "pcd8544_write"
      BY <1>1 DEF LineKinds
    <3>2. "res" \in port /\ "res" \notin port' => h.op = "low" /\ h.pin = "res"
      BY <1>1 DEF LineKinds
    <3> QED
      BY <1>1, <3>1, <3>2 DEF GlcdAfter
  <2>2. Calling'
    BY <1>1, <1>3, <1>4, <2>1, CallingMove
  <2> QED
    BY <1>2, <2>2 DEF DrawInv
<1>5. CASE ByteLeft
  <2>1. PICK o \in PlainOp, r \in Seq(PlainOp) :
           /\ o.op = "pcd8544_write" /\ Sending(o, r)
           /\ Leads(GlcdMoves, GlcdAfter(glcd, o), r, Goal)
    BY <1>5 DEF ByteLeft
  <2>2. CASE /\ h = DcLine(o)
             /\ Tail(todo) = <<Low("sce")>> \o (<<Send(o.val)>> \o (<<Wait>> \o r))
    <3>1. h.pin = "dc" /\ h.op = IF o.pin = "data" THEN "high" ELSE "low"
      BY <2>2 DEF DcLine, High, Low
    <3>2. DcSet(o)' /\ glcd' = glcd
      BY <1>1, <3>1 DEF DcSet
    <3>3. Sending(o, r)'
      BY <1>1, <2>2, <3>2 DEF Sending
    <3>4. ByteLeft'
      BY <1>2, <2>1, <3>2, <3>3 DEF ByteLeft
    <3> QED
      BY <1>2, <3>4 DEF DrawInv
  <2>3. CASE /\ DcSet(o) /\ h = Low("sce")
             /\ Tail(todo) = <<Send(o.val)>> \o (<<Wait>> \o r)
    <3>1. h.pin = "sce" /\ h.op = "low"
      BY <2>3 DEF Low
    <3>2. DcSet(o)' /\ glcd' = glcd /\ "sce" \notin port'
      BY <1>1, <2>3, <3>1 DEF DcSet
    <3>3. Sending(o, r)'
      BY <1>1, <2>3, <3>2 DEF Sending
    <3>4. ByteLeft'
      BY <1>2, <2>1, <3>2, <3>3 DEF ByteLeft
    <3> QED
      BY <1>2, <3>4 DEF DrawInv
  <2>4. CASE h = Send(o.val) \/ h = Wait
    BY <1>1, <2>4 DEF Send, Wait, LineKinds
  <2> QED
    BY <2>1, <2>2, <2>3, <2>4, SendingAt
<1>6. CASE ByteTaken
  <2>1. h = Wait
    BY <1>6, TakenAt
  <2> QED
    BY <1>1, <2>1 DEF Wait, LineKinds
<1> QED
  BY <1>2, <1>4, <1>5, <1>6

(* A step of a call that only the program sees.                             *)
LEMMA PauseDrawn ==
    ASSUME DrawInv, program' = program, calls # -1, GlcdTypes,
           Configure \/ Pause, UNCHANGED <<bus, graphic>>
    PROVE  DrawInv'
<1> DEFINE h == Head(todo)
<1>1. todo # <<>> /\ h.op \in {"output", "delay"} /\ todo' = Tail(todo)
  BY DEF Configure, Pause, Doing, Rest
<1>2. /\ spi' = spi /\ asked' = asked /\ spi.spe /\ (Calling \/ ByteLeft \/ ByteTaken)
      /\ glcd' = glcd /\ UNCHANGED <<calls, image, pos, stale>>
  BY DEF bus, graphic, DrawInv
<1>3. glcd \in GlcdType
  BY DEF GlcdTypes
<1>4. CASE Calling
  <2>1. glcd' \in GlcdAfter(glcd, h)
    BY <1>1, <1>2 DEF GlcdAfter
  <2>2. Calling'
    BY <1>1, <1>2, <1>3, <1>4, <2>1, CallingMove
  <2> QED
    BY <1>2, <2>2 DEF DrawInv
<1>5. CASE ByteLeft
  <2>1. PICK o \in PlainOp, r \in Seq(PlainOp) : o.op = "pcd8544_write" /\ Sending(o, r)
    BY <1>5 DEF ByteLeft
  <2>2. h \in {DcLine(o), Low("sce"), Send(o.val), Wait}
    BY <2>1, SendingAt
  <2> QED
    BY <1>1, <2>2 DEF DcLine, High, Low, Send, Wait
<1>6. CASE ByteTaken
  <2>1. h = Wait
    BY <1>6, TakenAt
  <2> QED
    BY <1>1, <2>1 DEF Wait
<1> QED
  BY <1>2, <1>4, <1>5, <1>6

LEMMA HeadTail ==
    ASSUME NEW S, NEW s \in Seq(S), s # <<>>
    PROVE  s = <<Head(s)>> \o Tail(s)
<1> DEFINE n == Len(s)
           t == <<Head(s)>> \o Tail(s)
<1>1. n \in Nat /\ n >= 1 /\ Head(s) = s[1] /\ Head(s) \in S
  OBVIOUS
<1>2. Tail(s) \in Seq(S) /\ Len(Tail(s)) = n - 1 /\ \A i \in 1..n - 1 : Tail(s)[i] = s[i + 1]
  BY <1>1
<1>3. t \in Seq(S) /\ Len(t) = n /\ t[1] = s[1] /\ \A i \in 1..n - 1 : t[i + 1] = Tail(s)[i]
  BY <1>1, <1>2
<1> HIDE DEF t
<1>4. ASSUME NEW i \in 1..n
      PROVE  s[i] = t[i]
  <2>1. CASE i = 1
    BY <1>3, <2>1
  <2>2. CASE i # 1
    <3>1. PICK j \in 1..n - 1 : i = j + 1
      BY <1>1, <2>2
    <3> QED
      BY <1>2, <1>3, <3>1
  <2> QED
    BY <2>1, <2>2
<1>5. s = t
  BY <1>3, <1>4, SeqEqual
<1> QED
  BY <1>5 DEF t

(* The steps of a transfer.                                                 *)
LEMMA TransferDone ==
    ASSUME spi \in SpiType, Framed(todo)
    PROVE  /\ SendByte => /\ todo # <<>> /\ Head(todo).op = "send"
                          /\ todo' = Tail(todo) /\ port' = port /\ asked' = asked
                          /\ spi'.spdr = Head(todo).val
                          /\ spi'.shifting = spi.spe /\ spi'.spe = spi.spe
           /\ AwaitEnd => /\ todo # <<>> /\ Head(todo).op = "wait" /\ spi.spif
                          /\ todo' = Tail(todo) /\ asked' = asked
                          /\ spi'.shifting = spi.shifting /\ spi'.spe = spi.spe
           /\ RecvByte => todo # <<>> /\ Head(todo).op = "recv"
           /\ Transfer => /\ spi.shifting /\ UNCHANGED <<todo, port, asked>>
                          /\ ~spi'.shifting /\ spi'.spe = spi.spe
<1>1. \A ops : todo # <<>> /\ Becomes(ops) /\ ops = <<>> => todo' = Tail(todo)
  <2>1. todo # <<>> => Tail(todo) \in Seq(Op)
    BY FramedTail DEF Framed
  <2> QED
    BY <2>1 DEF Becomes
<1>2. ASSUME SendByte
      PROVE  /\ spi'.spdr = Head(todo).val
             /\ spi'.shifting = spi.spe /\ spi'.spe = spi.spe
  <2>1. PICK f : f = (spi.spif /\ ~spi.seen)
    OBVIOUS
  <2>2. Accessed = [spi EXCEPT !.spif = f, !.seen = FALSE]
    BY <2>1 DEF Accessed, SpiType
  <2>3. PICK v : v = Head(todo).val
    OBVIOUS
  <2>4. spi' = [Accessed EXCEPT !.spdr = v, !.shifting = spi.spe]
    BY <1>2, <2>3 DEF SendByte
  <2> QED
    BY <2>2, <2>3, <2>4 DEF SpiType
<1>3. ASSUME AwaitEnd
      PROVE  spi.spif /\ spi'.shifting = spi.shifting /\ spi'.spe = spi.spe
  <2>1. spi.spif /\ spi' = [spi EXCEPT !.seen = TRUE]
    BY <1>3 DEF AwaitEnd
  <2> QED
    BY <2>1 DEF SpiType
<1>4. ASSUME Transfer
      PROVE  spi.shifting /\ ~spi'.shifting /\ spi'.spe = spi.spe
  <2>1. PICK b : spi.shifting /\ spi' = [spi EXCEPT !.shifting = FALSE, !.spif = TRUE, !.spdr = b]
    BY <1>4 DEF Transfer, Shifted
  <2> QED
    BY <2>1 DEF SpiType
<1>5. SendByte => /\ todo # <<>> /\ Head(todo).op = "send"
                  /\ todo' = Tail(todo) /\ port' = port /\ asked' = asked
  BY <1>1 DEF SendByte, Doing, Becomes
<1>6. AwaitEnd => /\ todo # <<>> /\ Head(todo).op = "wait"
                  /\ todo' = Tail(todo) /\ asked' = asked
  BY <1>1 DEF AwaitEnd, Doing
<1>7. RecvByte => todo # <<>> /\ Head(todo).op = "recv"
  BY DEF RecvByte, Doing
<1>8. Transfer => UNCHANGED <<todo, port, asked>>
  BY DEF Transfer, Shifted, gpio
<1> QED
  BY <1>2, <1>3, <1>4, <1>5, <1>6, <1>7, <1>8

LEMMA TransferDrawn ==
    ASSUME DrawInv, program' = program, calls # -1, Shifting, spi \in SpiType, Framed(todo),
           Transfer \/ ((SendByte \/ AwaitEnd \/ RecvByte) /\ UNCHANGED graphic)
    PROVE  DrawInv'
<1> DEFINE h == Head(todo)
<1>0. /\ spi.spe /\ (Calling \/ ByteLeft \/ ByteTaken) /\ Goal' = Goal
      /\ UNCHANGED <<calls, image, pos, stale>>
  BY GoalSame DEF DrawInv, Transfer, graphic
<1>1. /\ todo # <<>> /\ h.op \in {"send", "wait", "recv"}
      /\ h.op = "send" => SendByte /\ UNCHANGED graphic
      /\ h.op # "recv" \/ RecvByte
      /\ h.op = "wait" => Transfer \/ (AwaitEnd /\ UNCHANGED graphic)
  BY TransferDone DEF Shifting, Doing
<1>2. CASE Calling
  BY <1>1, <1>2, CallingAt DEF PlainOp
<1>3. CASE ByteLeft
  <2>1. PICK o \in PlainOp, r \in Seq(PlainOp) :
           /\ o.op = "pcd8544_write" /\ Sending(o, r)
           /\ Leads(GlcdMoves, GlcdAfter(glcd, o), r, Goal)
    BY <1>3 DEF ByteLeft
  <2>2. CASE h = DcLine(o) \/ h = Low("sce")
    BY <1>1, <2>2 DEF DcLine, High, Low
  <2>3. CASE /\ DcSet(o) /\ "sce" \notin port
             /\ h = Send(o.val) /\ Tail(todo) = <<Wait>> \o r
    <3>1. h.op = "send" /\ h.val = o.val
      BY <2>3 DEF Send
    <3>2. SendByte /\ UNCHANGED graphic
      BY <1>1, <3>1
    <3>3. /\ todo' = Tail(todo) /\ port' = port /\ asked' = asked
          /\ spi'.spdr = o.val /\ spi'.shifting /\ spi'.spe
      BY <1>0, <3>1, <3>2, TransferDone
    <3>4. Sending(o, r)' /\ glcd' = glcd
      BY <2>3, <3>2, <3>3 DEF Sending, DcSet, graphic
    <3>5. ByteLeft'
      BY <1>0, <2>1, <3>4 DEF ByteLeft
    <3> QED
      BY <3>3, <3>5 DEF DrawInv
  <2>4. CASE /\ DcSet(o) /\ "sce" \notin port /\ h = Wait /\ Tail(todo) = r
             /\ spi.shifting /\ spi.spdr = o.val
    <3>1. Transfer
      <4>1. h.op = "wait"
        BY <2>4 DEF Wait
      <4>2. ~spi.spif
        BY <2>4 DEF Shifting
      <4> QED
        BY <1>1, <4>1, <4>2, TransferDone
    <3>2. /\ UNCHANGED <<todo, port, asked>> /\ ~spi'.shifting /\ spi'.spe
      BY <1>0, <3>1, TransferDone
    <3>3. glcd' \in GlcdAfter(glcd, o)
      <4>1. glcd' = IF "dc" \in port THEN Shown(glcd, o.val) ELSE Instruction(glcd, o.val)
        BY <2>4, <3>1 DEF Transfer
      <4> QED
        BY <2>1, <2>4, <4>1 DEF GlcdAfter, DcSet
    <3>4. Leads(GlcdMoves, {glcd'}, r, Goal)
      <4>1. {glcd'} \subseteq GlcdAfter(glcd, o)
        BY <3>3
      <4> QED
        BY <2>1, <4>1, LeadsWeaken
    <3>5. todo = <<Wait>> \o r
      <4>1. todo # <<>> /\ todo \in Seq(Op)
        BY <1>1 DEF Framed
      <4>2. todo = <<Head(todo)>> \o Tail(todo)
        BY <4>1, HeadTail
      <4> QED
        BY <2>4, <4>2
    <3>6. ByteTaken'
      BY <1>0, <3>2, <3>4, <3>5 DEF ByteTaken
    <3> QED
      BY <3>2, <3>6 DEF DrawInv
  <2> QED
    BY <2>1, <2>2, <2>3, <2>4, SendingAt
<1>4. CASE ByteTaken
  <2>1. /\ h = Wait /\ ~spi.shifting
        /\ Tail(todo) \in Seq(PlainOp) /\ Leads(GlcdMoves, {glcd}, Tail(todo), Goal)
    BY <1>4, TakenAt
  <2>2. AwaitEnd /\ UNCHANGED graphic
    <3>1. h.op = "wait"
      BY <2>1 DEF Wait
    <3> QED
      BY <1>1, <2>1, <3>1, TransferDone
  <2>3. todo' = Tail(todo) /\ asked' = asked /\ spi'.spe /\ glcd' = glcd
    BY <1>0, <2>2, TransferDone DEF graphic
  <2>4. Calling'
    BY <1>0, <2>1, <2>3 DEF Calling
  <2> QED
    BY <2>3, <2>4 DEF DrawInv
<1> QED
  BY <1>0, <1>2, <1>3, <1>4

(* A byte of a call is unfolded into the steps that send it.                *)
LEMMA ByteDrawn ==
    ASSUME DrawInv, program' = program, calls # -1, GlcdTypes,
           Doing("pcd8544_write"), Becomes(ByteOps(Head(todo).pin, Head(todo).val)),
           UNCHANGED <<bus, graphic>>
    PROVE  DrawInv'
<1> DEFINE h == Head(todo)
           t == Tail(todo)
           r == <<High("sce")>> \o t
<1>1. todo # <<>> /\ h.op = "pcd8544_write" /\ todo' = ByteOps(h.pin, h.val) \o t
  BY DEF Doing, Becomes
<1>2. /\ spi' = spi /\ asked' = asked /\ spi.spe /\ (Calling \/ ByteLeft \/ ByteTaken)
      /\ glcd' = glcd /\ Goal' = Goal
  BY GoalSame DEF bus, graphic, DrawInv
<1>3. CASE Calling
  <2>1. PICK F : /\ \A d : <<glcd, h, d>> \in GlcdMoves => d \in F
                 /\ Leads(GlcdMoves, F, t, Goal)
    BY <1>1, <1>3, CallingAt
  <2>2. h \in PlainOp /\ t \in Seq(PlainOp)
    BY <1>1, <1>3, CallingAt
  <2>3. /\ r \in Seq(PlainOp)
        /\ todo' = <<DcLine(h)>> \o (<<Low("sce")>> \o (<<Send(h.val)>> \o (<<Wait>> \o r)))
    BY <1>1, <2>2, ByteUnrolled
  <2>4. GlcdAfter(glcd, h) \subseteq F
    BY <2>1, <2>2, GlcdMove, GlcdAfterType DEF GlcdTypes
  <2>5. Leads(GlcdMoves, GlcdAfter(glcd, h), t, Goal)
    BY <2>1, <2>4, LeadsWeaken
  <2>6. Leads(GlcdMoves, GlcdAfter(glcd, h), <<High("sce")>>, GlcdAfter(glcd, h))
    <3>1. Still(High("sce"))
      BY DEF Still, High
    <3> QED
      BY <3>1, StillMove, LeadsOne
  <2>7. Leads(GlcdMoves, GlcdAfter(glcd, h), r, Goal)
    <3>1. <<High("sce")>> \in Seq(PlainOp)
      BY LineOps DEF Pins
    <3> QED
      BY <2>2, <2>5, <2>6, <3>1, LeadsConcat
  <2>8. PICK o \in PlainOp : o = h
    BY <2>2
  <2>9. PICK s \in Seq(PlainOp) : s = r
    BY <2>3
  <2> HIDE DEF h, r
  <2>10. Sending(o, s)'
    BY <2>3, <2>8, <2>9 DEF Sending
  <2>11. Leads(GlcdMoves, GlcdAfter(glcd', o), s, Goal')
    BY <1>2, <2>7, <2>8, <2>9
  <2>12. ByteLeft'
    BY <1>1, <2>8, <2>10, <2>11 DEF ByteLeft
  <2> QED
    BY <1>2, <2>12 DEF DrawInv
<1>4. CASE ByteLeft
  <2>1. PICK o \in PlainOp, s \in Seq(PlainOp) : o.op = "pcd8544_write" /\ Sending(o, s)
    BY <1>4 DEF ByteLeft
  <2>2. h \in {DcLine(o), Low("sce"), Send(o.val), Wait}
    BY <2>1, SendingAt
  <2> QED
    BY <1>1, <2>2 DEF DcLine, High, Low, Send, Wait
<1>5. CASE ByteTaken
  <2>1. h = Wait
    BY <1>5, TakenAt
  <2> QED
    BY <1>1, <2>1 DEF Wait
<1> QED
  BY <1>2, <1>3, <1>4, <1>5

(* The start of a call.                                                     *)
LEMMA CallDrawn ==
    ASSUME DrawInv, LineInv, GlcdTypes, program = "graphic", program' = program,
           \/ asked.master /\ pcd8544_init
           \/ calls # -1 /\ GraphicCalls
    PROVE  DrawInv'
<1>1. /\ UNCHANGED bus /\ PosOK /\ todo = <<>>
  BY DEF LineInv, pcd8544_init, GraphicCalls, pcd8544_clrscr, pcd8544_blit, pcd8544_gotoxy,
         pcd8544_putc, pcd8544_fill, pcd8544_putblock, GraphicBegin
<1>2. spi' = spi /\ asked' = asked
  BY <1>1 DEF bus
<1>3. spi.spe /\ todo' \in Seq(PlainOp)
  <2>1. spi.spe
    BY DEF DrawInv
  <2>2. todo' \in Seq(PlainOp)
    BY <1>1, CallsPlain
  <2> QED
    BY <2>1, <2>2
<1>4. Leads(GlcdMoves, {glcd'}, todo', Goal')
  <2>1. CASE pcd8544_init
    BY <2>1, InitCall
  <2>2. CASE calls # -1 /\ GraphicCalls
    <3>1. Calling
      BY <1>1, <2>2, SendingAt, TakenAt DEF DrawInv, ByteLeft
    <3>2. {glcd} \subseteq Goal
      BY <1>1, <3>1, LeadsEnd DEF Calling
    <3> QED
      BY <1>1, <2>2, <3>2, GraphicCall
  <2> QED
    BY <2>1, <2>2
<1>5. Calling'
  BY <1>3, <1>4 DEF Calling
<1> QED
  BY <1>2, <1>3, <1>5 DEF DrawInv

LEMMA GraphicDrawn ==
    ASSUME DrawInv, BoardInv, Graphic_
    PROVE  DrawInv'
<1>0. /\ program = "graphic" /\ program' = program /\ LineInv /\ HeldOK /\ Framed(todo) /\ GlcdTypes
      /\ Shifting /\ Exchanging /\ spi \in SpiType
  BY DEF BoardInv, LineInv, ListOK, BusInv, SpiTypes, Graphic_, board
<1>1. CASE ~spi.spe /\ UNCHANGED graphic
           /\ \E master \in BOOLEAN, speed \in Speeds : spi_hw_poll_init(master, speed)
  <2>1. calls = -1 /\ calls' = calls
    BY <1>0, <1>1 DEF DrawInv, graphic
  <2>2. spi'.spe
    BY <1>0, <1>1 DEF spi_hw_poll_init, SpiType
  <2> QED
    BY <2>1, <2>2 DEF DrawInv
<1>2. CASE spi.spe /\ calls = -1 /\ UNCHANGED graphic /\ \E m \in Modes : spi_hw_poll_clock_mode_set(m)
  <2>1. calls' = -1
    BY <1>2 DEF graphic
  <2>2. spi'.spe
    BY <1>0, <1>2 DEF spi_hw_poll_clock_mode_set, SpiType
  <2> QED
    BY <2>1, <2>2 DEF DrawInv
<1>3. CASE Exchange
  <2>1. calls' = -1 /\ spi' = spi /\ asked' = asked
    BY <1>3 DEF Exchange, graphic, bus
  <2> QED
    BY <2>1 DEF DrawInv
<1>4. CASE asked = [master |-> TRUE, speed |-> 4, cmode |-> 0] /\ (pcd8544_init \/ GraphicCalls)
  <2>1. asked.master
    BY <1>4
  <2>2. GraphicCalls => calls # -1
    <3>1. GraphicCalls => Counted
      BY DEF GraphicCalls, pcd8544_clrscr, pcd8544_blit, pcd8544_gotoxy, pcd8544_putc,
             pcd8544_fill, pcd8544_putblock, Counting
    <3> QED
      BY <3>1, ShapeAssumption DEF Counted
  <2> QED
    BY <1>0, <1>4, <2>1, <2>2, CallDrawn
<1>5. CASE GraphicStep
  <2>1. CASE calls = -1
    <3>1. calls' = -1
      BY <1>5, <2>1 DEF GraphicStep, SetGraphicLine, Transfer, graphic
    <3>2. asked' = asked /\ spi'.spe = spi.spe
      <4>1. CASE UNCHANGED bus
        BY <4>1 DEF bus
      <4>2. CASE Transfer \/ SendByte \/ AwaitEnd
        BY <1>0, <4>2, TransferDone
      <4>3. CASE RecvByte
        BY <1>0, <4>3 DEF RecvByte, SpiType
      <4> QED
        BY <1>5, <4>1, <4>2, <4>3 DEF GraphicStep, SetGraphicLine
    <3> QED
      BY <3>1, <3>2 DEF DrawInv
  <2>2. CASE calls # -1
    <3>1. CASE SetGraphicLine
      BY <1>0, <2>2, <3>1, LineDrawn
    <3>2. CASE Transfer \/ ((SendByte \/ AwaitEnd \/ RecvByte) /\ UNCHANGED graphic)
      BY <1>0, <2>2, <3>2, TransferDrawn
    <3>3. CASE Load /\ UNCHANGED <<bus, graphic>>
      <4>1. /\ todo' = todo /\ port' = port /\ spi' = spi /\ asked' = asked /\ glcd' = glcd
            /\ calls' = calls /\ Goal' = Goal
        BY <3>3, GoalSame DEF Load, bus, graphic
      <4>2. (Calling => Calling') /\ (ByteLeft => ByteLeft') /\ (ByteTaken => ByteTaken')
        BY <4>1 DEF Calling, ByteLeft, ByteTaken, Sending, DcSet
      <4> QED
        BY <1>0, <2>2, <4>1, <4>2 DEF DrawInv
    <3>4. CASE (Configure \/ Pause) /\ UNCHANGED <<bus, graphic>>
      BY <1>0, <2>2, <3>4, PauseDrawn
    <3>5. CASE /\ Doing("pcd8544_write") /\ Becomes(ByteOps(Head(todo).pin, Head(todo).val))
               /\ UNCHANGED <<bus, graphic>>
      BY <1>0, <2>2, <3>5, ByteDrawn
    <3> QED
      BY <1>5, <3>1, <3>2, <3>3, <3>4, <3>5 DEF GraphicStep
  <2> QED
    BY <2>1, <2>2
<1> QED
  BY <1>1, <1>2, <1>3, <1>4, <1>5 DEF Graphic_

LEMMA DrawInit == Init => DrawInv
  BY DEF Init, BusInit, GraphicInit, DrawInv

LEMMA DrawStep ==
    ASSUME DrawInv, BoardInv, [Next]_vars
    PROVE  DrawInv'
<1>1. CASE Graphic_
  BY <1>1, GraphicDrawn
<1>2. ASSUME NEW power \in BOOLEAN, Reset(power)
      PROVE  DrawInv'
  <2>1. calls' = -1 /\ ~asked'.master
    BY <1>2 DEF Reset
  <2> QED
    BY <2>1 DEF DrawInv
<1>3. CASE Text_ \/ Thermometer_ \/ Handler \/ Converter \/ Voltage \/ UNCHANGED vars
  <2>1. UNCHANGED <<bus, graphic, program>>
    BY <1>3 DEF Text_, Thermometer_, Handler, Converter, Voltage, board, vars
  <2>2. spi' = spi /\ asked' = asked /\ glcd' = glcd /\ calls' = calls /\ Goal' = Goal
        /\ program' = program
    BY <2>1, GoalSame DEF bus, graphic
  <2>3. program = "graphic" => UNCHANGED <<todo, port>>
    <3>1. program = "graphic" => ~sei /\ phase = "out"
      BY DEF BoardInv, LineInv, HandlerOK
    <3> QED
      BY <1>3, <3>1 DEF Text_, Thermometer_, Handler, Multiplex, Deselect, Update, Select,
                        Converter, Converted, Voltage, Drift, gpio, vars
  <2>4. program = "graphic"
           => (Calling => Calling') /\ (ByteLeft => ByteLeft') /\ (ByteTaken => ByteTaken')
    BY <2>2, <2>3 DEF Calling, ByteLeft, ByteTaken, Sending, DcSet
  <2> QED
    BY <2>2, <2>4 DEF DrawInv
<1> QED
  BY <1>1, <1>2, <1>3 DEF Next, Main

(* After every call the graphic display works as set up, shows what the     *)
(* calls wrote and stands where the driver believes it stands               *)
(* (pcd8544_init, pcd8544_putc, pcd8544_gotoxy, _pcd8544_fill).             *)
THEOREM DrawnSafe == Spec => []DrawnAsCalled
<1>1. BoardInv /\ DrawInv => DrawnAsCalled
  <2> SUFFICES ASSUME BoardInv, DrawInv
               PROVE  DrawnAsCalled
    OBVIOUS
  <2>1. PosOK
    BY DEF BoardInv, LineInv
  <2>2. ASSUME calls >= 0, todo = <<>>
        PROVE  glcd \in Goal
    <3>1. calls # -1
      BY <2>2
    <3>2. Calling
      BY <2>2, <3>1, SendingAt, TakenAt DEF DrawInv, ByteLeft
    <3>3. {glcd} \subseteq Goal
      BY <2>2, <3>2, LeadsEnd DEF Calling
    <3> QED
      BY <3>3
  <2> QED
    BY <2>1, <2>2, GoalDrawn
<1>2. Init => BoardInv /\ DrawInv
  BY BoardInit, DrawInit
<1>3. (BoardInv /\ DrawInv) /\ [Next]_vars => (BoardInv /\ DrawInv)'
  BY BoardStep, DrawStep
<1> QED
  BY <1>1, <1>2, <1>3, PTL DEF Spec

-----------------------------------------------------------------------------
(* The text display.  A state of a call is what the display and its lines   *)
(* are, or `Lost' once a write was lost, or `Crash': a write that came too  *)
(* early where none may, or an instruction that the display does not        *)
(* execute in the time the driver gives it.                                 *)

LcdPins == {"rs", "e", "d0", "d1", "d2", "d3"}
Awake == {d \in DispType : d.busy <= WarmUp}
At(d, p) == [kind |-> "ok", d |-> d, p |-> p]
Lost == [kind |-> "lost", d |-> PowerOn, p |-> {}]
Crash == [kind |-> "crash", d |-> PowerOn, p |-> {}]
LcdStates == [kind : {"ok", "lost", "crash"}, d : Awake, p : SUBSET LcdPins]

(* In 4 bit mode no function set takes longer than another instruction.     *)
Sane(d) == d.wide \/ d.cold = 0

Fallen(perm, d, p) ==
    LET t == Taken(d, "rs" \in p, OnLines(p))
    IN IF (d.busy # 0 /\ perm # 1) \/ ~Sane(t) THEN {Crash}
       ELSE {At(t, p \ {"e"})} \cup (IF d.busy # 0 THEN {Lost} ELSE {})

(* What setting the lines for a nibble makes of them.                       *)
LineSet(p, v, x) == IF Bit(v, x) = 1 THEN p \cup {DataLine(x)} ELSE p \ {DataLine(x)}
Nibbled(p, v) == LineSet(LineSet(LineSet(LineSet(p, v, 3), v, 2), v, 1), v, 0)

(* The moves.  g is how long setting a line takes; if perm is 1 a write may  *)
(* come too early.                                                          *)
LineAfter(g, perm, s, o) ==
    IF o.op = "high" THEN {At(Later(s.d, g), (s.p \cup {o.pin}) \cap LcdPins)}
    ELSE IF o.pin = "e" /\ "e" \in s.p THEN Fallen(perm, Later(s.d, g), s.p)
    ELSE {At(Later(s.d, g), s.p \ {o.pin})}

NibbleAfter(g, perm, s, v) ==
    IF s.kind # "ok" THEN {s}
    ELSE IF "e" \in s.p THEN {Crash}
    ELSE Fallen(perm, Later(s.d, 7 * g + 2), Nibbled(s.p, v) \cup {"e"})

Selecting(p, line) == IF line = "rs" THEN p \cup {"rs"} ELSE p \ {"rs"}
WriteAfter(g, perm, s, v, line) ==
    IF "e" \in s.p THEN {Crash}
    ELSE UNION {NibbleAfter(g, perm, u, v % 16) :
                   u \in NibbleAfter(g, perm, At(Later(s.d, g), Selecting(s.p, line)), v \div 16)}

LcdAfter(g, perm, s, o) ==
    IF s.kind # "ok" THEN {s}
    ELSE IF o.op \in LineKinds THEN LineAfter(g, perm, s, o)
    ELSE IF o.op = "delay" THEN {At(Later(s.d, o.val), s.p)}
    ELSE IF o.op = "nibble" THEN NibbleAfter(g, perm, s, o.val)
    ELSE IF o.op = "write" THEN WriteAfter(g, perm, s, o.val, o.pin)
    ELSE {s}

LcdMoves(g, perm) == {t \in LcdStates \X PlainOp \X LcdStates : t[3] \in LcdAfter(g, perm, t[1], t[2])}

LEMMA LcdMove ==
    ASSUME NEW g, NEW perm, NEW s, NEW o, NEW t
    PROVE  <<s, o, t>> \in LcdMoves(g, perm)
              <=> s \in LcdStates /\ o \in PlainOp /\ t \in LcdStates /\ t \in LcdAfter(g, perm, s, o)
  BY DEF LcdMoves

LEMMA AtType == ASSUME NEW d \in Awake, NEW p \in SUBSET LcdPins PROVE At(d, p) \in LcdStates
  BY DEF At, LcdStates

LEMMA LostType == Lost \in LcdStates /\ Crash \in LcdStates
<1>1. PowerOn \in Awake
  BY PowerOnType DEF Awake
<1> QED
  BY <1>1 DEF Lost, Crash, LcdStates

LEMMA LaterAwake ==
    ASSUME NEW d \in Awake, NEW us \in Nat
    PROVE  Later(d, us) \in Awake
  BY LaterType, WarmUpType DEF Awake

LEMMA FallenType ==
    ASSUME NEW perm, NEW d \in Awake, NEW p \in SUBSET LcdPins
    PROVE  Fallen(perm, d, p) \subseteq LcdStates
<1> DEFINE t == Taken(d, "rs" \in p, OnLines(p))
<1>1. t \in Awake
  <2>1. ("rs" \in p) \in BOOLEAN /\ OnLines(p) \in 0..15
    BY OnLinesType
  <2> QED
    BY <2>1, TakenType DEF Awake
<1>2. At(t, p \ {"e"}) \in LcdStates
  BY <1>1, AtType
<1> HIDE DEF t
<1>3. Fallen(perm, d, p) \subseteq {At(t, p \ {"e"}), Lost, Crash}
  BY DEF Fallen, t
<1> QED
  BY <1>2, <1>3, LostType

LEMMA DataPins == ASSUME NEW x \in 0..3 PROVE DataLine(x) \in {"d0", "d1", "d2", "d3"}
<1>1. x = 0 \/ x = 1 \/ x = 2 \/ x = 3
  OBVIOUS
<1> QED
  BY <1>1 DEF DataLine

LEMMA LineSetType ==
    ASSUME NEW p \in SUBSET LcdPins, NEW v, NEW x \in 0..3
    PROVE  /\ LineSet(p, v, x) \in SUBSET LcdPins
           /\ "e" \in LineSet(p, v, x) <=> "e" \in p
           /\ "rs" \in LineSet(p, v, x) <=> "rs" \in p
  BY DataPins DEF LineSet, LcdPins

LEMMA NibbledType ==
    ASSUME NEW p \in SUBSET LcdPins, NEW v
    PROVE  /\ Nibbled(p, v) \in SUBSET LcdPins
           /\ "e" \in Nibbled(p, v) <=> "e" \in p
           /\ "rs" \in Nibbled(p, v) <=> "rs" \in p
<1>1. PICK q \in SUBSET LcdPins : q = LineSet(p, v, 3) /\ ("e" \in q <=> "e" \in p) /\ ("rs" \in q <=> "rs" \in p)
  BY LineSetType
<1>2. PICK r \in SUBSET LcdPins : r = LineSet(q, v, 2) /\ ("e" \in r <=> "e" \in p) /\ ("rs" \in r <=> "rs" \in p)
  BY <1>1, LineSetType
<1>3. PICK t \in SUBSET LcdPins : t = LineSet(r, v, 1) /\ ("e" \in t <=> "e" \in p) /\ ("rs" \in t <=> "rs" \in p)
  BY <1>2, LineSetType
<1>4. /\ LineSet(t, v, 0) \in SUBSET LcdPins
      /\ "e" \in LineSet(t, v, 0) <=> "e" \in p
      /\ "rs" \in LineSet(t, v, 0) <=> "rs" \in p
  BY <1>3, LineSetType
<1> QED
  BY <1>1, <1>2, <1>3, <1>4 DEF Nibbled

LEMMA NibbleAfterType ==
    ASSUME NEW g \in Nat, NEW perm, NEW s \in LcdStates, NEW v
    PROVE  NibbleAfter(g, perm, s, v) \subseteq LcdStates
<1>1. s.d \in Awake /\ s.p \in SUBSET LcdPins
  BY DEF LcdStates
<1>2. Later(s.d, 7 * g + 2) \in Awake
  BY <1>1, LaterAwake
<1>3. Nibbled(s.p, v) \cup {"e"} \in SUBSET LcdPins
  BY <1>1, NibbledType DEF LcdPins
<1>4. Fallen(perm, Later(s.d, 7 * g + 2), Nibbled(s.p, v) \cup {"e"}) \subseteq LcdStates
  BY <1>2, <1>3, FallenType
<1> QED
  BY <1>4, LostType DEF NibbleAfter

LEMMA SelectedType ==
    ASSUME NEW g \in Nat, NEW s \in LcdStates, NEW line
    PROVE  At(Later(s.d, g), Selecting(s.p, line)) \in LcdStates
<1>1. s.d \in Awake /\ s.p \in SUBSET LcdPins
  BY DEF LcdStates
<1>2. Later(s.d, g) \in Awake /\ Selecting(s.p, line) \in SUBSET LcdPins
  BY <1>1, LaterAwake DEF Selecting, LcdPins
<1> QED
  BY <1>2, AtType

LEMMA LcdAfterType ==
    ASSUME NEW g \in Nat, NEW perm, NEW s \in LcdStates, NEW o \in PlainOp
    PROVE  LcdAfter(g, perm, s, o) \subseteq LcdStates
<1>1. s.d \in Awake /\ s.p \in SUBSET LcdPins /\ o.val \in Nat
  BY DEF LcdStates, PlainOp, Op
<1>2. Later(s.d, g) \in Awake /\ Later(s.d, o.val) \in Awake
  BY <1>1, LaterAwake
<1>3. LineAfter(g, perm, s, o) \subseteq LcdStates
  <2>1. /\ At(Later(s.d, g), (s.p \cup {o.pin}) \cap LcdPins) \in LcdStates
        /\ At(Later(s.d, g), s.p \ {o.pin}) \in LcdStates
    BY <1>1, <1>2, AtType
  <2>2. Fallen(perm, Later(s.d, g), s.p) \subseteq LcdStates
    BY <1>1, <1>2, FallenType
  <2> QED
    BY <2>1, <2>2 DEF LineAfter
<1>4. At(Later(s.d, o.val), s.p) \in LcdStates
  BY <1>1, <1>2, AtType
<1>5. NibbleAfter(g, perm, s, o.val) \subseteq LcdStates
  BY NibbleAfterType
<1>6. WriteAfter(g, perm, s, o.val, o.pin) \subseteq LcdStates
  <2>1. At(Later(s.d, g), Selecting(s.p, o.pin)) \in LcdStates
    BY SelectedType
  <2>2. \A u \in NibbleAfter(g, perm, At(Later(s.d, g), Selecting(s.p, o.pin)), o.val \div 16) :
           u \in LcdStates
    BY <2>1, NibbleAfterType
  <2>3. \A u \in NibbleAfter(g, perm, At(Later(s.d, g), Selecting(s.p, o.pin)), o.val \div 16) :
           NibbleAfter(g, perm, u, o.val % 16) \subseteq LcdStates
    BY <2>2, NibbleAfterType
  <2> QED
    BY <2>3, LostType DEF WriteAfter
<1> QED
  BY <1>3, <1>4, <1>5, <1>6 DEF LcdAfter

(* A state that keeps every operation from leaving it stays to the end.     *)
LEMMA Smallest ==
    ASSUME NEW T, T \subseteq Nat, T # {} PROVE \E x \in T : \A y \in T : ~(y < x)
<1> DEFINE R == OpToRel(<, Nat)
<1>1. IsWellFoundedOn(R, Nat)
  BY NatLessThanWellFounded
<1> HIDE DEF R
<1>2. \E x \in T : \A y \in T : ~ (<<y, x>> \in R)
  BY <1>1, WFMin
<1> QED
  BY <1>2 DEF R, OpToRel

LEMMA LeadsStuck ==
    ASSUME NEW T, NEW D, NEW E, NEW S, NEW s \in Seq(S), Leads(T, D, s, E),
           NEW c \in D, \A o \in S : <<c, o, c>> \in T
    PROVE  c \in E
<1> DEFINE n == Len(s)
<1>1. PICK P : /\ D \subseteq P[1] /\ P[n + 1] \subseteq E
               /\ \A i \in 1..n : \A x \in P[i] : \A y : <<x, s[i], y>> \in T => y \in P[i + 1]
  BY DEF Leads
<1>2. n \in Nat /\ \A i \in 1..n : s[i] \in S
  OBVIOUS
<1> HIDE DEF n
<1> DEFINE out == {i \in 1..n + 1 : c \notin P[i]}
<1>3. out = {}
  <2>1. SUFFICES ASSUME out # {} PROVE FALSE
    OBVIOUS
  <2>2. out \subseteq Nat
    BY <1>2
  <2> HIDE DEF out
  <2>3. PICK i \in out : \A j \in out : ~(j < i)
    BY <2>1, <2>2, Smallest
  <2> USE DEF out
  <2>4. i # 1
    BY <1>1, <2>3
  <2>5. i - 1 \in 1..n /\ i - 1 \in 1..n + 1 /\ (i - 1) + 1 = i
    BY <1>2, <2>3, <2>4
  <2>6. c \in P[i - 1]
    BY <2>3, <2>5
  <2>7. c \in P[i]
    BY <1>1, <1>2, <2>5, <2>6
  <2> QED
    BY <2>3, <2>7
<1>4. c \in P[n + 1]
  BY <1>2, <1>3
<1> QED
  BY <1>1, <1>4

(* Operations that do not lead out of D.                                    *)
LEMMA LeadsClosed ==
    ASSUME NEW T, NEW D, NEW S, NEW s \in Seq(S),
           \A x \in D : \A o \in S : \A y : <<x, o, y>> \in T => y \in D
    PROVE  Leads(T, D, s, D)
<1> DEFINE n == Len(s)
           P == [i \in 1..n + 1 |-> D]
<1>1. n \in Nat /\ \A i \in 1..n : s[i] \in S
  OBVIOUS
<1>2. \A i \in 1..n + 1 : P[i] = D
  OBVIOUS
<1> HIDE DEF P, n
<1>3. D \subseteq P[1] /\ P[n + 1] \subseteq D
  BY <1>1, <1>2
<1>4. ASSUME NEW i \in 1..n, NEW x \in P[i], NEW y, <<x, s[i], y>> \in T
      PROVE  y \in P[i + 1]
  <2>1. i \in 1..n + 1 /\ i + 1 \in 1..n + 1
    BY <1>1
  <2> QED
    BY <1>1, <1>2, <1>4, <2>1
<1> QED
  BY <1>3, <1>4 DEF Leads, n

LEMMA StuckLeads ==
    ASSUME NEW g, NEW perm, NEW s, s.kind # "ok", NEW ops \in Seq(PlainOp)
    PROVE  Leads(LcdMoves(g, perm), {s}, ops, {s})
<1>1. \A x \in {s} : \A o \in PlainOp : \A y : <<x, o, y>> \in LcdMoves(g, perm) => y \in {s}
  BY LcdMove DEF LcdAfter
<1> QED
  BY <1>1, LeadsClosed

LEMMA LaterTwice ==
    ASSUME NEW d \in Awake, NEW a \in Nat, NEW b \in Nat
    PROVE  Later(Later(d, a), b) = Later(d, a + b)
<1>1. d.busy \in Nat
  BY DEF Awake, DispType
<1>2. PICK n \in Nat : n = IF d.busy > a THEN d.busy - a ELSE 0
  BY <1>1
<1>3. PICK m \in Nat : m = IF n > b THEN n - b ELSE 0
  BY <1>2
<1>4. Later(d, a) = [d EXCEPT !.busy = n]
  BY <1>2 DEF Later, Awake, DispType
<1>5. PICK e \in Awake : e = [d EXCEPT !.busy = n]
  BY <1>4, LaterAwake
<1>6. e.busy = n
  BY <1>5 DEF Awake, DispType
<1>7. Later(e, b) = [e EXCEPT !.busy = m]
  BY <1>3, <1>6 DEF Later, Awake, DispType
<1>8. [e EXCEPT !.busy = m] = [d EXCEPT !.busy = m]
  BY <1>5 DEF Awake, DispType
<1>9. m = IF d.busy > a + b THEN d.busy - (a + b) ELSE 0
  BY <1>1, <1>2, <1>3
<1>10. Later(d, a + b) = [d EXCEPT !.busy = m]
  BY <1>9 DEF Later, Awake, DispType
<1> QED
  BY <1>4, <1>5, <1>7, <1>8, <1>10

(* The latch ends with the fall of E.                                       *)
LEMMA LatchLeads ==
    ASSUME NEW g \in Nat, NEW perm, NEW s \in LcdStates, s.kind = "ok", "e" \notin s.p
    PROVE  Leads(LcdMoves(g, perm), {s}, Latch, Fallen(perm, Later(s.d, 3 * g + 2), s.p \cup {"e"}))
<1> DEFINE T == LcdMoves(g, perm)
           l == Latch
           d == s.d
           p == s.p
           F == Fallen(perm, Later(d, 3 * g + 2), p \cup {"e"})
           P == [i \in 1..6 |-> IF i = 1 THEN {s} ELSE IF i = 2 THEN {At(Later(d, g), p)}
                                ELSE IF i = 3 THEN {At(Later(d, g + 1), p)}
                                ELSE IF i = 4 THEN {At(Later(d, 2 * g + 1), p \cup {"e"})}
                                ELSE IF i = 5 THEN {At(Later(d, 2 * g + 2), p \cup {"e"})} ELSE F]
<1>1. /\ Len(l) = 5 /\ l[1] = Low("e") /\ l[2] = Delay(1) /\ l[3] = High("e") /\ l[4] = Delay(1)
      /\ l[5] = Low("e")
  BY DEF Latch
<1>2. /\ P[1] = {s} /\ P[2] = {At(Later(d, g), p)} /\ P[3] = {At(Later(d, g + 1), p)}
      /\ P[4] = {At(Later(d, 2 * g + 1), p \cup {"e"})}
      /\ P[5] = {At(Later(d, 2 * g + 2), p \cup {"e"})} /\ P[6] = F
  OBVIOUS
<1> HIDE DEF T, l, F, P
<1>3. d \in Awake /\ p \in SUBSET LcdPins
  BY DEF LcdStates
<1>4. /\ Later(Later(d, g), 1) = Later(d, g + 1)
      /\ Later(Later(d, g + 1), g) = Later(d, 2 * g + 1)
      /\ Later(Later(d, 2 * g + 1), 1) = Later(d, 2 * g + 2)
      /\ Later(Later(d, 2 * g + 2), g) = Later(d, 3 * g + 2)
  <2>1. /\ Later(Later(d, g + 1), g) = Later(d, (g + 1) + g)
        /\ Later(Later(d, 2 * g + 1), 1) = Later(d, (2 * g + 1) + 1)
        /\ Later(Later(d, 2 * g + 2), g) = Later(d, (2 * g + 2) + g)
        /\ Later(Later(d, g), 1) = Later(d, g + 1)
    BY <1>3, LaterTwice
  <2>2. (g + 1) + g = 2 * g + 1 /\ (2 * g + 1) + 1 = 2 * g + 2 /\ (2 * g + 2) + g = 3 * g + 2
    OBVIOUS
  <2> QED
    BY <2>1, <2>2
<1>5. ASSUME NEW x, NEW o, NEW y, <<x, o, y>> \in T, x.kind = "ok"
      PROVE  /\ o = Low("e") /\ "e" \notin x.p => y = At(Later(x.d, g), x.p)
             /\ o = Low("e") /\ "e" \in x.p => y \in Fallen(perm, Later(x.d, g), x.p)
             /\ o = High("e") => y = At(Later(x.d, g), x.p \cup {"e"})
             /\ o = Delay(1) => y = At(Later(x.d, 1), x.p)
  <2>1. y \in LcdAfter(g, perm, x, o) /\ x.p \in SUBSET LcdPins
    BY <1>5, LcdMove DEF T, LcdStates
  <2>2. CASE o = Low("e")
    <3>1. o.op = "low" /\ o.pin = "e"
      BY <2>2 DEF Low
    <3> QED
      BY <1>5, <2>1, <2>2, <3>1 DEF LcdAfter, LineAfter, LineKinds, High, Delay
  <2>3. CASE o = High("e")
    <3>1. o.op = "high" /\ o.pin = "e" /\ (x.p \cup {"e"}) \cap LcdPins = x.p \cup {"e"}
      BY <2>1, <2>3 DEF High, LcdPins
    <3> QED
      BY <1>5, <2>1, <2>3, <3>1 DEF LcdAfter, LineAfter, LineKinds, Low, Delay
  <2>4. CASE o = Delay(1)
    <3>1. o.op = "delay" /\ o.val = 1
      BY <2>4 DEF Delay
    <3> QED
      BY <1>5, <2>1, <2>4, <3>1 DEF LcdAfter, LineKinds, Low, High
  <2> QED
    BY <2>2, <2>3, <2>4
<1>6. \A e, q : At(e, q).kind = "ok" /\ At(e, q).d = e /\ At(e, q).p = q
  BY DEF At
<1>7. ASSUME NEW i \in 1..5, NEW x \in P[i], NEW y, <<x, l[i], y>> \in T
      PROVE  y \in P[i + 1]
  <2>1. i = 1 \/ i = 2 \/ i = 3 \/ i = 4 \/ i = 5
    OBVIOUS
  <2>2. CASE i = 1
    BY <1>1, <1>2, <1>5, <1>7, <2>2
  <2>3. CASE i = 2
    <3>1. x.kind = "ok" /\ x.d = Later(d, g) /\ x.p = p
      BY <1>2, <1>6, <1>7, <2>3
    <3>2. y = At(Later(x.d, 1), x.p)
      BY <1>1, <1>5, <1>7, <2>3, <3>1
    <3> QED
      BY <1>2, <1>4, <2>3, <3>1, <3>2
  <2>4. CASE i = 3
    <3>1. x.kind = "ok" /\ x.d = Later(d, g + 1) /\ x.p = p
      BY <1>2, <1>6, <1>7, <2>4
    <3>2. y = At(Later(x.d, g), x.p \cup {"e"})
      BY <1>1, <1>5, <1>7, <2>4, <3>1
    <3> QED
      BY <1>2, <1>4, <2>4, <3>1, <3>2
  <2>5. CASE i = 4
    <3>1. x.kind = "ok" /\ x.d = Later(d, 2 * g + 1) /\ x.p = p \cup {"e"}
      BY <1>2, <1>6, <1>7, <2>5
    <3>2. y = At(Later(x.d, 1), x.p)
      BY <1>1, <1>5, <1>7, <2>5, <3>1
    <3>3. y = At(Later(d, 2 * g + 2), p \cup {"e"})
      BY <1>4, <3>1, <3>2
    <3>4. y \in P[5] /\ i + 1 = 5
      BY <1>2, <2>5, <3>3
    <3> QED
      BY <3>4
  <2>6. CASE i = 5
    <3>1. x.kind = "ok" /\ x.d = Later(d, 2 * g + 2) /\ x.p = p \cup {"e"}
      BY <1>2, <1>6, <1>7, <2>6
    <3>2. y \in Fallen(perm, Later(x.d, g), x.p)
      BY <1>1, <1>5, <1>7, <2>6, <3>1
    <3> QED
      BY <1>2, <1>4, <2>6, <3>1, <3>2 DEF F
  <2> QED
    BY <2>1, <2>2, <2>3, <2>4, <2>5, <2>6
<1>8. Leads(T, {s}, l, F)
  BY <1>1, <1>2, <1>7 DEF Leads
<1> QED
  BY <1>8 DEF T, l, F

(* A nibble: four lines and the latch.                                      *)
LEMMA NibbleLeads ==
    ASSUME NEW g \in Nat, NEW perm, NEW s \in LcdStates, NEW v \in 0..15,
           s.kind # "ok" \/ "e" \notin s.p
    PROVE  Leads(LcdMoves(g, perm), {s}, NibbleOps(v), NibbleAfter(g, perm, s, v))
<1>1. CASE s.kind # "ok"
  BY <1>1, NibblePlain, StuckLeads DEF NibbleAfter
<1>2. CASE s.kind = "ok" /\ "e" \notin s.p
  <2> DEFINE T == LcdMoves(g, perm)
             d == s.d
             line(x) == IF Bit(v, x) = 1 THEN High(DataLine(x)) ELSE Low(DataLine(x))
             l == [i \in 1..4 |-> line(4 - i)]
             p3 == LineSet(s.p, v, 3)
             p2 == LineSet(p3, v, 2)
             p1 == LineSet(p2, v, 1)
             p0 == LineSet(p1, v, 0)
             P == [i \in 1..5 |-> IF i = 1 THEN {s} ELSE IF i = 2 THEN {At(Later(d, g), p3)}
                                  ELSE IF i = 3 THEN {At(Later(d, 2 * g), p2)}
                                  ELSE IF i = 4 THEN {At(Later(d, 3 * g), p1)}
                                  ELSE {At(Later(d, 4 * g), p0)}]
  <2>0. d \in Awake /\ s.p \in SUBSET LcdPins
    BY DEF LcdStates
  <2>1. /\ p3 \in SUBSET LcdPins /\ p2 \in SUBSET LcdPins /\ p1 \in SUBSET LcdPins
        /\ p0 \in SUBSET LcdPins /\ "e" \notin p0
    <3>1. p3 \in SUBSET LcdPins /\ "e" \notin p3
      BY <1>2, <2>0, LineSetType
    <3> HIDE DEF p3
    <3>2. p2 \in SUBSET LcdPins /\ "e" \notin p2
      BY <3>1, LineSetType
    <3> HIDE DEF p2
    <3>3. p1 \in SUBSET LcdPins /\ "e" \notin p1
      BY <3>2, LineSetType
    <3> HIDE DEF p1
    <3>4. p0 \in SUBSET LcdPins /\ "e" \notin p0
      BY <3>3, LineSetType
    <3> QED
      BY <3>1, <3>2, <3>3, <3>4
  <2>2. Nibbled(s.p, v) = p0
    BY DEF Nibbled
  <2>3. ASSUME NEW x \in 0..3, NEW t, t.kind = "ok", t.p \in SUBSET LcdPins, NEW u, <<t, line(x), u>> \in T
        PROVE  u = At(Later(t.d, g), LineSet(t.p, v, x))
    <3>1. u \in LcdAfter(g, perm, t, line(x))
      BY <2>3, LcdMove
    <3>2. DataLine(x) # "e" /\ DataLine(x) \in LcdPins
      BY DataPins DEF LcdPins
    <3>3. CASE Bit(v, x) = 1
      <4>1. line(x).op = "high" /\ line(x).pin = DataLine(x)
        BY <3>3 DEF High
      <4>2. (t.p \cup {DataLine(x)}) \cap LcdPins = t.p \cup {DataLine(x)}
        BY <2>3, <3>2
      <4> QED
        BY <2>3, <3>1, <3>3, <4>1, <4>2 DEF LcdAfter, LineAfter, LineKinds, LineSet
    <3>4. CASE Bit(v, x) # 1
      <4>1. line(x).op = "low" /\ line(x).pin = DataLine(x)
        BY <3>4 DEF Low
      <4> QED
        BY <2>3, <3>1, <3>2, <3>4, <4>1 DEF LcdAfter, LineAfter, LineKinds, LineSet
    <3> QED
      BY <3>3, <3>4
  <2>4. l \in Seq(PlainOp) /\ Len(l) = 4 /\ l[1] = line(3) /\ l[2] = line(2) /\ l[3] = line(1) /\ l[4] = line(0)
    <3>1. \A x \in 0..3 : line(x) \in PlainOp
      BY DataLines, LineOps
    <3>2. l \in Seq(PlainOp) /\ Len(l) = 4
      BY <3>1
    <3> HIDE DEF line
    <3>3. /\ l[1] = line(4 - 1) /\ l[2] = line(4 - 2) /\ l[3] = line(4 - 3) /\ l[4] = line(4 - 4)
      OBVIOUS
    <3>4. 4 - 1 = 3 /\ 4 - 2 = 2 /\ 4 - 3 = 1 /\ 4 - 4 = 0
      OBVIOUS
    <3> QED
      BY <3>2, <3>3, <3>4
  <2>5. /\ P[1] = {s} /\ P[2] = {At(Later(d, g), p3)} /\ P[3] = {At(Later(d, 2 * g), p2)}
        /\ P[4] = {At(Later(d, 3 * g), p1)} /\ P[5] = {At(Later(d, 4 * g), p0)}
    OBVIOUS
  <2>6. NibbleOps(v) = l \o Latch
    BY DEF NibbleOps
  <2> HIDE DEF T, l, p3, p2, p1, p0, P, line
  <2>7. /\ Later(Later(d, g), g) = Later(d, 2 * g) /\ Later(Later(d, 2 * g), g) = Later(d, 3 * g)
        /\ Later(Later(d, 3 * g), g) = Later(d, 4 * g)
        /\ Later(Later(d, 4 * g), 3 * g + 2) = Later(d, 7 * g + 2)
    <3>1. /\ Later(Later(d, g), g) = Later(d, g + g)
          /\ Later(Later(d, 2 * g), g) = Later(d, 2 * g + g)
          /\ Later(Later(d, 3 * g), g) = Later(d, 3 * g + g)
          /\ Later(Later(d, 4 * g), 3 * g + 2) = Later(d, 4 * g + (3 * g + 2))
      <4>1. 2 * g \in Nat /\ 3 * g \in Nat /\ 4 * g \in Nat /\ 3 * g + 2 \in Nat
        OBVIOUS
      <4> QED
        BY <2>0, <4>1, LaterTwice
    <3>2. g + g = 2 * g /\ 2 * g + g = 3 * g /\ 3 * g + g = 4 * g /\ 4 * g + (3 * g + 2) = 7 * g + 2
      OBVIOUS
    <3> QED
      BY <3>1, <3>2
  <2>8. \A e, q : At(e, q).kind = "ok" /\ At(e, q).d = e /\ At(e, q).p = q
    BY DEF At
  <2>9. ASSUME NEW i \in 1..4, NEW x \in P[i], NEW y, <<x, l[i], y>> \in T
        PROVE  y \in P[i + 1]
    <3>1. i = 1 \/ i = 2 \/ i = 3 \/ i = 4
      OBVIOUS
    <3>2. CASE i = 1
      <4>1. x.kind = "ok" /\ x.d = d /\ x.p = s.p
        BY <1>2, <2>5, <2>9, <3>2
      <4>2. y = At(Later(d, g), LineSet(s.p, v, 3))
        BY <2>0, <2>3, <2>4, <2>9, <3>2, <4>1
      <4>3. y \in P[2] /\ i + 1 = 2
        BY <2>5, <3>2, <4>2 DEF p3
      <4> QED
        BY <4>3
    <3>3. CASE i = 2
      <4>1. x.kind = "ok" /\ x.d = Later(d, g) /\ x.p = p3
        BY <2>5, <2>8, <2>9, <3>3
      <4>2. y = At(Later(d, 2 * g), LineSet(p3, v, 2))
        <5>1. y = At(Later(x.d, g), LineSet(x.p, v, 2))
          BY <2>1, <2>3, <2>4, <2>9, <3>3, <4>1
        <5> QED
          BY <2>7, <4>1, <5>1
      <4>3. y \in P[3] /\ i + 1 = 3
        BY <2>5, <3>3, <4>2 DEF p2
      <4> QED
        BY <4>3
    <3>4. CASE i = 3
      <4>1. x.kind = "ok" /\ x.d = Later(d, 2 * g) /\ x.p = p2
        BY <2>5, <2>8, <2>9, <3>4
      <4>2. y = At(Later(d, 3 * g), LineSet(p2, v, 1))
        <5>1. y = At(Later(x.d, g), LineSet(x.p, v, 1))
          BY <2>1, <2>3, <2>4, <2>9, <3>4, <4>1
        <5> QED
          BY <2>7, <4>1, <5>1
      <4>3. y \in P[4] /\ i + 1 = 4
        BY <2>5, <3>4, <4>2 DEF p1
      <4> QED
        BY <4>3
    <3>5. CASE i = 4
      <4>1. x.kind = "ok" /\ x.d = Later(d, 3 * g) /\ x.p = p1
        BY <2>5, <2>8, <2>9, <3>5
      <4>2. y = At(Later(d, 4 * g), LineSet(p1, v, 0))
        <5>1. y = At(Later(x.d, g), LineSet(x.p, v, 0))
          BY <2>1, <2>3, <2>4, <2>9, <3>5, <4>1
        <5> QED
          BY <2>7, <4>1, <5>1
      <4>3. y \in P[5] /\ i + 1 = 5
        BY <2>5, <3>5, <4>2 DEF p0
      <4> QED
        BY <4>3
    <3> QED
      BY <3>1, <3>2, <3>3, <3>4, <3>5
  <2>10. Leads(T, {s}, l, {At(Later(d, 4 * g), p0)})
    BY <2>4, <2>5, <2>9 DEF Leads
  <2>11. Leads(T, {At(Later(d, 4 * g), p0)}, Latch, NibbleAfter(g, perm, s, v))
    <3>1. Later(d, 4 * g) \in Awake
      BY <2>0, LaterAwake
    <3>2. PICK t \in LcdStates : t = At(Later(d, 4 * g), p0)
      BY <2>1, <3>1, AtType
    <3>3. t.kind = "ok" /\ t.d = Later(d, 4 * g) /\ t.p = p0
      BY <2>8, <3>2
    <3>4. Leads(T, {t}, Latch, Fallen(perm, Later(t.d, 3 * g + 2), t.p \cup {"e"}))
      BY <2>1, <3>3, LatchLeads DEF T
    <3>5. NibbleAfter(g, perm, s, v) = Fallen(perm, Later(d, 7 * g + 2), p0 \cup {"e"})
      BY <1>2, <2>2 DEF NibbleAfter
    <3> QED
      BY <2>7, <3>2, <3>3, <3>4, <3>5
  <2> QED
    BY <2>4, <2>6, <2>10, <2>11, LatchPlain, LeadsConcat DEF T
<1> QED
  BY <1>1, <1>2

LEMMA JoinedTwo ==
    ASSUME NEW S, NEW a \in S, NEW b \in S
    PROVE  <<a>> \o <<b>> = <<a, b>>
<1> DEFINE t == <<a>> \o <<b>>
           s == <<a, b>>
<1>1. t \in Seq(S) /\ Len(t) = 2 /\ t[1] = a /\ t[2] = b
  OBVIOUS
<1>2. s \in Seq(S) /\ Len(s) = 2 /\ s[1] = a /\ s[2] = b
  OBVIOUS
<1> HIDE DEF s, t
<1>3. \A i \in 1..2 : i = 1 \/ i = 2
  OBVIOUS
<1>4. \A i \in 1..2 : s[i] = t[i]
  BY <1>1, <1>2, <1>3
<1>5. s = t
  BY <1>1, <1>2, <1>4, SeqEqual
<1> QED
  BY <1>5 DEF s, t

(* A byte: the register and two nibbles.                                    *)
LEMMA WriteLeads ==
    ASSUME NEW g \in Nat, NEW perm, NEW s \in LcdStates, NEW v \in 0..255, NEW line,
           s.kind = "ok", "e" \notin s.p, Crash \notin WriteAfter(g, perm, s, v, line)
    PROVE  Leads(LcdMoves(g, perm), {s}, WriteOps(v, line), WriteAfter(g, perm, s, v, line))
<1> DEFINE T == LcdMoves(g, perm)
           rs == IF line = "rs" THEN High("rs") ELSE Low("rs")
           t == At(Later(s.d, g), Selecting(s.p, line))
           D == NibbleAfter(g, perm, t, v \div 16)
           E == UNION {NibbleAfter(g, perm, u, v % 16) : u \in D}
<1>1. v \div 16 \in 0..15 /\ v % 16 \in 0..15
  OBVIOUS
<1>2. t \in LcdStates /\ t.kind = "ok" /\ "e" \notin t.p
  BY SelectedType DEF At, Selecting
<1>3. Leads(T, {s}, <<rs>>, {t})
  <2>1. ASSUME NEW u, <<s, rs, u>> \in T
        PROVE  u = t
    <3>1. u \in LcdAfter(g, perm, s, rs) /\ s.p \in SUBSET LcdPins
      BY <2>1, LcdMove DEF LcdStates
    <3>2. rs.op \in LineKinds /\ rs.pin = "rs" /\ (s.p \cup {"rs"}) \cap LcdPins = s.p \cup {"rs"}
          /\ (line = "rs" <=> rs.op = "high")
      BY <3>1 DEF High, Low, LineKinds, LcdPins
    <3> HIDE DEF rs
    <3> QED
      BY <3>1, <3>2 DEF LcdAfter, LineAfter, Selecting, t
  <2> HIDE DEF T, rs, t
  <2>2. \A x \in {s} : \A y : <<x, rs, y>> \in T => y \in {t}
    BY <2>1
  <2> QED
    BY <2>2, LeadsOne
<1>4. Nibble(v \div 16) \in PlainOp /\ Nibble(v % 16) \in PlainOp
  BY <1>1, NibbleOp
<1> DEFINE hi == Nibble(v \div 16)
           lo == Nibble(v % 16)
<1>5. \A x, n, y : n \in {v \div 16, v % 16} /\ <<x, Nibble(n), y>> \in T => y \in NibbleAfter(g, perm, x, n)
  <2>1. SUFFICES ASSUME NEW x, NEW n, NEW y, <<x, Nibble(n), y>> \in T
                 PROVE  y \in NibbleAfter(g, perm, x, n)
    OBVIOUS
  <2>2. y \in LcdAfter(g, perm, x, Nibble(n))
    BY <2>1, LcdMove
  <2>3. Nibble(n).op = "nibble" /\ Nibble(n).val = n
    BY DEF Nibble
  <2> QED
    BY <2>2, <2>3 DEF LcdAfter, LineKinds, NibbleAfter
<1>6. rs \in PlainOp
  BY LineOps DEF Pins
<1>7. WriteOps(v, line) = <<rs, hi, lo>>
  BY DEF WriteOps
<1> HIDE DEF T, rs, t, hi, lo, D, E
<1>8. Leads(T, {t}, <<hi>>, D)
  BY <1>5, LeadsOne DEF D, hi
<1>9. Leads(T, D, <<lo>>, E)
  <2>1. \A x \in D : \A y : <<x, lo, y>> \in T => y \in E
    BY <1>5 DEF E, lo
  <2> QED
    BY <2>1, LeadsOne
<1>10. <<rs>> \in Seq(PlainOp) /\ <<hi>> \in Seq(PlainOp) /\ <<lo>> \in Seq(PlainOp)
  BY <1>4, <1>6 DEF hi, lo
<1>11. <<rs>> \o <<hi>> \in Seq(PlainOp) /\ <<rs>> \o <<hi>> = <<rs, hi>>
  BY <1>4, <1>6, <1>10, PlainConcat, JoinedTwo DEF hi, lo
<1>12. Leads(T, {s}, <<rs>> \o <<hi>>, D)
  BY <1>3, <1>8, <1>10, LeadsConcat
<1>13. Leads(T, {s}, (<<rs>> \o <<hi>>) \o <<lo>>, E)
  BY <1>9, <1>10, <1>11, <1>12, LeadsConcat
<1>14. (<<rs>> \o <<hi>>) \o <<lo>> = <<rs, hi, lo>>
  <2>1. <<rs, hi>> \o <<lo>> = <<rs, hi, lo>>
    BY <1>4, <1>6, JoinedThree DEF hi, lo
  <2> QED
    BY <1>11, <2>1
<1> QED
  BY <1>7, <1>13, <1>14 DEF WriteAfter, T, E, D, t

(* The lines show the nibble.                                               *)
LEMMA LineSetHolds ==
    ASSUME NEW p, NEW v, NEW x \in 0..3, NEW y \in 0..3
    PROVE  DataLine(y) \in LineSet(p, v, x) <=> IF y = x THEN Bit(v, x) = 1 ELSE DataLine(y) \in p
<1>1. y # x => DataLine(y) # DataLine(x)
  <2>1. /\ x = 0 \/ x = 1 \/ x = 2 \/ x = 3
        /\ y = 0 \/ y = 1 \/ y = 2 \/ y = 3
    OBVIOUS
  <2>2. DataLine(0) = "d0" /\ DataLine(1) = "d1" /\ DataLine(2) = "d2" /\ DataLine(3) = "d3"
    BY DEF DataLine
  <2> HIDE DEF DataLine
  <2> QED
    BY <2>1, <2>2
<1> QED
  BY <1>1 DEF LineSet

LEMMA NibbledHolds ==
    ASSUME NEW p, NEW v, NEW y \in 0..3
    PROVE  DataLine(y) \in Nibbled(p, v) <=> Bit(v, y) = 1
<1> DEFINE p3 == LineSet(p, v, 3)
           p2 == LineSet(p3, v, 2)
           p1 == LineSet(p2, v, 1)
           p0 == LineSet(p1, v, 0)
<1>1. /\ DataLine(y) \in p3 <=> IF y = 3 THEN Bit(v, 3) = 1 ELSE DataLine(y) \in p
      /\ DataLine(y) \in p2 <=> IF y = 2 THEN Bit(v, 2) = 1 ELSE DataLine(y) \in p3
      /\ DataLine(y) \in p1 <=> IF y = 1 THEN Bit(v, 1) = 1 ELSE DataLine(y) \in p2
      /\ DataLine(y) \in p0 <=> IF y = 0 THEN Bit(v, 0) = 1 ELSE DataLine(y) \in p1
  BY LineSetHolds
<1>2. Nibbled(p, v) = p0
  BY DEF Nibbled
<1> HIDE DEF p3, p2, p1, p0
<1>3. y = 0 \/ y = 1 \/ y = 2 \/ y = 3
  OBVIOUS
<1> QED
  BY <1>1, <1>2, <1>3

LEMMA NibbleSum ==
    ASSUME NEW v \in 0..15
    PROVE  Bit(v, 0) + 2 * Bit(v, 1) + 4 * Bit(v, 2) + 8 * Bit(v, 3) = v
<1>1. 2^0 = 1 /\ 2^1 = 2 /\ 2^2 = 4 /\ 2^3 = 8
  OBVIOUS
<1>2. /\ Bit(v, 0) = v % 2 /\ Bit(v, 1) = (v \div 2) % 2 /\ Bit(v, 2) = (v \div 4) % 2
      /\ Bit(v, 3) = (v \div 8) % 2
  BY <1>1 DEF Bit
<1>3. PICK a \in 0..1 : a = v % 2
  OBVIOUS
<1>4. PICK b \in 0..1 : b = (v \div 2) % 2
  OBVIOUS
<1>5. PICK c \in 0..1 : c = (v \div 4) % 2
  OBVIOUS
<1>6. PICK d \in 0..1 : d = (v \div 8) % 2
  OBVIOUS
<1>7. v = a + 2 * b + 4 * c + 8 * d
  <2>1. v \div 8 = d
    BY <1>6
  <2>2. v \div 4 = 2 * (v \div 8) + c
    BY <1>5
  <2>3. v \div 2 = 2 * (v \div 4) + b
    BY <1>4
  <2>4. v = 2 * (v \div 2) + a
    BY <1>3
  <2> QED
    BY <2>1, <2>2, <2>3, <2>4
<1> QED
  BY <1>2, <1>3, <1>4, <1>5, <1>6, <1>7

LEMMA NibbleLines ==
    ASSUME NEW p \in SUBSET LcdPins, NEW v \in 0..15
    PROVE  OnLines(Nibbled(p, v) \cup {"e"}) = v
<1> DEFINE q == Nibbled(p, v) \cup {"e"}
<1>1. \A y \in 0..3 : DataLine(y) \in q <=> Bit(v, y) = 1
  BY NibbledHolds, DataPins
<1>2. \A y \in 0..3 : Bit(v, y) \in 0..1
  BY BitType
<1> HIDE DEF q
<1>3. 2^0 = 1 /\ 2^1 = 2 /\ 2^2 = 4 /\ 2^3 = 8
  OBVIOUS
<1>4. OnLines(q) = (IF DataLine(0) \in q THEN 1 ELSE 0) + (IF DataLine(1) \in q THEN 2 ELSE 0)
                      + (IF DataLine(2) \in q THEN 4 ELSE 0) + (IF DataLine(3) \in q THEN 8 ELSE 0)
  BY <1>3 DEF OnLines
<1>5. /\ DataLine(0) \in q <=> Bit(v, 0) = 1
      /\ DataLine(1) \in q <=> Bit(v, 1) = 1
      /\ DataLine(2) \in q <=> Bit(v, 2) = 1
      /\ DataLine(3) \in q <=> Bit(v, 3) = 1
  BY <1>1
<1>6. Bit(v, 0) \in 0..1 /\ Bit(v, 1) \in 0..1 /\ Bit(v, 2) \in 0..1 /\ Bit(v, 3) \in 0..1
  BY <1>2
<1>7. OnLines(q) = Bit(v, 0) + 2 * Bit(v, 1) + 4 * Bit(v, 2) + 8 * Bit(v, 3)
  BY <1>4, <1>5, <1>6
<1> QED
  BY <1>7, NibbleSum DEF q

(* The display, busy for b.                                                 *)
Busy(d, b) == [d EXCEPT !.busy = b]

LEMMA BusyType ==
    ASSUME NEW d \in Awake, NEW b \in Nat, b <= WarmUp
    PROVE  Busy(d, b) \in Awake /\ Busy(d, b).busy = b
  BY DEF Busy, Awake, DispType

LEMMA LaterBusy ==
    ASSUME NEW d \in Awake, NEW us \in Nat
    PROVE  \E b \in Nat : /\ b <= WarmUp /\ Later(d, us) = Busy(d, b)
                          /\ b = IF d.busy > us THEN d.busy - us ELSE 0
<1>1. d.busy \in Nat /\ d.busy <= WarmUp /\ WarmUp \in Nat
  BY WarmUpType DEF Awake, DispType
<1>2. PICK b \in Nat : b = IF d.busy > us THEN d.busy - us ELSE 0
  BY <1>1
<1>3. Later(d, us) = Busy(d, b)
  BY <1>2 DEF Later, Busy, Awake, DispType
<1> QED
  BY <1>1, <1>2, <1>3

LEMMA BusyTwice ==
    ASSUME NEW d \in Awake, NEW b \in Nat, NEW c \in Nat
    PROVE  Busy(Busy(d, b), c) = Busy(d, c)
  BY DEF Busy, Awake, DispType

LEMMA ExecuteCold ==
    ASSUME NEW d \in Awake, d.cold = 0, NEW data \in BOOLEAN, NEW b \in 0..255
    PROVE  Execute(d, data, b).cold = 0
<1>1. CASE data
  BY <1>1 DEF Execute, Awake, DispType
<1>2. CASE ~data /\ b >= 128
  BY <1>2 DEF Execute, Awake, DispType
<1>3. CASE ~data /\ b \in 32..63
  <2>1. PICK n : n = CASE d.cold = 2 -> 4100 [] d.cold = 1 -> 100 [] OTHER -> 37
    OBVIOUS
  <2>2. Execute(d, data, b) = [d EXCEPT !.wide = Bit(b, 4) = 1, !.two = Bit(b, 3),
                                        !.cold = IF Bit(b, 4) = 1 /\ @ > 0 THEN @ - 1 ELSE 0, !.busy = n]
    BY <1>3, <2>1 DEF Execute
  <2>3. PICK w : w = (Bit(b, 4) = 1)
    OBVIOUS
  <2>4. PICK x : x = Bit(b, 3)
    OBVIOUS
  <2>5. Execute(d, data, b) = [d EXCEPT !.wide = w, !.two = x,
                                        !.cold = IF w /\ @ > 0 THEN @ - 1 ELSE 0, !.busy = n]
    BY <2>2, <2>3, <2>4
  <2> QED
    BY <2>5 DEF Awake, DispType
<1>4. CASE ~data /\ b \in 8..15
  BY <1>4 DEF Execute, Awake, DispType
<1>5. CASE ~data /\ b \in 4..7
  BY <1>5 DEF Execute, Awake, DispType
<1>6. CASE ~data /\ b \in 1..3
  <2>1. PICK n : n = 1520
    OBVIOUS
  <2>2. CASE b \in 2..3
    <3>1. Execute(d, data, b) = [d EXCEPT !.addr = 0, !.busy = n]
      BY <1>6, <2>1, <2>2 DEF Execute
    <3> QED
      BY <3>1 DEF Awake, DispType
  <2>3. CASE b = 1
    <3>1. Execute(d, data, b) = [d EXCEPT !.ram = Blank, !.addr = 0, !.inc = 1, !.busy = n]
      BY <1>6, <2>1, <2>3 DEF Execute
    <3> QED
      BY <3>1 DEF Awake, DispType
  <2> QED
    BY <1>6, <2>2, <2>3
<1>7. CASE ~data /\ (b = 0 \/ b \in 16..31 \/ b \in 64..127)
  BY <1>7 DEF Execute
<1> QED
  BY <1>1, <1>2, <1>3, <1>4, <1>5, <1>6, <1>7

Half(d, v) == [d EXCEPT !.half = v]

LEMMA HalfType ==
    ASSUME NEW d \in Awake, NEW v \in Halves
    PROVE  /\ Half(d, v) \in Awake /\ Half(d, v).half = v
           /\ Half(d, v).busy = d.busy /\ Half(d, v).wide = d.wide /\ Half(d, v).cold = d.cold
  BY DEF Half, Awake, DispType

(* A write that comes in time, or may come too early.                       *)
LEMMA FallenDone ==
    ASSUME NEW perm, NEW d, NEW p, d.busy = 0 \/ perm = 1, Sane(Taken(d, "rs" \in p, OnLines(p))),
           NEW t \in Fallen(perm, d, p)
    PROVE  t = Lost \/ t = At(Taken(d, "rs" \in p, OnLines(p)), p \ {"e"})
  BY DEF Fallen

LEMMA NibbleTaken ==
    ASSUME NEW g \in Nat, NEW perm, NEW s \in LcdStates, s.kind = "ok", "e" \notin s.p,
           ~s.d.wide, s.d.cold = 0, s.d.busy <= 7 * g + 2 \/ perm = 1, NEW v \in 0..15,
           NEW t \in NibbleAfter(g, perm, s, v), t # Lost
    PROVE  \E b \in Nat :
              /\ b <= WarmUp /\ (s.d.busy <= 7 * g + 2 => b = 0)
              /\ t.kind = "ok" /\ "e" \notin t.p /\ ("rs" \in t.p <=> "rs" \in s.p)
              /\ t.d = IF s.d.half = -1 THEN Half(Busy(s.d, b), v)
                       ELSE Execute(Half(Busy(s.d, b), -1), "rs" \in s.p, 16 * s.d.half + v)
<1> DEFINE d == s.d
           p == s.p
           q == Nibbled(p, v) \cup {"e"}
<1>1. d \in Awake /\ p \in SUBSET LcdPins /\ d.busy \in Nat /\ d.half \in Halves
  BY DEF LcdStates, Awake, DispType
<1>2. 7 * g + 2 \in Nat
  OBVIOUS
<1>3. PICK b \in Nat : /\ b <= WarmUp /\ Later(d, 7 * g + 2) = Busy(d, b)
                       /\ b = IF d.busy > 7 * g + 2 THEN d.busy - (7 * g + 2) ELSE 0
  BY <1>1, <1>2, LaterBusy
<1>4. d.busy <= 7 * g + 2 => b = 0
  BY <1>1, <1>2, <1>3
<1>5. Busy(d, b) \in Awake /\ Busy(d, b).busy = b
  BY <1>1, <1>3, BusyType
<1>6. Busy(d, b).wide = d.wide /\ Busy(d, b).half = d.half /\ Busy(d, b).cold = d.cold
  BY <1>1 DEF Busy, Awake, DispType
<1>7. /\ OnLines(q) = v /\ ("rs" \in q <=> "rs" \in p) /\ "e" \notin q \ {"e"}
      /\ ("rs" \in q \ {"e"} <=> "rs" \in p)
  BY <1>1, NibbleLines, NibbledType
<1> HIDE DEF q
<1>8. t \in Fallen(perm, Busy(d, b), q)
  BY <1>3 DEF NibbleAfter, q
<1> DEFINE u == Taken(Busy(d, b), "rs" \in q, OnLines(q))
<1>9. u = IF d.half = -1 THEN Half(Busy(d, b), v)
          ELSE Execute(Half(Busy(d, b), -1), "rs" \in p, 16 * d.half + v)
  BY <1>6, <1>7 DEF Taken, Half
<1>10. u.cold = 0
  <2>1. CASE d.half = -1
    <3>1. v \in Halves
      BY DEF Halves
    <3> QED
      BY <1>5, <1>6, <1>9, <2>1, <3>1, HalfType
  <2>2. CASE d.half # -1
    <3>1. -1 \in Halves /\ 16 * d.half + v \in 0..255
      BY <1>1, <2>2 DEF Halves
    <3>2. Half(Busy(d, b), -1) \in Awake /\ Half(Busy(d, b), -1).cold = 0
      BY <1>5, <1>6, <3>1, HalfType
    <3>3. ("rs" \in p) \in BOOLEAN
      OBVIOUS
    <3>4. Execute(Half(Busy(d, b), -1), "rs" \in p, 16 * d.half + v).cold = 0
      BY <3>1, <3>2, <3>3, ExecuteCold
    <3> QED
      BY <1>9, <2>2, <3>4
  <2> QED
    BY <2>1, <2>2
<1>11. t = At(u, q \ {"e"})
  <2>1. Sane(u)
    BY <1>10 DEF Sane
  <2>2. Busy(d, b).busy = 0 \/ perm = 1
    BY <1>4, <1>5
  <2> QED
    BY <1>8, <2>1, <2>2, FallenDone
<1>12. t.kind = "ok" /\ t.d = u /\ t.p = q \ {"e"}
  BY <1>11 DEF At
<1> QED
  BY <1>3, <1>4, <1>7, <1>9, <1>12

(* What a byte makes of the display, sent as an instruction or a character.  *)
Instructed(d, v) == Execute(d, FALSE, v)
Characterized(d, v) == Execute(d, TRUE, v)
Received(d, v, line) == IF line = "rs" THEN Characterized(d, v) ELSE Instructed(d, v)

(* A display that takes a byte, in time or where it may come too early.     *)
Ready(g, perm) ==
    {s \in LcdStates : /\ s.kind = "ok" /\ "e" \notin s.p
                       /\ ~s.d.wide /\ s.d.half = -1 /\ s.d.cold = 0
                       /\ s.d.busy <= 8 * g + 2 \/ perm = 1}
Written(s, v, line) ==
    {t \in LcdStates : \/ t = Lost
                       \/ /\ t.kind = "ok" /\ "e" \notin t.p
                          /\ \E b \in Nat : b <= WarmUp /\ t.d = Received(Busy(s.d, b), v, line)}

LEMMA WriteMove ==
    ASSUME NEW g \in Nat, NEW perm, NEW s \in Ready(g, perm),
           NEW v \in 0..255, NEW line \in {"none", "rs"}
    PROVE  LcdAfter(g, perm, s, Write(v, line)) \subseteq Written(s, v, line)
<1> SUFFICES ASSUME NEW t \in LcdAfter(g, perm, s, Write(v, line))
             PROVE  t \in Written(s, v, line)
  OBVIOUS
<1>0. /\ s \in LcdStates /\ s.kind = "ok" /\ "e" \notin s.p
      /\ ~s.d.wide /\ s.d.half = -1 /\ s.d.cold = 0
      /\ s.d.busy <= 8 * g + 2 \/ perm = 1
  BY DEF Ready
<1> DEFINE d == s.d
           hi == v \div 16
           lo == v % 16
           x == At(Later(d, g), Selecting(s.p, line))
<1>1. hi \in 0..15 /\ lo \in 0..15 /\ 16 * hi + lo = v
  OBVIOUS
<1>2. d \in Awake /\ s.p \in SUBSET LcdPins /\ d.busy \in Nat
  BY <1>0 DEF LcdStates, Awake, DispType
<1>3. t \in LcdStates /\ t \in WriteAfter(g, perm, s, v, line)
  <2>1. Write(v, line).op = "write" /\ Write(v, line).val = v /\ Write(v, line).pin = line
    BY DEF Write
  <2>2. Write(v, line) \in PlainOp
    BY WriteOp
  <2>3. t \in LcdStates
    BY <1>0, <2>2, LcdAfterType
  <2> QED
    BY <1>0, <2>1, <2>3 DEF LcdAfter, LineKinds
<1>4. PICK c \in Nat : /\ c <= WarmUp /\ Later(d, g) = Busy(d, c)
                       /\ c = IF d.busy > g THEN d.busy - g ELSE 0
  BY <1>2, LaterBusy
<1>5. c <= 7 * g + 2 \/ perm = 1
  BY <1>0, <1>2, <1>4
<1>6. /\ x \in LcdStates /\ x.kind = "ok" /\ "e" \notin x.p /\ x.d = Busy(d, c)
      /\ ("rs" \in x.p <=> line = "rs")
  BY <1>0, <1>4, SelectedType DEF At, Selecting
<1>7. /\ Busy(d, c).wide = d.wide /\ Busy(d, c).half = d.half /\ Busy(d, c).cold = d.cold
      /\ Busy(d, c).busy = c
  BY <1>2 DEF Busy, Awake, DispType
<1> HIDE DEF hi, lo, x
<1>8. PICK u \in NibbleAfter(g, perm, x, hi) : t \in NibbleAfter(g, perm, u, lo)
  BY <1>0, <1>3 DEF WriteAfter, hi, lo, x
<1>9. u \in LcdStates
  BY <1>6, NibbleAfterType
<1>10. CASE u = Lost
  <2>1. t = Lost
    BY <1>8, <1>10 DEF NibbleAfter, Lost
  <2> QED
    BY <1>3, <2>1 DEF Written
<1>11. CASE u # Lost
  <2>1. PICK e \in Nat : /\ e <= WarmUp /\ (c <= 7 * g + 2 => e = 0)
                         /\ u.kind = "ok" /\ "e" \notin u.p /\ ("rs" \in u.p <=> line = "rs")
                         /\ u.d = Half(Busy(Busy(d, c), e), hi)
    <3>1. ~x.d.wide /\ x.d.cold = 0 /\ x.d.half = -1 /\ x.d.busy = c
      BY <1>0, <1>6, <1>7
    <3>2. x.d.busy <= 7 * g + 2 \/ perm = 1
      BY <1>5, <3>1
    <3>3. \E b \in Nat :
             /\ b <= WarmUp /\ (x.d.busy <= 7 * g + 2 => b = 0)
             /\ u.kind = "ok" /\ "e" \notin u.p /\ ("rs" \in u.p <=> "rs" \in x.p)
             /\ u.d = IF x.d.half = -1 THEN Half(Busy(x.d, b), hi)
                      ELSE Execute(Half(Busy(x.d, b), -1), "rs" \in x.p, 16 * x.d.half + hi)
      BY <1>1, <1>6, <1>8, <1>11, <3>1, <3>2, NibbleTaken
    <3> QED
      BY <1>6, <3>1, <3>3
  <2>2. hi \in Halves /\ hi # -1 /\ -1 \in Halves
    BY <1>1 DEF Halves
  <2>3. u.d = Half(Busy(d, e), hi)
    BY <1>2, <2>1, BusyTwice
  <2>4. PICK f \in Awake : f = Busy(d, e) /\ f.busy = e /\ f.wide = d.wide /\ f.cold = d.cold
    <3>1. Busy(d, e).wide = d.wide /\ Busy(d, e).cold = d.cold
      BY <1>2 DEF Busy, Awake, DispType
    <3> QED
      BY <1>2, <2>1, <3>1, BusyType
  <2>5. /\ u.d.half = hi /\ u.d.busy = e /\ ~u.d.wide /\ u.d.cold = 0
    BY <1>0, <2>2, <2>3, <2>4, HalfType
  <2>6. u.d.busy <= 7 * g + 2 \/ perm = 1
    BY <1>5, <2>1, <2>5
  <2>7. CASE t # Lost
    <3>1. PICK b \in Nat : /\ b <= WarmUp
                           /\ t.kind = "ok" /\ "e" \notin t.p
                           /\ t.d = Execute(Half(Busy(u.d, b), -1), "rs" \in u.p, 16 * hi + lo)
      <4>1. \E b \in Nat :
               /\ b <= WarmUp /\ (u.d.busy <= 7 * g + 2 => b = 0)
               /\ t.kind = "ok" /\ "e" \notin t.p /\ ("rs" \in t.p <=> "rs" \in u.p)
               /\ t.d = IF u.d.half = -1 THEN Half(Busy(u.d, b), lo)
                        ELSE Execute(Half(Busy(u.d, b), -1), "rs" \in u.p, 16 * u.d.half + lo)
        <5>1. lo \in 0..15 /\ u.kind = "ok" /\ "e" \notin u.p /\ ~u.d.wide /\ u.d.cold = 0
          BY <1>1, <2>1, <2>5
        <5> QED
          BY <1>8, <1>9, <2>6, <2>7, <5>1, NibbleTaken
      <4> QED
        BY <2>2, <2>5, <4>1
    <3>2. Half(Busy(u.d, b), -1) = Busy(d, b)
      BY <1>0, <1>2, <2>3 DEF Half, Busy, Awake, DispType
    <3>3. ("rs" \in u.p) = (line = "rs")
      BY <2>1
    <3>4. t.d = Execute(Busy(d, b), line = "rs", v)
      BY <1>1, <3>1, <3>2, <3>3 DEF hi, lo
    <3>5. t.d = Received(Busy(d, b), v, line)
      <4>1. CASE line = "rs"
        <5>1. (line = "rs") = TRUE
          BY <4>1
        <5> QED
          BY <3>4, <4>1, <5>1 DEF Received, Characterized
      <4>2. CASE line = "none"
        <5>1. (line = "rs") = FALSE
          BY <4>2
        <5> QED
          BY <3>4, <4>2, <5>1 DEF Received, Instructed
      <4> QED
        BY <4>1, <4>2
    <3> QED
      BY <1>3, <3>1, <3>5 DEF Written
  <2>8. CASE t = Lost
    BY <1>3, <2>8 DEF Written
  <2> QED
    BY <2>7, <2>8
<1> QED
  BY <1>10, <1>11

(* The display between bytes: busy for b at most, on if `on' is 1, and with  *)
(* this text if `shown' is 1, the cursor at a.                                *)
Calm(d, b, on, shown, ram, a) ==
    /\ ~d.wide /\ d.half = -1 /\ d.cold = 0 /\ d.busy <= b
    /\ on = 1 => d.on = 1
    /\ shown = 1 => d.inc = 1 /\ d.ram = ram /\ d.addr = a

Resting(b, on, shown, ram, a) ==
    {s \in LcdStates : \/ s = Lost
                       \/ s.kind = "ok" /\ "e" \notin s.p /\ Calm(s.d, b, on, shown, ram, a)}

LEMMA Waited ==
    ASSUME NEW d \in Awake, NEW us \in Nat, d.busy <= us
    PROVE  Later(d, us) = Busy(d, 0)
<1>1. d.busy \in Nat
  BY DEF Awake, DispType
<1> QED
  BY <1>1, LaterBusy

LEMMA CalmLater ==
    ASSUME NEW d \in Awake, NEW us \in Nat, NEW b, NEW c \in Nat, d.busy <= us + c,
           NEW on, NEW shown, NEW ram, NEW a, Calm(d, b, on, shown, ram, a)
    PROVE  Calm(Later(d, us), c, on, shown, ram, a)
<1>1. d.busy \in Nat
  BY DEF Awake, DispType
<1>2. PICK n \in Nat : n = (IF d.busy > us THEN d.busy - us ELSE 0) /\ Later(d, us) = Busy(d, n)
  BY LaterBusy
<1>3. n <= c
  BY <1>1, <1>2
<1> QED
  BY <1>2, <1>3 DEF Calm, Busy, Awake, DispType

(* What the instructions make of it.                                        *)
Sized(d, w, x) == [d EXCEPT !.wide = w, !.two = x, !.cold = 0, !.busy = 37]
Switched(d, x) == [d EXCEPT !.on = x, !.busy = 37]
Directed(d, x) == [d EXCEPT !.inc = x, !.busy = 37]
Cleared(d, k) == [d EXCEPT !.ram = Blank, !.addr = 0, !.inc = 1, !.busy = k]
Placed(d, c) == [d EXCEPT !.addr = c, !.busy = 37]

LEMMA InstructedSize ==
    ASSUME NEW d \in Awake, d.cold = 0, NEW v \in 32..63
    PROVE  Instructed(d, v) = Sized(d, Bit(v, 4) = 1, Bit(v, 3))
<1>1. PICK n : n = CASE d.cold = 2 -> 4100 [] d.cold = 1 -> 100 [] OTHER -> 37
  OBVIOUS
<1>2. n = 37
  <2>1. d.cold # 2 /\ d.cold # 1
    OBVIOUS
  <2> QED
    BY <1>1, <2>1
<1>3. Instructed(d, v) = [d EXCEPT !.wide = Bit(v, 4) = 1, !.two = Bit(v, 3),
                                   !.cold = IF Bit(v, 4) = 1 /\ @ > 0 THEN @ - 1 ELSE 0, !.busy = n]
  BY <1>1 DEF Instructed, Execute
<1>4. PICK w : w = (Bit(v, 4) = 1)
  OBVIOUS
<1>5. PICK x : x = Bit(v, 3)
  OBVIOUS
<1>6. Instructed(d, v) = [d EXCEPT !.wide = w, !.two = x,
                                   !.cold = IF w /\ @ > 0 THEN @ - 1 ELSE 0, !.busy = n]
  BY <1>3, <1>4, <1>5
<1>7. Instructed(d, v) = Sized(d, w, x)
  BY <1>2, <1>6 DEF Sized, Awake, DispType
<1> QED
  BY <1>4, <1>5, <1>7

LEMMA InstructedSwitch ==
    ASSUME NEW d \in Awake, NEW v \in 8..15
    PROVE  Instructed(d, v) = Switched(d, Bit(v, 2))
  BY DEF Instructed, Switched, Execute

LEMMA InstructedDirection ==
    ASSUME NEW d \in Awake, NEW v \in 4..7
    PROVE  Instructed(d, v) = Directed(d, Bit(v, 1))
  BY DEF Instructed, Directed, Execute

LEMMA InstructedClear ==
    ASSUME NEW d \in Awake
    PROVE  \E k \in Nat : k <= 1700 /\ Instructed(d, 1) = Cleared(d, k)
<1>1. PICK k \in Nat : k = 1520 /\ k <= 1700
  OBVIOUS
<1>2. PICK v : v = 1
  OBVIOUS
<1>3. Instructed(d, v) = Cleared(d, k)
  BY <1>1, <1>2 DEF Instructed, Cleared, Execute
<1> QED
  BY <1>1, <1>2, <1>3

LEMMA InstructedPlace ==
    ASSUME NEW d \in Awake, NEW v \in 128..255
    PROVE  Instructed(d, v) = Placed(d, (v - 128) % Cells)
  BY DEF Instructed, Placed, Execute

LEMMA FunctionDone ==
    ASSUME NEW d \in Awake, NEW n \in Nat, NEW on, NEW shown, NEW ram, NEW a, Calm(d, n, on, shown, ram, a),
           NEW l \in 0..1, NEW f \in 0..1
    PROVE  Calm(Instructed(d, FunctionSet(0, l, f)), 37, on, shown, ram, a)
<1>1. PICK v \in 32..47 : v = FunctionSet(0, l, f)
  BY DEF FunctionSet
<1>2. (Bit(v, 4) = 1) = FALSE
  <2>1. v \div 16 = 2 /\ 2^4 = 16
    BY <1>1
  <2> QED
    BY <2>1 DEF Bit
<1>3. PICK x : x = Bit(v, 3)
  OBVIOUS
<1>4. /\ ~d.wide /\ d.half = -1 /\ d.cold = 0 /\ (on = 1 => d.on = 1)
      /\ (shown = 1 => d.inc = 1 /\ d.ram = ram /\ d.addr = a)
  BY DEF Calm
<1>5. PICK e : e = Sized(d, FALSE, x)
  OBVIOUS
<1>6. Instructed(d, v) = e
  <2>1. v \in 32..63
    OBVIOUS
  <2>2. Instructed(d, v) = Sized(d, Bit(v, 4) = 1, Bit(v, 3))
    BY <1>4, <2>1, InstructedSize
  <2> QED
    BY <1>2, <1>3, <1>4, <1>5, <2>2
<1>7. ~e.wide /\ e.cold = 0 /\ e.busy = 37
  BY <1>5 DEF Sized, Awake, DispType
<1>8. e.half = d.half /\ e.on = d.on /\ e.inc = d.inc
  BY <1>5 DEF Sized, Awake, DispType
<1>9. e.ram = d.ram /\ e.addr = d.addr
  BY <1>5 DEF Sized, Awake, DispType
<1> QED
  BY <1>1, <1>4, <1>6, <1>7, <1>8, <1>9 DEF Calm

LEMMA ControlDone ==
    ASSUME NEW d \in Awake, NEW n \in Nat, NEW shown, NEW ram, NEW a, Calm(d, n, 0, shown, ram, a)
    PROVE  Calm(Instructed(d, DisplayControl(1, 0, 0)), 37, 1, shown, ram, a)
<1>1. PICK v \in 8..15 : v = DisplayControl(1, 0, 0) /\ v = 12
  BY DEF DisplayControl
<1>2. Bit(v, 2) = 1
  <2>1. 2^2 = 4
    OBVIOUS
  <2> QED
    BY <1>1, <2>1 DEF Bit
<1>3. /\ ~d.wide /\ d.half = -1 /\ d.cold = 0
      /\ (shown = 1 => d.inc = 1 /\ d.ram = ram /\ d.addr = a)
  BY DEF Calm
<1>4. PICK e : e = Switched(d, 1)
  OBVIOUS
<1>5. Instructed(d, v) = e
  <2>1. Instructed(d, v) = Switched(d, Bit(v, 2))
    BY InstructedSwitch
  <2> QED
    BY <1>2, <1>4, <2>1
<1>6. e.on = 1 /\ e.busy = 37 /\ e.wide = d.wide /\ e.half = d.half
  BY <1>4 DEF Switched, Awake, DispType
<1>7. e.cold = d.cold /\ e.inc = d.inc /\ e.ram = d.ram /\ e.addr = d.addr
  BY <1>4 DEF Switched, Awake, DispType
<1> QED
  BY <1>1, <1>3, <1>5, <1>6, <1>7 DEF Calm

LEMMA EntryDone ==
    ASSUME NEW d \in Awake, NEW n \in Nat, NEW on, NEW shown, NEW ram, NEW a, Calm(d, n, on, shown, ram, a)
    PROVE  Calm(Instructed(d, EntryMode(1, 0)), 37, on, shown, ram, a)
<1>1. PICK v \in 4..7 : v = EntryMode(1, 0) /\ v = 6
  BY DEF EntryMode
<1>2. Bit(v, 1) = 1
  <2>1. 2^1 = 2
    OBVIOUS
  <2> QED
    BY <1>1, <2>1 DEF Bit
<1>3. /\ ~d.wide /\ d.half = -1 /\ d.cold = 0 /\ (on = 1 => d.on = 1)
      /\ (shown = 1 => d.inc = 1 /\ d.ram = ram /\ d.addr = a)
  BY DEF Calm
<1>4. PICK e : e = Directed(d, 1)
  OBVIOUS
<1>5. Instructed(d, v) = e
  <2>1. Instructed(d, v) = Directed(d, Bit(v, 1))
    BY InstructedDirection
  <2> QED
    BY <1>2, <1>4, <2>1
<1>6. e.on = d.on /\ e.busy = 37 /\ e.wide = d.wide /\ e.half = d.half
  BY <1>4 DEF Directed, Awake, DispType
<1>7. e.cold = d.cold /\ e.inc = 1 /\ e.ram = d.ram /\ e.addr = d.addr
  BY <1>4 DEF Directed, Awake, DispType
<1> QED
  BY <1>1, <1>3, <1>5, <1>6, <1>7 DEF Calm

LEMMA ClearDone ==
    ASSUME NEW d \in Awake, NEW n \in Nat, NEW on, NEW shown, NEW ram, NEW a, Calm(d, n, on, shown, ram, a)
    PROVE  \E k \in Nat : k <= 1700 /\ Calm(Instructed(d, 1), k, on, 1, Blank, 0)
<1>1. PICK k \in Nat : k <= 1700 /\ Instructed(d, 1) = Cleared(d, k)
  BY InstructedClear
<1>2. PICK e : e = Cleared(d, k)
  OBVIOUS
<1>3. PICK m : m = Blank
  OBVIOUS
<1>4. e = [d EXCEPT !.ram = m, !.addr = 0, !.inc = 1, !.busy = k]
  BY <1>2, <1>3 DEF Cleared
<1>5. e.on = d.on /\ e.busy = k /\ e.wide = d.wide /\ e.half = d.half
  BY <1>4 DEF Awake, DispType
<1>6. e.cold = d.cold /\ e.inc = 1 /\ e.ram = m /\ e.addr = 0
  BY <1>4 DEF Awake, DispType
<1>7. ~d.wide /\ d.half = -1 /\ d.cold = 0 /\ (on = 1 => d.on = 1)
  BY DEF Calm
<1>8. Calm(Instructed(d, 1), k, on, 1, Blank, 0)
  BY <1>1, <1>2, <1>3, <1>5, <1>6, <1>7 DEF Calm
<1> QED
  BY <1>1, <1>8

LEMMA GotoDone ==
    ASSUME NEW d \in Awake, NEW n \in Nat, NEW on, NEW ram, NEW a, Calm(d, n, on, 1, ram, a),
           NEW c \in Addresses
    PROVE  Calm(Instructed(d, 128 + c), 37, on, 1, ram, c)
<1>1. c \in Nat /\ c < Cells /\ Cells \in Nat /\ Cells > 0 /\ Cells <= 128
  BY LcdAssumption DEF Addresses
<1>2. c % Cells = c
  BY <1>1
<1>3. PICK v \in 128..255 : v = 128 + c /\ v - 128 = c
  BY <1>1
<1>4. /\ ~d.wide /\ d.half = -1 /\ d.cold = 0 /\ (on = 1 => d.on = 1) /\ d.inc = 1 /\ d.ram = ram
  BY DEF Calm
<1>5. PICK e : e = Placed(d, c)
  OBVIOUS
<1>6. Instructed(d, v) = e
  <2>1. Instructed(d, v) = Placed(d, (v - 128) % Cells)
    BY InstructedPlace
  <2> QED
    BY <1>2, <1>3, <1>5, <2>1
<1>7. e.on = d.on /\ e.busy = 37 /\ e.wide = d.wide /\ e.half = d.half
  BY <1>5 DEF Placed, Awake, DispType
<1>8. e.cold = d.cold /\ e.inc = d.inc /\ e.ram = d.ram /\ e.addr = c
  BY <1>5 DEF Placed, Awake, DispType
<1> QED
  BY <1>3, <1>4, <1>6, <1>7, <1>8 DEF Calm

LEMMA DataDone ==
    ASSUME NEW d \in Awake, NEW n \in Nat, NEW on, NEW ram \in Memory, NEW a \in Addresses,
           Calm(d, n, on, 1, ram, a), NEW c \in 0..255
    PROVE  Calm(Characterized(d, c), 37, on, 1, [ram EXCEPT ![a] = c], (a + 1) % Cells)
<1>1. a \in Nat /\ a < Cells /\ Cells \in Nat /\ Cells > 0
  BY LcdAssumption DEF Addresses
<1>2. /\ ~d.wide /\ d.half = -1 /\ d.cold = 0 /\ (on = 1 => d.on = 1) /\ d.inc = 1 /\ d.ram = ram /\ d.addr = a
  BY DEF Calm
<1>3. (a + Cells + 2 * 1 - 1) % Cells = (a + 1) % Cells
  <2>1. CASE a + 1 < Cells
    <3>1. (1 * Cells + (a + 1)) % Cells = a + 1
      BY <1>1, <2>1, Divided
    <3>2. a + Cells + 2 * 1 - 1 = 1 * Cells + (a + 1) /\ (a + 1) % Cells = a + 1
      BY <1>1, <2>1
    <3> QED
      BY <3>1, <3>2
  <2>2. CASE a + 1 = Cells
    <3>1. (2 * Cells + 0) % Cells = 0 /\ (1 * Cells + 0) % Cells = 0
      BY <1>1, Divided
    <3>2. a + Cells + 2 * 1 - 1 = 2 * Cells + 0 /\ a + 1 = 1 * Cells + 0
      BY <1>1, <2>2
    <3> QED
      BY <3>1, <3>2
  <2> QED
    BY <1>1, <2>1, <2>2
<1>4. PICK q : q = (a + Cells + 2 * 1 - 1) % Cells
  OBVIOUS
<1>5. PICK m : m = [ram EXCEPT ![a] = c]
  OBVIOUS
<1>6. PICK e : e = [d EXCEPT !.ram = m, !.busy = 37, !.addr = q]
  OBVIOUS
<1>7. Characterized(d, c) = e
  <2>1. Characterized(d, c) = [d EXCEPT !.ram[d.addr] = c, !.busy = 37,
                                        !.addr = (@ + Cells + 2 * d.inc - 1) % Cells]
    BY DEF Characterized, Execute
  <2>2. Characterized(d, c) = [d EXCEPT !.ram = m, !.busy = 37,
                                        !.addr = (@ + Cells + 2 * d.inc - 1) % Cells]
    BY <1>2, <1>5, <2>1 DEF Awake, DispType
  <2>3. PICK r : r = (d.addr + Cells + 2 * d.inc - 1) % Cells
    OBVIOUS
  <2>4. r = q
    BY <1>2, <1>4, <2>3
  <2> QED
    BY <1>2, <1>4, <1>6, <2>2 DEF Awake, DispType
<1>8. e.on = d.on /\ e.busy = 37 /\ e.wide = d.wide /\ e.half = d.half
  BY <1>6 DEF Awake, DispType
<1>9. e.cold = d.cold /\ e.inc = d.inc /\ e.ram = m /\ e.addr = q
  BY <1>6 DEF Awake, DispType
<1>10. Calm(e, 37, on, 1, m, q)
  BY <1>2, <1>8, <1>9 DEF Calm
<1>11. m = [ram EXCEPT ![a] = c] /\ q = (a + 1) % Cells
  BY <1>3, <1>4, <1>5
<1> QED
  BY <1>7, <1>10, <1>11

(* The calls. *)
LEMMA BusyCalm ==
    ASSUME NEW d \in Awake, NEW b \in Nat, NEW c \in Nat, NEW on, NEW shown, NEW ram, NEW a,
           Calm(d, b, on, shown, ram, a)
    PROVE  Calm(Busy(d, c), c, on, shown, ram, a)
<1>1. PICK e : e = Busy(d, c)
  OBVIOUS
<1>2. e.on = d.on /\ e.busy = c /\ e.wide = d.wide /\ e.half = d.half
  BY <1>1 DEF Busy, Awake, DispType
<1>3. e.cold = d.cold /\ e.inc = d.inc /\ e.ram = d.ram /\ e.addr = d.addr
  BY <1>1 DEF Busy, Awake, DispType
<1> QED
  BY <1>1, <1>2, <1>3 DEF Calm

Replied(on, shown, ram, a, v, line) ==
    {t \in LcdStates : \/ t = Lost
                       \/ /\ t.kind = "ok" /\ "e" \notin t.p
                          /\ \E e \in Awake, c \in Nat :
                                Calm(e, c, on, shown, ram, a) /\ t.d = Received(e, v, line)}

LEMMA WriteCalm ==
    ASSUME NEW g \in Nat, NEW perm, NEW b \in Nat, NEW on, NEW shown, NEW ram, NEW a,
           b <= 8 * g + 2 \/ perm = 1, NEW s \in Resting(b, on, shown, ram, a),
           NEW v \in 0..255, NEW line \in {"none", "rs"}
    PROVE  LcdAfter(g, perm, s, Write(v, line)) \subseteq Replied(on, shown, ram, a, v, line)
<1> SUFFICES ASSUME NEW t \in LcdAfter(g, perm, s, Write(v, line))
             PROVE  t \in Replied(on, shown, ram, a, v, line)
  OBVIOUS
<1>1. CASE s = Lost
  <2>1. t = Lost
    BY <1>1 DEF LcdAfter, Lost
  <2> QED
    BY <2>1, LostType DEF Replied
<1>2. CASE s # Lost
  <2>1. s \in LcdStates /\ s.kind = "ok" /\ "e" \notin s.p /\ Calm(s.d, b, on, shown, ram, a)
    BY <1>2 DEF Resting
  <2>2. s.d \in Awake /\ s.d.busy \in Nat
    BY <2>1 DEF LcdStates, Awake, DispType
  <2>3. s \in Ready(g, perm)
    BY <2>1, <2>2 DEF Calm, Ready
  <2>4. t \in Written(s, v, line)
    BY <2>3, WriteMove
  <2>5. CASE t # Lost
    <3>1. /\ t \in LcdStates /\ t.kind = "ok" /\ "e" \notin t.p
          /\ \E c \in Nat : c <= WarmUp /\ t.d = Received(Busy(s.d, c), v, line)
      BY <2>4, <2>5 DEF Written
    <3>2. PICK c \in Nat : c <= WarmUp /\ t.d = Received(Busy(s.d, c), v, line)
      BY <3>1
    <3>3. Busy(s.d, c) \in Awake /\ Calm(Busy(s.d, c), c, on, shown, ram, a)
      BY <2>1, <2>2, <3>2, BusyType, BusyCalm
    <3> QED
      BY <3>1, <3>2, <3>3 DEF Replied
  <2>6. CASE t = Lost
    BY <2>6, LostType DEF Replied
  <2> QED
    BY <2>5, <2>6
<1> QED
  BY <1>1, <1>2

LEMMA DelayRest ==
    ASSUME NEW g \in Nat, NEW perm, NEW b \in Nat, NEW c \in Nat, NEW us \in Nat, b <= us + c,
           NEW on, NEW shown, NEW ram, NEW a
    PROVE  Leads(LcdMoves(g, perm), Resting(b, on, shown, ram, a), <<Delay(us)>>,
                 Resting(c, on, shown, ram, a))
<1> DEFINE T == LcdMoves(g, perm)
           D == Resting(b, on, shown, ram, a)
           E == Resting(c, on, shown, ram, a)
<1>1. ASSUME NEW x \in D, NEW y, <<x, Delay(us), y>> \in T
      PROVE  y \in E
  <2>1. y \in LcdStates /\ y \in LcdAfter(g, perm, x, Delay(us)) /\ x \in LcdStates
    BY <1>1, LcdMove
  <2>2. CASE x = Lost
    BY <2>1, <2>2 DEF LcdAfter, Lost, Resting
  <2>3. CASE x # Lost
    <3>1. x.kind = "ok" /\ "e" \notin x.p /\ Calm(x.d, b, on, shown, ram, a) /\ x.d \in Awake
      BY <2>1, <2>3 DEF Resting, LcdStates
    <3>2. y = At(Later(x.d, us), x.p)
      <4>1. Delay(us).op = "delay" /\ Delay(us).val = us
        BY DEF Delay
      <4> QED
        BY <2>1, <3>1, <4>1 DEF LcdAfter, LineKinds
    <3>3. x.d.busy \in Nat /\ x.d.busy <= b
      BY <3>1 DEF Calm, Awake, DispType
    <3>4. x.d.busy <= us + c
      BY <3>3
    <3>5. Calm(Later(x.d, us), c, on, shown, ram, a)
      <4>1. \A n, o, m, q, r : Calm(x.d, n, o, m, q, r) => Calm(x.d, x.d.busy, o, m, q, r)
        BY <3>3 DEF Calm
      <4> QED
        BY <3>1, <3>4, CalmLater
    <3>6. y.kind = "ok" /\ y.d = Later(x.d, us) /\ y.p = x.p
      BY <3>2 DEF At
    <3> QED
      BY <2>1, <3>1, <3>5, <3>6 DEF Resting
  <2> QED
    BY <2>2, <2>3
<1> HIDE DEF T, D, E
<1>2. \A x \in D : \A y : <<x, Delay(us), y>> \in T => y \in E
  BY <1>1
<1>3. Leads(T, D, <<Delay(us)>>, E)
  BY <1>2, LeadsOne
<1> QED
  BY <1>3 DEF T, D, E

(* What an instruction makes of a display at rest, a call makes of it.      *)
LEMMA CmdLeads ==
    ASSUME NEW g \in Nat, NEW perm, NEW v \in 0..255,
           NEW b \in Nat, NEW on, NEW shown, NEW ram, NEW a, b <= 8 * g + 2 \/ perm = 1,
           NEW k \in Nat, NEW c \in Nat, k <= 40 + c, NEW on2, NEW shown2, NEW ram2, NEW a2,
           \A e \in Awake : \A n \in Nat :
              Calm(e, n, on, shown, ram, a) => Calm(Instructed(e, v), k, on2, shown2, ram2, a2)
    PROVE  Leads(LcdMoves(g, perm), Resting(b, on, shown, ram, a), Cmd(v), Resting(c, on2, shown2, ram2, a2))
<1> DEFINE T == LcdMoves(g, perm)
           D == Resting(b, on, shown, ram, a)
           F == Resting(k, on2, shown2, ram2, a2)
           E == Resting(c, on2, shown2, ram2, a2)
           w == Write(v, "none")
<1>1. ASSUME NEW x \in D, NEW y, <<x, w, y>> \in T
      PROVE  y \in F
  <2>0. y \in LcdAfter(g, perm, x, w)
    BY <1>1, LcdMove
  <2>1. y \in Replied(on, shown, ram, a, v, "none")
    BY <2>0, WriteCalm
  <2>2. \A e \in Awake, n \in Nat :
           Calm(e, n, on, shown, ram, a) => Calm(Instructed(e, v), k, on2, shown2, ram2, a2)
    OBVIOUS
  <2>3. \A e : Received(e, v, "none") = Instructed(e, v)
    BY DEF Received
  <2> QED
    BY <2>1, <2>2, <2>3 DEF Replied, Resting
<1> HIDE DEF T, D, E, F
<1>2. Leads(T, D, <<w>>, F)
  <2>1. \A x \in D : \A y : <<x, w, y>> \in T => y \in F
    BY <1>1
  <2> HIDE DEF w
  <2> QED
    BY <2>1, LeadsOne
<1>3. Leads(T, F, <<Delay(40)>>, E)
  BY DelayRest DEF T, E, F
<1>4. w \in PlainOp /\ Delay(40) \in PlainOp
  <2>1. "none" \in {"none", "rs"} /\ "none" \in Pins /\ 40 \in Nat
    BY DEF Pins
  <2> QED
    BY <2>1, WriteOp, LineOps
<1>5. Cmd(v) = <<w>> \o <<Delay(40)>>
  <2>1. <<w>> \o <<Delay(40)>> = <<w, Delay(40)>>
    BY <1>4, JoinedTwo
  <2> QED
    BY <2>1 DEF Cmd
<1> HIDE DEF w
<1>6. Leads(T, D, <<w>> \o <<Delay(40)>>, E)
  <2> DEFINE p == <<w>>
             q == <<Delay(40)>>
  <2>1. p \in Seq(PlainOp) /\ q \in Seq(PlainOp)
    BY <1>4
  <2>2. Leads(T, D, p, F) /\ Leads(T, F, q, E)
    BY <1>2, <1>3
  <2> HIDE DEF p, q
  <2>3. Leads(T, D, p \o q, E)
    BY <2>1, <2>2, LeadsConcat
  <2> QED
    BY <2>3 DEF p, q
<1> QED
  BY <1>5, <1>6 DEF T, D, E

(* hd44780_init *)
LEMMA LeadsTwo ==
    ASSUME NEW T, NEW D, NEW E, NEW F, NEW a, NEW b,
           \A x \in D : \A y : <<x, a, y>> \in T => y \in E,
           \A x \in E : \A y : <<x, b, y>> \in T => y \in F
    PROVE  Leads(T, D, <<a, b>>, F)
<1> DEFINE P == [i \in 1..3 |-> IF i = 1 THEN D ELSE IF i = 2 THEN E ELSE F]
           s == <<a, b>>
<1>1. P[1] = D /\ P[2] = E /\ P[3] = F /\ Len(s) = 2 /\ s[1] = a /\ s[2] = b
  OBVIOUS
<1> HIDE DEF P, s
<1>2. D \subseteq P[1] /\ P[Len(s) + 1] \subseteq F
  BY <1>1
<1>3. ASSUME NEW i \in 1..Len(s), NEW x \in P[i], NEW y, <<x, s[i], y>> \in T
      PROVE  y \in P[i + 1]
  <2>1. (i = 1 /\ i + 1 = 2) \/ (i = 2 /\ i + 1 = 3)
    BY <1>1, <1>3
  <2> QED
    BY <1>1, <1>3, <2>1
<1>4. Leads(T, D, s, F)
  BY <1>2, <1>3 DEF Leads
<1> QED
  BY <1>4 DEF s

LEMMA LeadsThree ==
    ASSUME NEW T, NEW D, NEW E, NEW F, NEW G, NEW a, NEW b, NEW c,
           \A x \in D : \A y : <<x, a, y>> \in T => y \in E,
           \A x \in E : \A y : <<x, b, y>> \in T => y \in F,
           \A x \in F : \A y : <<x, c, y>> \in T => y \in G
    PROVE  Leads(T, D, <<a, b, c>>, G)
<1> DEFINE P == [i \in 1..4 |-> IF i = 1 THEN D ELSE IF i = 2 THEN E ELSE IF i = 3 THEN F ELSE G]
           s == <<a, b, c>>
<1>1. /\ P[1] = D /\ P[2] = E /\ P[3] = F /\ P[4] = G
      /\ Len(s) = 3 /\ s[1] = a /\ s[2] = b /\ s[3] = c
  OBVIOUS
<1> HIDE DEF P, s
<1>2. D \subseteq P[1] /\ P[Len(s) + 1] \subseteq G
  BY <1>1
<1>3. ASSUME NEW i \in 1..Len(s), NEW x \in P[i], NEW y, <<x, s[i], y>> \in T
      PROVE  y \in P[i + 1]
  <2>1. (i = 1 /\ i + 1 = 2) \/ (i = 2 /\ i + 1 = 3) \/ (i = 3 /\ i + 1 = 4)
    BY <1>1, <1>3
  <2> QED
    BY <1>1, <1>3, <2>1
<1>4. Leads(T, D, s, G)
  BY <1>2, <1>3 DEF Leads
<1> QED
  BY <1>4 DEF s

LEMMA LeadsEach ==
    ASSUME NEW T, NEW D, NEW E, NEW s, Len(s) \in Nat, \A x \in D : Leads(T, {x}, s, E)
    PROVE  Leads(T, D, s, E)
<1> DEFINE n == Len(s)
           W(x, P) == /\ x \in P[1] /\ P[n + 1] \subseteq E
                      /\ \A i \in 1..n : \A y \in P[i] : \A z : <<y, s[i], z>> \in T => z \in P[i + 1]
           Q(x) == CHOOSE P : W(x, P)
           R == [i \in 1..n + 1 |-> UNION {Q(x)[i] : x \in D}]
<1>1. ASSUME NEW x \in D PROVE W(x, Q(x))
  <2>1. \E P : W(x, P)
    BY DEF Leads
  <2> HIDE DEF W
  <2> QED
    BY <2>1
<1>2. \A x \in D : /\ x \in Q(x)[1] /\ Q(x)[n + 1] \subseteq E
                   /\ \A i \in 1..n : \A y \in Q(x)[i] : \A z : <<y, s[i], z>> \in T => z \in Q(x)[i + 1]
  BY <1>1
<1> HIDE DEF Q
<1>3. \A i \in 1..n + 1 : R[i] = UNION {Q(x)[i] : x \in D}
  OBVIOUS
<1>4. n \in Nat
  OBVIOUS
<1> HIDE DEF R, n
<1>5. 1 \in 1..n + 1 /\ n + 1 \in 1..n + 1
  BY <1>4
<1>6. D \subseteq R[1]
  BY <1>2, <1>3, <1>5
<1>7. R[n + 1] \subseteq E
  BY <1>2, <1>3, <1>5
<1>8. ASSUME NEW i \in 1..n, NEW y \in R[i], NEW z, <<y, s[i], z>> \in T
      PROVE  z \in R[i + 1]
  <2>1. i \in 1..n + 1 /\ i + 1 \in 1..n + 1
    BY <1>4
  <2>2. PICK x \in D : y \in Q(x)[i]
    BY <1>3, <2>1
  <2>3. z \in Q(x)[i + 1]
    BY <1>2, <1>8, <2>2
  <2> QED
    BY <1>3, <2>1, <2>3
<1> QED
  BY <1>6, <1>7, <1>8 DEF Leads, n

LEMMA LatchFrom ==
    ASSUME NEW g \in Nat, NEW perm, NEW D, NEW E,
           \A s \in D : /\ s \in LcdStates /\ s.kind = "ok" /\ "e" \notin s.p
                        /\ Fallen(perm, Later(s.d, 3 * g + 2), s.p \cup {"e"}) \subseteq E
    PROVE  Leads(LcdMoves(g, perm), D, Latch, E)
<1>1. ASSUME NEW s \in D PROVE Leads(LcdMoves(g, perm), {s}, Latch, E)
  <2> DEFINE T == LcdMoves(g, perm)
             F == Fallen(perm, Later(s.d, 3 * g + 2), s.p \cup {"e"})
             D1 == {s}
  <2>1. Leads(T, D1, Latch, F)
    BY LatchLeads
  <2>2. F \subseteq E /\ D1 \subseteq D1
    OBVIOUS
  <2> HIDE DEF T, F, D1
  <2>3. Leads(T, D1, Latch, E)
    BY <2>1, <2>2, LeadsWeaken
  <2> QED
    BY <2>3 DEF T, D1
<1>2. Len(Latch) \in Nat
  BY DEF Latch
<1> QED
  BY <1>1, <1>2, LeadsEach

(* The stages of the wake up, whatever state a reset left the display in.   *)
Boot(k, d) ==
    CASE k = 0 -> (d.half = -1 /\ Sane(d)) \/ (~d.wide /\ d.half = 3 /\ d.cold = 0)
      [] k = 1 -> (d.wide /\ d.half = -1 /\ d.cold <= 1) \/ (~d.wide /\ d.half = 3 /\ d.cold = 0)
      [] OTHER -> d.wide /\ d.half = -1 /\ d.cold = 0

Booting(k, q, lows, highs) ==
    {s \in LcdStates : /\ s.kind = "ok" /\ "e" \notin s.p /\ s.p \cap lows = {} /\ highs \subseteq s.p
                       /\ Boot(k, s.d) /\ s.d.busy <= q}

LEMMA BootLater ==
    ASSUME NEW k, NEW d \in Awake, Boot(k, d), NEW us \in Nat, NEW q \in Nat, NEW c \in Nat,
           d.busy <= q, q <= us + c \/ q <= c
    PROVE  Boot(k, Later(d, us)) /\ Later(d, us).busy <= c /\ Later(d, us) \in Awake
<1>1. d.busy \in Nat
  BY DEF Awake, DispType
<1>2. PICK n \in Nat : n = (IF d.busy > us THEN d.busy - us ELSE 0) /\ Later(d, us) = Busy(d, n)
  BY LaterBusy
<1>3. n <= c
  BY <1>1, <1>2
<1>4. PICK e : e = Busy(d, n)
  OBVIOUS
<1>5. e.busy = n /\ e.wide = d.wide /\ e.half = d.half /\ e.cold = d.cold
  BY <1>4 DEF Busy, Awake, DispType
<1>6. Boot(k, e)
  BY <1>5 DEF Boot, Sane
<1>7. Later(d, us) \in Awake
  BY LaterAwake
<1> QED
  BY <1>2, <1>3, <1>4, <1>5, <1>6, <1>7

LEMMA BootLine ==
    ASSUME NEW g \in Nat, NEW perm, NEW k, NEW q \in Nat, NEW lows \in SUBSET LcdPins, NEW highs,
           NEW x \in Booting(k, q, lows, highs), NEW pin \in LcdPins
    PROVE  /\ pin # "e" => \A y : <<x, High(pin), y>> \in LcdMoves(g, perm)
                                     => y \in Booting(k, q, lows \ {pin}, highs \cup {pin})
           /\ \A y : <<x, Low(pin), y>> \in LcdMoves(g, perm)
                        => y \in Booting(k, q, lows \cup {pin}, highs \ {pin})
<1>1. /\ x \in LcdStates /\ x.kind = "ok" /\ "e" \notin x.p /\ x.p \cap lows = {} /\ highs \subseteq x.p
      /\ Boot(k, x.d) /\ x.d.busy <= q /\ x.d \in Awake /\ x.p \in SUBSET LcdPins
  BY DEF Booting, LcdStates
<1>2. PICK e \in Awake : e = Later(x.d, g) /\ Boot(k, e) /\ e.busy <= q
  <2>1. q <= q
    OBVIOUS
  <2>2. Boot(k, Later(x.d, g)) /\ Later(x.d, g).busy <= q /\ Later(x.d, g) \in Awake
    BY <1>1, <2>1, BootLater
  <2> QED
    BY <2>2
<1>3. ASSUME pin # "e", NEW y, <<x, High(pin), y>> \in LcdMoves(g, perm)
      PROVE  y \in Booting(k, q, lows \ {pin}, highs \cup {pin})
  <2>1. y \in LcdStates /\ y \in LcdAfter(g, perm, x, High(pin))
    BY <1>3, LcdMove
  <2>2. High(pin).op = "high" /\ High(pin).pin = pin
    BY DEF High
  <2>3. y = At(e, (x.p \cup {pin}) \cap LcdPins)
    BY <1>1, <1>2, <2>1, <2>2 DEF LcdAfter, LineAfter, LineKinds
  <2>4. y.kind = "ok" /\ y.d = e /\ y.p = x.p \cup {pin}
    BY <1>1, <2>3 DEF At
  <2> QED
    BY <1>1, <1>2, <1>3, <2>1, <2>4 DEF Booting
<1>4. ASSUME NEW y, <<x, Low(pin), y>> \in LcdMoves(g, perm)
      PROVE  y \in Booting(k, q, lows \cup {pin}, highs \ {pin})
  <2>1. y \in LcdStates /\ y \in LcdAfter(g, perm, x, Low(pin))
    BY <1>4, LcdMove
  <2>2. Low(pin).op = "low" /\ Low(pin).pin = pin
    BY DEF Low
  <2>3. y = At(e, x.p \ {pin})
    BY <1>1, <1>2, <2>1, <2>2 DEF LcdAfter, LineAfter, LineKinds
  <2>4. y.kind = "ok" /\ y.d = e /\ y.p = x.p \ {pin}
    BY <2>3 DEF At
  <2> QED
    BY <1>1, <1>2, <2>1, <2>4 DEF Booting
<1> QED
  BY <1>3, <1>4

LEMMA BootWait ==
    ASSUME NEW g \in Nat, NEW perm, NEW k, NEW q \in Nat, NEW c \in Nat, NEW us \in Nat, q <= us + c,
           NEW lows, NEW highs,
           NEW x \in Booting(k, q, lows, highs), NEW y, <<x, Delay(us), y>> \in LcdMoves(g, perm)
    PROVE  y \in Booting(k, c, lows, highs)
<1>1. /\ x \in LcdStates /\ x.kind = "ok" /\ "e" \notin x.p /\ x.p \cap lows = {} /\ highs \subseteq x.p
      /\ Boot(k, x.d) /\ x.d.busy <= q /\ x.d \in Awake /\ x.p \in SUBSET LcdPins
  BY DEF Booting, LcdStates
<1>2. Boot(k, Later(x.d, us)) /\ Later(x.d, us).busy <= c
  BY <1>1, BootLater
<1>3. y \in LcdStates /\ y \in LcdAfter(g, perm, x, Delay(us))
  BY LcdMove
<1>4. Delay(us).op = "delay" /\ Delay(us).val = us
  BY DEF Delay
<1>5. y = At(Later(x.d, us), x.p)
  BY <1>1, <1>3, <1>4 DEF LcdAfter, LineKinds
<1>6. y.kind = "ok" /\ y.d = Later(x.d, us) /\ y.p = x.p
  BY <1>5 DEF At
<1> QED
  BY <1>1, <1>2, <1>3, <1>6 DEF Booting

(* The first function set takes longest.                                     *)
FirstTime == 4100

LEMMA InstructedFunction ==
    ASSUME NEW d \in Awake, NEW v \in 32..63
    PROVE  /\ Instructed(d, v).half = d.half
           /\ Instructed(d, v).wide <=> v >= 48
           /\ Instructed(d, v).cold = IF v >= 48 /\ d.cold > 0 THEN d.cold - 1 ELSE 0
           /\ Instructed(d, v).busy <= FirstTime
           /\ d.cold <= 1 => Instructed(d, v).busy <= 100
           /\ d.cold = 0 => Instructed(d, v).busy = 37
<1>1. PICK n : n = CASE d.cold = 2 -> 4100 [] d.cold = 1 -> 100 [] OTHER -> 37
  OBVIOUS
<1>2. PICK w : w = (Bit(v, 4) = 1)
  OBVIOUS
<1>3. PICK x : x = Bit(v, 3)
  OBVIOUS
<1>4. PICK c : c = IF w /\ d.cold > 0 THEN d.cold - 1 ELSE 0
  OBVIOUS
<1>5. d.cold \in 0..2
  BY DEF Awake, DispType
<1>6. PICK e : e = [d EXCEPT !.wide = w, !.two = x, !.cold = c, !.busy = n]
  OBVIOUS
<1>7. Instructed(d, v) = e
  <2>1. Instructed(d, v) = [d EXCEPT !.wide = Bit(v, 4) = 1, !.two = Bit(v, 3),
                                     !.cold = IF Bit(v, 4) = 1 /\ @ > 0 THEN @ - 1 ELSE 0, !.busy = n]
    BY <1>1 DEF Instructed, Execute
  <2>2. Instructed(d, v) = [d EXCEPT !.wide = w, !.two = x,
                                     !.cold = IF w /\ @ > 0 THEN @ - 1 ELSE 0, !.busy = n]
    BY <1>2, <1>3, <2>1
  <2> QED
    BY <1>4, <1>6, <2>2 DEF Awake, DispType
<1>8. e.half = d.half /\ e.wide = w /\ e.cold = c /\ e.busy = n
  BY <1>6 DEF Awake, DispType
<1>9. (Bit(v, 4) = 1) <=> v >= 48
  <2>1. 2^4 = 16
    OBVIOUS
  <2> QED
    BY <2>1 DEF Bit
<1>10. e.wide <=> v >= 48
  BY <1>2, <1>8, <1>9
<1>11. PICK m : m = 4100 /\ m = FirstTime
  BY DEF FirstTime
<1>12. n = CASE d.cold = 2 -> m [] d.cold = 1 -> 100 [] OTHER -> 37
  BY <1>1, <1>11
<1>13. m \in Int /\ m >= 100
  BY <1>11
<1>14. n <= m /\ (d.cold <= 1 => n <= 100) /\ (d.cold = 0 => n = 37)
  BY <1>5, <1>12, <1>13
<1>15. c = IF v >= 48 /\ d.cold > 0 THEN d.cold - 1 ELSE 0
  BY <1>2, <1>4, <1>9
<1> QED
  BY <1>7, <1>8, <1>10, <1>11, <1>14, <1>15

(* The display takes an instruction, or half of one.                        *)
LEMMA TakenInstruction ==
    ASSUME NEW d \in Awake, NEW p, "rs" \notin p, NEW v, v = OnLines(p)
    PROVE  Taken(d, "rs" \in p, OnLines(p))
              = IF d.wide THEN Instructed(d, 16 * v)
                ELSE IF d.half = -1 THEN Half(d, v) ELSE Instructed(Half(d, -1), 16 * d.half + v)
<1>1. ("rs" \in p) = FALSE
  OBVIOUS
<1> QED
  BY <1>1 DEF Taken, Instructed, Half

LEMMA ThreeLines ==
    ASSUME NEW p, "d3" \notin p, "d2" \notin p, "d1" \in p
    PROVE  OnLines(p) = IF "d0" \in p THEN 3 ELSE 2
<1>1. DataLine(0) = "d0" /\ DataLine(1) = "d1" /\ DataLine(2) = "d2" /\ DataLine(3) = "d3"
  BY DEF DataLine
<1>2. 2^0 = 1 /\ 2^1 = 2 /\ 2^2 = 4 /\ 2^3 = 8
  OBVIOUS
<1> QED
  BY <1>1, <1>2 DEF OnLines

LEMMA FallenTaken ==
    ASSUME NEW perm, NEW d, NEW p, d.busy = 0, Sane(Taken(d, "rs" \in p, OnLines(p)))
    PROVE  Fallen(perm, d, p) = {At(Taken(d, "rs" \in p, OnLines(p)), p \ {"e"})}
  BY DEF Fallen

(* Once the display is idle, a latch with 3, then with 3 or 2, on the lines. *)
BootLows == {"rs", "d3", "d2"}

NibbleMakes(e, v) == IF e.wide THEN Instructed(e, 16 * v)
                     ELSE IF e.half = -1 THEN Half(e, v) ELSE Instructed(Half(e, -1), 16 * e.half + v)

(* What the latch makes of a display that is idle.                          *)
Latched(g, perm, k, x, v) ==
    \E e \in Awake :
       /\ e.busy = 0 /\ Boot(k, e)
       /\ Sane(NibbleMakes(e, v)) =>
             /\ NibbleMakes(e, v) \in Awake
             /\ Fallen(perm, Later(x.d, 3 * g + 2), x.p \cup {"e"}) = {At(NibbleMakes(e, v), x.p)}

LEMMA LatchTaken ==
    ASSUME NEW g \in Nat, NEW perm, NEW k \in 0..2, NEW lows, BootLows \subseteq lows, NEW highs, "d1" \in highs,
           NEW x \in Booting(k, 0, lows, highs), NEW v, v = IF "d0" \in x.p THEN 3 ELSE 2
    PROVE  Latched(g, perm, k, x, v)
<1>1. /\ x \in LcdStates /\ x.kind = "ok" /\ "e" \notin x.p /\ x.p \cap lows = {} /\ highs \subseteq x.p
      /\ Boot(k, x.d) /\ x.d.busy <= 0 /\ x.d \in Awake /\ x.p \in SUBSET LcdPins
  BY DEF Booting, LcdStates
<1>2. PICK e \in Awake : e = Later(x.d, 3 * g + 2) /\ Boot(k, e) /\ e.busy = 0
  <2>1. 3 * g + 2 \in Nat /\ 0 <= 0
    OBVIOUS
  <2>2. Boot(k, Later(x.d, 3 * g + 2)) /\ Later(x.d, 3 * g + 2).busy <= 0 /\ Later(x.d, 3 * g + 2) \in Awake
    BY <1>1, <2>1, BootLater
  <2>3. Later(x.d, 3 * g + 2).busy \in Nat
    BY <2>2 DEF Awake, DispType
  <2> QED
    BY <2>2, <2>3
<1> DEFINE q == x.p \cup {"e"}
           t == NibbleMakes(e, v)
<1>3. "rs" \notin q /\ "d3" \notin q /\ "d2" \notin q /\ "d1" \in q /\ ("d0" \in q <=> "d0" \in x.p)
  BY <1>1 DEF BootLows
<1>4. q \ {"e"} = x.p
  BY <1>1
<1> HIDE DEF q
<1>5. OnLines(q) = v
  BY <1>3, ThreeLines
<1>6. Taken(e, "rs" \in q, OnLines(q)) = t
  BY <1>3, <1>5, TakenInstruction DEF NibbleMakes
<1>7. t \in Awake
  <2>1. ("rs" \in q) \in BOOLEAN /\ OnLines(q) \in 0..15
    BY OnLinesType
  <2>2. Taken(e, "rs" \in q, OnLines(q)) \in Awake
    BY <2>1, TakenType DEF Awake
  <2> QED
    BY <1>6, <2>2
<1> HIDE DEF t
<1>8. Sane(t) => Fallen(perm, e, q) = {At(t, x.p)}
  BY <1>2, <1>4, <1>6, FallenTaken
<1> QED
  BY <1>2, <1>7, <1>8 DEF q, t, Latched

BootHighs == {"d1", "d0"}

LEMMA FirstLatch ==
    ASSUME NEW g \in Nat, NEW perm, NEW q \in Nat, q >= FirstTime
    PROVE  Leads(LcdMoves(g, perm), Booting(0, 0, BootLows, BootHighs), Latch, Booting(1, q, BootLows, BootHighs))
<1> DEFINE E == Booting(1, q, BootLows, BootHighs)
<1>1. ASSUME NEW x \in Booting(0, 0, BootLows, BootHighs)
      PROVE  Fallen(perm, Later(x.d, 3 * g + 2), x.p \cup {"e"}) \subseteq E
  <2>1. /\ x \in LcdStates /\ x.kind = "ok" /\ "e" \notin x.p /\ x.p \cap BootLows = {} /\ BootHighs \subseteq x.p
        /\ x.p \in SUBSET LcdPins
    BY DEF Booting, LcdStates
  <2>2. 3 = IF "d0" \in x.p THEN 3 ELSE 2
    BY <2>1 DEF BootHighs
  <2>3. PICK e \in Awake :
           /\ e.busy = 0 /\ Boot(0, e)
           /\ Sane(NibbleMakes(e, 3)) =>
                 /\ NibbleMakes(e, 3) \in Awake
                 /\ Fallen(perm, Later(x.d, 3 * g + 2), x.p \cup {"e"}) = {At(NibbleMakes(e, 3), x.p)}
    <3>1. 0 \in 0..2 /\ BootLows \subseteq BootLows /\ "d1" \in BootHighs
      BY DEF BootHighs
    <3>2. Latched(g, perm, 0, x, 3)
      BY <2>2, <3>1, LatchTaken
    <3> QED
      BY <3>2 DEF Latched
  <2> DEFINE t == NibbleMakes(e, 3)
  <2>4. /\ (e.wide /\ e.half = -1) \/ (~e.wide /\ e.half = -1 /\ e.cold = 0) \/ (~e.wide /\ e.half = 3 /\ e.cold = 0)
        /\ e.cold \in 0..2
    BY <2>3 DEF Boot, Sane, Awake, DispType
  <2>5. Boot(1, t) /\ t.busy <= q /\ Sane(t)
    <3>1. CASE e.wide \/ e.half = 3
      <4>1. PICK f \in Awake, v \in 32..63 : /\ t = Instructed(f, v) /\ v >= 48
                                           /\ f.half = -1 /\ f.cold \in 0..2
        <5>1. CASE e.wide
          <6>1. PICK v \in 32..63 : v = 16 * 3 /\ v >= 48
            OBVIOUS
          <6>2. t = Instructed(e, v)
            BY <5>1, <6>1 DEF NibbleMakes
          <6> HIDE DEF t
          <6> QED
            BY <2>4, <5>1, <6>1, <6>2
        <5>2. CASE ~e.wide /\ e.half = 3
          <6>1. -1 \in Halves
            BY DEF Halves
          <6>2. Half(e, -1) \in Awake /\ Half(e, -1).half = -1 /\ Half(e, -1).cold = e.cold
            BY <6>1, HalfType
          <6>3. t = Instructed(Half(e, -1), 51)
            BY <5>2 DEF NibbleMakes
          <6> HIDE DEF t
          <6> QED
            BY <2>4, <6>2, <6>3
        <5> QED
          BY <2>4, <3>1, <5>1, <5>2
      <4>2. /\ Instructed(f, v).half = f.half /\ (Instructed(f, v).wide <=> v >= 48)
            /\ Instructed(f, v).cold = IF v >= 48 /\ f.cold > 0 THEN f.cold - 1 ELSE 0
            /\ Instructed(f, v).busy <= FirstTime
        BY InstructedFunction
      <4>3. t = Instructed(f, v)
        BY <4>1
      <4> HIDE DEF t
      <4>4. t.wide /\ t.half = -1 /\ t.cold <= 1
        BY <4>1, <4>2, <4>3
      <4>5. t.busy \in Nat
        <5>1. Sane(t)
          BY <4>4 DEF Sane
        <5>2. t \in Awake
          BY <2>3, <5>1 DEF t
        <5> QED
          BY <5>2 DEF Awake, DispType
      <4>6. t.busy <= q
        <5>1. PICK m \in Nat : m = FirstTime
          BY DEF FirstTime
        <5>2. t.busy <= m /\ m <= q /\ t.busy \in Nat
          BY <4>2, <4>3, <4>5, <5>1
        <5> QED
          BY <5>2
      <4> QED
        BY <4>4, <4>6 DEF Boot, Sane
    <3>2. CASE ~e.wide /\ e.half = -1
      <4>1. 3 \in Halves
        BY DEF Halves
      <4>2. t = Half(e, 3)
        BY <2>4, <3>2 DEF NibbleMakes
      <4> HIDE DEF t
      <4>3. t.half = 3 /\ t.busy = 0 /\ ~t.wide /\ t.cold = 0
        BY <2>3, <2>4, <3>2, <4>1, <4>2, HalfType
      <4> QED
        BY <4>3 DEF Boot, Sane
    <3> QED
      BY <2>4, <3>1, <3>2
  <2>6. t \in Awake /\ Fallen(perm, Later(x.d, 3 * g + 2), x.p \cup {"e"}) = {At(t, x.p)}
    BY <2>3, <2>5
  <2> HIDE DEF t
  <2>7. At(t, x.p) \in LcdStates /\ At(t, x.p).kind = "ok" /\ At(t, x.p).d = t /\ At(t, x.p).p = x.p
    BY <2>1, <2>6, AtType DEF At
  <2>8. At(t, x.p) \in E
    BY <2>1, <2>5, <2>7 DEF Booting
  <2> QED
    BY <2>6, <2>8
<1>2. \A x \in Booting(0, 0, BootLows, BootHighs) : x \in LcdStates /\ x.kind = "ok" /\ "e" \notin x.p
  BY DEF Booting
<1> HIDE DEF E
<1>3. Leads(LcdMoves(g, perm), Booting(0, 0, BootLows, BootHighs), Latch, E)
  BY <1>1, <1>2, LatchFrom
<1> QED
  BY <1>3 DEF E

LEMMA SecondLatch ==
    ASSUME NEW g \in Nat, NEW perm
    PROVE  Leads(LcdMoves(g, perm), Booting(1, 0, BootLows, BootHighs), Latch, Booting(2, 100, BootLows, BootHighs))
<1> DEFINE E == Booting(2, 100, BootLows, BootHighs)
<1>1. ASSUME NEW x \in Booting(1, 0, BootLows, BootHighs)
      PROVE  Fallen(perm, Later(x.d, 3 * g + 2), x.p \cup {"e"}) \subseteq E
  <2>1. /\ x \in LcdStates /\ x.kind = "ok" /\ "e" \notin x.p /\ x.p \cap BootLows = {} /\ BootHighs \subseteq x.p
        /\ x.p \in SUBSET LcdPins
    BY DEF Booting, LcdStates
  <2>2. 3 = IF "d0" \in x.p THEN 3 ELSE 2
    BY <2>1 DEF BootHighs
  <2>3. PICK e \in Awake :
           /\ e.busy = 0 /\ Boot(1, e)
           /\ Sane(NibbleMakes(e, 3)) =>
                 /\ NibbleMakes(e, 3) \in Awake
                 /\ Fallen(perm, Later(x.d, 3 * g + 2), x.p \cup {"e"}) = {At(NibbleMakes(e, 3), x.p)}
    <3>1. 1 \in 0..2 /\ BootLows \subseteq BootLows /\ "d1" \in BootHighs
      BY DEF BootHighs
    <3>2. Latched(g, perm, 1, x, 3)
      BY <2>2, <3>1, LatchTaken
    <3> QED
      BY <3>2 DEF Latched
  <2> DEFINE t == NibbleMakes(e, 3)
  <2>4. /\ (e.wide /\ e.half = -1 /\ e.cold <= 1) \/ (~e.wide /\ e.half = 3 /\ e.cold = 0)
        /\ e.cold \in 0..2
    BY <2>3 DEF Boot, Awake, DispType
  <2>5. PICK f \in Awake, v \in 48..63 : t = Instructed(f, v) /\ f.half = -1 /\ f.cold <= 1 /\ f.cold \in 0..2
    <3>1. CASE e.wide
      BY <2>4, <3>1 DEF NibbleMakes
    <3>2. CASE ~e.wide
      <4>1. -1 \in Halves
        BY DEF Halves
      <4>2. e.half = 3 /\ e.cold = 0
        BY <2>4, <3>2
      <4>3. Half(e, -1) \in Awake /\ Half(e, -1).half = -1 /\ Half(e, -1).cold = 0
        BY <4>1, <4>2, HalfType
      <4>4. t = Instructed(Half(e, -1), 51)
        BY <3>2, <4>2 DEF NibbleMakes
      <4> HIDE DEF t
      <4> QED
        BY <4>3, <4>4
    <3> QED
      BY <3>1, <3>2
  <2> HIDE DEF t
  <2>6. /\ Instructed(f, v).half = f.half /\ (Instructed(f, v).wide <=> v >= 48)
        /\ Instructed(f, v).cold = IF v >= 48 /\ f.cold > 0 THEN f.cold - 1 ELSE 0
        /\ f.cold <= 1 => Instructed(f, v).busy <= 100
    <3>1. v \in 32..63
      OBVIOUS
    <3> QED
      BY <3>1, InstructedFunction
  <2>7. t.half = -1 /\ t.wide /\ t.cold = 0 /\ t.busy <= 100
    BY <2>5, <2>6
  <2>8. Boot(2, t) /\ Sane(t)
    BY <2>7 DEF Boot, Sane
  <2>9. t \in Awake /\ Fallen(perm, Later(x.d, 3 * g + 2), x.p \cup {"e"}) = {At(t, x.p)}
    BY <2>3, <2>8 DEF t
  <2>10. At(t, x.p) \in LcdStates /\ At(t, x.p).kind = "ok" /\ At(t, x.p).d = t /\ At(t, x.p).p = x.p
    BY <2>1, <2>9, AtType DEF At
  <2>11. At(t, x.p) \in E
    BY <2>1, <2>7, <2>8, <2>10 DEF Booting
  <2> QED
    BY <2>9, <2>11
<1>2. \A x \in Booting(1, 0, BootLows, BootHighs) : x \in LcdStates /\ x.kind = "ok" /\ "e" \notin x.p
  BY DEF Booting
<1> HIDE DEF E
<1>3. Leads(LcdMoves(g, perm), Booting(1, 0, BootLows, BootHighs), Latch, E)
  BY <1>1, <1>2, LatchFrom
<1> QED
  BY <1>3 DEF E

LEMMA ThirdLatch ==
    ASSUME NEW g \in Nat, NEW perm, NEW ram, NEW a
    PROVE  Leads(LcdMoves(g, perm), Booting(2, 0, BootLows \cup {"d0"}, BootHighs \ {"d0"}), Latch,
                 Resting(37, 0, 0, ram, a))
<1> DEFINE D == Booting(2, 0, BootLows \cup {"d0"}, BootHighs \ {"d0"})
           E == Resting(37, 0, 0, ram, a)
<1>1. ASSUME NEW x \in D
      PROVE  Fallen(perm, Later(x.d, 3 * g + 2), x.p \cup {"e"}) \subseteq E
  <2>1. /\ x \in LcdStates /\ x.kind = "ok" /\ "e" \notin x.p /\ "d0" \notin x.p /\ x.p \in SUBSET LcdPins
    BY DEF Booting, LcdStates
  <2>2. 2 = IF "d0" \in x.p THEN 3 ELSE 2
    BY <2>1
  <2>3. PICK e \in Awake :
           /\ e.busy = 0 /\ Boot(2, e)
           /\ Sane(NibbleMakes(e, 2)) =>
                 /\ NibbleMakes(e, 2) \in Awake
                 /\ Fallen(perm, Later(x.d, 3 * g + 2), x.p \cup {"e"}) = {At(NibbleMakes(e, 2), x.p)}
    <3>1. 2 \in 0..2 /\ BootLows \subseteq BootLows \cup {"d0"} /\ "d1" \in BootHighs \ {"d0"}
      BY DEF BootHighs
    <3>2. Latched(g, perm, 2, x, 2)
      BY <2>2, <3>1, LatchTaken
    <3> QED
      BY <3>2 DEF Latched
  <2> DEFINE t == NibbleMakes(e, 2)
  <2>4. e.wide /\ e.half = -1 /\ e.cold = 0
    BY <2>3 DEF Boot
  <2>5. PICK v \in 32..63 : v = 32 /\ t = Instructed(e, v)
    BY <2>4 DEF NibbleMakes
  <2> HIDE DEF t
  <2>6. /\ Instructed(e, v).half = e.half /\ (Instructed(e, v).wide <=> v >= 48)
        /\ Instructed(e, v).cold = IF v >= 48 /\ e.cold > 0 THEN e.cold - 1 ELSE 0
        /\ e.cold = 0 => Instructed(e, v).busy = 37
    BY InstructedFunction
  <2>7. t.half = -1 /\ ~t.wide /\ t.cold = 0 /\ t.busy = 37
    BY <2>4, <2>5, <2>6
  <2>8. Calm(t, 37, 0, 0, ram, a) /\ Sane(t)
    BY <2>7 DEF Calm, Sane
  <2>9. t \in Awake /\ Fallen(perm, Later(x.d, 3 * g + 2), x.p \cup {"e"}) = {At(t, x.p)}
    BY <2>3, <2>8 DEF t
  <2>10. At(t, x.p) \in LcdStates /\ At(t, x.p).kind = "ok" /\ At(t, x.p).d = t /\ At(t, x.p).p = x.p
    BY <2>1, <2>9, AtType DEF At
  <2>11. At(t, x.p) \in E
    BY <2>1, <2>8, <2>10 DEF Resting
  <2> QED
    BY <2>9, <2>11
<1>2. \A x \in D : x \in LcdStates /\ x.kind = "ok" /\ "e" \notin x.p
  BY DEF Booting
<1> HIDE DEF D, E
<1>3. Leads(LcdMoves(g, perm), D, Latch, E)
  BY <1>1, <1>2, LatchFrom
<1> QED
  BY <1>3 DEF D, E

(* Plain lists, and what they lead to.                                      *)
LcdLeads(g, perm, D, s, E) == s \in Seq(PlainOp) /\ Leads(LcdMoves(g, perm), D, s, E)

LEMMA LcdJoin ==
    ASSUME NEW g, NEW perm, NEW D, NEW E, NEW F, NEW s, NEW t,
           LcdLeads(g, perm, D, s, E), LcdLeads(g, perm, E, t, F)
    PROVE  LcdLeads(g, perm, D, s \o t, F)
<1> DEFINE T == LcdMoves(g, perm)
<1>1. s \in Seq(PlainOp) /\ Leads(T, D, s, E) /\ t \in Seq(PlainOp) /\ Leads(T, E, t, F)
  BY DEF LcdLeads
<1> HIDE DEF T
<1>2. s \o t \in Seq(PlainOp)
  BY <1>1, PlainConcat
<1>3. Leads(T, D, s \o t, F)
  BY <1>1, LeadsConcat
<1> QED
  BY <1>2, <1>3 DEF LcdLeads, T

LEMMA BootHigh ==
    ASSUME NEW g \in Nat, NEW perm, NEW k, NEW q \in Nat, NEW lows \in SUBSET LcdPins, NEW highs,
           NEW pin \in LcdPins, pin # "e",
           NEW lows2, lows2 \subseteq lows \ {pin}, NEW highs2, highs2 \subseteq highs \cup {pin}
    PROVE  \A x \in Booting(k, q, lows, highs) : \A y :
              <<x, High(pin), y>> \in LcdMoves(g, perm) => y \in Booting(k, q, lows2, highs2)
<1>1. SUFFICES ASSUME NEW x \in Booting(k, q, lows, highs), NEW y, <<x, High(pin), y>> \in LcdMoves(g, perm)
               PROVE  y \in Booting(k, q, lows2, highs2)
  OBVIOUS
<1>2. y \in Booting(k, q, lows \ {pin}, highs \cup {pin})
  BY <1>1, BootLine
<1> QED
  BY <1>2 DEF Booting

LEMMA BootLow ==
    ASSUME NEW g \in Nat, NEW perm, NEW k, NEW q \in Nat, NEW lows \in SUBSET LcdPins, NEW highs,
           NEW pin \in LcdPins,
           NEW lows2, lows2 \subseteq lows \cup {pin}, NEW highs2, highs2 \subseteq highs \ {pin}
    PROVE  \A x \in Booting(k, q, lows, highs) : \A y :
              <<x, Low(pin), y>> \in LcdMoves(g, perm) => y \in Booting(k, q, lows2, highs2)
<1>1. SUFFICES ASSUME NEW x \in Booting(k, q, lows, highs), NEW y, <<x, Low(pin), y>> \in LcdMoves(g, perm)
               PROVE  y \in Booting(k, q, lows2, highs2)
  OBVIOUS
<1>2. y \in Booting(k, q, lows \cup {pin}, highs \ {pin})
  BY <1>1, BootLine
<1> QED
  BY <1>2 DEF Booting

LEMMA BootOutput ==
    ASSUME NEW g \in Nat, NEW perm, NEW k, NEW q \in Nat, NEW lows \in SUBSET LcdPins, NEW highs,
           NEW pin \in LcdPins
    PROVE  \A x \in Booting(k, q, lows, highs) : \A y :
              <<x, Output(pin), y>> \in LcdMoves(g, perm) => y \in Booting(k, q, lows, highs)
<1>1. SUFFICES ASSUME NEW x \in Booting(k, q, lows, highs), NEW y, <<x, Output(pin), y>> \in LcdMoves(g, perm)
               PROVE  y = x
  OBVIOUS
<1>2. y \in LcdAfter(g, perm, x, Output(pin))
  BY <1>1, LcdMove
<1>3. Output(pin).op = "output"
  BY DEF Output
<1> QED
  BY <1>2, <1>3 DEF LcdAfter, LineKinds

LEMMA BootDelay ==
    ASSUME NEW g \in Nat, NEW perm, NEW k, NEW q \in Nat, NEW c \in Nat, NEW us \in Nat, q <= us + c,
           NEW lows, NEW highs
    PROVE  \A x \in Booting(k, q, lows, highs) : \A y :
              <<x, Delay(us), y>> \in LcdMoves(g, perm) => y \in Booting(k, c, lows, highs)
<1>1. SUFFICES ASSUME NEW x \in Booting(k, q, lows, highs), NEW y, <<x, Delay(us), y>> \in LcdMoves(g, perm)
               PROVE  y \in Booting(k, c, lows, highs)
  OBVIOUS
<1> QED
  BY <1>1, BootWait

(* The steps of the list.                                                   *)
LEMMA BootLines ==
    ASSUME NEW g \in Nat, NEW perm, NEW q \in Nat
    PROVE  LcdLeads(g, perm, Booting(0, q, {}, {}), <<Output("rs"), Output("e"), Low("rs"), Low("e")>>,
                    Booting(0, q, {"rs"}, {}))
<1> DEFINE T == LcdMoves(g, perm)
           D == Booting(0, q, {}, {})
           E == Booting(0, q, {"rs"}, {})
           a == Output("rs")
           b == Output("e")
           c == Low("rs")
           d == Low("e")
           s == <<a, b, c, d>>
           P == [i \in 1..5 |-> IF i <= 3 THEN D ELSE E]
<1>1. /\ {} \in SUBSET LcdPins /\ {"rs"} \in SUBSET LcdPins /\ "rs" \in LcdPins /\ "e" \in LcdPins
      /\ {"rs"} \subseteq {} \cup {"rs"} /\ {} \subseteq {} \ {"rs"}
      /\ {"rs"} \subseteq {"rs"} \cup {"e"} /\ {} \subseteq {} \ {"e"}
  BY DEF LcdPins
<1>2. /\ \A x \in D : \A y : <<x, a, y>> \in T => y \in D
      /\ \A x \in D : \A y : <<x, b, y>> \in T => y \in D
  BY <1>1, BootOutput
<1>3. \A x \in D : \A y : <<x, c, y>> \in T => y \in E
  BY <1>1, BootLow
<1>4. \A x \in E : \A y : <<x, d, y>> \in T => y \in E
  BY <1>1, BootLow
<1>5. a \in PlainOp /\ b \in PlainOp /\ c \in PlainOp /\ d \in PlainOp
  BY LineOps DEF Pins
<1> HIDE DEF T, D, E, a, b, c, d
<1>6. /\ P[1] = D /\ P[2] = D /\ P[3] = D /\ P[4] = E /\ P[5] = E
      /\ s \in Seq(PlainOp) /\ Len(s) = 4 /\ s[1] = a /\ s[2] = b /\ s[3] = c /\ s[4] = d
  BY <1>5
<1> HIDE DEF P, s
<1>7. D \subseteq P[1] /\ P[Len(s) + 1] \subseteq E
  BY <1>6
<1>8. ASSUME NEW i \in 1..Len(s), NEW x \in P[i], NEW y, <<x, s[i], y>> \in T
      PROVE  y \in P[i + 1]
  <2>1. (i = 1 /\ i + 1 = 2) \/ (i = 2 /\ i + 1 = 3) \/ (i = 3 /\ i + 1 = 4) \/ (i = 4 /\ i + 1 = 5)
    BY <1>6, <1>8
  <2> QED
    BY <1>2, <1>3, <1>4, <1>6, <1>8, <2>1
<1>9. Leads(T, D, s, E)
  BY <1>7, <1>8 DEF Leads
<1> QED
  BY <1>6, <1>9 DEF LcdLeads, T, D, E, s, a, b, c, d

LEMMA BootLineUp ==
    ASSUME NEW g \in Nat, NEW perm, NEW q \in Nat, NEW highs, NEW z \in 0..3,
           NEW highs2, highs2 \subseteq highs \cup {DataLine(z)}
    PROVE  LcdLeads(g, perm, Booting(0, q, {"rs"}, highs), LineUp(z), Booting(0, q, {"rs"}, highs2))
<1> DEFINE T == LcdMoves(g, perm)
           D == Booting(0, q, {"rs"}, highs)
           E == Booting(0, q, {"rs"}, highs2)
           a == Output(DataLine(z))
           b == High(DataLine(z))
<1>1. /\ {"rs"} \in SUBSET LcdPins /\ DataLine(z) \in LcdPins /\ DataLine(z) # "e"
      /\ {"rs"} \subseteq {"rs"} \ {DataLine(z)}
  BY DataPins DEF LcdPins
<1>2. \A x \in D : \A y : <<x, a, y>> \in T => y \in D
  BY <1>1, BootOutput
<1>3. \A x \in D : \A y : <<x, b, y>> \in T => y \in E
  BY <1>1, BootHigh
<1> HIDE DEF T, D, E
<1>4. Leads(T, D, <<a, b>>, E)
  <2> HIDE DEF a, b
  <2> QED
    BY <1>2, <1>3, LeadsTwo
<1> QED
  BY <1>4, LineUpPlain DEF LcdLeads, LineUp, T, D, E

LEMMA BootIdle ==
    ASSUME NEW g \in Nat, NEW perm, NEW q \in Nat, NEW us \in Nat, q <= us
    PROVE  LcdLeads(g, perm, Booting(0, q, {"rs"}, BootHighs), <<Delay(us), Low("d3"), Low("d2")>>,
                    Booting(0, 0, BootLows, BootHighs))
<1> DEFINE T == LcdMoves(g, perm)
           D == Booting(0, q, {"rs"}, BootHighs)
           E == Booting(0, 0, {"rs"}, BootHighs)
           F == Booting(0, 0, {"rs", "d3"}, BootHighs)
           G == Booting(0, 0, BootLows, BootHighs)
           a == Delay(us)
           b == Low("d3")
           c == Low("d2")
<1>1. /\ {"rs"} \in SUBSET LcdPins /\ {"rs", "d3"} \in SUBSET LcdPins /\ "d3" \in LcdPins /\ "d2" \in LcdPins
      /\ {"rs", "d3"} \subseteq {"rs"} \cup {"d3"} /\ BootHighs \subseteq BootHighs \ {"d3"}
      /\ BootLows \subseteq {"rs", "d3"} \cup {"d2"} /\ BootHighs \subseteq BootHighs \ {"d2"}
  BY DEF LcdPins, BootHighs, BootLows
<1>2. q <= us + 0
  OBVIOUS
<1>3. \A x \in D : \A y : <<x, a, y>> \in T => y \in E
  BY <1>2, BootDelay
<1>4. \A x \in E : \A y : <<x, b, y>> \in T => y \in F
  BY <1>1, BootLow
<1>5. \A x \in F : \A y : <<x, c, y>> \in T => y \in G
  BY <1>1, BootLow
<1>6. a \in PlainOp /\ b \in PlainOp /\ c \in PlainOp
  BY LineOps DEF Pins
<1> HIDE DEF T, D, E, F, G, a, b, c
<1>7. Leads(T, D, <<a, b, c>>, G)
  BY <1>3, <1>4, <1>5, LeadsThree
<1>8. <<a, b, c>> \in Seq(PlainOp)
  BY <1>6
<1> QED
  BY <1>7, <1>8 DEF LcdLeads, T, D, G, a, b, c

LEMMA BootFourBit ==
    ASSUME NEW g \in Nat, NEW perm
    PROVE  LcdLeads(g, perm, Booting(2, 100, BootLows, BootHighs), <<Delay(100), Low("d0")>>,
                    Booting(2, 0, BootLows \cup {"d0"}, BootHighs \ {"d0"}))
<1> DEFINE T == LcdMoves(g, perm)
           D == Booting(2, 100, BootLows, BootHighs)
           E == Booting(2, 0, BootLows, BootHighs)
           F == Booting(2, 0, BootLows \cup {"d0"}, BootHighs \ {"d0"})
           a == Delay(100)
           b == Low("d0")
<1>1. /\ BootLows \in SUBSET LcdPins /\ "d0" \in LcdPins
      /\ BootLows \cup {"d0"} \subseteq BootLows \cup {"d0"} /\ BootHighs \ {"d0"} \subseteq BootHighs \ {"d0"}
  BY DEF LcdPins, BootLows
<1>2. 100 <= 100 + 0
  OBVIOUS
<1>3. \A x \in D : \A y : <<x, a, y>> \in T => y \in E
  BY <1>2, BootDelay
<1>4. \A x \in E : \A y : <<x, b, y>> \in T => y \in F
  BY <1>1, BootLow
<1>5. a \in PlainOp /\ b \in PlainOp
  BY LineOps DEF Pins
<1> HIDE DEF T, D, E, F, a, b
<1>6. Leads(T, D, <<a, b>>, F)
  BY <1>3, <1>4, LeadsTwo
<1>7. <<a, b>> \in Seq(PlainOp)
  BY <1>5
<1> QED
  BY <1>6, <1>7 DEF LcdLeads, T, D, F, a, b

LEMMA BootPause ==
    ASSUME NEW g \in Nat, NEW perm, NEW k, NEW q \in Nat, NEW us \in Nat, q <= us, NEW lows, NEW highs
    PROVE  LcdLeads(g, perm, Booting(k, q, lows, highs), <<Delay(us)>>, Booting(k, 0, lows, highs))
<1> DEFINE T == LcdMoves(g, perm)
           D == Booting(k, q, lows, highs)
           E == Booting(k, 0, lows, highs)
           a == Delay(us)
<1>1. q <= us + 0
  OBVIOUS
<1>2. \A x \in D : \A y : <<x, a, y>> \in T => y \in E
  BY <1>1, BootDelay
<1>3. a \in PlainOp
  BY LineOps DEF Pins
<1> HIDE DEF T, D, E, a
<1>4. Leads(T, D, <<a>>, E)
  BY <1>2, LeadsOne
<1> QED
  BY <1>3, <1>4 DEF LcdLeads, T, D, E, a

LEMMA RestPause ==
    ASSUME NEW g \in Nat, NEW perm, NEW b \in Nat, NEW c \in Nat, NEW us \in Nat, b <= us + c,
           NEW on, NEW shown, NEW ram, NEW a
    PROVE  LcdLeads(g, perm, Resting(b, on, shown, ram, a), <<Delay(us)>>, Resting(c, on, shown, ram, a))
<1>1. <<Delay(us)>> \in Seq(PlainOp)
  BY LineOps DEF Pins
<1>2. Leads(LcdMoves(g, perm), Resting(b, on, shown, ram, a), <<Delay(us)>>,
            Resting(c, on, shown, ram, a))
  BY DelayRest
<1> QED
  BY <1>1, <1>2 DEF LcdLeads

(* The calls, from a display at rest for which the next byte may be early.  *)
LEMMA FunctionLeads ==
    ASSUME NEW g \in Nat, NEW perm, NEW b \in Nat, b <= 8 * g + 2 \/ perm = 1,
           NEW on, NEW shown, NEW ram, NEW a, NEW l \in 0..1, NEW f \in 0..1
    PROVE  LcdLeads(g, perm, Resting(b, on, shown, ram, a), Cmd(FunctionSet(0, l, f)),
                    Resting(0, on, shown, ram, a))
<1>1. FunctionSet(0, l, f) \in 0..255
  BY DEF FunctionSet
<1>2. \A e \in Awake : \A n \in Nat :
         Calm(e, n, on, shown, ram, a) => Calm(Instructed(e, FunctionSet(0, l, f)), 37, on, shown, ram, a)
  BY FunctionDone
<1>3. PICK v \in 0..255 : v = FunctionSet(0, l, f)
  BY <1>1
<1>4. 37 <= 40 + 0
  OBVIOUS
<1>5. \A e \in Awake : \A n \in Nat :
         Calm(e, n, on, shown, ram, a) => Calm(Instructed(e, v), 37, on, shown, ram, a)
  BY <1>2, <1>3
<1>6. Leads(LcdMoves(g, perm), Resting(b, on, shown, ram, a), Cmd(v), Resting(0, on, shown, ram, a))
  BY <1>4, <1>5, CmdLeads
<1> QED
  BY <1>3, <1>6, CmdPlain DEF LcdLeads

LEMMA ControlLeads ==
    ASSUME NEW g \in Nat, NEW perm, NEW b \in Nat, b <= 8 * g + 2 \/ perm = 1,
           NEW shown, NEW ram, NEW a
    PROVE  LcdLeads(g, perm, Resting(b, 0, shown, ram, a), Cmd(DisplayControl(1, 0, 0)),
                    Resting(0, 1, shown, ram, a))
<1>1. DisplayControl(1, 0, 0) \in 0..255
  BY DEF DisplayControl
<1>2. \A e \in Awake : \A n \in Nat :
         Calm(e, n, 0, shown, ram, a) => Calm(Instructed(e, DisplayControl(1, 0, 0)), 37, 1, shown, ram, a)
  BY ControlDone
<1>3. PICK v \in 0..255 : v = DisplayControl(1, 0, 0)
  BY <1>1
<1>4. 37 <= 40 + 0
  OBVIOUS
<1>5. \A e \in Awake : \A n \in Nat :
         Calm(e, n, 0, shown, ram, a) => Calm(Instructed(e, v), 37, 1, shown, ram, a)
  BY <1>2, <1>3
<1>6. Leads(LcdMoves(g, perm), Resting(b, 0, shown, ram, a), Cmd(v), Resting(0, 1, shown, ram, a))
  BY <1>4, <1>5, CmdLeads
<1> QED
  BY <1>3, <1>6, CmdPlain DEF LcdLeads

LEMMA EntryLeads ==
    ASSUME NEW g \in Nat, NEW perm, NEW b \in Nat, b <= 8 * g + 2 \/ perm = 1,
           NEW on, NEW shown, NEW ram, NEW a
    PROVE  LcdLeads(g, perm, Resting(b, on, shown, ram, a), Cmd(EntryMode(1, 0)),
                    Resting(0, on, shown, ram, a))
<1>1. EntryMode(1, 0) \in 0..255
  BY DEF EntryMode
<1>2. \A e \in Awake : \A n \in Nat :
         Calm(e, n, on, shown, ram, a) => Calm(Instructed(e, EntryMode(1, 0)), 37, on, shown, ram, a)
  BY EntryDone
<1>3. PICK v \in 0..255 : v = EntryMode(1, 0)
  BY <1>1
<1>4. 37 <= 40 + 0
  OBVIOUS
<1>5. \A e \in Awake : \A n \in Nat :
         Calm(e, n, on, shown, ram, a) => Calm(Instructed(e, v), 37, on, shown, ram, a)
  BY <1>2, <1>3
<1>6. Leads(LcdMoves(g, perm), Resting(b, on, shown, ram, a), Cmd(v), Resting(0, on, shown, ram, a))
  BY <1>4, <1>5, CmdLeads
<1> QED
  BY <1>3, <1>6, CmdPlain DEF LcdLeads

LEMMA ClrscrLeads ==
    ASSUME NEW g \in Nat, NEW perm, NEW b \in Nat, b <= 8 * g + 2 \/ perm = 1,
           NEW on, NEW shown, NEW ram, NEW a
    PROVE  LcdLeads(g, perm, Resting(b, on, shown, ram, a), Clrscr, Resting(0, on, 1, Blank, 0))
<1>1. PICK k \in Nat : k = 1700
  OBVIOUS
<1>2. Clrscr = Cmd(1) \o <<Delay(k)>>
  BY <1>1 DEF Clrscr
<1>3. ASSUME NEW e \in Awake, NEW n \in Nat, Calm(e, n, on, shown, ram, a)
      PROVE  Calm(Instructed(e, 1), k, on, 1, Blank, 0)
  <2>1. PICK j \in Nat : j <= 1700 /\ Calm(Instructed(e, 1), j, on, 1, Blank, 0)
    BY <1>3, ClearDone
  <2>2. j <= k
    BY <1>1, <2>1
  <2>3. Instructed(e, 1).busy \in Nat
    <3>1. PICK i \in Nat : Instructed(e, 1) = Cleared(e, i)
      BY InstructedClear
    <3>2. PICK m : m = Blank
      OBVIOUS
    <3>3. Instructed(e, 1) = [e EXCEPT !.ram = m, !.addr = 0, !.inc = 1, !.busy = i]
      BY <3>1, <3>2 DEF Cleared
    <3> QED
      BY <3>3 DEF Awake, DispType
  <2>4. PICK x : x = Instructed(e, 1)
    OBVIOUS
  <2>5. x.busy \in Nat /\ Calm(x, j, on, 1, Blank, 0)
    BY <2>1, <2>3, <2>4
  <2>6. Calm(x, k, on, 1, Blank, 0)
    BY <2>2, <2>5 DEF Calm
  <2> QED
    BY <2>4, <2>6
<1> HIDE <1>1
<1>4. \A e \in Awake : \A n \in Nat :
         Calm(e, n, on, shown, ram, a) => Calm(Instructed(e, 1), k, on, 1, Blank, 0)
  BY <1>3
<1>5. 1 \in 0..255 /\ k <= 40 + k /\ k <= k + 0
  OBVIOUS
<1>6. Leads(LcdMoves(g, perm), Resting(b, on, shown, ram, a), Cmd(1), Resting(k, on, 1, Blank, 0))
  BY <1>4, <1>5, CmdLeads
<1>7. LcdLeads(g, perm, Resting(b, on, shown, ram, a), Cmd(1), Resting(k, on, 1, Blank, 0))
  BY <1>5, <1>6, CmdPlain DEF LcdLeads
<1>8. LcdLeads(g, perm, Resting(k, on, 1, Blank, 0), <<Delay(k)>>, Resting(0, on, 1, Blank, 0))
  BY <1>5, RestPause
<1>9. LcdLeads(g, perm, Resting(b, on, shown, ram, a), Cmd(1) \o <<Delay(k)>>, Resting(0, on, 1, Blank, 0))
  BY <1>7, <1>8, LcdJoin
<1> QED
  BY <1>2, <1>9

LEMMA GotoLeads ==
    ASSUME NEW g \in Nat, NEW perm, NEW b \in Nat, b <= 8 * g + 2 \/ perm = 1,
           NEW on, NEW ram, NEW a, NEW c \in Addresses
    PROVE  LcdLeads(g, perm, Resting(b, on, 1, ram, a), Goto(c), Resting(0, on, 1, ram, c))
<1>1. 128 + c \in 0..255
  BY LcdAssumption DEF Addresses
<1>2. \A e \in Awake : \A n \in Nat :
         Calm(e, n, on, 1, ram, a) => Calm(Instructed(e, 128 + c), 37, on, 1, ram, c)
  BY GotoDone
<1>3. PICK v \in 0..255 : v = 128 + c
  BY <1>1
<1>4. 37 <= 40 + 0
  OBVIOUS
<1>5. \A e \in Awake : \A n \in Nat :
         Calm(e, n, on, 1, ram, a) => Calm(Instructed(e, v), 37, on, 1, ram, c)
  BY <1>2, <1>3
<1>6. Leads(LcdMoves(g, perm), Resting(b, on, 1, ram, a), Cmd(v), Resting(0, on, 1, ram, c))
  BY <1>4, <1>5, CmdLeads
<1> QED
  BY <1>3, <1>6, CmdPlain DEF LcdLeads, Goto

(* A display that no reset caught in the middle of a write is ready for the *)
(* calls after hd44780_init.                                                *)
LEMMA WakeLeads ==
    ASSUME NEW g \in Nat, NEW perm, g >= 5 \/ perm = 1
    PROVE  LcdLeads(g, perm, Booting(0, WarmUp, {}, {}), InitOps, Resting(0, 1, 1, Blank, 0))
<1> DEFINE L(D, s, E) == LcdLeads(g, perm, D, s, E)
           D0 == Booting(0, WarmUp, {}, {})
           D1 == Booting(0, WarmUp, {"rs"}, {})
           D2 == Booting(0, WarmUp, {"rs"}, {"d1"})
           D3 == Booting(0, WarmUp, {"rs"}, BootHighs)
           D4 == Booting(0, 0, BootLows, BootHighs)
           D5 == Booting(1, FirstTime, BootLows, BootHighs)
           D6 == Booting(1, 0, BootLows, BootHighs)
           D7 == Booting(2, 100, BootLows, BootHighs)
           D8 == Booting(2, 0, BootLows \cup {"d0"}, BootHighs \ {"d0"})
           R1 == Resting(37, 0, 0, Blank, 0)
           R2 == Resting(27, 0, 0, Blank, 0)
           R3 == Resting(0, 0, 0, Blank, 0)
           R4 == Resting(0, 1, 0, Blank, 0)
           R5 == Resting(0, 1, 1, Blank, 0)
           lines == IF Lines >= 2 THEN 1 ELSE 0
           s0 == <<Output("rs"), Output("e"), Low("rs"), Low("e")>>
           s8 == <<Delay(100), Low("d0")>>
           sA == <<Delay(10)>>
           sB == Cmd(FunctionSet(0, lines, Font))
           sC == Cmd(DisplayControl(1, 0, 0))
           sE == Cmd(EntryMode(1, 0))
<1>1. PICK w \in Nat : w = 50000 /\ WarmUp <= w
  BY DEF WarmUp
<1>2. PICK h \in Nat : h = 5000 /\ FirstTime <= h
  BY DEF FirstTime
<1> DEFINE s5 == <<Delay(w), Low("d3"), Low("d2")>>
           s6 == <<Delay(h)>>
<1>3. InitOps = s0 \o LineUp(3) \o LineUp(2) \o LineUp(1) \o LineUp(0) \o s5
                   \o Latch \o s6 \o Latch \o s8 \o Latch \o sA \o sB \o sC \o Clrscr \o sE
  BY <1>1, <1>2 DEF InitOps
<1>4. WarmUp \in Nat /\ FirstTime \in Nat /\ WarmUp <= w /\ FirstTime <= h
  BY <1>1, <1>2, WarmUpType DEF FirstTime
<1> HIDE <1>1, <1>2
<1>5. L(D0, s0, D1)
  BY <1>4, BootLines
<1>6. L(D1, LineUp(3), D1) /\ L(D1, LineUp(2), D1)
  <2>1. {} \subseteq {} \cup {DataLine(3)} /\ {} \subseteq {} \cup {DataLine(2)} /\ 3 \in 0..3 /\ 2 \in 0..3
    OBVIOUS
  <2> QED
    BY <1>4, <2>1, BootLineUp
<1>7. L(D1, LineUp(1), D2)
  <2>1. {"d1"} \subseteq {} \cup {DataLine(1)} /\ 1 \in 0..3
    BY DEF DataLine
  <2> QED
    BY <1>4, <2>1, BootLineUp
<1>8. L(D2, LineUp(0), D3)
  <2>1. BootHighs \subseteq {"d1"} \cup {DataLine(0)} /\ 0 \in 0..3
    BY DEF DataLine, BootHighs
  <2> QED
    BY <1>4, <2>1, BootLineUp
<1>9. L(D3, s5, D4)
  BY <1>4, BootIdle
<1>10. L(D4, Latch, D5)
  BY <1>4, FirstLatch, LatchPlain DEF LcdLeads
<1>11. L(D5, s6, D6)
  BY <1>4, BootPause
<1>12. L(D6, Latch, D7)
  BY SecondLatch, LatchPlain DEF LcdLeads
<1>13. L(D7, s8, D8)
  BY BootFourBit
<1>14. L(D8, Latch, R1)
  BY ThirdLatch, LatchPlain DEF LcdLeads
<1>15. L(R1, sA, R2)
  <2>1. 37 <= 10 + 27
    OBVIOUS
  <2> QED
    BY <2>1, RestPause
<1>16. L(R2, sB, R3)
  <2>1. 27 <= 8 * g + 2 \/ perm = 1
    OBVIOUS
  <2>2. lines \in 0..1 /\ Font \in 0..1
    BY LcdAssumption
  <2> QED
    BY <2>1, <2>2, FunctionLeads
<1>17. 0 <= 8 * g + 2 \/ perm = 1
  OBVIOUS
<1>18. L(R3, sC, R4)
  BY <1>17, ControlLeads
<1>19. L(R4, Clrscr, R5)
  BY <1>17, ClrscrLeads
<1>20. L(R5, sE, R5)
  BY <1>17, EntryLeads
<1>21. \A D, E, F, s, t : L(D, s, E) /\ L(E, t, F) => L(D, s \o t, F)
  BY LcdJoin
<1> HIDE DEF L, D0, D1, D2, D3, D4, D5, D6, D7, D8, R1, R2, R3, R4, R5, s0, s5, s6, s8, sA, sB, sC, sE
<1>22. L(D0, s0 \o LineUp(3) \o LineUp(2) \o LineUp(1) \o LineUp(0) \o s5, D4)
  <2>1. L(D0, s0 \o LineUp(3), D1)
    BY <1>5, <1>6, <1>21
  <2>2. L(D0, s0 \o LineUp(3) \o LineUp(2), D1)
    BY <1>6, <1>21, <2>1
  <2>3. L(D0, s0 \o LineUp(3) \o LineUp(2) \o LineUp(1), D2)
    BY <1>7, <1>21, <2>2
  <2>4. L(D0, s0 \o LineUp(3) \o LineUp(2) \o LineUp(1) \o LineUp(0), D3)
    BY <1>8, <1>21, <2>3
  <2> QED
    BY <1>9, <1>21, <2>4
<1>23. PICK p : p = s0 \o LineUp(3) \o LineUp(2) \o LineUp(1) \o LineUp(0) \o s5
  OBVIOUS
<1>24. L(D0, p \o Latch \o s6 \o Latch \o s8 \o Latch \o sA, R2)
  <2>0. L(D0, p, D4)
    BY <1>22, <1>23
  <2>1. L(D0, p \o Latch, D5)
    BY <1>10, <1>21, <2>0
  <2>2. L(D0, p \o Latch \o s6, D6)
    BY <1>11, <1>21, <2>1
  <2>3. L(D0, p \o Latch \o s6 \o Latch, D7)
    BY <1>12, <1>21, <2>2
  <2>4. L(D0, p \o Latch \o s6 \o Latch \o s8, D8)
    BY <1>13, <1>21, <2>3
  <2>5. L(D0, p \o Latch \o s6 \o Latch \o s8 \o Latch, R1)
    BY <1>14, <1>21, <2>4
  <2> QED
    BY <1>15, <1>21, <2>5
<1>25. PICK q : q = p \o Latch \o s6 \o Latch \o s8 \o Latch \o sA
  OBVIOUS
<1>26. L(D0, q \o sB \o sC \o Clrscr \o sE, R5)
  <2>0. L(D0, q, R2)
    BY <1>24, <1>25
  <2>1. L(D0, q \o sB, R3)
    BY <1>16, <1>21, <2>0
  <2>2. L(D0, q \o sB \o sC, R4)
    BY <1>18, <1>21, <2>1
  <2>3. L(D0, q \o sB \o sC \o Clrscr, R5)
    BY <1>19, <1>21, <2>2
  <2> QED
    BY <1>20, <1>21, <2>3
<1>27. InitOps = q \o sB \o sC \o Clrscr \o sE
  BY <1>3, <1>23, <1>25
<1>28. L(D0, InitOps, R5)
  BY <1>26, <1>27
<1> QED
  BY <1>28 DEF L, D0, R5

(* What the first k characters of s make of a text.                         *)
Upto(ram, a, s, k) ==
    [c \in Addresses |-> LET at == {i \in 1..k : (a + i - 1) % Cells = c}
                         IN IF at = {} THEN ram[c] ELSE s[Max(at)]]

LEMMA UptoNone ==
    ASSUME NEW ram \in Memory, NEW a, NEW s
    PROVE  Upto(ram, a, s, 0) = ram
<1>1. \A c : {i \in 1..0 : (a + i - 1) % Cells = c} = {}
  OBVIOUS
<1>2. Upto(ram, a, s, 0) = [c \in Addresses |-> ram[c]]
  BY <1>1 DEF Upto
<1> QED
  BY <1>2 DEF Memory

LEMMA MaxIs ==
    ASSUME NEW S \in SUBSET Nat, NEW k \in S, \A i \in S : i <= k
    PROVE  Max(S) = k
<1>1. \A x \in S : (\A y \in S : x >= y) => x = k
  OBVIOUS
<1>2. \A y \in S : k >= y
  OBVIOUS
<1> QED
  BY <1>1, <1>2 DEF Max

(* The memory with the character c at the address a, and the k-th address    *)
(* after a.                                                                 *)
Stored(ram, a, c) == [ram EXCEPT ![a] = c]
Cell(a, k) == (a + k) % Cells

LEMMA UptoPut ==
    ASSUME NEW ram, NEW a \in Nat, NEW s, NEW k \in Nat
    PROVE  Stored(Upto(ram, a, s, k), Cell(a, k), s[k + 1]) = Upto(ram, a, s, k + 1)
<1> DEFINE at(n, c) == {i \in 1..n : (a + i - 1) % Cells = c}
           U == Upto(ram, a, s, k)
           V == Upto(ram, a, s, k + 1)
           z == (a + k) % Cells
<1>1. z \in Addresses
  BY LcdAssumption DEF Addresses
<1>2. ASSUME NEW c \in Addresses, c # z PROVE at(k + 1, c) = at(k, c)
  <2>1. ASSUME NEW i \in at(k + 1, c) PROVE i \in at(k, c)
    <3>1. i \in 1..k + 1 /\ (a + i - 1) % Cells = c
      OBVIOUS
    <3>2. i # k + 1
      <4>1. SUFFICES ASSUME i = k + 1 PROVE FALSE
        OBVIOUS
      <4>2. a + i - 1 = a + k
        BY <4>1
      <4> QED
        BY <1>2, <3>1, <4>2
    <3> QED
      BY <3>1, <3>2
  <2>2. ASSUME NEW i \in at(k, c) PROVE i \in at(k + 1, c)
    OBVIOUS
  <2> QED
    BY <2>1, <2>2
<1>3. at(k + 1, z) # {} /\ Max(at(k + 1, z)) = k + 1
  <2>1. a + (k + 1) - 1 = a + k /\ k + 1 \in 1..k + 1
    OBVIOUS
  <2>2. k + 1 \in at(k + 1, z)
    BY <2>1
  <2>3. at(k + 1, z) \in SUBSET Nat /\ \A i \in at(k + 1, z) : i <= k + 1
    OBVIOUS
  <2> HIDE DEF at
  <2> QED
    BY <2>2, <2>3, MaxIs
<1>4. U = [c \in Addresses |-> IF at(k, c) = {} THEN ram[c] ELSE s[Max(at(k, c))]]
  BY DEF Upto
<1>5. V = [c \in Addresses |-> IF at(k + 1, c) = {} THEN ram[c] ELSE s[Max(at(k + 1, c))]]
  BY DEF Upto
<1> HIDE DEF at, U, V, z
<1>6. \A c \in Addresses : V[c] = IF c = z THEN s[k + 1] ELSE U[c]
  BY <1>2, <1>3, <1>4, <1>5
<1>7. V = [c \in Addresses |-> V[c]]
  BY <1>5
<1>8. U = [c \in Addresses |-> U[c]]
  BY <1>4
<1>9. [U EXCEPT ![z] = s[k + 1]] = [c \in Addresses |-> IF c = z THEN s[k + 1] ELSE U[c]]
  BY <1>8
<1>10. V = [c \in Addresses |-> IF c = z THEN s[k + 1] ELSE U[c]]
  BY <1>6, <1>7
<1>11. [U EXCEPT ![z] = s[k + 1]] = V
  BY <1>9, <1>10
<1> QED
  BY <1>11 DEF U, V, z, Stored, Cell

LEMMA NextCell ==
    ASSUME NEW x \in Nat
    PROVE  ((x % Cells) + 1) % Cells = (x + 1) % Cells
<1>0. Cells \in Nat \ {0}
  BY LcdAssumption
<1>1. x \div Cells \in Nat /\ x % Cells \in 0..Cells - 1 /\ x = (x \div Cells) * Cells + (x % Cells)
  <2>1. x \in 0..(x + 1) * Cells - 1
    <3>1. (x + 1) * Cells >= (x + 1) * 1
      BY <1>0
    <3>2. (x + 1) * Cells \in Nat
      BY <1>0
    <3> QED
      BY <3>1, <3>2
  <2>2. x \div Cells \in 0..(x + 1) - 1 /\ x % Cells \in 0..Cells - 1
        /\ x = (x \div Cells) * Cells + (x % Cells)
    <3>1. x + 1 \in Nat
      OBVIOUS
    <3> QED
      BY <1>0, <2>1, <3>1, Quotient
  <2> QED
    BY <2>2
<1>2. PICK q \in Nat : q = x \div Cells
  BY <1>1
<1>3. PICK r \in 0..Cells - 1 : r = x % Cells
  BY <1>1
<1>4. x = q * Cells + r
  BY <1>1, <1>2, <1>3
<1>5. CASE r + 1 < Cells
  <2>1. r + 1 \in 0..Cells - 1 /\ 0 \in Nat
    BY <1>0, <1>3, <1>5
  <2>2. (q * Cells + (r + 1)) % Cells = r + 1
    BY <1>0, <1>2, <2>1, Divided
  <2>3. (r + 1) % Cells = r + 1
    BY <1>0, <1>3, <1>5
  <2>4. x + 1 = q * Cells + (r + 1)
    <3>1. PICK m \in Nat : m = q * Cells
      BY <1>0, <1>2
    <3> QED
      BY <1>3, <1>4, <3>1
  <2> QED
    BY <1>3, <2>2, <2>3, <2>4
<1>6. CASE r + 1 = Cells
  <2>1. ((q + 1) * Cells + 0) % Cells = 0 /\ (1 * Cells + 0) % Cells = 0
    <3>1. q + 1 \in Nat /\ 1 \in Nat /\ 0 \in 0..Cells - 1
      BY <1>0, <1>2
    <3> QED
      BY <1>0, <3>1, Divided
  <2>2. (q + 1) * Cells + 0 = x + 1
    <3>1. (q + 1) * Cells = q * Cells + Cells
      BY <1>0, <1>2
    <3>2. PICK m \in Nat : m = q * Cells
      BY <1>0, <1>2
    <3> QED
      BY <1>0, <1>3, <1>4, <1>6, <3>1, <3>2
  <2>3. 1 * Cells + 0 = r + 1
    BY <1>0, <1>6
  <2> QED
    BY <1>3, <2>1, <2>2, <2>3
<1> QED
  BY <1>0, <1>3, <1>5, <1>6

InTime(g, perm) == {b \in Nat : b <= 8 * g + 2 \/ perm = 1}

LEMMA CharacterRest ==
    ASSUME NEW g \in Nat, NEW perm, NEW b \in InTime(g, perm), NEW ram, NEW a, NEW c \in 0..255,
           NEW x \in Resting(b, 1, 1, ram, a), NEW y, <<x, Write(c, "rs"), y>> \in LcdMoves(g, perm)
    PROVE  y \in Resting(37, 1, 1, Stored(ram, a, c), Cell(a, 1))
<1>0. b \in Nat /\ (b <= 8 * g + 2 \/ perm = 1)
  BY DEF InTime
<1>1. y \in LcdAfter(g, perm, x, Write(c, "rs"))
  BY LcdMove
<1>2. PICK line \in {"none", "rs"} : line = "rs"
  OBVIOUS
<1>3. y \in Replied(1, 1, ram, a, c, "rs")
  <2>1. y \in LcdAfter(g, perm, x, Write(c, line))
    BY <1>1, <1>2
  <2>2. PICK one : one = 1
    OBVIOUS
  <2>3. x \in Resting(b, one, one, ram, a)
    BY <2>2
  <2>4. y \in Replied(one, one, ram, a, c, line)
    BY <1>0, <2>1, <2>3, WriteCalm
  <2> QED
    BY <1>2, <2>2, <2>4
<1>4. CASE y = Lost
  BY <1>4, LostType DEF Resting
<1>5. CASE y # Lost
  <2>1. PICK e \in Awake, n \in Nat : /\ Calm(e, n, 1, 1, ram, a) /\ y.d = Received(e, c, "rs")
                                      /\ y \in LcdStates /\ y.kind = "ok" /\ "e" \notin y.p
    BY <1>3, <1>5 DEF Replied
  <2>2. ram \in Memory /\ a \in Addresses
    BY <2>1 DEF Calm, Awake, DispType
  <2>3. Calm(Characterized(e, c), 37, 1, 1, Stored(ram, a, c), Cell(a, 1))
    BY <2>1, <2>2, DataDone DEF Stored, Cell
  <2>4. y.d = Characterized(e, c)
    BY <2>1 DEF Received
  <2> QED
    BY <2>1, <2>3, <2>4 DEF Resting
<1> QED
  BY <1>4, <1>5

(* The characters come as fast as the lines are set, the wait is at the end. *)
LEMMA PutsLeads ==
    ASSUME NEW g \in Nat, NEW perm, g >= 5 \/ perm = 1, NEW ram \in Memory, NEW a \in Addresses, NEW s \in Strings
    PROVE  LcdLeads(g, perm, Resting(0, 1, 1, ram, a), Puts(s),
                    Resting(0, 1, 1, Upto(ram, a, s, Len(s)), (a + Len(s)) % Cells))
<1> DEFINE T == LcdMoves(g, perm)
           l == [i \in 1..Len(s) |-> Write(s[i], "rs")]
<1>1. PICK n \in 1..MaxText : s \in [1..n -> Chars]
  BY DEF Strings
<1>2. n \in Nat /\ Len(s) = n
  BY <1>1, LcdAssumption
<1>3. \A i \in 1..n : s[i] \in 0..255
  <2>1. Chars \subseteq 0..255
    BY LcdAssumption
  <2>2. \A i \in 1..n : s[i] \in Chars
    BY <1>1
  <2> QED
    BY <2>1, <2>2
<1>4. l \in Seq(PlainOp) /\ Len(l) = n /\ \A i \in 1..n : l[i] = Write(s[i], "rs")
  <2>1. \A i \in 1..n : Write(s[i], "rs") \in PlainOp
    BY <1>3, WriteOp
  <2> QED
    BY <1>2, <2>1
<1>5. a \in Nat /\ a % Cells = a /\ Cells \in Nat \ {0}
  BY LcdAssumption DEF Addresses
<1> DEFINE b(i) == IF i = 1 THEN 0 ELSE 37
           R(i) == Resting(b(i), 1, 1, Upto(ram, a, s, i - 1), (a + (i - 1)) % Cells)
           P == [i \in 1..n + 1 |-> R(i)]
<1> HIDE DEF l
<1>6. \A i \in 1..n + 1 : P[i] = R(i)
  OBVIOUS
<1>7. 1 \in 1..n + 1 /\ n + 1 \in 1..n + 1
  BY <1>2
<1>8. ASSUME NEW i \in 1..n, NEW x \in R(i), NEW y, <<x, l[i], y>> \in T
      PROVE  y \in R(i + 1)
  <2>1. PICK k \in Nat : k = i - 1 /\ i = k + 1
    OBVIOUS
  <2>2. b(i) \in Nat /\ (b(i) <= 8 * g + 2 \/ perm = 1)
    OBVIOUS
  <2>3. PICK c \in Nat : c = b(i) /\ (c <= 8 * g + 2 \/ perm = 1)
    BY <2>2
  <2>4. s[i] \in 0..255 /\ <<x, Write(s[i], "rs"), y>> \in T
    BY <1>3, <1>4, <1>8
  <2>5. x \in Resting(c, 1, 1, Upto(ram, a, s, k), (a + k) % Cells)
    BY <1>8, <2>1, <2>3
  <2> HIDE DEF b
  <2>6. y \in Resting(37, 1, 1, Stored(Upto(ram, a, s, k), Cell(a, k), s[i]), Cell(Cell(a, k), 1))
    <3>1. PICK u : u = Upto(ram, a, s, k)
      OBVIOUS
    <3>2. PICK z : z = Cell(a, k)
      OBVIOUS
    <3>3. PICK ch \in 0..255 : ch = s[i]
      BY <2>4
    <3>4. x \in Resting(c, 1, 1, u, z)
      BY <2>5, <3>1, <3>2 DEF Cell
    <3>5. <<x, Write(ch, "rs"), y>> \in LcdMoves(g, perm)
      BY <2>4, <3>3
    <3> HIDE DEF T, R, P
    <3>6. c \in InTime(g, perm)
      BY <2>3 DEF InTime
    <3>7. y \in Resting(37, 1, 1, Stored(u, z, ch), Cell(z, 1))
      BY <3>4, <3>5, <3>6, CharacterRest
    <3> QED
      BY <3>1, <3>2, <3>3, <3>7
  <2>7. Stored(Upto(ram, a, s, k), Cell(a, k), s[i]) = Upto(ram, a, s, i)
    <3> HIDE DEF T, R, P
    <3>0. a \in Nat /\ i = k + 1
      BY <1>5, <2>1
    <3>1. Stored(Upto(ram, a, s, k), Cell(a, k), s[k + 1]) = Upto(ram, a, s, k + 1)
      BY <3>0, UptoPut
    <3> QED
      BY <3>0, <3>1
  <2>8. Cell(Cell(a, k), 1) = (a + i) % Cells
    <3>1. a + k \in Nat /\ (a + k) + 1 = a + i
      BY <1>5, <2>1
    <3> QED
      BY <3>1, NextCell DEF Cell
  <2>9. b(i + 1) = 37 /\ (i + 1) - 1 = i
    BY DEF b
  <2> QED
    BY <2>6, <2>7, <2>8, <2>9
<1> HIDE DEF R, T
<1>9. Leads(T, P[1], l, P[n + 1])
  <2>1. ASSUME NEW i \in 1..n, NEW x \in P[i], NEW y, <<x, l[i], y>> \in T
        PROVE  y \in P[i + 1]
    <3>1. i \in 1..n + 1 /\ i + 1 \in 1..n + 1
      BY <1>2
    <3>2. P[i] = R(i) /\ P[i + 1] = R(i + 1)
      BY <1>6, <3>1
    <3> HIDE DEF P
    <3> QED
      BY <1>8, <2>1, <3>2
  <2> HIDE DEF P
  <2>2. Len(l) = n
    BY <1>4
  <2>3. P[1] \subseteq P[1] /\ P[Len(l) + 1] \subseteq P[n + 1]
    BY <2>2
  <2> QED
    BY <2>1, <2>2, <2>3 DEF Leads
<1>10. P[1] = Resting(0, 1, 1, ram, a)
  <2>1. Upto(ram, a, s, 0) = ram
    BY UptoNone
  <2>2. 1 - 1 = 0 /\ a + 0 = a
    BY <1>5
  <2>3. P[1] = Resting(0, 1, 1, Upto(ram, a, s, 0), (a + 0) % Cells)
    BY <1>6, <1>7, <2>2 DEF R, b
  <2> HIDE DEF P
  <2> QED
    BY <1>5, <2>1, <2>2, <2>3
<1>11. P[n + 1] = Resting(37, 1, 1, Upto(ram, a, s, n), (a + n) % Cells)
  <2>1. n + 1 # 1 /\ (n + 1) - 1 = n
    BY <1>2
  <2> QED
    BY <1>6, <1>7, <2>1 DEF R, b
<1> HIDE DEF P
<1>12. LcdLeads(g, perm, Resting(0, 1, 1, ram, a), l, Resting(37, 1, 1, Upto(ram, a, s, n), (a + n) % Cells))
  BY <1>4, <1>9, <1>10, <1>11 DEF LcdLeads, T
<1>13. LcdLeads(g, perm, Resting(37, 1, 1, Upto(ram, a, s, n), (a + n) % Cells), <<Delay(40)>>,
                Resting(0, 1, 1, Upto(ram, a, s, n), (a + n) % Cells))
  <2>1. 37 <= 40 + 0
    OBVIOUS
  <2> QED
    BY <2>1, RestPause
<1>14. LcdLeads(g, perm, Resting(0, 1, 1, ram, a), l \o <<Delay(40)>>,
                Resting(0, 1, 1, Upto(ram, a, s, n), (a + n) % Cells))
  BY <1>12, <1>13, LcdJoin
<1>15. Puts(s) = l \o <<Delay(40)>>
  BY DEF Puts, l
<1> QED
  BY <1>2, <1>14, <1>15

(* The text display and its lines, the state a call leaves them in, and the *)
(* calls in which a write may come too early.                               *)
TextNow == IF missed THEN Lost ELSE At(disp, port \cap LcdPins)
TextGoal == Resting(0, 1, 1, screen.ram, screen.addr)
Perm == IF gpioUs \in Fast /\ lcdCall \in {"init", "puts"} THEN 1 ELSE 0
TextLeft == todo \in Seq(PlainOp) /\ Leads(LcdMoves(gpioUs, Perm), {TextNow}, todo, TextGoal)

(* What can be said of the display even when it lost a write or half a byte. *)
Hale(d) == Sane(d) /\ (d.wide => d.half = -1)

(* What hd44780_init can wake it from.                                      *)
Asleep == ~torn => ~rushed /\ ~missed /\ disp.half \in {-1, 3}

(* What the operations left lead to is what the call promises.              *)
TextInv == /\ screen \in [ram : Memory, addr : Addresses]
           /\ missed \in BOOLEAN /\ torn \in BOOLEAN /\ rushed \in BOOLEAN
           /\ Hale(disp)
           /\ lcdCall = "none" => Asleep /\ (program = "text" => todo = <<>> /\ "e" \notin port)
           /\ lcdCall # "none" => program = "text"
           /\ (lcdCall # "none" /\ ~torn) => (TextLeft /\ (rushed \/ missed => Perm = 1))

LEMMA BlankType == [ram |-> Blank, addr |-> 0] \in [ram : Memory, addr : Addresses]
<1>1. Blank \in Memory
  BY DEF Blank, Space, Memory, Addresses
<1>2. 0 \in Addresses
  BY LcdAssumption DEF Addresses
<1> QED
  BY <1>1, <1>2

LEMMA TextGoalSame ==
    ASSUME gpioUs' = gpioUs, lcdCall' = lcdCall, screen' = screen
    PROVE  Perm' = Perm /\ TextGoal' = TextGoal
  BY DEF Perm, TextGoal

LEMMA PermOne == Perm \in 0..1 /\ (Perm = 1 <=> gpioUs \in Fast /\ lcdCall \in {"init", "puts"})
  BY DEF Perm

LEMMA TextNowType ==
    ASSUME LcdTypes
    PROVE  TextNow \in LcdStates /\ gpioUs \in Nat /\ disp \in Awake
<1>1. disp \in Awake
  BY DEF LcdTypes, Awake
<1>2. gpioUs \in Nat
  BY LcdAssumption DEF LcdTypes
<1>3. port \cap LcdPins \in SUBSET LcdPins
  OBVIOUS
<1> QED
  BY <1>1, <1>2, <1>3, AtType, LostType DEF TextNow

LEMMA TextLeftAt ==
    ASSUME TextLeft, todo # <<>>
    PROVE  /\ Head(todo) \in PlainOp /\ Tail(todo) \in Seq(PlainOp)
           /\ \E F : /\ \A y : <<TextNow, Head(todo), y>> \in LcdMoves(gpioUs, Perm) => y \in F
                     /\ Leads(LcdMoves(gpioUs, Perm), F, Tail(todo), TextGoal)
<1>1. todo \in Seq(PlainOp) /\ Leads(LcdMoves(gpioUs, Perm), {TextNow}, todo, TextGoal)
  BY DEF TextLeft
<1>2. Head(todo) \in PlainOp /\ Tail(todo) \in Seq(PlainOp)
  BY <1>1
<1>3. \E F : /\ \A d \in {TextNow} : \A y : <<d, Head(todo), y>> \in LcdMoves(gpioUs, Perm) => y \in F
             /\ Leads(LcdMoves(gpioUs, Perm), F, Tail(todo), TextGoal)
  BY <1>1, LeadsTail
<1> QED
  BY <1>2, <1>3

(* A write never comes too early where it may not.                          *)
LEMMA TextNoCrash ==
    ASSUME TextLeft, todo # <<>>, LcdTypes
    PROVE  Crash \notin LcdAfter(gpioUs, Perm, TextNow, Head(todo))
<1>1. PICK F : /\ \A y : <<TextNow, Head(todo), y>> \in LcdMoves(gpioUs, Perm) => y \in F
               /\ Leads(LcdMoves(gpioUs, Perm), F, Tail(todo), TextGoal)
  BY TextLeftAt
<1>2. Head(todo) \in PlainOp /\ Tail(todo) \in Seq(PlainOp)
  BY TextLeftAt
<1>3. SUFFICES ASSUME Crash \in LcdAfter(gpioUs, Perm, TextNow, Head(todo))
               PROVE  FALSE
  OBVIOUS
<1>4. Crash \in F
  BY <1>1, <1>2, <1>3, TextNowType, LostType, LcdMove
<1>5. Crash.kind = "crash"
  BY DEF Crash
<1>6. \A o \in PlainOp : <<Crash, o, Crash>> \in LcdMoves(gpioUs, Perm)
  BY <1>5, LostType, LcdMove DEF LcdAfter
<1>7. Crash \in TextGoal
  <2>1. PICK T : T = LcdMoves(gpioUs, Perm)
    OBVIOUS
  <2>2. PICK r \in Seq(PlainOp) : r = Tail(todo)
    BY <1>2
  <2>3. Leads(T, F, r, TextGoal) /\ \A o \in PlainOp : <<Crash, o, Crash>> \in T
    BY <1>1, <1>6, <2>1, <2>2
  <2> QED
    BY <1>4, <2>3, LeadsStuck
<1> QED
  BY <1>5, <1>7 DEF TextGoal, Resting, Lost

(* A step that the display may make on the way of a call.                   *)
LEMMA TextMove ==
    ASSUME TextLeft, todo # <<>>, LcdTypes, todo' = Tail(todo),
           gpioUs' = gpioUs, lcdCall' = lcdCall, screen' = screen,
           TextNow' \in LcdAfter(gpioUs, Perm, TextNow, Head(todo))
    PROVE  TextLeft'
<1>1. PICK F : /\ \A y : <<TextNow, Head(todo), y>> \in LcdMoves(gpioUs, Perm) => y \in F
               /\ Leads(LcdMoves(gpioUs, Perm), F, Tail(todo), TextGoal)
  BY TextLeftAt
<1>2. Head(todo) \in PlainOp /\ Tail(todo) \in Seq(PlainOp)
  BY TextLeftAt
<1>3. PICK y : y = TextNow'
  OBVIOUS
<1>4. y \in F
  <2>1. y \in LcdStates
    BY <1>2, <1>3, TextNowType, LcdAfterType
  <2> QED
    BY <1>1, <1>2, <1>3, <2>1, TextNowType, LcdMove
<1>5. {y} \subseteq F
  BY <1>4
<1>6. Leads(LcdMoves(gpioUs, Perm), {y}, Tail(todo), TextGoal)
  BY <1>1, <1>5, LeadsWeaken
<1>7. Perm' = Perm /\ TextGoal' = TextGoal
  BY TextGoalSame
<1> QED
  BY <1>2, <1>3, <1>6, <1>7 DEF TextLeft

LEMMA TypedUpto ==
    ASSUME NEW s \in Strings
    PROVE  Typed(screen, s) = [ram |-> Upto(screen.ram, screen.addr, s, Len(s)),
                               addr |-> (screen.addr + Len(s)) % Cells]
  BY DEF Typed, Upto, Addresses

LEMMA Largest ==
    ASSUME NEW n \in Nat, NEW S \in SUBSET (1..n), S # {}
    PROVE  \E m \in S : \A i \in S : i <= m
<1> DEFINE D == {n - i : i \in S}
<1>1. D \subseteq Nat /\ D # {}
  <2>1. \A i \in S : n - i \in Nat /\ n - i \in D
    OBVIOUS
  <2> QED
    BY <2>1
<1> HIDE DEF D
<1>2. PICK x \in D : \A y \in D : ~(y < x)
  BY <1>1, Smallest
<1> USE DEF D
<1>3. PICK m \in S : x = n - m
  BY <1>2
<1>4. ASSUME NEW i \in S
      PROVE  i <= m
  <2>1. n - i \in D
    OBVIOUS
  <2>2. ~(n - i < n - m)
    BY <1>2, <1>3, <2>1
  <2>3. i \in Nat /\ m \in Nat
    OBVIOUS
  <2> QED
    BY <2>2, <2>3
<1> QED
  BY <1>4

(* What is typed are characters.                                            *)
LEMMA UptoType ==
    ASSUME NEW ram \in Memory, NEW a \in Nat, NEW s \in Strings
    PROVE  Upto(ram, a, s, Len(s)) \in Memory
<1>1. PICK n \in 1..MaxText : s \in [1..n -> Chars]
  BY DEF Strings
<1>2. n \in Nat /\ Len(s) = n
  BY <1>1, LcdAssumption
<1>3. Chars \subseteq -1..255
  BY LcdAssumption
<1>4. \A i \in 1..n : s[i] \in -1..255
  BY <1>1, <1>3
<1> DEFINE at(c) == {i \in 1..n : (a + i - 1) % Cells = c}
<1>5. ASSUME NEW c \in Addresses, at(c) # {}
      PROVE  Max(at(c)) \in 1..n
  <2>1. at(c) \in SUBSET (1..n) /\ at(c) \in SUBSET Nat
    BY <1>2
  <2> HIDE DEF at
  <2>2. \E m \in at(c) : \A i \in at(c) : i <= m
    BY <1>2, <1>5, <2>1, Largest
  <2>3. PICK m \in at(c) : \A i \in at(c) : i <= m
    BY <2>2
  <2>4. Max(at(c)) = m
    BY <2>1, <2>3, MaxIs
  <2> QED
    BY <2>1, <2>3, <2>4
<1>6. Upto(ram, a, s, n) = [c \in Addresses |-> IF at(c) = {} THEN ram[c] ELSE s[Max(at(c))]]
  BY DEF Upto
<1> HIDE DEF at
<1>7. \A c \in Addresses : (IF at(c) = {} THEN ram[c] ELSE s[Max(at(c))]) \in -1..255
  BY <1>4, <1>5 DEF Memory
<1> QED
  BY <1>2, <1>6, <1>7 DEF Memory

(* The state between two calls.                                             *)
LEMMA TextBetween ==
    ASSUME TextInv, todo = <<>>, lcdCall # "none", ~missed, ~torn
    PROVE  /\ TextNow \in Resting(0, 1, 1, screen.ram, screen.addr)
           /\ TextNow = At(disp, port \cap LcdPins)
<1>1. {TextNow} \subseteq TextGoal
  BY LeadsEnd DEF TextInv, TextLeft
<1> QED
  BY <1>1 DEF TextGoal, TextNow

LEMMA TextCalls ==
    ASSUME TextInv, LcdTypes, LcdCalls
    PROVE  /\ screen' \in [ram : Memory, addr : Addresses]
           /\ LcdLeads(gpioUs, Perm', {TextNow}, todo', TextGoal')
           /\ lcdCall' # "none" /\ TextNow' = TextNow /\ gpioUs' = gpioUs
<1> DEFINE ram == screen.ram
           a == screen.addr
<1>1. /\ lcdCall # "none" /\ ~missed /\ ~torn /\ todo = <<>>
      /\ gpioUs' = gpioUs /\ missed' = missed /\ disp' = disp /\ port' = port
  BY DEF LcdCalls, LcdBegin
<1>2. TextNow \in Resting(0, 1, 1, ram, a) /\ TextNow' = TextNow
  BY <1>1, TextBetween DEF TextNow
<1>3. gpioUs \in Nat /\ ram \in Memory /\ a \in Addresses /\ a \in Nat
  BY TextNowType DEF TextInv, Addresses
<1>4. 0 \in Nat /\ 0 <= 8 * gpioUs + 2
  BY <1>3
<1> HIDE DEF ram, a
<1>5. ASSUME NEW ops, NEW perm, LcdLeads(gpioUs, perm, Resting(0, 1, 1, ram, a), ops, TextGoal'),
             todo' = ops, Perm' = perm
      PROVE  LcdLeads(gpioUs, Perm', {TextNow}, todo', TextGoal')
  <2>1. {TextNow} \subseteq Resting(0, 1, 1, ram, a)
    BY <1>2
  <2> QED
    BY <1>5, <2>1, LeadsWeaken DEF LcdLeads
<1>6. CASE LcdBegin("clrscr", Clrscr, [ram |-> Blank, addr |-> 0])
  <2>1. lcdCall' = "clrscr" /\ todo' = Clrscr /\ screen' = [ram |-> Blank, addr |-> 0]
    BY <1>6 DEF LcdBegin
  <2>2. TextGoal' = Resting(0, 1, 1, Blank, 0)
    BY <2>1 DEF TextGoal
  <2>3. LcdLeads(gpioUs, Perm', Resting(0, 1, 1, ram, a), Clrscr, TextGoal')
    <3>1. PICK perm : perm = Perm'
      OBVIOUS
    <3>2. PICK one : one = 1
      OBVIOUS
    <3>3. LcdLeads(gpioUs, perm, Resting(0, one, one, ram, a), Clrscr, Resting(0, one, 1, Blank, 0))
      BY <1>3, <1>4, ClrscrLeads
    <3> QED
      BY <2>2, <3>1, <3>2, <3>3
  <2> QED
    BY <1>1, <1>2, <1>5, <2>1, <2>3, BlankType
<1>7. CASE \E c \in 0..Cells - 1 : LcdBegin("goto", Goto(c), [screen EXCEPT !.addr = c])
  <2>0. PICK c \in Addresses : LcdBegin("goto", Goto(c), [screen EXCEPT !.addr = c])
    BY <1>7 DEF Addresses
  <2>1. lcdCall' = "goto" /\ todo' = Goto(c) /\ screen' = [screen EXCEPT !.addr = c]
    BY <2>0 DEF LcdBegin
  <2>2. screen' \in [ram : Memory, addr : Addresses] /\ screen'.ram = ram /\ screen'.addr = c
    BY <2>1 DEF TextInv, ram
  <2>3. TextGoal' = Resting(0, 1, 1, ram, c)
    BY <2>2 DEF TextGoal
  <2>4. LcdLeads(gpioUs, Perm', Resting(0, 1, 1, ram, a), Goto(c), TextGoal')
    <3>1. PICK perm : perm = Perm'
      OBVIOUS
    <3>2. PICK one : one = 1
      OBVIOUS
    <3>3. LcdLeads(gpioUs, perm, Resting(0, one, 1, ram, a), Goto(c), Resting(0, one, 1, ram, c))
      BY <1>3, <1>4, GotoLeads
    <3> QED
      BY <2>3, <3>1, <3>2, <3>3
  <2> QED
    BY <1>1, <1>2, <1>5, <2>1, <2>2, <2>4
<1>8. CASE \E s \in Strings : LcdBegin("puts", Puts(s), Typed(screen, s))
  <2>0. PICK s \in Strings : LcdBegin("puts", Puts(s), Typed(screen, s))
    BY <1>8
  <2>1. lcdCall' = "puts" /\ todo' = Puts(s) /\ screen' = Typed(screen, s)
    BY <2>0 DEF LcdBegin
  <2>2. screen' = [ram |-> Upto(ram, a, s, Len(s)), addr |-> (a + Len(s)) % Cells]
    BY <2>1, TypedUpto DEF ram, a
  <2>3. screen' \in [ram : Memory, addr : Addresses]
    <3>1. Upto(ram, a, s, Len(s)) \in Memory
      BY <1>3, UptoType
    <3>2. Len(s) \in Nat /\ Cells \in Nat \ {0}
      BY LcdAssumption DEF Strings
    <3>3. (a + Len(s)) % Cells \in Addresses
      BY <1>3, <3>2 DEF Addresses
    <3> QED
      BY <2>2, <3>1, <3>3
  <2>4. TextGoal' = Resting(0, 1, 1, Upto(ram, a, s, Len(s)), (a + Len(s)) % Cells)
    BY <2>2 DEF TextGoal
  <2>5. LcdLeads(gpioUs, Perm', Resting(0, 1, 1, ram, a), Puts(s), TextGoal')
    <3>1. gpioUs >= 5 \/ Perm' = 1
      BY <1>1, <2>1, LcdAssumption DEF LcdTypes, Perm
    <3>2. PICK perm : perm = Perm'
      OBVIOUS
    <3>3. LcdLeads(gpioUs, perm, Resting(0, 1, 1, ram, a), Puts(s),
                   Resting(0, 1, 1, Upto(ram, a, s, Len(s)), (a + Len(s)) % Cells))
      BY <1>3, <3>1, <3>2, PutsLeads
    <3> QED
      BY <2>4, <3>2, <3>3
  <2> QED
    BY <1>1, <1>2, <1>5, <2>1, <2>3, <2>5
<1> QED
  BY <1>6, <1>7, <1>8 DEF LcdCalls

LEMMA TextWake ==
    ASSUME TextInv, LcdTypes, program = "text", ~torn, hd44780_init
    PROVE  /\ screen' \in [ram : Memory, addr : Addresses]
           /\ LcdLeads(gpioUs, Perm', {TextNow}, todo', TextGoal')
           /\ lcdCall' # "none" /\ TextNow' = TextNow /\ gpioUs' = gpioUs
<1>1. /\ lcdCall = "none" /\ todo' = InitOps /\ lcdCall' = "init"
      /\ screen' = [ram |-> Blank, addr |-> 0]
      /\ gpioUs' = gpioUs /\ missed' = missed /\ disp' = disp /\ port' = port
  BY DEF hd44780_init, LcdBegin
<1>2. ~missed /\ "e" \notin port /\ disp.half \in {-1, 3} /\ Sane(disp) /\ (disp.wide => disp.half = -1)
  BY <1>1 DEF TextInv, Asleep, Hale
<1>3. TextNow = At(disp, port \cap LcdPins) /\ TextNow' = TextNow
  BY <1>1, <1>2 DEF TextNow
<1>4. TextNow \in Booting(0, WarmUp, {}, {})
  <2>1. TextNow \in LcdStates /\ disp.busy <= WarmUp
    BY TextNowType DEF Awake
  <2>2. TextNow.kind = "ok" /\ TextNow.d = disp /\ TextNow.p = port \cap LcdPins
    BY <1>3 DEF At
  <2>3. Boot(0, disp)
    <3>1. disp.half = -1 \/ (~disp.wide /\ disp.half = 3 /\ disp.cold = 0)
      BY <1>2 DEF Sane
    <3> QED
      BY <1>2, <3>1 DEF Boot
  <2> QED
    BY <1>2, <2>1, <2>2, <2>3 DEF Booting
<1>5. gpioUs >= 5 \/ Perm' = 1
  BY <1>1, LcdAssumption DEF LcdTypes, Perm
<1>6. PICK perm : perm = Perm'
  OBVIOUS
<1>7. LcdLeads(gpioUs, perm, Booting(0, WarmUp, {}, {}), InitOps, Resting(0, 1, 1, Blank, 0))
  BY <1>5, <1>6, TextNowType, WakeLeads
<1>8. TextGoal' = Resting(0, 1, 1, Blank, 0)
  BY <1>1 DEF TextGoal
<1>9. {TextNow} \subseteq Booting(0, WarmUp, {}, {})
  BY <1>4
<1>10. LcdLeads(gpioUs, perm, {TextNow}, InitOps, Resting(0, 1, 1, Blank, 0))
  BY <1>7, <1>9, LeadsWeaken DEF LcdLeads
<1> QED
  BY <1>1, <1>3, <1>6, <1>8, <1>10, BlankType

(* A call of the driver begins.                                             *)
LEMMA TextBegin ==
    ASSUME TextInv, LcdTypes, program = "text", program' = program, hd44780_init \/ LcdCalls
    PROVE  TextInv'
<1>1. /\ screen' \in [ram : Memory, addr : Addresses] /\ lcdCall' # "none"
      /\ ~torn => LcdLeads(gpioUs, Perm', {TextNow}, todo', TextGoal') /\ TextNow' = TextNow /\ gpioUs' = gpioUs
  <2>1. CASE ~torn
    BY <2>1, TextCalls, TextWake
  <2>2. CASE torn
    <3>1. hd44780_init
      BY <2>2 DEF LcdCalls
    <3> QED
      BY <2>2, <3>1, BlankType DEF hd44780_init, LcdBegin
  <2> QED
    BY <2>1, <2>2 DEF TextInv
<1>2. ~torn => missed = FALSE
  BY DEF hd44780_init, LcdCalls, TextInv, Asleep
<1>3. rushed' = FALSE /\ missed' = missed /\ torn' = torn /\ disp' = disp
  BY DEF hd44780_init, LcdCalls, LcdBegin
<1>4. Hale(disp)'
  BY <1>3 DEF TextInv
<1>5. ~torn => TextLeft'
  BY <1>1 DEF LcdLeads, TextLeft
<1> QED
  BY <1>1, <1>2, <1>3, <1>4, <1>5 DEF TextInv

(* No step takes the display out of what can always be said of it.          *)
LEMMA HaleLater ==
    ASSUME NEW d \in Awake, NEW us \in Nat, Hale(d)
    PROVE  Hale(Later(d, us)) /\ Later(d, us) \in Awake
<1>1. Later(d, us) \in Awake
  BY LaterAwake
<1>2. /\ Later(d, us).wide = d.wide /\ Later(d, us).cold = d.cold /\ Later(d, us).half = d.half
  BY DEF Later, Awake, DispType
<1> QED
  BY <1>1, <1>2 DEF Hale, Sane

LEMMA HaleExecute ==
    ASSUME NEW d \in Awake, Sane(d), NEW data \in BOOLEAN, NEW b \in 0..255
    PROVE  Sane(Execute(d, data, b)) /\ Execute(d, data, b).half = d.half
<1>1. CASE ~data /\ b \in 32..63
  <2>1. Execute(d, data, b) = Instructed(d, b)
    BY <1>1 DEF Instructed
  <2>2. /\ Instructed(d, b).half = d.half /\ (Instructed(d, b).wide <=> b >= 48)
        /\ Instructed(d, b).cold = IF b >= 48 /\ d.cold > 0 THEN d.cold - 1 ELSE 0
    BY <1>1, InstructedFunction
  <2>3. PICK e : e = Instructed(d, b)
    OBVIOUS
  <2>4. e.half = d.half /\ (e.wide \/ e.cold = 0)
    BY <2>2, <2>3
  <2> QED
    BY <2>1, <2>3, <2>4 DEF Sane
<1>2. CASE ~(~data /\ b \in 32..63)
  <2>1. PICK n : n = 1520
    OBVIOUS
  <2> DEFINE e == Execute(d, data, b)
  <2>2. e.wide = d.wide /\ e.cold = d.cold /\ e.half = d.half
    <3>1. CASE data
      BY <3>1 DEF Execute, Awake, DispType
    <3>2. CASE ~data /\ b >= 128
      BY <3>2 DEF Execute, Awake, DispType
    <3>3. CASE ~data /\ b \in 8..15
      BY <3>3 DEF Execute, Awake, DispType
    <3>4. CASE ~data /\ b \in 4..7
      BY <3>4 DEF Execute, Awake, DispType
    <3>5. CASE ~data /\ b \in 2..3
      <4>1. e = [d EXCEPT !.addr = 0, !.busy = n]
        BY <2>1, <3>5 DEF Execute
      <4> QED
        BY <4>1 DEF Awake, DispType
    <3>6. CASE ~data /\ b = 1
      <4>1. e = [d EXCEPT !.ram = Blank, !.addr = 0, !.inc = 1, !.busy = n]
        BY <2>1, <3>6 DEF Execute
      <4> QED
        BY <4>1 DEF Awake, DispType
    <3>7. CASE ~data /\ (b = 0 \/ b \in 16..31 \/ b \in 64..127)
      BY <3>7 DEF Execute
    <3> QED
      BY <1>2, <3>1, <3>2, <3>3, <3>4, <3>5, <3>6, <3>7
  <2> HIDE DEF e
  <2>3. (e.wide \/ e.cold = 0) /\ e.half = d.half
    BY <2>2 DEF Sane
  <2> QED
    BY <2>3 DEF Sane, e
<1> QED
  BY <1>1, <1>2

LEMMA HaleTaken ==
    ASSUME NEW d \in Awake, Hale(d), NEW data \in BOOLEAN, NEW v \in 0..15
    PROVE  Hale(Taken(d, data, v)) /\ Taken(d, data, v) \in Awake
<1>1. Taken(d, data, v) \in Awake
  BY TakenType DEF Awake
<1>2. d.half \in -1..15 /\ v \in Halves /\ -1 \in Halves
  BY DEF Awake, DispType, Halves
<1>3. CASE d.wide
  <2>1. 16 * v \in 0..255
    OBVIOUS
  <2>2. Taken(d, data, v) = Execute(d, data, 16 * v)
    BY <1>3 DEF Taken
  <2>3. Sane(Execute(d, data, 16 * v)) /\ Execute(d, data, 16 * v).half = d.half
    BY <2>1, HaleExecute DEF Hale
  <2>4. PICK e : e = Taken(d, data, v) /\ Sane(e) /\ e.half = d.half
    BY <2>2, <2>3
  <2> QED
    BY <1>1, <1>3, <2>4 DEF Hale
<1>4. CASE ~d.wide /\ d.half = -1
  <2>1. Taken(d, data, v) = Half(d, v)
    BY <1>4 DEF Taken, Half
  <2>2. Half(d, v).wide = d.wide /\ Half(d, v).cold = d.cold
    BY <1>2, HalfType
  <2> QED
    BY <1>1, <1>4, <2>1, <2>2 DEF Hale, Sane
<1>5. CASE ~d.wide /\ d.half # -1
  <2>1. 16 * d.half + v \in 0..255
    BY <1>2, <1>5
  <2>2. Taken(d, data, v) = Execute(Half(d, -1), data, 16 * d.half + v)
    BY <1>5 DEF Taken, Half
  <2>3. /\ Half(d, -1) \in Awake /\ Half(d, -1).half = -1
        /\ Half(d, -1).wide = d.wide /\ Half(d, -1).cold = d.cold
    BY <1>2, HalfType
  <2>4. Sane(Half(d, -1))
    BY <2>3 DEF Hale, Sane
  <2>5. PICK h \in Awake : h = Half(d, -1) /\ h.half = -1 /\ Sane(h)
    BY <2>3, <2>4
  <2>6. Sane(Execute(h, data, 16 * d.half + v)) /\ Execute(h, data, 16 * d.half + v).half = h.half
    BY <2>1, <2>5, HaleExecute
  <2>7. PICK e : e = Taken(d, data, v) /\ Sane(e) /\ e.half = -1
    BY <2>2, <2>5, <2>6
  <2> QED
    BY <1>1, <2>7 DEF Hale
<1> QED
  BY <1>3, <1>4, <1>5

LEMMA LineHale ==
    ASSUME TextInv, LcdTypes, SetLine
    PROVE  Hale(disp') /\ missed' \in BOOLEAN /\ rushed' \in BOOLEAN
<1>1. disp \in Awake /\ Hale(disp) /\ gpioUs \in Nat
  BY TextNowType DEF TextInv
<1>2. PICK d \in Awake : d = Later(disp, gpioUs) /\ Hale(d)
  BY <1>1, HaleLater
<1>3. PICK t : t = Taken(d, "rs" \in port, OnLines(port)) /\ Hale(t)
  <2>1. ("rs" \in port) \in BOOLEAN /\ OnLines(port) \in 0..15
    BY OnLinesType
  <2> QED
    BY <1>2, <2>1, HaleTaken
<1>4. /\ disp' = d \/ disp' = t
      /\ (rushed' = rushed \/ rushed' = TRUE) /\ (missed' = missed \/ missed' = TRUE)
  BY <1>2, <1>3 DEF SetLine
<1> QED
  BY <1>2, <1>3, <1>4 DEF TextInv

LEMMA TakenLines ==
    ASSUME NEW d, NEW p
    PROVE  Taken(d, "rs" \in p, OnLines(p)) = Taken(d, "rs" \in p \cap LcdPins, OnLines(p \cap LcdPins))
<1>1. OnLines(p) = OnLines(p \cap LcdPins)
  BY DEF OnLines, DataLine, LcdPins
<1>2. ("rs" \in p) = ("rs" \in p \cap LcdPins)
  BY DEF LcdPins
<1> QED
  BY <1>1, <1>2

(* What a line that is set makes of the display.                            *)
LEMMA LineMove ==
    ASSUME TextInv, LineInv, LcdTypes, TextLeft, SetLine, rushed \/ missed => Perm = 1
    PROVE  /\ TextNow' \in LcdAfter(gpioUs, Perm, TextNow, Head(todo))
           /\ missed' \in BOOLEAN /\ rushed' \in BOOLEAN
           /\ rushed' \/ missed' => Perm = 1
<1> DEFINE h == Head(todo)
           q == port \cap LcdPins
           d == Later(disp, gpioUs)
           t == Taken(d, "rs" \in q, OnLines(q))
<1>1. /\ todo # <<>> /\ h.op \in LineKinds /\ todo' = Tail(todo)
      /\ port' = IF h.op = "high" THEN port \cup {h.pin} ELSE port \ {h.pin}
  <2>1. /\ todo # <<>> /\ h.op \in LineKinds /\ held = <<port>>
    BY DEF SetLine, Store, LineInv, HeldOK
  <2>2. held[1] = port
    BY <2>1
  <2> QED
    BY <2>1, <2>2 DEF SetLine, Store, Doing, Rest
<1>2. t = Taken(d, "rs" \in port, OnLines(port))
  BY TakenLines
<1>3. \/ ~Falls /\ disp' = d /\ rushed' = rushed /\ missed' = missed
      \/ Falls /\ d.busy = 0 /\ disp' = t /\ rushed' = rushed /\ missed' = missed
      \/ Falls /\ d.busy # 0 /\ rushed' = TRUE /\ ((disp' = t /\ missed' = missed) \/ missed' = TRUE)
  <2> HIDE DEF d, t, q
  <2>1. LET e == d IN
          IF ~Falls THEN disp' = d /\ UNCHANGED <<rushed, missed>>
          ELSE IF d.busy = 0 THEN disp' = t /\ UNCHANGED <<rushed, missed>>
          ELSE /\ rushed' = TRUE
               /\ \/ disp' = t /\ UNCHANGED missed
                  \/ disp' = d /\ missed' = TRUE
    BY <1>2 DEF SetLine, d
  <2> QED
    BY <2>1
<1>4. Crash \notin LcdAfter(gpioUs, Perm, TextNow, h)
  BY <1>1, TextNoCrash
<1>5. CASE missed = TRUE
  <2>1. missed' = TRUE /\ rushed' \in BOOLEAN /\ Perm = 1
    BY <1>3, <1>5 DEF TextInv
  <2>2. TextNow = Lost /\ TextNow' = Lost
    BY <1>5, <2>1 DEF TextNow
  <2>3. TextNow' \in LcdAfter(gpioUs, Perm, TextNow, h)
    BY <2>2 DEF LcdAfter, Lost
  <2> QED
    BY <2>1, <2>3
<1>6. CASE missed = FALSE
  <2>1. TextNow = At(disp, q) /\ TextNow.kind = "ok" /\ TextNow.d = disp /\ TextNow.p = q
    BY <1>6 DEF TextNow, At
  <2> HIDE DEF d, t
  <2>3. LcdAfter(gpioUs, Perm, TextNow, h) = LineAfter(gpioUs, Perm, TextNow, h)
    BY <1>1, <2>1 DEF LcdAfter
  <2>4. CASE ~Falls
    <3>1. disp' = d /\ rushed' = rushed /\ missed' = FALSE
      BY <1>3, <1>6, <2>4
    <3>2. TextNow' = At(d, port' \cap LcdPins)
      BY <3>1 DEF TextNow
    <3>3. At(d, port' \cap LcdPins) \in LineAfter(gpioUs, Perm, TextNow, h)
      <4>1. CASE h.op = "high"
        <5>1. port' \cap LcdPins = (q \cup {h.pin}) \cap LcdPins
          BY <1>1, <4>1
        <5> QED
          BY <2>1, <4>1, <5>1 DEF LineAfter, d
      <4>2. CASE h.op = "low"
        <5>1. port' \cap LcdPins = q \ {h.pin} /\ h.op # "high"
          BY <1>1, <4>2
        <5>2. ~(h.pin = "e" /\ "e" \in q)
          BY <1>1, <2>4, <4>2 DEF Falls
        <5> QED
          BY <2>1, <5>1, <5>2 DEF LineAfter, d
      <4> QED
        BY <1>1, <4>1, <4>2 DEF LineKinds
    <3>4. rushed' \in BOOLEAN /\ (rushed' \/ missed' => Perm = 1)
      BY <3>1 DEF TextInv
    <3> QED
      BY <2>3, <3>1, <3>2, <3>3, <3>4
  <2>5. CASE Falls
    <3>1. h.op # "high" /\ h.pin = "e" /\ "e" \in q
      BY <1>1, <2>5 DEF Falls, LcdPins
    <3>2. port' \cap LcdPins = q \ {"e"}
      BY <1>1, <3>1
    <3>3. LineAfter(gpioUs, Perm, TextNow, h) = Fallen(Perm, d, q)
      BY <2>1, <3>1 DEF LineAfter, d
    <3>4. Crash \notin Fallen(Perm, d, q)
      BY <1>4, <2>3, <3>3
    <3>5. /\ Sane(t) /\ (d.busy = 0 \/ Perm = 1)
          /\ Fallen(Perm, d, q) = {At(t, q \ {"e"})} \cup (IF d.busy # 0 THEN {Lost} ELSE {})
      BY <3>4 DEF Fallen, t
    <3>6. CASE missed' = FALSE
      <4>1. disp' = t
        BY <1>3, <2>5, <3>6
      <4>2. TextNow' = At(t, q \ {"e"})
        BY <3>2, <3>6, <4>1 DEF TextNow
      <4>3. rushed' \in BOOLEAN /\ (rushed' => Perm = 1)
        <5>1. rushed \in BOOLEAN /\ (rushed => Perm = 1)
          BY DEF TextInv
        <5>2. CASE rushed' = rushed
          BY <5>1, <5>2
        <5>3. CASE rushed' = TRUE /\ d.busy # 0
          <6>1. Perm = 1
            BY <3>5, <5>3
          <6> QED
            BY <5>3, <6>1
        <5> QED
          BY <1>3, <2>5, <5>2, <5>3
      <4> QED
        BY <2>3, <3>3, <3>5, <3>6, <4>1, <4>2, <4>3
    <3>7. CASE missed' = TRUE
      <4>1. d.busy # 0 /\ rushed' = TRUE
        BY <1>3, <1>6, <2>5, <3>7
      <4>2. TextNow' = Lost
        BY <3>7 DEF TextNow
      <4> QED
        BY <2>3, <3>3, <3>5, <3>7, <4>1, <4>2
    <3> QED
      BY <1>3, <1>6, <2>5, <3>6, <3>7
  <2> QED
    BY <2>4, <2>5
<1> QED
  BY <1>5, <1>6 DEF TextInv

(* A step of a call that takes an operation off the list.                   *)
LEMMA TextStepped ==
    ASSUME TextInv, LcdTypes, program' = program, todo # <<>>, todo' = Tail(todo), lcdCall # "none",
           gpioUs' = gpioUs, lcdCall' = lcdCall, screen' = screen, torn' = torn,
           TextNow' \in LcdAfter(gpioUs, Perm, TextNow, Head(todo)),
           missed' \in BOOLEAN, rushed' \in BOOLEAN, rushed' \/ missed' => Perm = 1, ~torn, Hale(disp')
    PROVE  TextInv'
<1>1. program = "text" /\ TextLeft
  BY DEF TextInv
<1>2. TextLeft'
  BY <1>1, TextMove
<1>3. Perm' = Perm
  BY TextGoalSame
<1>4. rushed' \/ missed' => Perm' = 1
  BY <1>3
<1> QED
  BY <1>1, <1>2, <1>4 DEF TextInv

(* One that replaces an operation by those it comes to.                     *)
LEMMA TextExpanded ==
    ASSUME TextInv, LcdTypes, program' = program, todo # <<>>, lcdCall # "none", ~torn, UNCHANGED <<lcd, port>>,
           NEW ops \in Seq(PlainOp), todo' = ops \o Tail(todo),
           Leads(LcdMoves(gpioUs, Perm), {TextNow}, ops, LcdAfter(gpioUs, Perm, TextNow, Head(todo)))
    PROVE  TextInv'
<1>1. program = "text" /\ ~torn /\ TextLeft
  BY DEF TextInv
<1>2. UNCHANGED <<lcdCall, gpioUs, disp, screen, rushed, missed, torn>> /\ port' = port
  BY DEF lcd
<1>3. Perm' = Perm /\ TextGoal' = TextGoal /\ TextNow' = TextNow
  BY <1>2, TextGoalSame DEF TextNow
<1>4. PICK F : /\ \A y : <<TextNow, Head(todo), y>> \in LcdMoves(gpioUs, Perm) => y \in F
               /\ Leads(LcdMoves(gpioUs, Perm), F, Tail(todo), TextGoal)
  BY <1>1, TextLeftAt
<1>5. Head(todo) \in PlainOp /\ Tail(todo) \in Seq(PlainOp)
  BY <1>1, TextLeftAt
<1>6. PICK A : A = LcdAfter(gpioUs, Perm, TextNow, Head(todo))
  OBVIOUS
<1>7. ASSUME NEW y \in A PROVE y \in F
  <2>1. y \in LcdStates
    BY <1>5, <1>6, TextNowType, LcdAfterType
  <2> QED
    BY <1>4, <1>5, <1>6, <2>1, TextNowType, LcdMove
<1>8. A \subseteq F
  BY <1>7
<1>9. PICK T : T = LcdMoves(gpioUs, Perm)
  OBVIOUS
<1>10. PICK r \in Seq(PlainOp) : r = Tail(todo)
  BY <1>5
<1>11. PICK goal : goal = TextGoal
  OBVIOUS
<1>12. PICK now : now = {TextNow}
  OBVIOUS
<1>13. Leads(T, A, r, goal)
  BY <1>4, <1>8, <1>9, <1>10, <1>11, LeadsWeaken
<1>14. Leads(T, now, ops, A)
  BY <1>6, <1>9, <1>12
<1>15. Leads(T, now, ops \o r, goal)
  BY <1>13, <1>14, LeadsConcat
<1>16. ops \o r \in Seq(PlainOp)
  BY PlainConcat
<1>17. TextLeft'
  BY <1>2, <1>3, <1>9, <1>10, <1>11, <1>12, <1>15, <1>16 DEF TextLeft
<1> QED
  BY <1>1, <1>2, <1>3, <1>17 DEF TextInv

LEMMA TextExpansion ==
    ASSUME TextInv, LcdTypes, LineInv, lcdCall # "none", ~torn, NEW ops,
           \/ Doing("write") /\ ops = WriteOps(Head(todo).val, Head(todo).pin)
           \/ Doing("nibble") /\ ops = NibbleOps(Head(todo).val)
    PROVE  /\ ops \in Seq(PlainOp)
           /\ Leads(LcdMoves(gpioUs, Perm), {TextNow}, ops, LcdAfter(gpioUs, Perm, TextNow, Head(todo)))
<1> DEFINE h == Head(todo)
           T == LcdMoves(gpioUs, Perm)
           A == LcdAfter(gpioUs, Perm, TextNow, h)
<1>1. /\ todo # <<>> /\ h.op \in {"write", "nibble"} /\ h \in Op
      /\ h.op = "write" => ops = WriteOps(h.val, h.pin) /\ h.val \in 0..255
      /\ h.op = "nibble" => ops = NibbleOps(h.val) /\ h.val \in 0..15
  BY HeadOp DEF Doing, LineInv, ListOK, Op, Fit
<1>2. h.op \notin LineKinds /\ h.op # "delay"
  BY <1>1 DEF LineKinds
<1>3. ops \in Seq(PlainOp)
  <2> HIDE DEF h
  <2>1. CASE h.op = "write"
    <3>1. WriteOps(h.val, h.pin) \in Seq(PlainOp)
      BY <1>1, <2>1, WritePlain
    <3> QED
      BY <1>1, <2>1, <3>1
  <2>2. CASE h.op = "nibble"
    <3>1. NibbleOps(h.val) \in Seq(PlainOp)
      BY <1>1, <2>2, NibblePlain
    <3> QED
      BY <1>1, <2>2, <3>1
  <2> QED
    BY <1>1, <2>1, <2>2
<1>4. Crash \notin A
  BY <1>1, TextNoCrash DEF TextInv
<1>5. TextNow \in LcdStates /\ gpioUs \in Nat
  BY TextNowType
<1> HIDE DEF T, h
<1>6. CASE TextNow.kind # "ok"
  <2>1. A = {TextNow}
    BY <1>6 DEF LcdAfter
  <2> QED
    BY <1>3, <1>6, <2>1, StuckLeads DEF T, h
<1>7. CASE TextNow.kind = "ok" /\ h.op = "write"
  <2>1. A = WriteAfter(gpioUs, Perm, TextNow, h.val, h.pin)
    BY <1>2, <1>7 DEF LcdAfter
  <2>2. "e" \notin TextNow.p
    BY <1>4, <2>1 DEF WriteAfter
  <2>3. PICK v \in 0..255 : v = h.val
    BY <1>1, <1>7
  <2>4. PICK line : line = h.pin
    OBVIOUS
  <2>5. PICK s \in LcdStates : s = TextNow
    BY <1>5
  <2>6. PICK perm : perm = Perm
    OBVIOUS
  <2>7. s.kind = "ok" /\ "e" \notin s.p /\ Crash \notin WriteAfter(gpioUs, perm, s, v, line)
    BY <1>4, <1>7, <2>1, <2>2, <2>3, <2>4, <2>5, <2>6
  <2>8. Leads(LcdMoves(gpioUs, perm), {s}, WriteOps(v, line), WriteAfter(gpioUs, perm, s, v, line))
    BY <1>5, <2>7, WriteLeads
  <2> QED
    BY <1>1, <1>3, <1>7, <2>1, <2>3, <2>4, <2>5, <2>6, <2>8 DEF h
<1>8. CASE TextNow.kind = "ok" /\ h.op = "nibble"
  <2>1. A = NibbleAfter(gpioUs, Perm, TextNow, h.val)
    BY <1>2, <1>8 DEF LcdAfter
  <2>2. "e" \notin TextNow.p
    BY <1>4, <1>8, <2>1 DEF NibbleAfter
  <2>3. PICK v \in 0..15 : v = h.val
    BY <1>1, <1>8
  <2>4. PICK s \in LcdStates : s = TextNow
    BY <1>5
  <2>5. PICK perm : perm = Perm
    OBVIOUS
  <2>6. "e" \notin s.p
    BY <2>2, <2>4
  <2>7. Leads(LcdMoves(gpioUs, perm), {s}, NibbleOps(v), NibbleAfter(gpioUs, perm, s, v))
    BY <1>5, <2>6, NibbleLeads
  <2> QED
    BY <1>1, <1>3, <1>8, <2>1, <2>3, <2>4, <2>5, <2>7 DEF h
<1> QED
  BY <1>1, <1>6, <1>7, <1>8

LEMMA PauseHale ==
    ASSUME TextInv, LcdTypes, LineInv, Pause
    PROVE  Hale(Later(disp, Head(todo).val))
<1>1. Head(todo).op = "delay" /\ todo # <<>> /\ Head(todo) \in Op
  BY HeadOp DEF Pause, Doing, LineInv, ListOK
<1>2. Head(todo).val \in Nat
  BY <1>1 DEF Op
<1> QED
  BY <1>2, HaleLater, TextNowType DEF TextInv

LEMMA TextSteps ==
    ASSUME TextInv, LcdTypes, LineInv, program = "text", program' = program, ~torn, LcdStep
    PROVE  TextInv'
<1>1. /\ todo # <<>>
      /\ lcdCall # "none"
  <2>1. todo # <<>>
    BY DEF LcdStep, SetLine, Store, LineInv, HeldOK, Pause, Load, Configure, Doing
  <2> QED
    BY <2>1 DEF TextInv
<1>2. /\ TextLeft /\ missed \in BOOLEAN /\ rushed \in BOOLEAN
      /\ (rushed \/ missed => Perm = 1) /\ Hale(disp)
  BY <1>1 DEF TextInv
<1>3. CASE SetLine
  <2>1. todo' = Tail(todo) /\ UNCHANGED <<lcdCall, gpioUs, screen, torn>>
    BY <1>3 DEF SetLine, Store, Rest
  <2>2. /\ TextNow' \in LcdAfter(gpioUs, Perm, TextNow, Head(todo))
        /\ missed' \in BOOLEAN /\ rushed' \in BOOLEAN
        /\ (rushed' \/ missed' => Perm = 1)
        /\ Hale(disp')
    BY <1>2, <1>3, LineMove, LineHale
  <2> QED
    BY <1>1, <2>1, <2>2, TextStepped
<1>4. CASE Pause /\ disp' = Later(disp, Head(todo).val)
           /\ UNCHANGED <<lcdCall, gpioUs, screen, rushed, missed, torn>>
  <2>1. todo' = Tail(todo) /\ port' = port /\ Head(todo).op = "delay"
    BY <1>4 DEF Pause, Doing, Rest
  <2>2. TextNow' \in LcdAfter(gpioUs, Perm, TextNow, Head(todo))
    <3>1. CASE missed
      BY <1>4, <3>1 DEF TextNow, LcdAfter, Lost
    <3>2. CASE ~missed
      <4>1. /\ TextNow = At(disp, port \cap LcdPins)
            /\ TextNow' = At(Later(disp, Head(todo).val), port \cap LcdPins)
        BY <1>4, <2>1, <3>2 DEF TextNow
      <4>2. TextNow.kind = "ok" /\ TextNow.d = disp /\ TextNow.p = port \cap LcdPins
        BY <4>1 DEF At
      <4> QED
        BY <2>1, <4>1, <4>2 DEF LcdAfter, LineKinds
    <3> QED
      BY <3>1, <3>2
  <2>3. Hale(disp')
    BY <1>2, <1>4, PauseHale
  <2> QED
    BY <1>1, <1>2, <1>4, <2>1, <2>2, <2>3, TextStepped
<1>5. CASE Load /\ UNCHANGED lcd
  <2>1. todo' = todo /\ port' = port /\ UNCHANGED <<lcdCall, gpioUs, disp, screen, rushed, missed, torn>>
    BY <1>5 DEF Load, lcd
  <2>2. Perm' = Perm /\ TextGoal' = TextGoal /\ TextNow' = TextNow
    BY <2>1, TextGoalSame DEF TextNow
  <2>3. TextLeft'
    BY <1>2, <2>1, <2>2 DEF TextLeft
  <2> QED
    BY <1>1, <1>2, <2>1, <2>2, <2>3 DEF TextInv
<1>6. CASE Configure /\ UNCHANGED lcd
  <2>1. /\ todo' = Tail(todo) /\ port' = port /\ Head(todo).op = "output"
        /\ UNCHANGED <<lcdCall, gpioUs, disp, screen, rushed, missed, torn>>
    BY <1>6 DEF Configure, Doing, Rest, lcd
  <2>2. TextNow' = TextNow
    BY <2>1 DEF TextNow
  <2>3. TextNow' \in LcdAfter(gpioUs, Perm, TextNow, Head(todo))
    BY <2>1, <2>2 DEF LcdAfter, LineKinds
  <2> QED
    BY <1>1, <1>2, <2>1, <2>3, TextStepped
<1>7. ASSUME NEW ops, Becomes(ops), UNCHANGED lcd,
             \/ Doing("write") /\ ops = WriteOps(Head(todo).val, Head(todo).pin)
             \/ Doing("nibble") /\ ops = NibbleOps(Head(todo).val)
      PROVE  TextInv'
  <2>1. todo' = ops \o Tail(todo) /\ port' = port
    BY <1>7 DEF Becomes
  <2>2. /\ ops \in Seq(PlainOp)
        /\ Leads(LcdMoves(gpioUs, Perm), {TextNow}, ops, LcdAfter(gpioUs, Perm, TextNow, Head(todo)))
    BY <1>1, <1>7, TextExpansion
  <2> QED
    BY <1>1, <1>7, <2>1, <2>2, TextExpanded
<1> QED
  BY <1>3, <1>4, <1>5, <1>6, <1>7 DEF LcdStep

(* A step of a call to a display that is half a byte behind.                *)
LEMMA TextTorn ==
    ASSUME TextInv, LcdTypes, LineInv, program = "text", program' = program, torn, LcdStep
    PROVE  TextInv'
<1>1. todo # <<>>
  BY DEF LcdStep, SetLine, Store, LineInv, HeldOK, Pause, Load, Configure, Doing
<1>2. lcdCall # "none"
  BY <1>1 DEF TextInv
<1>3. ASSUME UNCHANGED <<lcdCall, screen, torn>>, missed' \in BOOLEAN, rushed' \in BOOLEAN, Hale(disp')
      PROVE  TextInv'
  BY <1>2, <1>3 DEF TextInv
<1>4. CASE SetLine
  BY <1>3, <1>4, LineHale DEF SetLine
<1>5. CASE Pause /\ disp' = Later(disp, Head(todo).val)
           /\ UNCHANGED <<lcdCall, gpioUs, screen, rushed, missed, torn>>
  BY <1>3, <1>5, PauseHale DEF TextInv
<1>6. CASE UNCHANGED lcd
  BY <1>3, <1>6 DEF TextInv, lcd
<1> QED
  BY <1>4, <1>5, <1>6 DEF LcdStep

(* A step that is not one of the driver's.                                  *)
LEMMA TextKept ==
    ASSUME TextInv, UNCHANGED <<lcd, program>>,
           program = "text" => todo' = todo /\ port' \cap LcdPins = port \cap LcdPins
    PROVE  TextInv'
<1>1. UNCHANGED <<lcdCall, gpioUs, disp, screen, rushed, missed, torn, program>>
  BY DEF lcd
<1>2. Perm' = Perm /\ TextGoal' = TextGoal
  BY <1>1, TextGoalSame
<1>3. Asleep => Asleep'
  BY <1>1 DEF Asleep
<1>4. ASSUME program = "text"
      PROVE  (TextLeft => TextLeft') /\ ("e" \notin port => "e" \notin port')
  <2>1. TextNow' = TextNow
    BY <1>1, <1>4 DEF TextNow
  <2>2. "e" \notin port => "e" \notin port'
    BY <1>4 DEF LcdPins
  <2> QED
    BY <1>1, <1>2, <1>4, <2>1, <2>2 DEF TextLeft
<1> QED
  BY <1>1, <1>2, <1>3, <1>4 DEF TextInv

LEMMA TextReset ==
    ASSUME TextInv, LcdTypes, NEW power \in BOOLEAN, Reset(power)
    PROVE  TextInv'
<1>1. /\ lcdCall' = "none" /\ rushed' = FALSE /\ missed' = FALSE /\ todo' = <<>> /\ port' = {}
      /\ torn' = (disp'.half \notin {-1, 3})
      /\ disp' \in {PowerOn, disp, Taken(disp, "rs" \in port, OnLines(port))}
      /\ screen' = [ram |-> Blank, addr |-> 0]
  BY DEF Reset
<1>2. torn' \in BOOLEAN /\ Asleep'
  BY <1>1 DEF Asleep
<1>3. Hale(disp')
  <2>1. disp \in Awake /\ Hale(disp)
    BY TextNowType DEF TextInv
  <2>2. ("rs" \in port) \in BOOLEAN /\ OnLines(port) \in 0..15
    BY OnLinesType
  <2>3. Hale(Taken(disp, "rs" \in port, OnLines(port)))
    BY <2>1, <2>2, HaleTaken
  <2>4. Hale(PowerOn)
    BY DEF Hale, Sane, PowerOn
  <2> QED
    BY <1>1, <2>1, <2>3, <2>4
<1> QED
  BY <1>1, <1>2, <1>3, BlankType DEF TextInv

LEMMA TextInit == Init => TextInv
<1> SUFFICES ASSUME Init PROVE TextInv
  OBVIOUS
<1>1. /\ lcdCall = "none" /\ rushed = FALSE /\ missed = FALSE /\ torn = FALSE /\ todo = <<>> /\ port = {}
      /\ disp = PowerOn /\ screen = [ram |-> Blank, addr |-> 0]
  BY DEF Init, LcdInit, GpioInit
<1> QED
  BY <1>1, BlankType DEF TextInv, Asleep, PowerOn, Hale, Sane

LEMMA TextStep_ ==
    ASSUME TextInv, BoardInv, [Next]_vars
    PROVE  TextInv'
<1>0. LcdTypes /\ LineInv
  BY DEF BoardInv
<1>1. CASE Text_
  <2>1. program = "text" /\ program' = program
    BY <1>1 DEF Text_, board
  <2>2. CASE d7seg_init([d \in 1..Displays - 1 |-> CharByte(d)]) /\ UNCHANGED lcd
    <3>1. todo' = todo /\ port' = Lighted(Zeroed[Displays - 1])
      BY <2>2 DEF d7seg_init
    <3>2. LcdPins \cap Segments = {}
      BY LinesApart DEF LcdPins, Pins
    <3>3. port' \cap LcdPins = port \cap LcdPins
      BY <3>1, <3>2, LinesApart DEF Lighted
    <3> QED
      BY <2>1, <2>2, <3>1, <3>3, TextKept
  <2>3. CASE hd44780_init \/ LcdCalls
    BY <1>0, <2>1, <2>3, TextBegin
  <2>4. CASE LcdStep
    BY <1>0, <2>1, <2>4, TextSteps, TextTorn
  <2> QED
    BY <1>1, <2>2, <2>3, <2>4 DEF Text_
<1>2. ASSUME NEW power \in BOOLEAN, Reset(power)
      PROVE  TextInv'
  BY <1>0, <1>2, TextReset
<1>3. CASE Handler
  <2>1. UNCHANGED <<lcd, program, todo>>
    BY <1>3 DEF Handler, Multiplex, Deselect, Update, Select, board
  <2>2. selected \in 0..Displays - 1 /\ LcdPins \cap Segments = {} /\ LcdPins \cap Sels = {}
    BY <1>0, LinesApart DEF LineInv, DigitsOK, LcdPins, Pins
  <2>3. port' \cap LcdPins = port \cap LcdPins
    <3>1. CASE Deselect
      <4>1. port' = port \ {Sel(selected)} /\ Sel(selected) \notin LcdPins
        BY <2>2, <3>1, SelNames DEF Deselect, Deselected
      <4> QED
        BY <4>1
    <3>2. CASE Update
      <4>1. port' = Updated(selected')
        BY <3>2 DEF Update
      <4> QED
        BY <2>2, <4>1, LinesApart DEF Updated, Lighted
    <3>3. CASE Select
      <4>1. port' = port \cup {Sel(selected)} /\ Sel(selected) \notin LcdPins
        BY <2>2, <3>3, SelNames DEF Select
      <4> QED
        BY <4>1
    <3> QED
      BY <1>3, <3>1, <3>2, <3>3 DEF Handler, Multiplex
  <2> QED
    BY <2>1, <2>3, TextKept
<1>4. CASE Graphic_ \/ Thermometer_
  <2>1. UNCHANGED <<lcd, program>> /\ program # "text"
    BY <1>4 DEF Graphic_, Thermometer_, board
  <2> QED
    BY <2>1, TextKept
<1>5. CASE Converter \/ Voltage \/ UNCHANGED vars
  <2>1. UNCHANGED <<gpio, lcd, board>>
    BY <1>5 DEF Converter, Converted, Voltage, Drift, vars
  <2>2. UNCHANGED <<lcd, program, todo, port>>
    BY <2>1 DEF gpio, board
  <2> QED
    BY <2>2, TextKept
<1> QED
  BY <1>1, <1>2, <1>3, <1>4, <1>5 DEF Next, Main

(* A display that is in step is never written to while it is busy, but on a *)
(* fast clock and by the two calls that do not wait (hd44780_init,          *)
(* hd44780_puts).                                                           *)
THEOREM WaitsSafe == Spec => [](~torn => NotWhileBusy)
<1>1. TextInv => (~torn => NotWhileBusy)
  BY PermOne DEF TextInv, Asleep, NotWhileBusy
<1>2. Init => BoardInv /\ TextInv
  BY BoardInit, TextInit
<1>3. (BoardInv /\ TextInv) /\ [Next]_vars => (BoardInv /\ TextInv)'
  BY BoardStep, TextStep_
<1> QED
  BY <1>1, <1>2, <1>3, PTL DEF Spec

(* Between calls the text display shows what the calls wrote, wherever the  *)
(* handler interrupted the driver and whatever a reset left in the display, *)
(* but for a write that it missed and for the first half of a byte other    *)
(* than 3 (hd44780_init, hd44780_clrscr, hd44780_goto, hd44780_puts).       *)
THEOREM TextSafe == Spec => []TextShown
<1>1. TextInv => TextShown
  <2> SUFFICES ASSUME TextInv, lcdCall # "none", todo = <<>>, ~missed, ~torn
               PROVE  /\ disp.ram = screen.ram /\ disp.addr = screen.addr /\ disp.on = 1
                      /\ disp.inc = 1 /\ ~disp.wide /\ disp.half = -1 /\ disp.busy = 0
    BY DEF TextShown
  <2>1. TextNow \in Resting(0, 1, 1, screen.ram, screen.addr) /\ TextNow = At(disp, port \cap LcdPins)
    BY TextBetween
  <2>2. TextNow.d = disp /\ TextNow.kind = "ok" /\ TextNow # Lost
    BY <2>1 DEF At, Lost
  <2>3. PICK one : one = 1
    OBVIOUS
  <2>4. Calm(disp, 0, one, one, screen.ram, screen.addr) /\ disp \in Awake
    BY <2>1, <2>2, <2>3 DEF Resting, LcdStates
  <2>5. disp.busy \in Nat
    BY <2>4 DEF Awake, DispType
  <2> QED
    BY <2>3, <2>4, <2>5 DEF Calm
<1>2. Init => BoardInv /\ TextInv
  BY BoardInit, TextInit
<1>3. (BoardInv /\ TextInv) /\ [Next]_vars => (BoardInv /\ TextInv)'
  BY BoardStep, TextStep_
<1> QED
  BY <1>1, <1>2, <1>3, PTL DEF Spec
=============================================================================
