----------------------------- MODULE TimerProofs ----------------------------
(***************************************************************************)
(* The timers.  First TDelay, for every set of timers, width of a duration *)
(* and depth of nesting: types and ranges, a masked timer is stopped       *)
(* between calls, and a delay that ends early was torn.  Then what a       *)
(* program makes of the clock, for every clock (Clocks): tones and delays, *)
(* pulse width modulation, and the speed of the serial port.               *)
(***************************************************************************)
EXTENDS TDelay, Clocks, WellFoundedInduction, FiniteSetTheorems, TLAPS

-----------------------------------------------------------------------------
(* Words, lowest byte first. *)

(* A set of naturals has a smallest element.                                *)
LEMMA Smallest ==
    ASSUME NEW T, T \subseteq Nat, T # {} PROVE \E x \in T : \A y \in T : ~(y < x)
<1> DEFINE R == OpToRel(<, Nat)
<1>1. IsWellFoundedOn(R, Nat)
  BY NatLessThanWellFounded
<1> HIDE DEF R
<1>2. \E x \in T : \A y \in T : ~ (<<y, x>> \in R)
  BY <1>1, WFMin
<1> QED
  BY <1>2 DEF R, OpToRel

LEMMA ZeroType == Zero \in Word
BY WidthAssumption DEF Zero, Word

LEMMA PredType == ASSUME NEW w \in Word PROVE Pred(w) \in Word
<1>1. \A b \in 0 .. Base - 1 : (b + Base - 1) % Base \in 0 .. Base - 1
  BY WidthAssumption
<1> QED
  BY <1>1 DEF Word, Pred

(* Words with the same bytes are the same.                                  *)
LEMMA SameWord ==
    ASSUME NEW v \in Word, NEW w \in Word, \A i \in 1..Width : v[i] = w[i] PROVE v = w
<1>1. v = [i \in 1..Width |-> v[i]] /\ w = [i \in 1..Width |-> w[i]]
  BY DEF Word
<1> QED
  BY <1>1

LEMMA NotZero ==
    ASSUME NEW w \in Word, w # Zero PROVE \E i \in 1..Width : w[i] \in 1 .. Base - 1
<1>1. \E i \in 1..Width : w[i] # 0
  BY ZeroType, SameWord DEF Zero
<1> QED
  BY <1>1 DEF Word

(* A word with no byte above the other's is at most the other.              *)
LEMMA Bytewise ==
    ASSUME NEW v \in Word, NEW w \in Word, (\A j \in 1..Width : v[j] <= w[j])
    PROVE  AtMost(v, w)
<1>1. SUFFICES ASSUME v # w PROVE AtMost(v, w)
  BY DEF AtMost
<1> DEFINE T == {n \in 0 .. Width - 1 : v[Width - n] # w[Width - n]}
<1>2. PICK i \in 1..Width : v[i] # w[i]
  BY <1>1, SameWord
<1>3. Width - i \in T
  <2>1. Width - i \in 0 .. Width - 1 /\ Width - (Width - i) = i
    BY <1>2, WidthAssumption
  <2> QED
    BY <1>2, <2>1
<1>4. PICK n \in T : \A m \in T : ~(m < n)
  <2>1. T \subseteq Nat /\ T # {}
    BY <1>3
  <2> HIDE DEF T
  <2> QED
    BY <2>1, Smallest
<1>5. ASSUME NEW j \in Width - n + 1 .. Width PROVE v[j] = w[j]
  <2>1. Width - j \in 0 .. Width - 1 /\ Width - j < n /\ Width - (Width - j) = j
    BY <1>4, <1>5, WidthAssumption
  <2> QED
    BY <1>4, <2>1
<1>6. Width - n \in 1..Width /\ v[Width - n] # w[Width - n]
  BY <1>4, WidthAssumption
<1>7. v[Width - n] < w[Width - n]
  BY <1>6, WidthAssumption DEF Word
<1> QED
  BY <1>5, <1>6, <1>7 DEF AtMost

(* No word is below zero, and none but zero is at most zero.                *)
LEMMA ZeroLeast == ASSUME NEW w \in Word PROVE AtMost(Zero, w) /\ (AtMost(w, Zero) => w = Zero)
<1>1. \A j \in 1..Width : Zero[j] = 0 /\ w[j] \in 0 .. Base - 1
  BY DEF Zero, Word
<1>2. \A j \in 1..Width : Zero[j] <= w[j] /\ ~(w[j] < Zero[j])
  BY <1>1, WidthAssumption
<1>3. AtMost(Zero, w)
  BY <1>2, ZeroType, Bytewise
<1>4. AtMost(w, Zero) => w = Zero
  BY <1>2, Zenon DEF AtMost
<1> QED
  BY <1>3, <1>4

(* Counting down: the lowest byte that is not 0 lends to all below it.      *)
LEMMA PredBytes ==
    ASSUME NEW w \in Word, w # Zero
    PROVE  \E i \in 1..Width : /\ w[i] \in 1 .. Base - 1 /\ Pred(w)[i] = w[i] - 1
                               /\ \A j \in 1 .. i - 1 : w[j] = 0 /\ Pred(w)[j] = Base - 1
                               /\ \A j \in i + 1 .. Width : Pred(w)[j] = w[j]
<1> DEFINE T == {n \in 1..Width : w[n] # 0}
<1>1. T # {} /\ T \subseteq Nat
  BY NotZero
<1>2. PICK i \in T : \A m \in T : ~(m < i)
  BY <1>1, Smallest
<1>3. i \in 1..Width /\ w[i] \in 1 .. Base - 1
  BY <1>2 DEF Word
<1>4. \A j \in 1 .. i - 1 : w[j] = 0 /\ j \in 1..Width
  <2>1. SUFFICES ASSUME NEW j \in 1 .. i - 1 PROVE j \notin T /\ j \in 1..Width
    OBVIOUS
  <2>2. j \in 1..Width /\ j < i
    BY <1>3, WidthAssumption
  <2> QED
    BY <1>2, <2>2
<1>mod. /\ \A b \in 1 .. Base - 1 : (b + Base - 1) % Base = b - 1
        /\ (0 + Base - 1) % Base = Base - 1
  <2>1. \A b \in 1 .. Base - 1 : b + Base - 1 = Base + (b - 1) /\ b - 1 \in 0 .. Base - 1
    BY WidthAssumption
  <2>2. \A b \in 0 .. Base - 1 : (Base + b) % Base = b /\ b % Base = b
    BY WidthAssumption
  <2>3. 0 + Base - 1 = Base - 1 /\ Base - 1 \in 0 .. Base - 1
    BY WidthAssumption
  <2> QED
    BY <2>1, <2>2, <2>3
<1>5. Pred(w)[i] = w[i] - 1
  <2>1. Pred(w)[i] = (w[i] + Base - 1) % Base
    BY <1>3, <1>4 DEF Pred
  <2> QED
    BY <1>3, <1>mod, <2>1
<1>6. ASSUME NEW j \in i + 1 .. Width PROVE Pred(w)[j] = w[j]
  <2>1. j \in 1..Width /\ i \in 1 .. j - 1 /\ w[i] # 0
    BY <1>3, WidthAssumption
  <2> QED
    BY <2>1 DEF Pred
<1>7. ASSUME NEW j \in 1 .. i - 1 PROVE Pred(w)[j] = Base - 1
  <2>1. j \in 1..Width /\ \A m \in 1 .. j - 1 : m \in 1 .. i - 1
    BY <1>3, <1>4
  <2>2. Pred(w)[j] = (w[j] + Base - 1) % Base
    BY <1>4, <2>1 DEF Pred
  <2> QED
    BY <1>4, <1>mod, <2>2
<1> QED
  BY <1>3, <1>4, <1>5, <1>6, <1>7

(* Counting down makes a word smaller, ...                                  *)
LEMMA PredLess == ASSUME NEW w \in Word, w # Zero PROVE AtMost(Pred(w), w)
<1>1. PICK i \in 1..Width : /\ w[i] \in 1 .. Base - 1 /\ Pred(w)[i] = w[i] - 1
                            /\ \A j \in i + 1 .. Width : Pred(w)[j] = w[j]
  BY PredBytes
<1>2. Pred(w)[i] < w[i]
  BY <1>1, WidthAssumption
<1> QED
  BY <1>1, <1>2 DEF AtMost

(* ... ends at zero from one only, ...                                      *)
LEMMA PredOne == ASSUME NEW w \in Word, w # Zero, AtMost(Pred(w), Zero) PROVE w = One
<1>1. PICK i \in 1..Width : /\ w[i] \in 1 .. Base - 1 /\ Pred(w)[i] = w[i] - 1
                            /\ \A j \in 1 .. i - 1 : w[j] = 0 /\ Pred(w)[j] = Base - 1
                            /\ \A j \in i + 1 .. Width : Pred(w)[j] = w[j]
  BY PredBytes
<1>2. Pred(w) = Zero
  BY PredType, ZeroLeast
<1>3. \A j \in 1..Width : Pred(w)[j] = 0
  BY <1>2 DEF Zero
<1>4. i = 1
  <2>1. SUFFICES ASSUME i # 1 PROVE FALSE
    OBVIOUS
  <2>2. 1 \in 1 .. i - 1 /\ 1 \in 1..Width
    BY <1>1, <2>1, WidthAssumption
  <2> QED
    BY <1>1, <1>3, <2>2, WidthAssumption
<1>5. w[1] = 1
  BY <1>1, <1>3, <1>4, WidthAssumption
<1>6. \A j \in 1..Width : j = 1 \/ j \in 2..Width
  OBVIOUS
<1>7. \A j \in 1..Width : w[j] = One[j]
  <2>1. \A j \in 2..Width : w[j] = 0 /\ j \in 1..Width /\ j # 1
    <3>1. i + 1 = 2
      BY <1>4
    <3>2. \A j \in 2..Width : j \in 1..Width /\ j # 1
      OBVIOUS
    <3> QED
      BY <1>1, <1>3, <3>1, <3>2
  <2>2. \A j \in 1..Width : One[j] = IF j = 1 THEN 1 ELSE 0
    BY DEF One
  <2> QED
    BY <1>5, <1>6, <2>1, <2>2
<1>8. One \in Word
  BY WidthAssumption DEF One, Word
<1> QED
  BY <1>7, <1>8, SameWord

(* ... and keeps the order of words.                                        *)
LEMMA PredMonotone ==
    ASSUME NEW u \in Word, NEW v \in Word, AtMost(u, v), u # Zero
    PROVE  v # Zero /\ AtMost(Pred(u), Pred(v))
<1>1. v # Zero
  BY ZeroLeast
<1>2. SUFFICES ASSUME u # v PROVE AtMost(Pred(u), Pred(v))
  BY <1>1 DEF AtMost
<1>3. PICK i \in 1..Width : u[i] < v[i] /\ \A j \in i + 1 .. Width : u[j] = v[j]
  BY <1>2 DEF AtMost
<1>4. PICK p \in 1..Width : /\ u[p] \in 1 .. Base - 1 /\ Pred(u)[p] = u[p] - 1
                            /\ \A j \in 1 .. p - 1 : u[j] = 0 /\ Pred(u)[j] = Base - 1
                            /\ \A j \in p + 1 .. Width : Pred(u)[j] = u[j]
  BY PredBytes
<1>5. PICK q \in 1..Width : /\ v[q] \in 1 .. Base - 1 /\ Pred(v)[q] = v[q] - 1
                            /\ \A j \in 1 .. q - 1 : v[j] = 0 /\ Pred(v)[j] = Base - 1
                            /\ \A j \in q + 1 .. Width : Pred(v)[j] = v[j]
  BY <1>1, PredBytes
<1>6. u \in [1..Width -> 0 .. Base - 1] /\ v \in [1..Width -> 0 .. Base - 1]
      /\ Pred(u) \in [1..Width -> 0 .. Base - 1] /\ Pred(v) \in [1..Width -> 0 .. Base - 1]
  BY PredType DEF Word
<1>7. q <= i
  <2>1. v[i] # 0
    BY <1>3, <1>6, WidthAssumption
  <2>2. SUFFICES ASSUME i < q PROVE FALSE
    BY WidthAssumption
  <2>3. i \in 1 .. q - 1
    BY <2>2, WidthAssumption
  <2> QED
    BY <1>5, <2>1, <2>3
<1>8. \A j \in i + 1 .. Width : Pred(v)[j] = v[j]
  <2>1. \A j \in i + 1 .. Width : j \in q + 1 .. Width
    BY <1>7, WidthAssumption
  <2> QED
    BY <1>5, <2>1, Zenon
<1>9. CASE i < p
  <2>1. p \in i + 1 .. Width /\ \A j \in p + 1 .. Width : j \in i + 1 .. Width
    BY <1>9, WidthAssumption
  <2>2. Pred(u)[p] < Pred(v)[p]
    <3>1. Pred(v)[p] = u[p]
      BY <1>3, <1>8, <2>1
    <3> QED
      BY <1>4, <3>1, WidthAssumption
  <2>3. \A j \in p + 1 .. Width : Pred(u)[j] = Pred(v)[j]
    BY <1>3, <1>4, <1>8, <2>1, Zenon
  <2> QED
    BY <2>2, <2>3 DEF AtMost
<1>10. CASE p <= i
  <2>1. \A j \in i + 1 .. Width : j \in p + 1 .. Width
    BY <1>10, WidthAssumption
  <2>2. \A j \in i + 1 .. Width : Pred(u)[j] = Pred(v)[j]
    BY <1>3, <1>4, <1>8, <2>1, Zenon
  <2>3. Pred(u)[i] <= u[i]
    <3>1. CASE p = i
      BY <1>4, <3>1, WidthAssumption
    <3>2. CASE p # i
      <4>1. i \in p + 1 .. Width
        BY <1>10, <3>2, WidthAssumption
      <4>2. Pred(u)[i] = u[i]
        BY <1>4, <4>1, Zenon
      <4>3. u[i] \in 0 .. Base - 1
        BY <1>6
      <4> QED
        BY <4>2, <4>3, WidthAssumption
    <3> QED
      BY <3>1, <3>2
  <2>4. CASE Pred(u)[i] < Pred(v)[i]
    BY <2>2, <2>4 DEF AtMost
  <2>5. CASE ~(Pred(u)[i] < Pred(v)[i])
    <3>1. q = i
      <4>1. SUFFICES ASSUME q # i PROVE FALSE
        OBVIOUS
      <4>2. i \in q + 1 .. Width
        BY <1>7, <4>1, WidthAssumption
      <4>3. Pred(v)[i] = v[i]
        BY <1>5, <4>2, Zenon
      <4>4. u[i] < v[i] /\ u[i] \in 0 .. Base - 1 /\ v[i] \in 0 .. Base - 1 /\ Pred(u)[i] \in 0 .. Base - 1
        BY <1>3, <1>6
      <4> QED
        BY <2>3, <2>5, <4>3, <4>4, WidthAssumption
    <3>2. Pred(u)[i] <= Pred(v)[i]
      <4>1. Pred(v)[i] = v[i] - 1
        BY <1>5, <3>1
      <4>2. u[i] < v[i] /\ u[i] \in 0 .. Base - 1 /\ v[i] \in 0 .. Base - 1 /\ Pred(u)[i] \in 0 .. Base - 1
        BY <1>3, <1>6
      <4> QED
        BY <2>3, <4>1, <4>2, WidthAssumption
    <3>3. \A j \in 1..Width : j \in 1 .. i - 1 \/ j = i \/ j \in i + 1 .. Width
      BY WidthAssumption
    <3>4. \A j \in 1 .. i - 1 : Pred(v)[j] = Base - 1
      BY <1>5, <3>1
    <3>5. \A j \in 1..Width : Pred(u)[j] <= Base - 1 /\ Pred(u)[j] \in Int
      BY <1>6, WidthAssumption
    <3>6. \A j \in 1..Width : Pred(u)[j] <= Pred(v)[j]
      BY <2>2, <3>2, <3>3, <3>4, <3>5
    <3>7. Pred(u) \in Word /\ Pred(v) \in Word
      BY PredType
    <3> QED
      BY <3>6, <3>7, Bytewise
  <2> QED
    BY <2>4, <2>5
<1> QED
  BY <1>9, <1>10, WidthAssumption

LEMMA AtMostTransitive ==
    ASSUME NEW u \in Word, NEW v \in Word, NEW w \in Word, AtMost(u, v), AtMost(v, w)
    PROVE  AtMost(u, w)
<1>1. SUFFICES ASSUME u # v, v # w PROVE AtMost(u, w)
  OBVIOUS
<1>2. PICK i \in 1..Width : u[i] < v[i] /\ \A j \in i+1 .. Width : u[j] = v[j]
  BY <1>1 DEF AtMost
<1>3. PICK h \in 1..Width : v[h] < w[h] /\ \A j \in h+1 .. Width : v[j] = w[j]
  BY <1>1 DEF AtMost
<1>4. \A n \in 1..Width : u[n] \in Int /\ v[n] \in Int /\ w[n] \in Int
  BY DEF Word
<1>5. CASE h <= i
  <2>1. v[i] <= w[i]
    BY <1>3, <1>4, <1>5
  <2>2. u[i] < w[i]
    BY <1>2, <1>4, <2>1
  <2>3. \A j \in i+1 .. Width : u[j] = w[j]
    BY <1>2, <1>3, <1>5
  <2> QED
    BY <2>2, <2>3 DEF AtMost
<1>6. CASE i < h
  <2>1. u[h] = v[h]
    BY <1>2, <1>6
  <2>2. \A j \in h+1 .. Width : u[j] = w[j]
    BY <1>2, <1>3, <1>6
  <2> QED
    BY <1>3, <2>1, <2>2 DEF AtMost
<1> QED
  BY <1>5, <1>6

-----------------------------------------------------------------------------
(* The stack. *)

LEMMA Pushed ==
    ASSUME NEW S, NEW s \in Seq(S), NEW f \in S
    PROVE  /\ <<f>> \o s \in Seq(S) /\ Len(<<f>> \o s) = Len(s) + 1 /\ Len(s) \in Nat
           /\ (<<f>> \o s)[1] = f
           /\ \A i \in 1..Len(s) : (<<f>> \o s)[i + 1] = s[i]
OBVIOUS

LEMMA Popped ==
    ASSUME NEW S, NEW s \in Seq(S), s # <<>>
    PROVE  /\ Head(s) \in S /\ Head(s) = s[1] /\ Len(s) \in Nat /\ Len(s) > 0
           /\ Tail(s) \in Seq(S) /\ Len(Tail(s)) = Len(s) - 1
           /\ \A i \in 1 .. Len(s) - 1 : Tail(s)[i] = s[i + 1]
OBVIOUS

LEMMA Replaced ==
    ASSUME NEW S, NEW s \in Seq(S), s # <<>>, NEW f \in S
    PROVE  /\ <<f>> \o Tail(s) \in Seq(S) /\ Len(<<f>> \o Tail(s)) = Len(s)
           /\ (<<f>> \o Tail(s))[1] = f
           /\ \A i \in 2..Len(s) : (<<f>> \o Tail(s))[i] = s[i]
<1>1. Tail(s) \in Seq(S) /\ Len(Tail(s)) = Len(s) - 1 /\ Len(s) \in Nat /\ Len(s) > 0
  BY Popped
<1>2. \A i \in 1 .. Len(s) - 1 : Tail(s)[i] = s[i + 1]
  BY Popped
<1>3. \A i \in 1..Len(Tail(s)) : (<<f>> \o Tail(s))[i + 1] = Tail(s)[i]
  BY <1>1, Pushed
<1>4. \A i \in 2..Len(s) : (<<f>> \o Tail(s))[i] = s[i]
  <2>1. SUFFICES ASSUME NEW i \in 2..Len(s) PROVE (<<f>> \o Tail(s))[i] = s[i]
    OBVIOUS
  <2>2. i - 1 \in 1 .. Len(s) - 1 /\ (i - 1) + 1 = i
    BY <1>1
  <2> QED
    BY <1>1, <1>2, <1>3, <2>2
<1>5. <<f>> \o Tail(s) \in Seq(S) /\ Len(<<f>> \o Tail(s)) = Len(s) /\ (<<f>> \o Tail(s))[1] = f
  BY <1>1, Pushed
<1> QED
  BY <1>4, <1>5

LEMMA TopFrame ==
    ASSUME TypeOK, stack # <<>>
    PROVE  top \in Frame /\ top = stack[1] /\ Len(stack) \in Nat /\ Len(stack) > 0
BY Popped DEF TypeOK, top

(* The innermost handler goes on as f: the others stay where they are.      *)
LEMMA AfterGoto ==
    ASSUME TypeOK, stack # <<>>, NEW f \in Frame, f.timer = top.timer, Goto(f)
    PROVE  /\ stack' \in Seq(Frame) /\ Len(stack') = Len(stack) /\ stack'[1] = f
           /\ \A i \in 2..Len(stack) : stack'[i] = stack[i]
           /\ \A t, L : Has(t, L) => Has(t, L)' \/ (t = top.timer /\ top.at \in L)
           /\ \A t, L : Has(t, L)' => Has(t, L) \/ (t = top.timer /\ f.at \in L)
           /\ \A t, L : t = top.timer /\ f.at \in L => Has(t, L)'
<1>1. top = stack[1] /\ Len(stack) \in Nat /\ Len(stack) > 0
  BY TopFrame
<1>2. /\ stack' \in Seq(Frame) /\ Len(stack') = Len(stack) /\ stack'[1] = f
      /\ \A i \in 2..Len(stack) : stack'[i] = stack[i]
  BY Replaced DEF Goto, TypeOK
<1>3. \A i \in 1..Len(stack) : i = 1 \/ i \in 2..Len(stack)
  BY <1>1
<1>4. \A t, L : Has(t, L) => Has(t, L)' \/ (t = top.timer /\ top.at \in L)
  BY <1>1, <1>2, <1>3 DEF Has
<1>5. \A t, L : Has(t, L)' => Has(t, L) \/ (t = top.timer /\ f.at \in L)
  BY <1>1, <1>2, <1>3 DEF Has
<1>6. \A t, L : t = top.timer /\ f.at \in L => Has(t, L)'
  BY <1>1, <1>2 DEF Has
<1> QED
  BY <1>2, <1>4, <1>5, <1>6

(* The innermost handler ends.                                              *)
LEMMA AfterReturn ==
    ASSUME TypeOK, stack # <<>>, Return
    PROVE  /\ stack' \in Seq(Frame) /\ Len(stack') = Len(stack) - 1
           /\ \A i \in 1..Len(stack') : i + 1 \in 2..Len(stack) /\ stack'[i] = stack[i + 1]
           /\ \A t, L : Has(t, L) => Has(t, L)' \/ (t = top.timer /\ top.at \in L)
           /\ \A t, L : Has(t, L)' => Has(t, L)
<1>1. top = stack[1] /\ Len(stack) \in Nat /\ Len(stack) > 0
  BY TopFrame
<1>2. /\ stack' \in Seq(Frame) /\ Len(stack') = Len(stack) - 1
      /\ \A i \in 1 .. Len(stack) - 1 : stack'[i] = stack[i + 1]
  BY Popped DEF Return, TypeOK
<1>3. \A i \in 1..Len(stack') : i + 1 \in 2..Len(stack) /\ stack'[i] = stack[i + 1]
  BY <1>1, <1>2
<1>4. \A i \in 1..Len(stack) : i = 1 \/ (i - 1 \in 1..Len(stack') /\ (i - 1) + 1 = i)
  BY <1>1, <1>2
<1>5. \A t, L : Has(t, L) => Has(t, L)' \/ (t = top.timer /\ top.at \in L)
  <2> SUFFICES ASSUME NEW t, NEW L, NEW i \in 1..Len(stack), stack[i].timer = t, stack[i].at \in L
               PROVE  Has(t, L)' \/ (t = top.timer /\ top.at \in L)
    BY DEF Has
  <2>1. CASE i = 1
    BY <1>1, <2>1
  <2>2. CASE i # 1
    <3>1. i - 1 \in 1..Len(stack') /\ stack'[i - 1] = stack[i]
      BY <1>3, <1>4, <2>2
    <3> QED
      BY <3>1 DEF Has
  <2> QED
    BY <2>1, <2>2
<1>6. \A t, L : Has(t, L)' => Has(t, L)
  BY <1>1, <1>3 DEF Has
<1> QED
  BY <1>2, <1>3, <1>5, <1>6

(* A handler of t starts on top of the others.                              *)
LEMMA AfterVector ==
    ASSUME TypeOK, NEW t \in Timer, Vector(t)
    PROVE  /\ stack' \in Seq(Frame) /\ Len(stack') = Len(stack) + 1 /\ Len(stack) \in Nat
           /\ stack'[1].timer = t /\ stack'[1].at = "test" /\ stack'[1].k = 1
           /\ \A i \in 1..Len(stack) : stack'[i + 1] = stack[i]
           /\ \A u, L : Has(u, L) => Has(u, L)'
           /\ \A u, L : Has(u, L)' => Has(u, L) \/ (u = t /\ "test" \in L)
           /\ \A L : "test" \in L => Has(t, L)'
<1> DEFINE f == [timer |-> t, at |-> "test", k |-> 1, val |-> Zero, seen |-> [u \in Timer |-> FALSE]]
<1>1. f \in Frame
  BY ZeroType, WidthAssumption DEF Frame, FrameLabel
<1>2. stack' = <<f>> \o stack /\ f.timer = t /\ f.at = "test" /\ f.k = 1
  BY DEF Vector
<1> HIDE DEF f
<1>3. /\ stack' \in Seq(Frame) /\ Len(stack') = Len(stack) + 1 /\ Len(stack) \in Nat
      /\ stack'[1] = f /\ \A i \in 1..Len(stack) : stack'[i + 1] = stack[i]
  BY <1>1, <1>2, Pushed DEF TypeOK
<1>4. \A i \in 1..Len(stack) : i + 1 \in 1..Len(stack')
  BY <1>3
<1>5. \A i \in 1..Len(stack') : i = 1 \/ (i - 1 \in 1..Len(stack) /\ (i - 1) + 1 = i)
  BY <1>3
<1>6. \A u, L : Has(u, L) => Has(u, L)'
  BY <1>3, <1>4 DEF Has
<1>7. \A u, L : Has(u, L)' => Has(u, L) \/ (u = t /\ "test" \in L)
  BY <1>2, <1>3, <1>5 DEF Has
<1>8. \A L : "test" \in L => Has(t, L)'
  <2>1. 1 \in 1..Len(stack')
    BY <1>3
  <2> QED
    BY <1>2, <1>3, <2>1 DEF Has
<1> QED
  BY <1>2, <1>3, <1>6, <1>7, <1>8

-----------------------------------------------------------------------------
(* Where the steps of a handler lead. *)

(* A frame with some of its fields changed.                                 *)
LEMMA BytesRead ==
    ASSUME NEW r \in Frame, NEW b, NEW v
    PROVE  [r EXCEPT !.k = b, !.val = v]
           = [timer |-> r.timer, at |-> r.at, k |-> b, val |-> v, seen |-> r.seen]
<1> DEFINE e == [r EXCEPT !.k = b]
<1>1. e = [timer |-> r.timer, at |-> r.at, k |-> b, val |-> r.val, seen |-> r.seen]
  BY DEF Frame
<1>2. [r EXCEPT !.k = b, !.val = v] = [e EXCEPT !.val = v]
  OBVIOUS
<1> HIDE DEF e
<1> QED
  BY <1>1, <1>2

LEMMA AllRead ==
    ASSUME NEW r \in Frame, NEW a, NEW b, NEW v
    PROVE  [r EXCEPT !.k = b, !.val = v, !.at = a]
           = [timer |-> r.timer, at |-> a, k |-> b, val |-> v, seen |-> r.seen]
<1> DEFINE e == [r EXCEPT !.k = b, !.val = v]
<1>1. e = [timer |-> r.timer, at |-> r.at, k |-> b, val |-> v, seen |-> r.seen]
  BY BytesRead
<1>2. [r EXCEPT !.k = b, !.val = v, !.at = a] = [e EXCEPT !.at = a]
  OBVIOUS
<1> HIDE DEF e
<1> QED
  BY <1>1, <1>2

LEMMA PortSeen ==
    ASSUME NEW r \in Frame, NEW a, NEW s
    PROVE  [r EXCEPT !.at = a, !.seen = s]
           = [timer |-> r.timer, at |-> a, k |-> r.k, val |-> r.val, seen |-> s]
<1> DEFINE e == [r EXCEPT !.at = a]
<1>1. e = [timer |-> r.timer, at |-> a, k |-> r.k, val |-> r.val, seen |-> r.seen]
  BY DEF Frame
<1>2. [r EXCEPT !.at = a, !.seen = s] = [e EXCEPT !.seen = s]
  OBVIOUS
<1> HIDE DEF e
<1> QED
  BY <1>1, <1>2

LEMMA ReadMoves ==
    ASSUME TypeOK, NEW l \in {"test", "load"}, NEW n \in {"mask", "load", "store"}, HandlerRead(l, n)
    PROVE  /\ stack # <<>> /\ top \in Frame /\ top.at = l /\ Read \in Word
           /\ UNCHANGED <<hw, duration, resetPin, main, ledger, torn>>
           /\ \E f \in Frame :
                  /\ Goto(f) /\ f.timer = top.timer
                  /\ IF top.k < Width THEN f.at = l /\ f.k = top.k + 1 /\ f.val = Read
                     ELSE f.at = n /\ f.k = 1 /\ (n = "store" => f.val = Read)
<1>1. /\ stack # <<>> /\ top.at = l /\ UNCHANGED <<hw, duration, resetPin, main, ledger, torn>>
  BY DEF HandlerRead, At
<1>2. top \in Frame
  BY <1>1, TopFrame
<1>3. Read \in Word
  <2>1. duration[top.timer] \in Word /\ top.val \in Word /\ top.k \in 1..Width
    BY <1>2 DEF Frame, TypeOK
  <2> QED
    BY <2>1 DEF Read, Word
<1>4. CASE top.k < Width
  <2> DEFINE f == [timer |-> top.timer, at |-> top.at, k |-> top.k + 1, val |-> Read, seen |-> top.seen]
  <2>1. Goto([top EXCEPT !.k = @ + 1, !.val = Read])
    BY <1>4 DEF HandlerRead
  <2>2. [top EXCEPT !.k = @ + 1, !.val = Read] = f
    BY <1>2, BytesRead
  <2>3. top.k + 1 \in 1..Width
    BY <1>2, <1>4, WidthAssumption DEF Frame
  <2>4. f \in Frame
    BY <1>2, <1>3, <2>3 DEF Frame
  <2>5. Goto(f)
    BY <2>1, <2>2
  <2>6. f.timer = top.timer /\ f.at = l /\ f.k = top.k + 1 /\ f.val = Read
    BY <1>1
  <2> HIDE DEF f
  <2> QED
    BY <1>1, <1>2, <1>3, <1>4, <2>4, <2>5, <2>6
<1>5. CASE ~(top.k < Width)
  <2> DEFINE v == IF n = "store" THEN Read ELSE Zero
             f == [timer |-> top.timer, at |-> n, k |-> 1, val |-> v, seen |-> top.seen]
  <2>1. Goto([top EXCEPT !.k = 1, !.val = v, !.at = n])
    BY <1>5 DEF HandlerRead
  <2>2. [top EXCEPT !.k = 1, !.val = v, !.at = n] = f
    BY <1>2, AllRead
  <2>3. v \in Word /\ 1 \in 1..Width /\ n \in FrameLabel
    BY <1>3, ZeroType, WidthAssumption DEF FrameLabel
  <2> HIDE DEF v
  <2>4. f \in Frame
    BY <1>2, <2>3 DEF Frame
  <2>5. Goto(f)
    BY <2>1, <2>2
  <2>6. f.timer = top.timer /\ f.at = n /\ f.k = 1 /\ (n = "store" => f.val = Read)
    BY DEF v
  <2> HIDE DEF f
  <2> QED
    BY <1>1, <1>2, <1>3, <1>5, <2>4, <2>5, <2>6
<1> QED
  BY <1>4, <1>5

LEMMA TestMoves ==
    ASSUME TypeOK, HandlerTest
    PROVE  /\ stack # <<>> /\ top \in Frame /\ top.at = "test" /\ Read \in Word
           /\ UNCHANGED <<hw, duration, resetPin, main, ledger, torn>>
           /\ \E f \in Frame :
                  /\ Goto(f) /\ f.timer = top.timer
                  /\ IF top.k < Width THEN f.at = "test" /\ f.k = top.k + 1 /\ f.val = Read
                     ELSE f.at = AfterTest(Read) /\ f.k = 1
<1>1. AfterTest(Read) \in {"mask", "load", "store"}
  BY DEF AfterTest
<1>2. PICK n \in {"mask", "load", "store"} : n = AfterTest(Read)
  BY <1>1
<1>3. HandlerRead("test", n)
  BY <1>2 DEF HandlerTest, HandlerRead
<1> QED
  BY <1>2, <1>3, ReadMoves

LEMMA StoreMoves ==
    ASSUME TypeOK, HandlerStore
    PROVE  /\ stack # <<>> /\ top \in Frame /\ top.at = "store" /\ Pred(top.val) \in Word
           /\ UNCHANGED <<hw, resetPin, main, ledger>>
           /\ duration' = [duration EXCEPT ![top.timer][top.k] = Pred(top.val)[top.k]]
           /\ duration' \in [Timer -> Word]
           /\ torn' = (torn \/ (Reading(top.timer) /\ top.val[1] = 0))
           /\ IF top.k < Width
              THEN \E f \in Frame : /\ Goto(f) /\ f.timer = top.timer /\ f.at = "store"
                                    /\ f.k = top.k + 1 /\ f.val = top.val
              ELSE Return
<1>1. /\ stack # <<>> /\ top.at = "store" /\ UNCHANGED <<hw, resetPin, main, ledger>>
      /\ duration' = [duration EXCEPT ![top.timer][top.k] = Pred(top.val)[top.k]]
      /\ torn' = (torn \/ (Reading(top.timer) /\ top.val[1] = 0))
  BY DEF HandlerStore, At
<1>2. top \in Frame
  BY <1>1, TopFrame
<1>3. Pred(top.val) \in Word
  BY <1>2, PredType DEF Frame
<1>4. duration' \in [Timer -> Word]
  BY <1>1, <1>2, <1>3 DEF Frame, Word, TypeOK
<1>5. CASE top.k < Width
  <2> DEFINE f == [timer |-> top.timer, at |-> top.at, k |-> top.k + 1, val |-> top.val, seen |-> top.seen]
  <2>1. Goto([top EXCEPT !.k = @ + 1])
    BY <1>5 DEF HandlerStore
  <2>2. [top EXCEPT !.k = @ + 1] = f
    BY <1>2 DEF Frame
  <2>3. top.k + 1 \in 1..Width
    BY <1>2, <1>5, WidthAssumption DEF Frame
  <2>4. f \in Frame
    BY <1>2, <2>3 DEF Frame
  <2>5. Goto(f)
    BY <2>1, <2>2
  <2>6. f.timer = top.timer /\ f.at = "store" /\ f.k = top.k + 1 /\ f.val = top.val
    BY <1>1
  <2> HIDE DEF f
  <2> QED
    BY <1>1, <1>2, <1>3, <1>4, <1>5, <2>4, <2>5, <2>6
<1>6. CASE ~(top.k < Width)
  BY <1>1, <1>2, <1>3, <1>4, <1>6 DEF HandlerStore
<1> QED
  BY <1>5, <1>6

(* From the mask to the port: the handler goes on at the next step, or ends *)
(* and leaves the pin alone.                                                *)
LEMMA ExpiryMoves ==
    ASSUME TypeOK, HandlerMask \/ HandlerStop \/ HandlerPortRead
    PROVE  /\ stack # <<>> /\ top \in Frame
           /\ top.at = (IF HandlerMask THEN "mask" ELSE IF HandlerStop THEN "stop" ELSE "port_read")
           /\ UNCHANGED <<flag, port, duration, resetPin, main, ledger, torn>>
           /\ mask' = IF HandlerMask THEN [mask EXCEPT ![top.timer] = FALSE] ELSE mask
           /\ clock' = IF HandlerStop THEN [clock EXCEPT ![top.timer] = FALSE] ELSE clock
           /\ \/ \E f \in Frame : /\ Goto(f) /\ f.timer = top.timer
                                  /\ f.at = (IF HandlerMask THEN "stop"
                                             ELSE IF HandlerStop THEN "port_read" ELSE "port_write")
              \/ HandlerStop /\ Return
<1>1. stack # <<>>
  BY DEF HandlerMask, HandlerStop, HandlerPortRead, At
<1>2. top \in Frame
  BY <1>1, TopFrame
<1>3. CASE HandlerMask
  <2> DEFINE f == [timer |-> top.timer, at |-> "stop", k |-> top.k, val |-> top.val, seen |-> top.seen]
  <2>1. /\ top.at = "mask" /\ Goto([top EXCEPT !.at = "stop"]) /\ ~HandlerStop
        /\ mask' = [mask EXCEPT ![top.timer] = FALSE]
        /\ UNCHANGED <<clock, flag, port, duration, resetPin, main, ledger, torn>>
    BY <1>3 DEF HandlerMask, HandlerStop, At
  <2>2. [top EXCEPT !.at = "stop"] = f
    BY <1>2 DEF Frame
  <2>3. f \in Frame
    BY <1>2 DEF Frame, FrameLabel
  <2>4. Goto(f)
    BY <2>1, <2>2
  <2>5. f.timer = top.timer /\ f.at = "stop"
    OBVIOUS
  <2> HIDE DEF f
  <2> QED
    BY <1>1, <1>2, <1>3, <2>1, <2>3, <2>4, <2>5
<1>4. CASE HandlerStop
  <2> DEFINE f == [timer |-> top.timer, at |-> "port_read", k |-> top.k, val |-> top.val, seen |-> top.seen]
  <2>1. /\ top.at = "stop" /\ ~HandlerMask
        /\ Return \/ Goto([top EXCEPT !.at = "port_read"])
        /\ clock' = [clock EXCEPT ![top.timer] = FALSE]
        /\ UNCHANGED <<mask, flag, port, duration, resetPin, main, ledger, torn>>
    BY <1>4 DEF HandlerMask, HandlerStop, At
  <2>2. [top EXCEPT !.at = "port_read"] = f
    BY <1>2 DEF Frame
  <2>3. f \in Frame
    BY <1>2 DEF Frame, FrameLabel
  <2>4. Return \/ Goto(f)
    BY <2>1, <2>2
  <2>5. f.timer = top.timer /\ f.at = "port_read"
    OBVIOUS
  <2> HIDE DEF f
  <2> QED
    BY <1>1, <1>2, <1>4, <2>1, <2>3, <2>4, <2>5
<1>5. CASE HandlerPortRead
  <2> DEFINE f == [timer |-> top.timer, at |-> "port_write", k |-> top.k, val |-> top.val, seen |-> port]
  <2>1. /\ top.at = "port_read" /\ ~HandlerMask /\ ~HandlerStop
        /\ Goto([top EXCEPT !.at = "port_write", !.seen = port])
        /\ UNCHANGED <<mask, clock, flag, port, duration, resetPin, main, ledger, torn>>
    BY <1>5 DEF HandlerMask, HandlerStop, HandlerPortRead, At, hw
  <2>2. [top EXCEPT !.at = "port_write", !.seen = port] = f
    BY <1>2, PortSeen
  <2>3. f \in Frame
    BY <1>2 DEF Frame, FrameLabel, TypeOK
  <2>4. Goto(f)
    BY <2>1, <2>2
  <2>5. f.timer = top.timer /\ f.at = "port_write"
    OBVIOUS
  <2> HIDE DEF f
  <2> QED
    BY <1>1, <1>2, <1>5, <2>1, <2>3, <2>4, <2>5
<1> QED
  BY <1>3, <1>4, <1>5

LEMMA PortWriteMoves ==
    ASSUME TypeOK, HandlerPortWrite
    PROVE  /\ stack # <<>> /\ top \in Frame /\ top.at = "port_write" /\ Return
           /\ UNCHANGED <<mask, clock, flag, duration, resetPin, main, ledger, torn>>
           /\ port' \in [Timer -> BOOLEAN]
<1>1. /\ stack # <<>> /\ top.at = "port_write" /\ Return
      /\ UNCHANGED <<mask, clock, flag, duration, resetPin, main, ledger, torn>>
  BY DEF HandlerPortWrite, At
<1>2. top \in Frame
  BY <1>1, TopFrame
<1>3. port' \in [Timer -> BOOLEAN]
  BY <1>2 DEF HandlerPortWrite, PinAfter, Frame, TypeOK
<1> QED
  BY <1>1, <1>2, <1>3

-----------------------------------------------------------------------------
(* Types. *)

LEMMA InitTypes == Init => TypeOK
<1> SUFFICES ASSUME Init PROVE TypeOK
  OBVIOUS
<1>1. tim \in Timer
  BY TimerAssumption DEF Init
<1>2. stack \in Seq(Frame) /\ Len(stack) <= MaxNest
  BY NestAssumption DEF Init
<1>3. k \in 1..Width /\ calls \in 0..MaxCalls
  BY WidthAssumption, CallsAssumption DEF Init
<1> QED
  BY <1>1, <1>2, <1>3, ZeroType DEF Init, TypeOK, Label

LEMMA HandlerTypes == TypeOK /\ Handler => TypeOK'
<1> SUFFICES ASSUME TypeOK, Handler PROVE TypeOK'
  OBVIOUS
<1>1. /\ stack # <<>> /\ top \in Frame /\ UNCHANGED <<flag, resetPin, main, ledger>>
      /\ torn' \in BOOLEAN
      /\ mask' \in [Timer -> BOOLEAN] /\ clock' \in [Timer -> BOOLEAN]
      /\ port' \in [Timer -> BOOLEAN] /\ duration' \in [Timer -> Word]
      /\ Return \/ \E f \in Frame : Goto(f) /\ f.timer = top.timer
  <2>1. CASE HandlerTest
    BY <2>1, TestMoves DEF TypeOK, hw
  <2>2. CASE HandlerLoad
    BY <2>2, ReadMoves DEF TypeOK, hw, HandlerLoad
  <2>3. CASE HandlerStore
    <3>1. torn' \in BOOLEAN
      BY <2>3, StoreMoves DEF TypeOK
    <3> QED
      BY <2>3, <3>1, StoreMoves DEF TypeOK, hw
  <2>4. CASE HandlerMask \/ HandlerStop \/ HandlerPortRead
    BY <2>4, ExpiryMoves DEF TypeOK
  <2>5. CASE HandlerPortWrite
    BY <2>5, PortWriteMoves DEF TypeOK
  <2> QED
    BY <2>1, <2>2, <2>3, <2>4, <2>5 DEF Handler
<1>2. stack' \in Seq(Frame) /\ Len(stack') <= MaxNest
  <2>1. Len(stack) \in Nat /\ Len(stack) <= MaxNest
    BY <1>1, TopFrame DEF TypeOK
  <2>2. CASE Return
    BY <1>1, <2>1, <2>2, AfterReturn, NestAssumption
  <2>3. CASE \E f \in Frame : Goto(f) /\ f.timer = top.timer
    BY <1>1, <2>1, <2>3, AfterGoto
  <2> QED
    BY <1>1, <2>2, <2>3
<1> QED
  BY <1>1, <1>2 DEF TypeOK, main, ledger

LEMMA TimerTypes == ASSUME TypeOK, NEW t \in Timer, Match(t) \/ Vector(t) PROVE TypeOK'
<1>1. CASE Match(t)
  <2>1. due' \in [Timer -> Word]
    BY <1>1, PredType DEF Match, TypeOK
  <2> QED
    BY <1>1, <2>1 DEF Match, TypeOK, main
<1>2. CASE Vector(t)
  <2>1. stack' \in Seq(Frame) /\ Len(stack') <= MaxNest
    <3>1. stack' \in Seq(Frame) /\ Len(stack') = Len(stack) + 1 /\ Len(stack) \in Nat
      BY <1>2, AfterVector
    <3>2. Len(stack) < MaxNest
      BY <1>2 DEF Vector, MayNest
    <3> QED
      BY <3>1, <3>2, NestAssumption
  <2>2. nested' \in [Timer -> BOOLEAN]
    <3>1. \A u : Has(u, Counting) \in BOOLEAN
      BY DEF Has
    <3> QED
      BY <1>2, <3>1 DEF Vector, TypeOK
  <2> QED
    BY <1>2, <2>1, <2>2 DEF Vector, TypeOK, main
<1> QED
  BY <1>1, <1>2

LEMMA EnterTypes ==
    ASSUME TypeOK, NEW f, NEW t \in Timer, NEW l \in Label, Enter(f, t, l),
           acc' \in Word, asked' \in [Timer -> Word], due' \in [Timer -> Word],
           UNCHANGED <<nested, over>>
    PROVE  TypeOK'
<1>1. k' \in 1..Width /\ calls' \in 0..MaxCalls
  BY WidthAssumption, CallsAssumption DEF Enter, TypeOK
<1> QED
  BY <1>1, CallsAssumption DEF Enter, TypeOK, hw

LEMMA EntersTypes == TypeOK /\ Enters => TypeOK'
<1> SUFFICES ASSUME TypeOK, NEW t \in Timer,
                    \/ tdelay_init(t) \/ beeper_init(t) \/ beeper_off(t) \/ beeper_block(t)
                    \/ \E d \in Word : tdelay(t, d) \/ beeper_beep(t, d)
             PROVE  TypeOK'
  BY DEF Enters
<1> USE DEF Label, TypeOK
<1>1. CASE tdelay_init(t)
  BY <1>1, EnterTypes DEF tdelay_init, ledger
<1>2. CASE beeper_init(t)
  BY <1>2, EnterTypes DEF beeper_init, ledger
<1>3. CASE beeper_off(t)
  BY <1>3, EnterTypes, ZeroType DEF beeper_off
<1>4. CASE beeper_block(t)
  BY <1>4, EnterTypes, ZeroType DEF beeper_block, ledger
<1>5. CASE \E d \in Word : tdelay(t, d) \/ beeper_beep(t, d)
  <2>1. PICK d \in Word : tdelay(t, d) \/ beeper_beep(t, d)
    BY <1>5
  <2> QED
    BY <2>1, EnterTypes DEF tdelay, beeper_beep, ledger
<1> QED
  BY <1>1, <1>2, <1>3, <1>4, <1>5

LEMMA ByteStored ==
    ASSUME TypeOK, NEW d \in Word, NEW l, NEW m, StoreByte(l, d, m)
    PROVE  duration' \in [Timer -> Word] /\ k' \in 1..Width
<1>1. k' \in 1..Width
  BY WidthAssumption DEF StoreByte, TypeOK
<1>2. d[k] \in 0 .. Base - 1 /\ duration[tim] \in Word
  BY DEF TypeOK, Word
<1>3. [duration[tim] EXCEPT ![k] = d[k]] \in Word
  BY <1>2 DEF Word
<1>4. duration' \in [Timer -> Word]
  BY <1>3 DEF StoreByte, TypeOK
<1> QED
  BY <1>1, <1>4

LEMMA CallStepTypes == TypeOK /\ CallStep => TypeOK'
<1> SUFFICES ASSUME TypeOK, CallStep PROVE TypeOK'
  OBVIOUS
<1> USE DEF Step, hw, Label, ledger
<1>1. CASE InitCtc \/ InitPin
  BY <1>1 DEF TypeOK, InitCtc, InitPin
<1>2. CASE MaskOff \/ ClockOff \/ ClearClock \/ StartClock
  BY <1>2 DEF TypeOK, MaskOff, ClockOff, ClearClock, StartClock
<1>3. CASE StoreZero
  <2>1. duration' \in [Timer -> Word] /\ k' \in 1..Width
    BY <1>3, ZeroType, ByteStored DEF StoreZero
  <2> QED
    BY <1>3, <2>1 DEF TypeOK, StoreZero, StoreByte
<1>4. CASE ClearCounter
  <2>1. (mask[tim] /\ duration[tim] # Zero) \in BOOLEAN
    OBVIOUS
  <2>2. over' \in [Timer -> BOOLEAN] /\ nested' \in [Timer -> BOOLEAN]
    BY <1>4, <2>1 DEF TypeOK, ClearCounter
  <2> QED
    BY <1>4, <2>2 DEF TypeOK, ClearCounter
<1>5. CASE StoreDuration
  <2>1. duration' \in [Timer -> Word] /\ k' \in 1..Width
    BY <1>5, ByteStored DEF StoreDuration, TypeOK
  <2> QED
    BY <1>5, <2>1 DEF TypeOK, StoreDuration, StoreByte
<1>6. CASE EnableInterrupt
  BY <1>6, ZeroType DEF TypeOK, EnableInterrupt
<1>7. CASE Test
  BY <1>7 DEF TypeOK, Test
<1>8. CASE Spin
  <2>1. [acc EXCEPT ![k] = duration[tim][k]] \in Word
    <3>1. duration[tim] \in Word /\ acc \in Word
      BY DEF TypeOK
    <3> QED
      BY <3>1 DEF Word
  <2>2. k' \in 1..Width /\ acc' \in Word
    BY <1>8, <2>1, ZeroType, WidthAssumption DEF TypeOK, Spin
  <2>3. torn' \in BOOLEAN
    BY <1>8 DEF TypeOK, Spin
  <2> QED
    BY <1>8, <2>2, <2>3 DEF TypeOK, Spin
<1> QED
  BY <1>1, <1>2, <1>3, <1>4, <1>5, <1>6, <1>7, <1>8 DEF CallStep

LEMMA NextTypes == TypeOK /\ [Next]_vars => TypeOK'
<1>1. ASSUME TypeOK, UNCHANGED vars PROVE TypeOK'
  BY <1>1 DEF vars, hw, main, ledger, TypeOK
<1> QED
  BY <1>1, TimerTypes, HandlerTypes, EntersTypes, CallStepTypes DEF Next

LEMMA Types == Spec => []TypeOK
BY InitTypes, NextTypes, PTL DEF Spec

-----------------------------------------------------------------------------
(* Which timers run. *)

(* A timer that runs masked is about to be stopped or to be unmasked: by a  *)
(* handler that found the duration 0, or by the call in progress.           *)
SeenToByCall(t) == tim = t /\ pc \in {"clock_off", "tcnt", "duration", "enable"}
Accounted == \A t \in Timer : clock[t] => mask[t] \/ Has(t, {"stop"}) \/ SeenToByCall(t)

LEMMA HandlerAccounted == TypeOK /\ Accounted /\ Handler => Accounted'
<1> SUFFICES ASSUME TypeOK, Accounted, Handler, NEW t \in Timer, clock'[t]
             PROVE  mask'[t] \/ Has(t, {"stop"})' \/ SeenToByCall(t)'
  BY DEF Accounted
<1> USE DEF SeenToByCall, main, hw
<1>1. CASE HandlerTest \/ HandlerLoad \/ HandlerStore \/ HandlerPortWrite \/ HandlerPortRead
  <2>1. /\ stack # <<>> /\ top.at # "stop" /\ UNCHANGED <<mask, clock, pc, tim>>
        /\ Return \/ \E f \in Frame : Goto(f) /\ f.timer = top.timer
    <3>1. CASE HandlerTest
      BY <3>1, TestMoves
    <3>2. CASE HandlerLoad
      BY <3>2, ReadMoves DEF HandlerLoad
    <3>3. CASE HandlerStore
      BY <3>3, StoreMoves
    <3>4. CASE HandlerPortWrite
      BY <3>4, PortWriteMoves
    <3>5. CASE HandlerPortRead
      <4>1. ~HandlerMask /\ ~HandlerStop
        BY <3>5 DEF HandlerPortRead, HandlerMask, HandlerStop, At
      <4> QED
        BY <3>5, <4>1, ExpiryMoves
    <3> QED
      BY <1>1, <3>1, <3>2, <3>3, <3>4, <3>5
  <2>2. Has(t, {"stop"}) => Has(t, {"stop"})'
    BY <2>1, AfterReturn, AfterGoto
  <2> QED
    BY <2>1, <2>2 DEF Accounted
<1>2. CASE HandlerMask
  <2>1. /\ stack # <<>> /\ top.at = "mask" /\ UNCHANGED <<clock, pc, tim>>
        /\ mask' = [mask EXCEPT ![top.timer] = FALSE]
        /\ \E f \in Frame : Goto(f) /\ f.timer = top.timer /\ f.at = "stop"
    <3>1. ~HandlerStop
      BY <1>2 DEF HandlerMask, HandlerStop, At
    <3> QED
      BY <1>2, <3>1, ExpiryMoves
  <2>2. /\ Has(t, {"stop"}) => Has(t, {"stop"})'
        /\ t = top.timer => Has(t, {"stop"})'
    BY <2>1, AfterGoto
  <2>3. t # top.timer => mask'[t] = mask[t]
    BY <2>1 DEF TypeOK
  <2> QED
    BY <2>1, <2>2, <2>3 DEF Accounted
<1>3. CASE HandlerStop
  <2>1. /\ stack # <<>> /\ top \in Frame /\ UNCHANGED <<mask, pc, tim>>
        /\ clock' = [clock EXCEPT ![top.timer] = FALSE]
        /\ Return \/ \E f \in Frame : Goto(f) /\ f.timer = top.timer
    <3>1. ~HandlerMask
      BY <1>3 DEF HandlerMask, HandlerStop, At
    <3> QED
      BY <1>3, <3>1, ExpiryMoves
  <2>2. t # top.timer /\ clock[t]
    BY <2>1 DEF TypeOK, Frame
  <2>3. Has(t, {"stop"}) => Has(t, {"stop"})'
    BY <2>1, <2>2, AfterReturn, AfterGoto
  <2> QED
    BY <2>1, <2>2, <2>3 DEF Accounted
<1> QED
  BY <1>1, <1>2, <1>3 DEF Handler

LEMMA CallStepAccounted == TypeOK /\ Accounted /\ CallStep => Accounted'
<1> SUFFICES ASSUME TypeOK, Accounted, CallStep PROVE Accounted'
  OBVIOUS
<1> USE DEF TypeOK, Accounted, SeenToByCall, Step, hw, Has
<1>1. CASE InitCtc \/ InitPin
  BY <1>1 DEF InitCtc, InitPin
<1>2. CASE MaskOff \/ ClockOff
  BY <1>2 DEF MaskOff, ClockOff
<1>3. CASE ClearClock \/ StartClock
  BY <1>3 DEF ClearClock, StartClock
<1>4. CASE StoreZero \/ StoreDuration
  BY <1>4 DEF StoreZero, StoreDuration, StoreByte
<1>5. CASE ClearCounter \/ EnableInterrupt
  BY <1>5 DEF ClearCounter, EnableInterrupt
<1>6. CASE Test \/ Spin
  BY <1>6 DEF Test, Spin
<1> QED
  BY <1>1, <1>2, <1>3, <1>4, <1>5, <1>6 DEF CallStep

(* What the start of a call does.                                           *)
LEMMA EntersMove ==
    ASSUME Enters
    PROVE  /\ UNCHANGED <<hw, duration, resetPin, stack, nested, over, torn>>
           /\ stack = <<>> /\ pc = "idle" /\ k' = 1 /\ tim' \in Timer
           /\ \/ pc' = "ctc" /\ call' \in {"tdelay_init", "beeper_init"}
              \/ pc' = "cs_clear" /\ call' = "tdelay"
              \/ pc' = "mask_off" /\ call' \in {"beeper_beep", "beeper_off"}
              \/ pc' = "test" /\ call' = "beeper_block"
           /\ IF call' = "beeper_off"
              THEN /\ asked' = [asked EXCEPT ![tim'] = Zero] /\ due' = [due EXCEPT ![tim'] = Zero]
              ELSE UNCHANGED <<asked, due>>
<1>1. PICK t \in Timer :
          \/ tdelay_init(t) \/ beeper_init(t) \/ beeper_off(t) \/ beeper_block(t)
          \/ \E d \in Word : tdelay(t, d) \/ beeper_beep(t, d)
  BY DEF Enters
<1> USE DEF Enter, ledger
<1>2. CASE tdelay_init(t)
  BY <1>2 DEF tdelay_init
<1>3. CASE beeper_init(t)
  BY <1>3 DEF beeper_init
<1>4. CASE beeper_off(t)
  BY <1>4 DEF beeper_off
<1>5. CASE beeper_block(t)
  BY <1>5 DEF beeper_block
<1>6. ASSUME NEW d \in Word, tdelay(t, d) \/ beeper_beep(t, d)
      PROVE  /\ UNCHANGED <<hw, duration, resetPin, stack, nested, over, torn>>
             /\ stack = <<>> /\ pc = "idle" /\ k' = 1 /\ tim' \in Timer
             /\ \/ pc' = "cs_clear" /\ call' = "tdelay"
                \/ pc' = "mask_off" /\ call' = "beeper_beep"
             /\ UNCHANGED <<asked, due>>
  BY <1>6 DEF tdelay, beeper_beep
<1> QED
  BY <1>1, <1>2, <1>3, <1>4, <1>5, <1>6

LEMMA NextAccounted == TypeOK /\ Accounted /\ [Next]_vars => Accounted'
<1> SUFFICES ASSUME TypeOK, Accounted, [Next]_vars PROVE Accounted'
  OBVIOUS
<1>1. CASE Enters
  BY <1>1, EntersMove DEF Accounted, SeenToByCall, Has, hw
<1>2. ASSUME NEW t \in Timer, Match(t) PROVE Accounted'
  BY <1>2 DEF Match, main, Accounted, SeenToByCall, Has
<1>3. ASSUME NEW t \in Timer, Vector(t) PROVE Accounted'
  <2>1. \A u : Has(u, {"stop"}) => Has(u, {"stop"})'
    BY <1>3, AfterVector
  <2> QED
    BY <1>3, <2>1 DEF Vector, main, Accounted, SeenToByCall
<1>4. CASE UNCHANGED vars
  BY <1>4 DEF vars, hw, main, Accounted, SeenToByCall, Has
<1> QED
  BY <1>1, <1>2, <1>3, <1>4, HandlerAccounted, CallStepAccounted DEF Next

LEMMA RunningInvariant == Spec => [](TypeOK /\ Accounted)
<1>1. Init => Accounted
  BY DEF Init, Accounted
<1>2. Init => TypeOK /\ Accounted
  BY <1>1, InitTypes
<1>3. TypeOK /\ Accounted /\ [Next]_vars => (TypeOK /\ Accounted)'
  BY NextTypes, NextAccounted
<1> QED
  BY <1>2, <1>3, PTL DEF Spec

-----------------------------------------------------------------------------
(* Who counts.  As long as the handler of a timer is not interrupted by     *)
(* itself while it counts, the one that counts is the innermost of its      *)
(* timer, and none counts for a timer that is masked.                       *)
Apart == \A t \in Timer : ~nested[t] =>
             \A i, j \in 1..Len(stack) :
                 stack[i].timer = t /\ stack[i].at \in Counting /\ stack[j].timer = t => i <= j
Quiet == \A t \in Timer : ~nested[t] /\ ~mask[t] => ~Has(t, Counting)

(* Nor has a timer whose duration is set to 0 any handler.                  *)
Alone == pc \in {"clock_off", "zero"} =>
             ~mask[tim] /\ \A i \in 1..Len(stack) : stack[i].timer # tim
FromStart == /\ pc \notin {"zero", "duration", "spin"} => k = 1
             /\ pc = "zero" => \A j \in 1 .. k - 1 : duration[tim][j] = 0
Parted == Apart /\ Quiet /\ Alone /\ FromStart

(* What a handler read is what is there, and what it has stored of the      *)
(* result is one less than what it read: a borrow is stored byte by byte.   *)
Sound(f) ==
    /\ f.at \in {"test", "load"} => \A j \in 1 .. f.k - 1 : f.val[j] = duration[f.timer][j]
    /\ f.at = "load" => duration[f.timer] # Zero
    /\ f.at = "store" =>
           /\ f.val # Zero
           /\ \A j \in 1..Width : duration[f.timer][j] = IF j < f.k THEN Pred(f.val)[j] ELSE f.val[j]
Counted == \A i \in 1..Len(stack) : ~nested[stack[i].timer] => Sound(stack[i])

(* Every handler step moves or ends the innermost handler, and no more.     *)
LEMMA HandlerMoves ==
    ASSUME TypeOK, Handler
    PROVE  /\ stack # <<>> /\ top \in Frame
           /\ UNCHANGED <<flag, resetPin, main, ledger>>
           /\ UNCHANGED <<tim, pc, k, acc, call, asked, due, nested, over>>
           /\ \A t \in Timer : t # top.timer => mask'[t] = mask[t] /\ clock'[t] = clock[t]
           /\ \A t \in Timer : t # top.timer \/ top.at # "store" => duration'[t] = duration[t]
           /\ \A t \in Timer : mask'[t] => mask[t]
           /\ ~HandlerMask => mask' = mask
           /\ Return \/ \E f \in Frame : Goto(f) /\ f.timer = top.timer
           /\ ~HandlerStore => duration' = duration /\ torn' = torn
<1> USE DEF main, ledger
<1>1. CASE HandlerTest
  BY <1>1, TestMoves DEF hw
<1>2. CASE HandlerLoad
  BY <1>2, ReadMoves DEF hw, HandlerLoad
<1>3. CASE HandlerStore
  <2>1. /\ stack # <<>> /\ top \in Frame /\ UNCHANGED <<hw, resetPin, main, ledger>>
        /\ top.at = "store"
        /\ duration' = [duration EXCEPT ![top.timer][top.k] = Pred(top.val)[top.k]]
        /\ Return \/ \E f \in Frame : Goto(f) /\ f.timer = top.timer
    BY <1>3, StoreMoves
  <2>2. \A t \in Timer : t # top.timer => duration'[t] = duration[t]
    BY <2>1 DEF TypeOK
  <2> QED
    BY <1>3, <2>1, <2>2 DEF hw
<1>4. CASE HandlerMask \/ HandlerStop \/ HandlerPortRead
  BY <1>4, ExpiryMoves DEF TypeOK
<1>5. CASE HandlerPortWrite
  BY <1>5, PortWriteMoves
<1> QED
  BY <1>1, <1>2, <1>3, <1>4, <1>5 DEF Handler

(* The frames after a handler step: one that was there before, in the same  *)
(* order, or the one with which the innermost goes on.                      *)
LEMMA FramesAfter ==
    ASSUME TypeOK, Handler
    PROVE  \/ /\ Return /\ Len(stack') = Len(stack) - 1
              /\ \A i \in 1..Len(stack') : i + 1 \in 1..Len(stack) /\ i + 1 # 1 /\ stack'[i] = stack[i + 1]
           \/ \E f \in Frame : /\ Goto(f) /\ f.timer = top.timer
                               /\ Len(stack') = Len(stack) /\ stack'[1] = f
                               /\ \A i \in 1..Len(stack') : i \in 1..Len(stack) /\ (i = 1 \/ stack'[i] = stack[i])
<1>1. stack # <<>> /\ top \in Frame /\ (Return \/ \E f \in Frame : Goto(f) /\ f.timer = top.timer)
  BY HandlerMoves
<1>2. Len(stack) \in Nat
  BY <1>1, TopFrame
<1>3. CASE Return
  <2>1. /\ Len(stack') = Len(stack) - 1
        /\ \A i \in 1..Len(stack') : i + 1 \in 2..Len(stack) /\ stack'[i] = stack[i + 1]
    BY <1>1, <1>3, AfterReturn
  <2>2. \A i : i + 1 \in 2..Len(stack) => i + 1 \in 1..Len(stack) /\ i + 1 # 1
    BY <1>2
  <2> QED
    BY <1>3, <2>1, <2>2
<1>4. ASSUME NEW f \in Frame, Goto(f), f.timer = top.timer
      PROVE  /\ Len(stack') = Len(stack) /\ stack'[1] = f
             /\ \A i \in 1..Len(stack') : i \in 1..Len(stack) /\ (i = 1 \/ stack'[i] = stack[i])
  <2>1. /\ Len(stack') = Len(stack) /\ stack'[1] = f
        /\ \A i \in 2..Len(stack) : stack'[i] = stack[i]
    BY <1>1, <1>4, AfterGoto
  <2>2. \A i \in 1..Len(stack) : i = 1 \/ i \in 2..Len(stack)
    BY <1>2
  <2> QED
    BY <2>1, <2>2
<1> QED
  BY <1>1, <1>3, <1>4

(* What the innermost handler goes on with counts only if it counted.       *)
LEMMA StillCounting ==
    ASSUME TypeOK, Handler, NEW f \in Frame, Goto(f), f.timer = top.timer, f.at \in Counting
    PROVE  top.at \in Counting
<1>1. stack # <<>>
  BY HandlerMoves
<1>2. \A g \in Frame : Goto(g) /\ g.timer = top.timer => g = f
  BY <1>1, AfterGoto
<1>3. CASE HandlerTest \/ HandlerLoad \/ HandlerStore
  BY <1>3 DEF HandlerTest, HandlerLoad, HandlerRead, HandlerStore, At, Counting
<1>4. CASE HandlerMask \/ HandlerStop \/ HandlerPortRead
  <2>1. \/ f.at \in {"stop", "port_read", "port_write"}
        \/ Return
    BY <1>2, <1>4, ExpiryMoves
  <2>2. ~Return
    BY <1>1, AfterGoto, AfterReturn, TopFrame
  <2> QED
    BY <2>1, <2>2 DEF Counting
<1>5. CASE HandlerPortWrite
  <2>1. Return
    BY <1>5, PortWriteMoves
  <2> QED
    BY <1>1, <2>1, AfterGoto, AfterReturn, TopFrame
<1> QED
  BY <1>3, <1>4, <1>5 DEF Handler

LEMMA HandlerParted == TypeOK /\ Parted /\ Handler => Parted'
<1> SUFFICES ASSUME TypeOK, Parted, Handler PROVE Parted'
  OBVIOUS
<1>1. /\ stack # <<>> /\ top \in Frame /\ UNCHANGED <<tim, pc, k, nested>>
      /\ \A t \in Timer : t # top.timer => duration'[t] = duration[t] /\ mask'[t] = mask[t]
      /\ \A t \in Timer : mask'[t] => mask[t]
  BY HandlerMoves
<1>2. top = stack[1] /\ Len(stack) \in Nat /\ 1 \in 1..Len(stack) /\ top.timer \in Timer
  BY <1>1, TopFrame DEF Frame
<1>3. Apart'
  <2> SUFFICES ASSUME NEW t \in Timer, ~nested[t], NEW i \in 1..Len(stack'), NEW j \in 1..Len(stack'),
                      stack'[i].timer = t, stack'[i].at \in Counting, stack'[j].timer = t
               PROVE  i <= j
    BY <1>1 DEF Apart
  <2>1. CASE Return
    <3>1. \A m \in 1..Len(stack') : m + 1 \in 1..Len(stack) /\ stack'[m] = stack[m + 1]
      <4>1. stack' # stack
        BY <1>1, <2>1, AfterReturn, TopFrame
      <4> QED
        BY <1>1, <1>2, <2>1, AfterReturn
    <3>2. i + 1 <= j + 1
      BY <3>1 DEF Parted, Apart
    <3> QED
      BY <3>2
  <2>2. ASSUME NEW f \in Frame, Goto(f), f.timer = top.timer, stack'[1] = f,
               \A m \in 1..Len(stack') : m \in 1..Len(stack) /\ (m = 1 \/ stack'[m] = stack[m])
        PROVE  i <= j
    <3>1. \A m \in 1..Len(stack') : stack'[m].timer = stack[m].timer
      BY <1>2, <2>2
    <3>2. stack[i].at \in Counting
      BY <1>2, <2>2, StillCounting
    <3> QED
      BY <2>2, <3>1, <3>2 DEF Parted, Apart
  <2> QED
    BY <2>1, <2>2, FramesAfter
<1>4. Quiet'
  <2> SUFFICES ASSUME NEW t \in Timer, ~nested[t], ~mask'[t], Has(t, Counting)' PROVE FALSE
    BY <1>1 DEF Quiet
  <2>1. Has(t, Counting)
    <3>1. CASE Return
      BY <1>1, <3>1, AfterReturn
    <3>2. ASSUME NEW f \in Frame, Goto(f), f.timer = top.timer PROVE Has(t, Counting)
      <4>1. Has(t, Counting) \/ (t = top.timer /\ f.at \in Counting)
        BY <1>1, <3>2, AfterGoto
      <4>2. f.at \in Counting => top.at \in Counting
        BY <3>2, StillCounting
      <4> QED
        BY <1>2, <4>1, <4>2 DEF Has
    <3> QED
      BY <3>1, <3>2, FramesAfter
  <2>2. mask[t]
    BY <2>1 DEF Parted, Quiet
  <2>3. t = top.timer /\ HandlerMask
    BY <1>1, <2>2, HandlerMoves
  <2>4. top.at = "mask"
    BY <2>3 DEF HandlerMask, At
  <2>5. PICK i \in 1..Len(stack) : stack[i].timer = t /\ stack[i].at \in Counting
    BY <2>1 DEF Has
  <2>6. i <= 1
    BY <1>2, <2>3, <2>5 DEF Parted, Apart
  <2>7. i = 1
    BY <2>6, <1>2
  <2> QED
    BY <1>2, <2>4, <2>5, <2>7 DEF Counting
<1>5. pc \in {"clock_off", "zero"} => tim # top.timer
  BY <1>2 DEF Parted, Alone
<1>6. Alone'
  <2>1. \A i \in 1..Len(stack') : \E j \in 1..Len(stack) : stack'[i].timer = stack[j].timer
    <3>1. CASE Return
      BY <1>1, <3>1, FramesAfter, AfterReturn
    <3>2. ASSUME NEW f \in Frame, Goto(f), f.timer = top.timer, stack'[1] = f,
                 \A m \in 1..Len(stack') : m \in 1..Len(stack) /\ (m = 1 \/ stack'[m] = stack[m])
          PROVE  \A i \in 1..Len(stack') : \E j \in 1..Len(stack) : stack'[i].timer = stack[j].timer
      BY <1>2, <3>2
    <3> QED
      BY <3>1, <3>2, FramesAfter
  <2> QED
    BY <1>1, <2>1 DEF Parted, Alone, TypeOK
<1>7. FromStart'
  BY <1>1, <1>5 DEF Parted, FromStart, TypeOK
<1> QED
  BY <1>3, <1>4, <1>6, <1>7 DEF Parted

(* Read one byte further, a frame agrees with the duration one byte further. *)
LEMMA ReadAgrees ==
    ASSUME TypeOK, stack # <<>>, Sound(top), top.at \in {"test", "load"}
    PROVE  /\ \A j \in 1..top.k : Read[j] = duration[top.timer][j]
           /\ ~(top.k < Width) => Read = duration[top.timer]
<1>1. top \in Frame /\ Read \in Word /\ duration[top.timer] \in Word
  <2>1. top \in Frame
    BY TopFrame
  <2>2. duration[top.timer] \in Word /\ top.val \in Word /\ top.k \in 1..Width
    BY <2>1 DEF Frame, TypeOK
  <2> QED
    BY <2>1, <2>2 DEF Read, Word
<1>2. top.k \in 1..Width /\ top.val \in Word
  BY <1>1 DEF Frame
<1>3. \A j \in 1..top.k : j = top.k \/ j \in 1 .. top.k - 1
  BY <1>2
<1>4. \A j \in 1..top.k : j \in 1..Width
  BY <1>2, WidthAssumption
<1>5. \A j \in 1..top.k : Read[j] = duration[top.timer][j]
  BY <1>2, <1>3, <1>4 DEF Read, Sound, Word
<1>6. ASSUME ~(top.k < Width) PROVE Read = duration[top.timer]
  <2>1. top.k = Width
    BY <1>2, <1>6, WidthAssumption
  <2> QED
    BY <1>1, <1>5, <2>1, SameWord
<1> QED
  BY <1>5, <1>6

LEMMA SameFrame ==
    ASSUME TypeOK, stack # <<>>, NEW f \in Frame, NEW g \in Frame, Goto(f), Goto(g),
           f.timer = top.timer, g.timer = top.timer
    PROVE  f = g
BY AfterGoto

LEMMA GoesOn ==
    ASSUME TypeOK, stack # <<>>, NEW f \in Frame, Goto(f), f.timer = top.timer
    PROVE  ~Return
<1>1. ASSUME Return PROVE FALSE
  <2>1. Len(stack') = Len(stack) /\ Len(stack') = Len(stack) - 1
    BY <1>1, AfterReturn, AfterGoto
  <2> QED
    BY <2>1, TopFrame
<1> QED
  BY <1>1

(* The frame with which a handler goes on is sound.                         *)
LEMMA NextFrameSound ==
    ASSUME TypeOK, Sound(top), Handler, NEW f \in Frame, Goto(f), f.timer = top.timer
    PROVE  Sound(f)'
<1>1. stack # <<>> /\ top \in Frame
  BY HandlerMoves
<1>4. f.k \in 1..Width /\ top.k \in 1..Width /\ top.timer \in Timer
  BY <1>1 DEF Frame
<1>5. ASSUME NEW l \in {"test", "load"}, NEW n \in {"mask", "load", "store"}, top.at = l,
             duration' = duration, l = "test" => n = AfterTest(Read), l = "load" => n = "store",
             IF top.k < Width THEN f.at = l /\ f.k = top.k + 1 /\ f.val = Read
             ELSE f.at = n /\ f.k = 1 /\ (n = "store" => f.val = Read)
      PROVE  Sound(f)'
  <2>1. /\ \A j \in 1..top.k : Read[j] = duration[top.timer][j]
        /\ ~(top.k < Width) => Read = duration[top.timer]
    BY <1>1, <1>5, ReadAgrees
  <2>2. CASE top.k < Width
    <3>1. f.at = l /\ f.k - 1 = top.k /\ f.val = Read
      BY <1>4, <1>5, <2>2, WidthAssumption
    <3>2. l = "load" => duration[top.timer] # Zero
      BY <1>5 DEF Sound
    <3> QED
      BY <1>5, <2>1, <3>1, <3>2 DEF Sound
  <2>3. CASE ~(top.k < Width)
    <3>1. f.at = n /\ f.k = 1 /\ (n = "store" => f.val = Read) /\ Read = duration[top.timer]
      BY <1>5, <2>1, <2>3
    <3>2. CASE n = "mask" \/ n = "load"
      <4>1. n = "load" => duration[top.timer] # Zero
        BY <1>5, <3>1, <3>2 DEF AfterTest
      <4>2. \A j : j \notin 1 .. 1 - 1
        OBVIOUS
      <4> QED
        BY <1>5, <3>1, <3>2, <4>1, <4>2 DEF Sound
    <3>3. CASE n = "store"
      <4>1. l = "load" /\ duration[top.timer] # Zero
        BY <1>5, <3>3 DEF Sound, AfterTest
      <4>4. \A j \in 1..Width : ~(j < 1)
        OBVIOUS
      <4>6. \A j \in 1..Width : duration'[f.timer][j] = IF j < f.k THEN Pred(f.val)[j] ELSE f.val[j]
        BY <1>5, <3>1, <3>3, <4>4
      <4>7. f.val # Zero /\ f.at = "store"
        BY <3>1, <3>3, <4>1
      <4> QED
        BY <4>6, <4>7 DEF Sound
    <3> QED
      BY <1>5, <3>2, <3>3
  <2> QED
    BY <2>2, <2>3
<1>6. CASE HandlerTest
  <2>1. PICK g \in Frame :
            /\ Goto(g) /\ g.timer = top.timer
            /\ IF top.k < Width THEN g.at = "test" /\ g.k = top.k + 1 /\ g.val = Read
               ELSE g.at = AfterTest(Read) /\ g.k = 1
    BY <1>6, TestMoves
  <2>2. f = g
    BY <1>1, <2>1, SameFrame
  <2>3. PICK n \in {"mask", "load"} : n = AfterTest(Read)
    BY DEF AfterTest
  <2>4. top.at = "test" /\ duration' = duration
    BY <1>6, TestMoves
  <2> QED
    BY <1>5, <2>1, <2>2, <2>3, <2>4
<1>7. CASE HandlerLoad
  <2>1. PICK g \in Frame :
            /\ Goto(g) /\ g.timer = top.timer
            /\ IF top.k < Width THEN g.at = "load" /\ g.k = top.k + 1 /\ g.val = Read
               ELSE g.at = "store" /\ g.k = 1 /\ g.val = Read
    BY <1>7, ReadMoves DEF HandlerLoad
  <2>2. f = g
    BY <1>1, <2>1, SameFrame
  <2>3. top.at = "load" /\ duration' = duration
    BY <1>7, ReadMoves DEF HandlerLoad
  <2> QED
    BY <1>5, <2>1, <2>2, <2>3
<1>8. CASE HandlerStore /\ top.k < Width
  <2>1. PICK g \in Frame : Goto(g) /\ g.timer = top.timer /\ g.at = "store" /\ g.k = top.k + 1 /\ g.val = top.val
    BY <1>8, StoreMoves
  <2>2. f = g
    BY <1>1, <2>1, SameFrame
  <2>3. top.at = "store" /\ duration' = [duration EXCEPT ![top.timer][top.k] = Pred(top.val)[top.k]]
    BY <1>8, StoreMoves
  <2>4. /\ top.val # Zero
        /\ \A j \in 1..Width :
               duration[top.timer][j] = IF j < top.k THEN Pred(top.val)[j] ELSE top.val[j]
    BY <2>3 DEF Sound
  <2>5. ASSUME NEW j \in 1..Width
        PROVE  duration'[top.timer][j] = IF j < top.k + 1 THEN Pred(top.val)[j] ELSE top.val[j]
    <3>1. duration[top.timer] \in Word
      BY <1>4 DEF TypeOK
    <3>2. duration'[top.timer][j] = IF j = top.k THEN Pred(top.val)[top.k] ELSE duration[top.timer][j]
      BY <1>4, <2>3, <3>1 DEF TypeOK, Word
    <3> QED
      BY <1>4, <2>4, <3>2
  <2>6. f.at = "store" /\ f.timer = top.timer /\ f.val = top.val /\ f.k = top.k + 1
    BY <2>1, <2>2
  <2>8. \A j \in 1..Width : duration'[f.timer][j] = IF j < f.k THEN Pred(f.val)[j] ELSE f.val[j]
    BY <2>5, <2>6
  <2> QED
    BY <2>4, <2>6, <2>8 DEF Sound
<1>9. ~(HandlerStore /\ ~(top.k < Width)) /\ ~HandlerPortWrite
  BY <1>1, GoesOn, StoreMoves, PortWriteMoves
<1>10. CASE HandlerMask \/ HandlerStop \/ HandlerPortRead
  <2>1. PICK g \in Frame : /\ Goto(g) /\ g.timer = top.timer
                           /\ g.at \in {"stop", "port_read", "port_write"}
    BY <1>1, <1>10, ExpiryMoves, GoesOn
  <2>2. f.at \in {"stop", "port_read", "port_write"}
    BY <1>1, <2>1, SameFrame
  <2> QED
    BY <2>2 DEF Sound
<1> QED
  BY <1>6, <1>7, <1>8, <1>9, <1>10 DEF Handler

(* The last byte of a decrement makes the duration one less.                *)
LEMMA StoredAll ==
    ASSUME TypeOK, Sound(top), HandlerStore, ~(top.k < Width)
    PROVE  duration'[top.timer] = Pred(top.val) /\ top.val \in Word /\ top.val # Zero
<1>1. /\ top \in Frame /\ top.at = "store" /\ Pred(top.val) \in Word
      /\ duration' = [duration EXCEPT ![top.timer][top.k] = Pred(top.val)[top.k]]
      /\ duration' \in [Timer -> Word]
  BY StoreMoves
<1>2. top.timer \in Timer /\ top.k = Width /\ top.val \in Word
  BY <1>1, WidthAssumption DEF Frame
<1>3. /\ top.val # Zero
      /\ \A j \in 1..Width : duration[top.timer][j] = IF j < Width THEN Pred(top.val)[j] ELSE top.val[j]
  BY <1>1, <1>2 DEF Sound
<1>4. ASSUME NEW j \in 1..Width PROVE duration'[top.timer][j] = Pred(top.val)[j]
  <2>1. j = Width \/ j < Width
    BY WidthAssumption
  <2>2. duration[top.timer] \in Word
    BY <1>2 DEF TypeOK
  <2>3. duration'[top.timer] = [duration[top.timer] EXCEPT ![Width] = Pred(top.val)[Width]]
    BY <1>1, <1>2 DEF TypeOK
  <2> QED
    BY <1>3, <2>1, <2>2, <2>3 DEF Word
<1>5. duration'[top.timer] \in Word
  BY <1>1, <1>2
<1> QED
  BY <1>1, <1>2, <1>3, <1>4, <1>5, SameWord

LEMMA HandlerCounted == TypeOK /\ Parted /\ Counted /\ Handler => Counted'
<1> SUFFICES ASSUME TypeOK, Parted, Counted, Handler PROVE Counted'
  OBVIOUS
<1>1. /\ stack # <<>> /\ top \in Frame /\ UNCHANGED nested
      /\ \A t \in Timer : t # top.timer \/ top.at # "store" => duration'[t] = duration[t]
  BY HandlerMoves
<1>2. top = stack[1] /\ Len(stack) \in Nat /\ 1 \in 1..Len(stack) /\ top.timer \in Timer
  BY <1>1, TopFrame DEF Frame
<1>3. ASSUME NEW i \in 1..Len(stack'), NEW h \in 1..Len(stack), h # 1, stack'[i] = stack[h],
             ~nested[stack[h].timer]
      PROVE  Sound(stack[i])'
  <2>1. stack[h] \in Frame
    BY DEF TypeOK
  <2>2. PICK g \in Frame : g = stack[h]
    BY <2>1
  <2>3. Sound(g) /\ g.timer \in Timer
    BY <1>3, <2>2 DEF Counted, Frame
  <2>4. CASE g.at \in Counting
    <3>1. g.timer # top.timer \/ top.at # "store"
      <4>1. SUFFICES ASSUME g.timer = top.timer, top.at = "store" PROVE FALSE
        OBVIOUS
      <4>2. h <= 1
        BY <1>2, <1>3, <2>2, <2>4, <4>1 DEF Parted, Apart
      <4> QED
        BY <1>3, <4>2
    <3>2. duration'[g.timer] = duration[g.timer]
      BY <1>1, <2>3, <3>1
    <3> QED
      BY <1>3, <2>2, <2>3, <3>2 DEF Sound
  <2>5. CASE g.at \notin Counting
    BY <1>3, <2>2, <2>5 DEF Sound, Counting
  <2> QED
    BY <2>4, <2>5
<1>4. ASSUME NEW i \in 1..Len(stack'), ~nested[stack'[i].timer] PROVE Sound(stack[i])'
  <2>1. CASE /\ Return /\ Len(stack') = Len(stack) - 1
             /\ \A j \in 1..Len(stack') : j + 1 \in 1..Len(stack) /\ j + 1 # 1 /\ stack'[j] = stack[j + 1]
    <3>1. PICK h \in 1..Len(stack) : h # 1 /\ stack'[i] = stack[h]
      BY <2>1
    <3> QED
      BY <1>3, <1>4, <3>1
  <2>2. ASSUME NEW f \in Frame, Goto(f), f.timer = top.timer, stack'[1] = f,
               \A j \in 1..Len(stack') : j \in 1..Len(stack) /\ (j = 1 \/ stack'[j] = stack[j])
        PROVE  Sound(stack[i])'
    <3>1. CASE i = 1
      <4>1. ~nested[top.timer]
        BY <1>4, <2>2, <3>1
      <4>2. Sound(top)
        BY <1>2, <4>1 DEF Counted
      <4>3. Sound(f)'
        BY <2>2, <4>2, NextFrameSound
      <4> QED
        BY <2>2, <3>1, <4>3 DEF Sound
    <3>2. CASE i # 1
      BY <1>3, <1>4, <2>2, <3>2
    <3> QED
      BY <3>1, <3>2
  <2> QED
    BY <2>1, <2>2, FramesAfter
<1> QED
  BY <1>1, <1>4 DEF Counted

LEMMA TimerParted ==
    ASSUME TypeOK, Parted, Counted, NEW t \in Timer, Match(t) \/ Vector(t)
    PROVE  Parted' /\ Counted'
<1>1. CASE Match(t)
  BY <1>1 DEF Match, main, Parted, Apart, Quiet, Alone, FromStart, Counted, Sound, Has
<1>2. CASE Vector(t)
  <2>1. /\ UNCHANGED <<mask, duration, tim, pc, k>> /\ mask[t]
        /\ nested' = [nested EXCEPT ![t] = @ \/ Has(t, Counting)]
    BY <1>2 DEF Vector, main
  <2>2. /\ Len(stack) \in Nat /\ Len(stack') = Len(stack) + 1
        /\ stack'[1].timer = t /\ stack'[1].at = "test" /\ stack'[1].k = 1
        /\ \A i \in 1..Len(stack) : stack'[i + 1] = stack[i]
        /\ \A u, L : Has(u, L)' => Has(u, L) \/ (u = t /\ "test" \in L)
    BY <1>2, AfterVector
  <2>3. ASSUME NEW i \in 1..Len(stack')
        PROVE  i = 1 \/ (i - 1 \in 1..Len(stack) /\ stack'[i] = stack[i - 1])
    <3>1. i = 1 \/ (i - 1 \in 1..Len(stack) /\ (i - 1) + 1 = i)
      BY <2>2
    <3> QED
      BY <2>2, <3>1
  <2>n. \A u \in Timer : ~nested'[u] => ~nested[u] /\ (u = t => ~Has(t, Counting))
    BY <2>1 DEF TypeOK
  <2>4. Apart'
    <3> SUFFICES ASSUME NEW u \in Timer, ~nested'[u], NEW i \in 1..Len(stack'), NEW j \in 1..Len(stack'),
                        stack'[i].timer = u, stack'[i].at \in Counting, stack'[j].timer = u
                 PROVE  i <= j
      BY DEF Apart
    <3>1. CASE i = 1
      BY <3>1
    <3>2. CASE i # 1
      <4>1. i - 1 \in 1..Len(stack) /\ stack'[i] = stack[i - 1]
        BY <2>3, <3>2
      <4>2. u # t
        BY <2>n, <4>1 DEF Has
      <4>3. j - 1 \in 1..Len(stack) /\ stack'[j] = stack[j - 1]
        BY <2>2, <2>3, <4>2
      <4>4. i - 1 <= j - 1
        BY <2>n, <4>1, <4>3 DEF Parted, Apart
      <4> QED
        BY <4>4
    <3> QED
      BY <3>1, <3>2
  <2>5. Quiet'
    BY <2>1, <2>2, <2>n DEF Parted, Quiet
  <2>6. Alone'
    <3>1. SUFFICES ASSUME pc \in {"clock_off", "zero"}
                   PROVE  ~mask[tim] /\ \A i \in 1..Len(stack') : stack'[i].timer # tim
      BY <2>1 DEF Alone
    <3>2. ~mask[tim] /\ t # tim /\ \A i \in 1..Len(stack) : stack[i].timer # tim
      BY <2>1, <3>1 DEF Parted, Alone
    <3> QED
      BY <2>2, <2>3, <3>2
  <2>7. FromStart'
    BY <2>1 DEF Parted, FromStart
  <2>8. ASSUME NEW i \in 1..Len(stack'), ~nested'[stack'[i].timer] PROVE Sound(stack[i])'
    <3>1. CASE i = 1
      <4>1. \A j : j \notin 1 .. 1 - 1
        OBVIOUS
      <4> QED
        BY <2>2, <3>1, <4>1 DEF Sound
    <3>2. CASE i # 1
      <4>1. i - 1 \in 1..Len(stack) /\ stack'[i] = stack[i - 1]
        BY <2>3, <3>2
      <4>2. stack[i - 1].timer \in Timer
        <5>1. stack[i - 1] \in Frame
          BY <4>1 DEF TypeOK
        <5> QED
          BY <5>1 DEF Frame
      <4>3. ~nested[stack[i - 1].timer]
        BY <2>n, <2>8, <4>1, <4>2
      <4>4. Sound(stack[i - 1])
        BY <4>1, <4>3 DEF Counted
      <4> QED
        BY <2>1, <4>1, <4>4 DEF Sound
    <3> QED
      BY <3>1, <3>2
  <2> QED
    BY <2>4, <2>5, <2>6, <2>7, <2>8 DEF Parted, Counted
<1> QED
  BY <1>1, <1>2

LEMMA EntersParted ==
    ASSUME TypeOK, Parted, Counted, Enters PROVE Parted' /\ Counted'
<1>1. /\ UNCHANGED <<hw, duration, resetPin, stack, nested>> /\ stack = <<>> /\ k' = 1
      /\ pc' \in {"ctc", "cs_clear", "mask_off", "test"}
  BY EntersMove
<1>2. \A i : i \notin 1..Len(stack)
  BY <1>1
<1> QED
  BY <1>1, <1>2 DEF Parted, Apart, Quiet, Alone, FromStart, Counted, Has, hw

(* A duration the main program stores byte by byte.                         *)
LEMMA StoresByte ==
    ASSUME TypeOK, NEW d \in Word, NEW l, NEW m, StoreByte(l, d, m)
    PROVE  /\ pc = l /\ stack = <<>> /\ UNCHANGED <<stack, tim>>
           /\ \A t \in Timer : t # tim => duration'[t] = duration[t]
           /\ \A j \in 1..Width : duration'[tim][j] = IF j = k THEN d[j] ELSE duration[tim][j]
           /\ duration'[tim] \in Word
           /\ k < Width => k' = k + 1 /\ pc' = l
           /\ ~(k < Width) => k' = 1 /\ pc' = m /\ k = Width
<1>1. /\ duration' = [duration EXCEPT ![tim][k] = d[k]] /\ k' = (IF k < Width THEN k + 1 ELSE 1)
      /\ pc' = (IF k < Width THEN l ELSE m) /\ pc = l /\ stack = <<>> /\ UNCHANGED <<stack, tim>>
  BY DEF StoreByte, Step
<1>2. duration[tim] \in Word /\ k \in 1..Width /\ tim \in Timer
  BY DEF TypeOK
<1>3. \A t \in Timer : t # tim => duration'[t] = duration[t]
  BY <1>1 DEF TypeOK
<1>4. duration'[tim] = [duration[tim] EXCEPT ![k] = d[k]]
  BY <1>1, <1>2 DEF TypeOK
<1>5. \A j \in 1..Width : duration'[tim][j] = IF j = k THEN d[j] ELSE duration[tim][j]
  BY <1>2, <1>4 DEF Word
<1>6. duration'[tim] \in Word
  BY <1>2, ByteStored
<1>7. ~(k < Width) => k = Width
  BY <1>2, WidthAssumption
<1> QED
  BY <1>1, <1>3, <1>5, <1>6, <1>7

LEMMA CallStepMoves ==
    ASSUME CallStep
    PROVE  stack = <<>> /\ UNCHANGED <<stack, tim>>
BY DEF CallStep, InitCtc, InitPin, MaskOff, ClockOff, StoreZero, ClearClock, StartClock,
       ClearCounter, StoreDuration, EnableInterrupt, Test, Spin, StoreByte, Step

LEMMA CallStepParted ==
    ASSUME TypeOK, Parted, Counted, CallStep PROVE Parted' /\ Counted'
<1>1. stack = <<>> /\ UNCHANGED <<stack, tim>>
  BY CallStepMoves
<1>2. \A i : i \notin 1..Len(stack)
  BY <1>1
<1>3. Apart' /\ Quiet' /\ Counted'
  BY <1>1, <1>2 DEF Apart, Quiet, Counted, Has
<1>4. FromStart /\ (pc \in {"clock_off", "zero"} => ~mask[tim])
  BY DEF Parted, Alone
<1>5. SUFFICES FromStart' /\ (pc' \in {"clock_off", "zero"} => ~mask'[tim])
  BY <1>1, <1>2, <1>3 DEF Parted, Alone
<1> USE DEF Step, hw
<1>6. CASE InitCtc \/ InitPin
  BY <1>1, <1>4, <1>6 DEF InitCtc, InitPin, FromStart
<1>7. CASE MaskOff
  BY <1>1, <1>4, <1>7 DEF MaskOff, FromStart, TypeOK
<1>8. CASE ClockOff \/ Test
  <2>1. \A j : j \notin 1 .. 1 - 1
    OBVIOUS
  <2> QED
    BY <1>1, <1>4, <1>8, <2>1 DEF ClockOff, Test, FromStart
<1>9. CASE StoreZero
  <2>1. UNCHANGED mask
    BY <1>9 DEF StoreZero
  <2>2. PICK m \in {"cs_clear", "idle"} : m = IF call = "beeper_beep" THEN "cs_clear" ELSE "idle"
    OBVIOUS
  <2>3. StoreByte("zero", Zero, m)
    BY <1>9, <2>2 DEF StoreZero
  <2>4. /\ pc = "zero"
        /\ \A j \in 1..Width : duration'[tim][j] = IF j = k THEN Zero[j] ELSE duration[tim][j]
        /\ k < Width => k' = k + 1 /\ pc' = "zero"
        /\ ~(k < Width) => k' = 1 /\ pc' = m
    BY <2>3, ZeroType, StoresByte
  <2>5. CASE k < Width
    <3>1. k' - 1 = k /\ k' # 1 /\ \A j \in 1..k : j \in 1..Width /\ (j = k \/ j \in 1 .. k - 1)
      BY <2>4, <2>5, WidthAssumption DEF TypeOK
    <3>2. \A j \in 1 .. k' - 1 : duration'[tim][j] = 0
      BY <1>4, <2>4, <3>1 DEF FromStart, Zero
    <3> QED
      BY <1>1, <1>4, <2>1, <2>4, <2>5, <3>2 DEF FromStart
  <2>6. CASE ~(k < Width)
    BY <2>2, <2>4, <2>6 DEF FromStart
  <2> QED
    BY <2>5, <2>6
<1>10. CASE ClearClock \/ StartClock
  BY <1>1, <1>4, <1>10 DEF ClearClock, StartClock, FromStart
<1>11. CASE ClearCounter
  BY <1>1, <1>4, <1>11 DEF ClearCounter, FromStart
<1>12. CASE StoreDuration
  <2>1. acc \in Word /\ StoreByte("duration", acc, "enable")
    BY <1>12 DEF StoreDuration, TypeOK
  <2>2. pc' \in {"duration", "enable"} /\ (pc' = "enable" => k' = 1)
    BY <2>1, StoresByte
  <2> QED
    BY <2>2 DEF FromStart
<1>13. CASE EnableInterrupt
  BY <1>1, <1>4, <1>13 DEF EnableInterrupt, FromStart
<1>14. CASE Spin
  <2>1. pc' \in {"spin", "idle"} /\ (pc' # "spin" => k' = 1)
    BY <1>14 DEF Spin
  <2> QED
    BY <2>1 DEF FromStart
<1> QED
  BY <1>6, <1>7, <1>8, <1>9, <1>10, <1>11, <1>12, <1>13, <1>14 DEF CallStep

LEMMA InitParted == Init => Parted /\ Counted
<1> SUFFICES ASSUME Init PROVE Parted /\ Counted
  OBVIOUS
<1>1. stack = <<>> /\ pc = "idle" /\ k = 1
  BY DEF Init
<1>2. \A i : i \notin 1..Len(stack)
  BY <1>1
<1> QED
  BY <1>1, <1>2 DEF Parted, Apart, Quiet, Alone, FromStart, Counted, Has

LEMMA NextParted == TypeOK /\ Parted /\ Counted /\ [Next]_vars => Parted' /\ Counted'
<1> SUFFICES ASSUME TypeOK, Parted, Counted, [Next]_vars PROVE Parted' /\ Counted'
  OBVIOUS
<1>1. CASE UNCHANGED vars
  BY <1>1 DEF vars, hw, main, ledger, Parted, Apart, Quiet, Alone, FromStart, Counted, Sound, Has
<1>2. CASE Handler
  BY <1>2, HandlerParted, HandlerCounted
<1> QED
  BY <1>1, <1>2, TimerParted, EntersParted, CallStepParted DEF Next

-----------------------------------------------------------------------------
(* The countdown of a timer: the duration that stands, a decrement that is   *)
(* half stored counting as not done yet, and what it is about to be when the *)
(* main program stores a new one over it.                                    *)
Frames == {stack[i] : i \in 1..Len(stack)}
Others == {stack[i] : i \in 2..Len(stack)}

Stands(t, w) == IF Has(t, {"store"})
                THEN \E f \in Frames : f.timer = t /\ f.at = "store" /\ w = f.val
                ELSE w = duration[t]
Mix(n, w, d) == [i \in 1..Width |-> IF i <= n THEN w[i] ELSE d[i]]
Kept(t) == IF pc = "duration" /\ tim = t THEN k - 1 ELSE Width
Goal(t, w) == Mix(Kept(t), w, acc)

LEMMA HasFrame ==
    /\ \A t, L : Has(t, L) <=> \E f \in Frames : f.timer = t /\ f.at \in L
    /\ \A t, L : Has(t, L)' <=> \E f \in Frames' : f.timer = t /\ f.at \in L
BY DEF Has, Frames

LEMMA FramesMove ==
    ASSUME TypeOK, Handler
    PROVE  /\ stack # <<>> /\ Frames = {top} \cup Others /\ Others \subseteq Frame /\ top \in Frame
           /\ \/ Return /\ Frames' = Others
              \/ \E f \in Frame : Goto(f) /\ f.timer = top.timer /\ Frames' = {f} \cup Others
<1>1. stack # <<>> /\ (Return \/ \E f \in Frame : Goto(f) /\ f.timer = top.timer)
  BY HandlerMoves
<1>2. top = stack[1] /\ Len(stack) \in Nat /\ Len(stack) > 0 /\ top \in Frame
  BY <1>1, TopFrame
<1>3. /\ \A i \in 1..Len(stack) : i = 1 \/ i \in 2..Len(stack)
      /\ \A i \in 2..Len(stack) : i \in 1..Len(stack)
      /\ 1 \in 1..Len(stack)
  BY <1>2
<1>4. Frames = {top} \cup Others
  BY <1>2, <1>3 DEF Frames, Others
<1>5. Others \subseteq Frame
  <2>1. \A i \in 1..Len(stack) : stack[i] \in Frame
    BY DEF TypeOK
  <2> QED
    BY <1>3, <2>1 DEF Others
<1>6. CASE Return
  <2>1. /\ Len(stack') = Len(stack) - 1
        /\ \A i \in 1..Len(stack') : i + 1 \in 2..Len(stack) /\ stack'[i] = stack[i + 1]
    BY <1>1, <1>6, AfterReturn
  <2>2. ASSUME NEW i \in 2..Len(stack) PROVE i - 1 \in 1..Len(stack') /\ stack'[i - 1] = stack[i]
    <3>1. i - 1 \in 1..Len(stack') /\ (i - 1) + 1 = i
      BY <1>2, <2>1
    <3> QED
      BY <2>1, <3>1
  <2>3. Frames' \subseteq Others
    BY <2>1 DEF Frames, Others
  <2>4. Others \subseteq Frames'
    BY <2>2 DEF Frames, Others
  <2> QED
    BY <1>1, <1>2, <1>4, <1>5, <1>6, <2>3, <2>4
<1>7. ASSUME NEW f \in Frame, Goto(f), f.timer = top.timer PROVE Frames' = {f} \cup Others
  <2>1. /\ Len(stack') = Len(stack) /\ stack'[1] = f
        /\ \A i \in 2..Len(stack) : stack'[i] = stack[i]
    BY <1>1, <1>7, AfterGoto
  <2> QED
    BY <1>3, <2>1 DEF Frames, Others
<1> QED
  BY <1>1, <1>2, <1>4, <1>5, <1>6, <1>7

(* While the innermost handler counts no other of its timer does.           *)
LEMMA CountsAlone ==
    ASSUME TypeOK, Parted, stack # <<>>, ~nested[top.timer], top.at \in Counting,
           NEW f \in Others, f.timer = top.timer
    PROVE  f.at \notin Counting
<1>1. top = stack[1] /\ Len(stack) \in Nat /\ 1 \in 1..Len(stack) /\ top.timer \in Timer
  BY TopFrame DEF Frame
<1>2. PICK i \in 2..Len(stack) : f = stack[i]
  BY DEF Others
<1>3. i \in 1..Len(stack) /\ ~(i <= 1)
  BY <1>1, <1>2
<1> QED
  BY <1>1, <1>2, <1>3 DEF Parted, Apart

(* One value stands, whatever handlers there are.                           *)
LEMMA OneStands ==
    ASSUME TypeOK, Parted, NEW t \in Timer, ~nested[t]
    PROVE  \E w \in Word : \A v : Stands(t, v) <=> v = w
<1>1. CASE ~Has(t, {"store"})
  BY <1>1 DEF Stands, TypeOK
<1>2. CASE Has(t, {"store"})
  <2>1. PICK i \in 1..Len(stack) : stack[i].timer = t /\ stack[i].at = "store"
    BY <1>2 DEF Has
  <2>2. stack[i] \in Frame
    BY DEF TypeOK
  <2>3. ASSUME NEW j \in 1..Len(stack), stack[j].timer = t, stack[j].at = "store" PROVE j = i
    <3>1. i <= j /\ j <= i
      BY <2>1, <2>3 DEF Parted, Apart, Counting
    <3> QED
      BY <3>1
  <2>4. \A v : Stands(t, v) <=> v = stack[i].val
    BY <1>2, <2>1, <2>3 DEF Stands, Frames
  <2> QED
    BY <2>2, <2>4 DEF Frame
<1> QED
  BY <1>1, <1>2

(* What a step of a handler does to the countdown of a timer: nothing, or   *)
(* its handler has found it at 0, or has taken one off it.                  *)
LEMMA HandlerCounts ==
    ASSUME TypeOK, Parted, Counted, Handler, NEW t \in Timer, ~nested[t]
    PROVE  \E w \in Word :
               /\ \A v : Stands(t, v) <=> v = w
               /\ \/ /\ \A v : Stands(t, v)' <=> v = w
                     /\ Has(t, Counting)' <=> Has(t, Counting)
                     /\ Has(t, {"mask"})' => Has(t, {"mask"})
                  \/ /\ w = Zero
                     /\ \A v : Stands(t, v)' <=> v = w
                     /\ Has(t, Counting) /\ ~Has(t, Counting)'
                  \/ /\ w # Zero
                     /\ \A v : Stands(t, v)' <=> v = Pred(w)
                     /\ Has(t, Counting) /\ ~Has(t, Counting)'
                     /\ Has(t, {"mask"})' => Has(t, {"mask"})
<1>1. PICK w \in Word : \A v : Stands(t, v) <=> v = w
  BY OneStands
<1>2. /\ stack # <<>> /\ Frames = {top} \cup Others /\ Others \subseteq Frame /\ top \in Frame
      /\ \/ Return /\ Frames' = Others
         \/ \E f \in Frame : Goto(f) /\ f.timer = top.timer /\ Frames' = {f} \cup Others
  BY FramesMove
<1>3. /\ \A u \in Timer : u # top.timer \/ top.at # "store" => duration'[u] = duration[u]
      /\ UNCHANGED nested
  BY HandlerMoves
<1>4. top = stack[1] /\ 1 \in 1..Len(stack)
  BY <1>2, TopFrame
<1>5. CASE t # top.timer
  <2>1. \A L : (\E f \in Frames : f.timer = t /\ f.at \in L) <=> (\E f \in Frames' : f.timer = t /\ f.at \in L)
    BY <1>2, <1>5
  <2>2. \A L : Has(t, L)' <=> Has(t, L)
    BY <2>1, HasFrame
  <2>3. \A v : (\E f \in Frames : f.timer = t /\ f.at = "store" /\ v = f.val)
               <=> (\E f \in Frames' : f.timer = t /\ f.at = "store" /\ v = f.val)
    BY <1>2, <1>5
  <2>4. \A v : Stands(t, v)' <=> Stands(t, v)
    BY <1>3, <1>5, <2>2, <2>3 DEF Stands
  <2> QED
    BY <1>1, <2>2, <2>4
<1>6. CASE t = top.timer /\ top.at \notin Counting
  <2>1. \A f \in Frame : Goto(f) /\ f.timer = top.timer => f.at \notin Counting
    BY <1>6, StillCounting
  <2>2. "store" \in Counting /\ "test" \in Counting /\ "load" \in Counting
    BY DEF Counting
  <2>3. Has(t, Counting)' <=> Has(t, Counting)
    BY <1>2, <1>6, <2>1, HasFrame
  <2>4. Has(t, {"store"})' <=> Has(t, {"store"})
    BY <1>2, <1>6, <2>1, <2>2, HasFrame
  <2>5. \A v : (\E f \in Frames : f.timer = t /\ f.at = "store" /\ v = f.val)
               <=> (\E f \in Frames' : f.timer = t /\ f.at = "store" /\ v = f.val)
    BY <1>2, <1>6, <2>1, <2>2
  <2>6. \A v : Stands(t, v)' <=> Stands(t, v)
    BY <1>3, <1>6, <2>2, <2>4, <2>5 DEF Stands
  <2>7. Has(t, {"mask"})' => Has(t, {"mask"})
    <3>1. \A f \in Frame : Goto(f) /\ f.timer = top.timer => f.at # "mask"
      <4>1. ~HandlerTest /\ ~HandlerLoad /\ ~HandlerStore
        BY <1>6, <2>2 DEF HandlerTest, HandlerLoad, HandlerRead, HandlerStore, At
      <4>2. CASE HandlerMask \/ HandlerStop \/ HandlerPortRead
        BY <1>2, <4>2, ExpiryMoves, GoesOn, SameFrame
      <4>3. CASE HandlerPortWrite
        BY <1>2, <4>3, PortWriteMoves, GoesOn
      <4> QED
        BY <4>1, <4>2, <4>3 DEF Handler
    <3> QED
      BY <1>2, <3>1, HasFrame
  <2> QED
    BY <1>1, <2>3, <2>6, <2>7
<1>7. CASE t = top.timer /\ top.at \in Counting
  <2>1. \A f \in Others : f.timer = t => f.at \notin Counting
    BY <1>2, <1>7, CountsAlone
  <2>2. "store" \in Counting /\ "test" \in Counting /\ "load" \in Counting /\ "mask" \notin Counting
    BY DEF Counting
  <2>3. Has(t, Counting) /\ (Has(t, {"store"}) <=> top.at = "store")
    BY <1>2, <1>7, <2>1, <2>2, HasFrame
  <2>4. Sound(top)
    BY <1>4, <1>7 DEF Counted
  <2>5. w = IF top.at = "store" THEN top.val ELSE duration[t]
    <3>1. CASE top.at = "store"
      BY <1>1, <1>2, <1>7, <2>3, <3>1 DEF Stands
    <3>2. CASE top.at # "store"
      BY <1>1, <2>3, <3>2 DEF Stands
    <3> QED
      BY <3>1, <3>2
  <2>6. ASSUME NEW f \in Frame, Goto(f), f.timer = top.timer, Frames' = {f} \cup Others, f.at \in Counting
        PROVE  /\ Has(t, Counting)'
               /\ \A v : Stands(t, v)' <=> v = IF f.at = "store" THEN f.val ELSE duration'[t]
               /\ Has(t, {"mask"})' => Has(t, {"mask"})
    <3>1. Has(t, Counting)' /\ (Has(t, {"store"})' <=> f.at = "store")
      BY <1>7, <2>1, <2>2, <2>6, HasFrame
    <3>2. \A v : Stands(t, v)' <=> v = IF f.at = "store" THEN f.val ELSE duration'[t]
      <4>1. CASE f.at = "store"
        BY <1>7, <2>1, <2>2, <2>6, <3>1, <4>1 DEF Stands
      <4>2. CASE f.at # "store"
        BY <3>1, <4>2 DEF Stands
      <4> QED
        BY <4>1, <4>2
    <3>3. Has(t, {"mask"})' => Has(t, {"mask"})
      <4>1. f.at # "mask"
        BY <2>2, <2>6
      <4>2. \A g \in Frames' : g.timer = t /\ g.at \in {"mask"} => g \in Frames
        BY <1>2, <2>6, <4>1
      <4> QED
        BY <4>2, HasFrame, Zenon
    <3> QED
      BY <3>1, <3>2, <3>3
  <2>7. ASSUME \A f \in Frames' : f.timer = t => f.at \notin Counting
        PROVE  ~Has(t, Counting)' /\ \A v : Stands(t, v)' <=> v = duration'[t]
    <3>1. ~Has(t, Counting)' /\ ~Has(t, {"store"})'
      BY <2>2, <2>7, HasFrame
    <3> QED
      BY <3>1 DEF Stands
  <2>8. CASE HandlerTest
    <3>1. PICK f \in Frame :
              /\ Goto(f) /\ f.timer = top.timer
              /\ IF top.k < Width THEN f.at = "test" /\ f.k = top.k + 1 /\ f.val = Read
                 ELSE f.at = AfterTest(Read) /\ f.k = 1
      BY <2>8, TestMoves
    <3>2. Frames' = {f} \cup Others
      BY <1>2, <3>1, GoesOn, SameFrame
    <3>3. top.at = "test" /\ duration' = duration
      BY <2>8, TestMoves
    <3>4. CASE f.at \in Counting
      <4>1. f.at # "store"
        BY <3>1 DEF AfterTest
      <4> QED
        BY <1>1, <2>3, <2>5, <2>6, <3>1, <3>2, <3>3, <3>4, <4>1
    <3>5. CASE f.at \notin Counting
      <4>1. ~(top.k < Width) /\ Read = Zero
        BY <2>2, <3>1, <3>5 DEF AfterTest
      <4>2. w = Zero
        BY <1>2, <1>7, <2>4, <2>5, <3>3, <4>1, ReadAgrees
      <4>3. \A g \in Frames' : g.timer = t => g.at \notin Counting
        BY <2>1, <3>2, <3>5
      <4> QED
        BY <1>1, <2>3, <2>5, <2>7, <3>3, <4>2, <4>3
    <3> QED
      BY <3>4, <3>5
  <2>9. CASE HandlerLoad
    <3>1. PICK f \in Frame :
              /\ Goto(f) /\ f.timer = top.timer
              /\ IF top.k < Width THEN f.at = "load" /\ f.k = top.k + 1 /\ f.val = Read
                 ELSE f.at = "store" /\ f.k = 1 /\ f.val = Read
      BY <2>9, ReadMoves DEF HandlerLoad
    <3>2. Frames' = {f} \cup Others
      BY <1>2, <3>1, GoesOn, SameFrame
    <3>3. top.at = "load" /\ duration' = duration
      BY <2>9, ReadMoves DEF HandlerLoad
    <3>4. f.at \in Counting /\ (f.at = "store" => f.val = duration[t])
      BY <1>2, <1>7, <2>2, <2>4, <3>1, <3>3, ReadAgrees
    <3> QED
      BY <1>1, <2>3, <2>5, <2>6, <3>1, <3>2, <3>3, <3>4
  <2>10. CASE HandlerStore /\ top.k < Width
    <3>1. PICK f \in Frame : Goto(f) /\ f.timer = top.timer /\ f.at = "store" /\ f.k = top.k + 1 /\ f.val = top.val
      BY <2>10, StoreMoves
    <3>2. Frames' = {f} \cup Others
      BY <1>2, <3>1, GoesOn, SameFrame
    <3>3. top.at = "store"
      BY <2>10, StoreMoves
    <3> QED
      BY <1>1, <2>2, <2>3, <2>5, <2>6, <3>1, <3>2, <3>3
  <2>11. CASE HandlerStore /\ ~(top.k < Width)
    <3>1. Return /\ top.at = "store"
      BY <2>11, StoreMoves
    <3>2. Frames' = Others
      BY <1>2, <3>1, GoesOn
    <3>3. duration'[t] = Pred(top.val) /\ top.val # Zero
      BY <1>7, <2>4, <2>11, StoredAll
    <3>4. Has(t, {"mask"})' => Has(t, {"mask"})
      <4>1. Frames' \subseteq Frames
        BY <1>2, <3>2
      <4> QED
        BY <4>1, HasFrame, Zenon
    <3>5. ~Has(t, Counting)' /\ \A v : Stands(t, v)' <=> v = Pred(w)
      BY <2>1, <2>5, <2>7, <3>1, <3>2, <3>3
    <3>6. w # Zero
      BY <2>5, <3>1, <3>3
    <3> QED
      BY <1>1, <2>3, <3>4, <3>5, <3>6
  <2>12. ~HandlerMask /\ ~HandlerStop /\ ~HandlerPortRead /\ ~HandlerPortWrite
    BY <1>7 DEF HandlerMask, HandlerStop, HandlerPortRead, HandlerPortWrite, At, Counting
  <2> QED
    BY <2>8, <2>9, <2>10, <2>11, <2>12 DEF Handler
<1> QED
  BY <1>5, <1>6, <1>7

LEMMA MixType ==
    ASSUME NEW n, NEW w \in Word, NEW d \in Word PROVE Mix(n, w, d) \in Word
BY DEF Mix, Word

LEMMA MixEnds ==
    ASSUME NEW w \in Word, NEW d \in Word PROVE Mix(Width, w, d) = w /\ Mix(0, w, d) = d
<1>1. /\ \A i \in 1..Width : Mix(Width, w, d)[i] = w[i]
      /\ \A i \in 1..Width : Mix(0, w, d)[i] = d[i]
  BY WidthAssumption DEF Mix
<1>2. Mix(Width, w, d) \in Word /\ Mix(0, w, d) \in Word
  BY MixType
<1> QED
  BY <1>1, <1>2, SameWord

(* One taken off what stands is one taken off what it is about to be, unless *)
(* it borrows from a byte that is about to be overwritten: then what it is   *)
(* about to be has grown.                                                    *)
LEMMA MixPred ==
    ASSUME NEW n \in 0..Width, NEW w \in Word, NEW d \in Word
    PROVE  /\ (\E j \in 1..n : w[j] # 0) =>
                  Mix(n, w, d) # Zero /\ Mix(n, Pred(w), d) = Pred(Mix(n, w, d))
           /\ ~(\E j \in 1..n : w[j] # 0) => AtMost(Mix(n, w, d), Mix(n, Pred(w), d))
<1>1. /\ Pred(w) \in Word /\ Mix(n, w, d) \in Word /\ Mix(n, Pred(w), d) \in Word
      /\ Pred(Mix(n, w, d)) \in Word
  BY PredType, MixType
<1>2. /\ \A i \in 1..Width : Mix(n, w, d)[i] = IF i <= n THEN w[i] ELSE d[i]
      /\ \A i \in 1..Width : Mix(n, Pred(w), d)[i] = IF i <= n THEN Pred(w)[i] ELSE d[i]
  BY DEF Mix
<1>3. ASSUME NEW j \in 1..n, w[j] # 0
      PROVE  Mix(n, w, d) # Zero /\ Mix(n, Pred(w), d) = Pred(Mix(n, w, d))
  <2>1. j \in 1..Width /\ j <= n
    BY WidthAssumption
  <2>2. Mix(n, w, d)[j] = w[j] /\ Zero[j] = 0
    BY <1>2, <2>1 DEF Zero
  <2>3. Mix(n, w, d) # Zero
    BY <1>3, <2>2
  <2>4. ASSUME NEW i \in 1..Width PROVE Mix(n, Pred(w), d)[i] = Pred(Mix(n, w, d))[i]
    <3>1. CASE i <= n
      <4>1. \A m \in 1 .. i - 1 : m \in 1..Width /\ m <= n
        BY <3>1, WidthAssumption
      <4>2. \A m \in 1 .. i - 1 : Mix(n, w, d)[m] = w[m]
        BY <1>2, <4>1
      <4>3. Mix(n, w, d)[i] = w[i]
        BY <1>2, <3>1
      <4>4. Pred(Mix(n, w, d))[i] = Pred(w)[i]
        BY <4>2, <4>3 DEF Pred
      <4> QED
        BY <1>2, <3>1, <4>4
    <3>2. CASE ~(i <= n)
      <4>1. j \in 1 .. i - 1
        BY <2>1, <3>2, WidthAssumption
      <4>2. ~(\A m \in 1 .. i - 1 : Mix(n, w, d)[m] = 0)
        BY <1>3, <2>2, <4>1
      <4>3. Pred(Mix(n, w, d))[i] = Mix(n, w, d)[i]
        BY <4>2 DEF Pred
      <4> QED
        BY <1>2, <3>2, <4>3
    <3> QED
      BY <3>1, <3>2
  <2> QED
    BY <1>1, <2>3, <2>4, SameWord
<1>4. ASSUME \A j \in 1..n : w[j] = 0 PROVE AtMost(Mix(n, w, d), Mix(n, Pred(w), d))
  <2>1. ASSUME NEW i \in 1..Width PROVE Mix(n, w, d)[i] <= Mix(n, Pred(w), d)[i]
    <3>1. CASE i <= n
      <4>1. w[i] = 0 /\ Pred(w)[i] \in 0 .. Base - 1
        <5>1. i \in 1..n
          BY <3>1, WidthAssumption
        <5> QED
          BY <1>1, <1>4, <5>1 DEF Word
      <4> QED
        BY <1>2, <3>1, <4>1, WidthAssumption
    <3>2. CASE ~(i <= n)
      <4>1. d[i] \in 0 .. Base - 1
        BY DEF Word
      <4> QED
        BY <1>2, <3>2, <4>1, WidthAssumption
    <3> QED
      BY <3>1, <3>2
  <2> QED
    BY <1>1, <2>1, Bytewise
<1> QED
  BY <1>3, <1>4

LEMMA KeptType == ASSUME TypeOK, NEW t PROVE Kept(t) \in 0..Width /\ (Kept(t) # Width => pc = "duration" /\ tim = t)
BY WidthAssumption DEF TypeOK, Kept

(* Without a handler the duration stands.                                   *)
LEMMA NoHandler ==
    ASSUME stack = <<>>, stack' = stack
    PROVE  /\ \A t, L : ~Has(t, L) /\ ~Has(t, L)'
           /\ \A t, w : Stands(t, w) <=> w = duration[t]
           /\ \A t, w : Stands(t, w)' <=> w = duration'[t]
<1>1. \A i : i \notin 1..Len(stack)
  OBVIOUS
<1>2. \A t, L : ~Has(t, L) /\ ~Has(t, L)'
  BY <1>1 DEF Has
<1> QED
  BY <1>2 DEF Stands

-----------------------------------------------------------------------------
(* No countdown is above what was asked for; the bytes that the main program *)
(* has still to store are 0 as long as a handler may count.                  *)
Overwritten(t) == tim = t /\ pc \in {"mask_off", "clock_off", "zero"}
Ceiling == \A t \in Timer :
               nested[t] \/ over[t] \/ Overwritten(t)
               \/ \A w \in Word : Stands(t, w) => AtMost(Goal(t, w), asked[t])
Fresh == pc = "duration" =>
             /\ asked[tim] = acc
             /\ mask[tim] /\ ~over[tim] /\ ~nested[tim] =>
                    \A w \in Word : Stands(tim, w) => \A j \in k..Width : w[j] = 0
Bounded == Ceiling /\ Fresh

LEMMA HandlerBounded == TypeOK /\ Parted /\ Counted /\ Bounded /\ Handler => Bounded'
<1> SUFFICES ASSUME TypeOK, Parted, Counted, Bounded, Handler PROVE Bounded'
  OBVIOUS
<1>1. /\ UNCHANGED <<tim, pc, k, acc, call, asked, due, nested, over>>
      /\ \A t \in Timer : mask'[t] => mask[t]
  BY HandlerMoves
<1>2. /\ \A t : Overwritten(t)' = Overwritten(t)
      /\ \A t, w : Goal(t, w)' = Goal(t, w)
  BY <1>1 DEF Overwritten, Goal, Kept, Mix
<1>3. tim \in Timer /\ acc \in Word /\ k \in 1..Width
  BY DEF TypeOK
<1>4. Fresh'
  <2> SUFFICES ASSUME pc = "duration"
               PROVE  /\ asked[tim] = acc
                      /\ mask'[tim] /\ ~over[tim] /\ ~nested[tim] =>
                             \A w \in Word : Stands(tim, w)' => \A j \in k..Width : w[j] = 0
    BY <1>1 DEF Fresh
  <2>1. asked[tim] = acc
    BY DEF Bounded, Fresh
  <2>2. ASSUME mask'[tim], ~over[tim], ~nested[tim], NEW v \in Word, Stands(tim, v)', NEW j \in k..Width
        PROVE  v[j] = 0
    <3>1. mask[tim]
      BY <1>1, <1>3, <2>2
    <3>2. PICK w \in Word :
              /\ \A u : Stands(tim, u) <=> u = w
              /\ \/ \A u : Stands(tim, u)' <=> u = w
                 \/ w # Zero /\ \A u : Stands(tim, u)' <=> u = Pred(w)
      <4>1. PICK t \in Timer : t = tim
        BY <1>3
      <4>2. PICK w \in Word :
                /\ \A u : Stands(t, u) <=> u = w
                /\ \/ \A u : Stands(t, u)' <=> u = w
                   \/ w # Zero /\ \A u : Stands(t, u)' <=> u = Pred(w)
        BY <2>2, <4>1, HandlerCounts
      <4>3. \A u : (Stands(t, u) <=> Stands(tim, u)) /\ (Stands(t, u)' <=> Stands(tim, u)')
        BY <1>1, <4>1 DEF Stands
      <4> QED
        BY <4>2, <4>3
    <3>3. \A i \in k..Width : w[i] = 0
      BY <2>2, <3>1, <3>2 DEF Bounded, Fresh
    <3>4. CASE v = w
      BY <3>3, <3>4
    <3>5. CASE w # Zero /\ v = Pred(w)
      <4>1. PICK i \in 1..Width : /\ w[i] \in 1 .. Base - 1
                                  /\ \A m \in i + 1 .. Width : Pred(w)[m] = w[m]
        BY <3>5, PredBytes
      <4>2. i \notin k..Width
        BY <3>3, <4>1
      <4>3. j \in i + 1 .. Width
        BY <1>3, <4>1, <4>2, WidthAssumption
      <4> QED
        BY <3>3, <3>5, <4>1, <4>3
    <3> QED
      BY <2>2, <3>2, <3>4, <3>5
  <2> QED
    BY <2>1, <2>2
<1>5. Ceiling'
  <2> SUFFICES ASSUME NEW t \in Timer, ~nested[t], ~over[t], ~Overwritten(t),
                      NEW v \in Word, Stands(t, v)'
               PROVE  AtMost(Goal(t, v), asked[t])
    BY <1>1, <1>2 DEF Ceiling
  <2>1. PICK w \in Word :
            /\ \A u : Stands(t, u) <=> u = w
            /\ \/ \A u : Stands(t, u)' <=> u = w
               \/ w # Zero /\ Has(t, Counting) /\ \A u : Stands(t, u)' <=> u = Pred(w)
    BY HandlerCounts
  <2>2. AtMost(Goal(t, w), asked[t])
    BY <2>1 DEF Bounded, Ceiling
  <2>3. CASE v = w
    BY <2>2, <2>3
  <2>4. CASE w # Zero /\ Has(t, Counting) /\ v = Pred(w)
    <3>1. \E j \in 1..Kept(t) : w[j] # 0
      <4>1. SUFFICES ASSUME \A j \in 1..Kept(t) : w[j] = 0 PROVE FALSE
        OBVIOUS
      <4>2. PICK i \in 1..Width : w[i] # 0
        BY <2>4, NotZero
      <4>3. CASE Kept(t) = Width
        BY <4>1, <4>2, <4>3
      <4>4. CASE Kept(t) # Width
        <5>1. pc = "duration" /\ tim = t /\ Kept(t) = k - 1
          BY <4>4, KeptType DEF Kept
        <5>2. mask[t]
          BY <2>4 DEF Parted, Quiet
        <5>3. \A j \in k..Width : w[j] = 0
          BY <2>1, <5>1, <5>2 DEF Bounded, Fresh
        <5>4. i \in 1 .. k - 1 \/ i \in k..Width
          BY <1>3, WidthAssumption
        <5> QED
          BY <4>1, <4>2, <5>1, <5>3, <5>4
      <4> QED
        BY <4>3, <4>4
    <3>2. Kept(t) \in 0..Width
      BY KeptType
    <3>3. Goal(t, w) # Zero /\ Goal(t, v) = Pred(Goal(t, w))
      BY <1>3, <2>4, <3>1, <3>2, MixPred DEF Goal
    <3>4. Goal(t, w) \in Word /\ asked[t] \in Word /\ Pred(Goal(t, w)) \in Word
      BY <1>3, MixType, PredType DEF Goal, TypeOK
    <3>5. AtMost(Pred(Goal(t, w)), Goal(t, w))
      BY <3>3, <3>4, PredLess
    <3> QED
      BY <2>2, <3>3, <3>4, <3>5, AtMostTransitive
  <2> QED
    BY <2>1, <2>3, <2>4
<1> QED
  BY <1>4, <1>5 DEF Bounded

(* What the start of a handler leaves of the countdowns.                    *)
LEMMA VectorKeeps ==
    ASSUME TypeOK, NEW t \in Timer, Vector(t)
    PROVE  /\ UNCHANGED <<mask, clock, duration, call, tim, pc, k, acc, asked, due, over, torn>>
           /\ \A u, w : Stands(u, w)' <=> Stands(u, w)
           /\ \A u \in Timer : ~nested'[u] => ~nested[u] /\ (u = t => ~Has(t, Counting))
           /\ \A u : Has(u, Counting)' <=> Has(u, Counting) \/ u = t
           /\ \A u : Has(u, {"mask"})' => Has(u, {"mask"})
           /\ flag[t] /\ flag' = [flag EXCEPT ![t] = FALSE]
<1>1. /\ UNCHANGED <<mask, clock, duration, call, tim, pc, k, acc, asked, due, over, torn>>
      /\ nested' = [nested EXCEPT ![t] = @ \/ Has(t, Counting)]
      /\ flag[t] /\ flag' = [flag EXCEPT ![t] = FALSE]
  BY DEF Vector, main
<1>2. /\ Len(stack) \in Nat /\ Len(stack') = Len(stack) + 1
      /\ stack'[1].timer = t /\ stack'[1].at = "test"
      /\ \A i \in 1..Len(stack) : stack'[i + 1] = stack[i]
      /\ \A u, L : Has(u, L) => Has(u, L)'
      /\ \A u, L : Has(u, L)' => Has(u, L) \/ (u = t /\ "test" \in L)
      /\ \A L : "test" \in L => Has(t, L)'
  BY AfterVector
<1>3. ASSUME NEW i \in 1..Len(stack')
      PROVE  i = 1 \/ (i - 1 \in 1..Len(stack) /\ stack'[i] = stack[i - 1])
  <2>1. i = 1 \/ (i - 1 \in 1..Len(stack) /\ (i - 1) + 1 = i)
    BY <1>2
  <2> QED
    BY <1>2, <2>1
<1>4. \A i \in 1..Len(stack) : i + 1 \in 1..Len(stack') /\ stack'[i + 1] = stack[i]
  BY <1>2
<1>5. \A u : Has(u, {"store"})' <=> Has(u, {"store"})
  BY <1>2
<1>6. Frames \subseteq Frames' /\ \A f \in Frames' : f \in Frames \/ f.at = "test"
  BY <1>2, <1>3, <1>4 DEF Frames
<1>7. \A u, w : Stands(u, w)' <=> Stands(u, w)
  BY <1>1, <1>5, <1>6 DEF Stands
<1>8. \A u \in Timer : ~nested'[u] => ~nested[u] /\ (u = t => ~Has(t, Counting))
  BY <1>1 DEF TypeOK
<1>9. "test" \in Counting /\ "test" \notin {"mask"}
  BY DEF Counting
<1>10. \A u : Has(u, Counting)' <=> Has(u, Counting) \/ u = t
  BY <1>2, <1>9
<1>11. \A u : Has(u, {"mask"})' => Has(u, {"mask"})
  BY <1>2, <1>9
<1> QED
  BY <1>1, <1>7, <1>8, <1>10, <1>11

LEMMA TimerBounded ==
    ASSUME TypeOK, Bounded, NEW t \in Timer, Match(t) \/ Vector(t) PROVE Bounded'
<1>1. /\ UNCHANGED <<mask, duration, tim, pc, k, acc, asked, over>>
      /\ \A u, w : Stands(u, w)' <=> Stands(u, w)
      /\ \A u \in Timer : ~nested'[u] => ~nested[u]
  <2>1. CASE Match(t)
    BY <2>1 DEF Match, main, Stands, Has, Frames
  <2>2. CASE Vector(t)
    BY <2>2, VectorKeeps
  <2> QED
    BY <2>1, <2>2
<1>2. /\ \A u : Overwritten(u)' = Overwritten(u)
      /\ \A u, w : Goal(u, w)' = Goal(u, w)
  BY <1>1 DEF Overwritten, Goal, Kept, Mix
<1>3. Ceiling'
  BY <1>1, <1>2 DEF Bounded, Ceiling
<1>4. Fresh'
  BY <1>1 DEF Bounded, Fresh, TypeOK
<1> QED
  BY <1>3, <1>4 DEF Bounded

(* With no handler about, the bound is one of durations.                    *)
LEMMA BoundedAlone ==
    ASSUME stack = <<>>, stack' = stack
    PROVE  /\ TypeOK => (Ceiling <=> \A t \in Timer : nested[t] \/ over[t] \/ Overwritten(t)
                                                      \/ AtMost(Goal(t, duration[t]), asked[t]))
           /\ TypeOK' => (Ceiling' <=> \A t \in Timer : nested'[t] \/ over'[t] \/ Overwritten(t)'
                                                        \/ AtMost(Goal(t, duration[t]), asked[t])')
<1>1. \A t, w : /\ Stands(t, w) <=> w = duration[t]
                /\ Stands(t, w)' <=> w = duration'[t]
  BY NoHandler
<1>2. /\ TypeOK => \A t \in Timer : duration[t] \in Word
      /\ TypeOK' => \A t \in Timer : duration'[t] \in Word
  BY DEF TypeOK
<1>3. TypeOK => (Ceiling <=> \A t \in Timer : nested[t] \/ over[t] \/ Overwritten(t)
                                              \/ AtMost(Goal(t, duration[t]), asked[t]))
  BY <1>1, <1>2 DEF Ceiling
<1>4. TypeOK' => (Ceiling' <=> \A t \in Timer : nested'[t] \/ over'[t] \/ Overwritten(t)'
                                                \/ AtMost(Goal(t, duration[t]), asked[t])')
  BY <1>1, <1>2 DEF Ceiling
<1> QED
  BY <1>3, <1>4

LEMMA EntersBounded == TypeOK /\ TypeOK' /\ Bounded /\ Enters => Bounded'
<1> SUFFICES ASSUME TypeOK, TypeOK', Bounded, Enters PROVE Bounded'
  OBVIOUS
<1>1. /\ UNCHANGED <<duration, stack, nested, over>> /\ stack = <<>> /\ pc = "idle" /\ tim' \in Timer
      /\ pc' \in {"ctc", "cs_clear", "mask_off", "test"}
      /\ IF call' = "beeper_off" THEN pc' = "mask_off" /\ asked' = [asked EXCEPT ![tim'] = Zero]
         ELSE asked' = asked
  BY EntersMove
<1>2. Fresh'
  BY <1>1 DEF Fresh
<1>3. ASSUME NEW t \in Timer
      PROVE  nested'[t] \/ over'[t] \/ Overwritten(t)' \/ AtMost(Goal(t, duration[t]), asked[t])'
  <2>1. nested[t] \/ over[t] \/ AtMost(Goal(t, duration[t]), asked[t])
    BY <1>1, BoundedAlone DEF Bounded, Overwritten
  <2>2. Goal(t, duration[t]) = duration[t] /\ Goal(t, duration[t])' = duration[t]
    <3>1. duration[t] \in Word /\ acc \in Word /\ acc' \in Word /\ duration'[t] = duration[t]
      BY <1>1 DEF TypeOK
    <3>2. Mix(Width, duration[t], acc) = duration[t] /\ Mix(Width, duration[t], acc') = duration[t]
      BY <3>1, MixEnds
    <3>3. Goal(t, duration[t])' = Mix(Width, duration'[t], acc')
      BY <1>1 DEF Goal, Kept, Mix
    <3>4. Goal(t, duration[t]) = Mix(Width, duration[t], acc)
      BY <1>1 DEF Goal, Kept
    <3> QED
      BY <3>1, <3>2, <3>3, <3>4
  <2>3. CASE asked'[t] = asked[t]
    BY <1>1, <2>1, <2>2, <2>3 DEF AtMost
  <2>4. CASE asked'[t] # asked[t]
    <3>1. pc' = "mask_off" /\ t = tim'
      BY <1>1, <2>4 DEF TypeOK
    <3> QED
      BY <3>1 DEF Overwritten
  <2> QED
    BY <2>3, <2>4
<1> QED
  BY <1>1, <1>2, <1>3, BoundedAlone DEF Bounded

(* The main program stores one byte more of what the duration will be.      *)
LEMMA StoreKeepsGoal ==
    ASSUME TypeOK, StoreDuration
    PROVE  /\ Goal(tim, duration[tim])' = Goal(tim, duration[tim])
           /\ pc = "duration" /\ pc' \in {"duration", "enable"}
           /\ \A t \in Timer : t # tim => duration'[t] = duration[t]
           /\ k < Width => k' = k + 1
           /\ \A j \in k + 1 .. Width : duration'[tim][j] = duration[tim][j]
           /\ ~(k < Width) => pc' = "enable"
           /\ UNCHANGED <<mask, clock, flag, asked, due, nested, over, acc, tim, call>>
<1>1. acc \in Word /\ StoreByte("duration", acc, "enable")
      /\ UNCHANGED <<mask, clock, flag, asked, due, nested, over, acc>>
  BY DEF StoreDuration, TypeOK, hw, ledger
<1>2. PICK d \in Word : d = acc
  BY <1>1
<1>3. /\ pc = "duration" /\ tim' = tim
      /\ \A t \in Timer : t # tim => duration'[t] = duration[t]
      /\ \A j \in 1..Width : duration'[tim][j] = IF j = k THEN d[j] ELSE duration[tim][j]
      /\ duration'[tim] \in Word
      /\ k < Width => k' = k + 1 /\ pc' = "duration"
      /\ ~(k < Width) => k' = 1 /\ pc' = "enable" /\ k = Width
  <2>1. StoreByte("duration", d, "enable")
    BY <1>1, <1>2
  <2> QED
    BY <2>1, StoresByte
<1>4. k \in 1..Width /\ tim \in Timer /\ duration[tim] \in Word
  BY DEF TypeOK
<1>5. Kept(tim)' = k /\ Kept(tim) = k - 1
  BY <1>3, <1>4, WidthAssumption DEF Kept
<1>6. Goal(tim, duration[tim])' = Mix(k, duration'[tim], acc) /\ Goal(tim, duration[tim]) = Mix(k - 1, duration[tim], acc)
  BY <1>1, <1>3, <1>5 DEF Goal, Mix
<1>7. Mix(k, duration'[tim], acc) = Mix(k - 1, duration[tim], acc)
  <2>1. ASSUME NEW i \in 1..Width
        PROVE  (IF i <= k THEN duration'[tim][i] ELSE acc[i]) = (IF i <= k - 1 THEN duration[tim][i] ELSE acc[i])
    <3>1. i = k \/ (i # k /\ (i <= k <=> i <= k - 1))
      BY <1>4
    <3> QED
      BY <1>2, <1>3, <1>4, <3>1
  <2> QED
    BY <2>1 DEF Mix
<1>8. \A j \in k + 1 .. Width : duration'[tim][j] = duration[tim][j]
  <2>1. \A j \in k + 1 .. Width : j \in 1..Width /\ j # k
    BY <1>4, WidthAssumption
  <2> QED
    BY <1>3, <2>1
<1>9. call' = call
  <2>1. "enable" # "idle" /\ "duration" # "idle"
    OBVIOUS
  <2> QED
    BY <1>1, <1>3, <2>1 DEF StoreByte, Step
<1> QED
  BY <1>1, <1>3, <1>6, <1>7, <1>8, <1>9

(* Outside of that, what stands is what it will be.                         *)
LEMMA GoalStands ==
    ASSUME TypeOK, TypeOK', NEW t \in Timer
    PROVE  /\ pc # "duration" \/ tim # t => Goal(t, duration[t]) = duration[t]
           /\ pc' # "duration" \/ tim' # t => Goal(t, duration[t])' = duration'[t]
<1>1. duration[t] \in Word /\ acc \in Word /\ duration'[t] \in Word /\ acc' \in Word
  BY DEF TypeOK
<1>2. Mix(Width, duration[t], acc) = duration[t] /\ Mix(Width, duration'[t], acc') = duration'[t]
  BY <1>1, MixEnds
<1>3. pc # "duration" \/ tim # t => Goal(t, duration[t]) = Mix(Width, duration[t], acc)
  BY DEF Goal, Kept
<1>4. pc' # "duration" \/ tim' # t => Goal(t, duration[t])' = Mix(Width, duration'[t], acc')
  BY DEF Goal, Kept, Mix
<1> QED
  BY <1>2, <1>3, <1>4

LEMMA CallStepBounded == TypeOK /\ TypeOK' /\ Parted /\ Bounded /\ CallStep => Bounded'
<1> SUFFICES ASSUME TypeOK, TypeOK', Parted, Bounded, CallStep PROVE Bounded'
  OBVIOUS
<1>1. stack = <<>> /\ UNCHANGED <<stack, tim>> /\ tim \in Timer
  BY CallStepMoves DEF TypeOK
<1>2. \A t \in Timer : nested[t] \/ over[t] \/ Overwritten(t) \/ AtMost(Goal(t, duration[t]), asked[t])
  BY <1>1, BoundedAlone DEF Bounded
<1>3. ASSUME \A t \in Timer : nested'[t] \/ over'[t] \/ Overwritten(t)' \/ AtMost(Goal(t, duration[t]), asked[t])'
      PROVE  Ceiling'
  BY <1>1, <1>3, BoundedAlone
<1>4. /\ \A t \in Timer : pc # "duration" \/ tim # t => Goal(t, duration[t]) = duration[t]
      /\ \A t \in Timer : pc' # "duration" \/ tim # t => Goal(t, duration[t])' = duration'[t]
  BY <1>1, GoalStands
<1>5. ASSUME pc # "duration", pc' # "duration", UNCHANGED <<asked, nested, over, duration>>,
             Overwritten(tim) => Overwritten(tim)'
      PROVE  Bounded'
  <2>1. \A t \in Timer : Overwritten(t) => Overwritten(t)'
    BY <1>1, <1>5 DEF Overwritten
  <2>2. \A t \in Timer : AtMost(Goal(t, duration[t]), asked[t])' <=> AtMost(Goal(t, duration[t]), asked[t])
    BY <1>4, <1>5 DEF AtMost
  <2>3. Ceiling'
    BY <1>2, <1>3, <1>5, <2>1, <2>2
  <2> QED
    BY <1>5, <2>3 DEF Bounded, Fresh
<1> USE DEF Step, ledger, hw
<1>6. CASE InitCtc \/ InitPin \/ MaskOff \/ ClockOff
  <2>1. /\ pc # "duration" /\ pc' # "duration" /\ UNCHANGED <<asked, nested, over, duration>>
        /\ Overwritten(tim) => Overwritten(tim)'
    BY <1>1, <1>6 DEF InitCtc, InitPin, MaskOff, ClockOff, Overwritten
  <2> QED
    BY <1>5, <2>1
<1>7. CASE ClearClock \/ StartClock \/ EnableInterrupt \/ Test
  <2>1. /\ pc # "duration" /\ pc' # "duration" /\ UNCHANGED <<asked, nested, over, duration>>
        /\ Overwritten(tim) => Overwritten(tim)'
    BY <1>1, <1>7 DEF ClearClock, StartClock, EnableInterrupt, Test, Overwritten
  <2> QED
    BY <1>5, <2>1
<1>8. CASE Spin
  <2>1. /\ pc = "spin" /\ pc' # "duration" /\ UNCHANGED <<asked, nested, over, duration>>
        /\ Overwritten(tim) => Overwritten(tim)'
    BY <1>1, <1>8 DEF Spin, Overwritten
  <2> QED
    BY <1>5, <2>1
<1>9. CASE StoreZero
  <2>1. UNCHANGED <<asked, nested, over>>
    BY <1>9 DEF StoreZero
  <2>2. PICK m \in {"cs_clear", "idle"} : m = IF call = "beeper_beep" THEN "cs_clear" ELSE "idle"
    OBVIOUS
  <2>3. StoreByte("zero", Zero, m)
    BY <1>9, <2>2 DEF StoreZero
  <2>4. /\ pc = "zero" /\ \A t \in Timer : t # tim => duration'[t] = duration[t]
        /\ k < Width => pc' = "zero"
        /\ ~(k < Width) => pc' = m /\ k = Width
        /\ \A j \in 1..Width : duration'[tim][j] = IF j = k THEN Zero[j] ELSE duration[tim][j]
    BY <2>3, ZeroType, StoresByte
  <2>5. ASSUME NEW t \in Timer, t # tim
        PROVE  nested'[t] \/ over'[t] \/ Overwritten(t)' \/ AtMost(Goal(t, duration[t]), asked[t])'
    <3>1. Goal(t, duration[t])' = Goal(t, duration[t])
      BY <1>4, <2>4, <2>5
    <3> QED
      BY <1>2, <2>1, <2>5, <3>1 DEF AtMost, Overwritten
  <2>6. nested'[tim] \/ over'[tim] \/ Overwritten(tim)' \/ AtMost(Goal(tim, duration[tim]), asked[tim])'
    <3>1. CASE k < Width
      BY <1>1, <2>4, <3>1 DEF Overwritten
    <3>2. CASE ~(k < Width) /\ pc' # "zero"
      <4>1. Goal(tim, duration[tim])' = duration'[tim] /\ asked'[tim] \in Word /\ duration'[tim] \in Word
        <5>1. pc' # "duration"
          BY <2>2, <2>4, <3>2
        <5> QED
          BY <1>1, <1>4, <5>1 DEF TypeOK
      <4>2. duration'[tim] = Zero => AtMost(duration'[tim], asked'[tim])
        BY <4>1, ZeroLeast
      <4>3. duration'[tim] = Zero
        <5>1. \A j \in 1 .. k - 1 : duration[tim][j] = 0
          BY <2>4 DEF Parted, FromStart
        <5>2. \A j \in 1..Width : Zero[j] = 0 /\ (j = k \/ j \in 1 .. k - 1)
          BY <2>4, <3>2, WidthAssumption DEF Zero
        <5>3. \A j \in 1..Width : duration'[tim][j] = Zero[j]
          BY <2>4, <5>1, <5>2
        <5> QED
          BY <4>1, <5>3, ZeroType, SameWord
      <4> QED
        BY <1>1, <4>1, <4>2, <4>3 DEF AtMost
    <3> QED
      BY <2>2, <2>4, <3>1, <3>2
  <2>7. Ceiling'
    BY <1>1, <1>3, <2>5, <2>6
  <2>8. Fresh'
    BY <2>2, <2>4 DEF Fresh
  <2> QED
    BY <2>7, <2>8 DEF Bounded
<1>10. CASE ClearCounter
  <2>1. /\ pc = "tcnt" /\ pc' = "duration" /\ UNCHANGED <<mask, duration, k, acc>>
        /\ asked' = [asked EXCEPT ![tim] = acc]
        /\ nested' = [nested EXCEPT ![tim] = FALSE]
        /\ over' = [over EXCEPT ![tim] = mask[tim] /\ duration[tim] # Zero]
    BY <1>10 DEF ClearCounter
  <2>2. \A t \in Timer : /\ t # tim => asked'[t] = asked[t] /\ nested'[t] = nested[t] /\ over'[t] = over[t]
                         /\ t = tim => asked'[t] = acc /\ over'[t] = (mask[t] /\ duration[t] # Zero)
    BY <2>1 DEF TypeOK
  <2>3. ASSUME NEW t \in Timer, t # tim
        PROVE  nested'[t] \/ over'[t] \/ Overwritten(t)' \/ AtMost(Goal(t, duration[t]), asked[t])'
    <3>1. Goal(t, duration[t])' = Goal(t, duration[t])
      BY <1>1, <1>4, <2>1, <2>3
    <3> QED
      BY <1>2, <2>2, <2>3, <3>1 DEF AtMost, Overwritten
  <2>4. Parted /\ k = 1
    BY <2>1 DEF Parted, FromStart
  <2>5. Goal(tim, duration[tim])' = acc
    <3>1. Kept(tim)' = 0
      BY <1>1, <2>1, <2>4 DEF Kept
    <3>2. Goal(tim, duration[tim])' = Mix(0, duration[tim], acc)
      BY <1>1, <2>1, <3>1 DEF Goal, Mix
    <3> QED
      BY <1>1, <3>2, MixEnds DEF TypeOK
  <2>6. AtMost(Goal(tim, duration[tim]), asked[tim])'
    BY <1>1, <2>2, <2>5 DEF AtMost
  <2>7. Ceiling'
    BY <1>1, <1>3, <2>3, <2>6
  <2>8. Fresh'
    <3>1. ASSUME mask[tim], ~over'[tim] PROVE \A w : Stands(tim, w)' => \A j \in 1..Width : w[j] = 0
      <4>1. duration[tim] = Zero
        BY <1>1, <2>2, <3>1
      <4>2. \A w : Stands(tim, w)' => w = Zero
        BY <1>1, <2>1, <4>1, NoHandler
      <4> QED
        BY <4>2 DEF Zero
    <3>2. asked'[tim] = acc
      BY <1>1, <2>2
    <3> QED
      BY <1>1, <2>1, <2>4, <3>1, <3>2 DEF Fresh
  <2> QED
    BY <2>7, <2>8 DEF Bounded
<1>11. CASE StoreDuration
  <2>1. /\ Goal(tim, duration[tim])' = Goal(tim, duration[tim])
        /\ pc = "duration" /\ pc' \in {"duration", "enable"}
        /\ \A t \in Timer : t # tim => duration'[t] = duration[t]
        /\ k < Width => k' = k + 1
        /\ \A j \in k + 1 .. Width : duration'[tim][j] = duration[tim][j]
        /\ ~(k < Width) => pc' = "enable"
        /\ UNCHANGED <<mask, asked, nested, over, acc>>
    BY <1>11, StoreKeepsGoal
  <2>2. ASSUME NEW t \in Timer
        PROVE  nested'[t] \/ over'[t] \/ Overwritten(t)' \/ AtMost(Goal(t, duration[t]), asked[t])'
    <3>1. Goal(t, duration[t])' = Goal(t, duration[t])
      BY <1>1, <1>4, <2>1
    <3> QED
      BY <1>2, <2>1, <3>1 DEF AtMost, Overwritten
  <2>3. Ceiling'
    BY <1>3, <2>2
  <2>4. Fresh'
    <3> SUFFICES ASSUME pc' = "duration"
                 PROVE  /\ asked'[tim] = acc
                        /\ mask[tim] /\ ~over[tim] /\ ~nested[tim] =>
                               \A w \in Word : Stands(tim, w)' => \A j \in k + 1 .. Width : w[j] = 0
      BY <1>1, <2>1 DEF Fresh
    <3>1. asked[tim] = acc /\ (mask[tim] /\ ~over[tim] /\ ~nested[tim] => \A j \in k..Width : duration[tim][j] = 0)
      <4>1. Stands(tim, duration[tim]) /\ duration[tim] \in Word
        BY <1>1, NoHandler DEF TypeOK
      <4> QED
        BY <2>1, <4>1 DEF Bounded, Fresh
    <3>2. \A j \in k + 1 .. Width : j \in k..Width
      BY DEF TypeOK
    <3>3. \A w : Stands(tim, w)' => w = duration'[tim]
      BY <1>1, NoHandler
    <3> QED
      BY <2>1, <3>1, <3>2, <3>3
  <2> QED
    BY <2>3, <2>4 DEF Bounded
<1> QED
  BY <1>6, <1>7, <1>8, <1>9, <1>10, <1>11 DEF CallStep

LEMMA InitBounded == Init => Bounded
<1> SUFFICES ASSUME Init PROVE Bounded
  OBVIOUS
<1>1. TypeOK /\ pc = "idle"
  BY InitTypes DEF Init
<1>2. ASSUME NEW t \in Timer, NEW w \in Word, Stands(t, w) PROVE AtMost(Goal(t, w), asked[t])
  <2>1. ~Has(t, {"store"})
    BY DEF Init, Has
  <2>2. w = Zero /\ asked[t] = Zero
    BY <1>2, <2>1 DEF Stands, Init
  <2>3. Goal(t, w) = w
    BY <1>1, MixEnds DEF Goal, Kept, TypeOK
  <2> QED
    BY <2>2, <2>3 DEF AtMost
<1> QED
  BY <1>1, <1>2 DEF Bounded, Ceiling, Fresh

LEMMA NextBounded ==
    TypeOK /\ TypeOK' /\ Parted /\ Counted /\ Bounded /\ [Next]_vars => Bounded'
<1> SUFFICES ASSUME TypeOK, TypeOK', Parted, Counted, Bounded, [Next]_vars PROVE Bounded'
  OBVIOUS
<1>1. CASE UNCHANGED vars
  BY <1>1 DEF vars, hw, main, ledger, Bounded, Ceiling, Fresh, Overwritten, Stands, Has, Frames,
              Goal, Kept, Mix
<1> QED
  BY <1>1, HandlerBounded, TimerBounded, EntersBounded, CallStepBounded DEF Next

LEMMA CountingInvariant == Spec => [](TypeOK /\ Parted /\ Counted /\ Bounded)
<1>1. Init => TypeOK /\ Parted /\ Counted /\ Bounded
  BY InitTypes, InitParted, InitBounded
<1>2. TypeOK /\ Parted /\ Counted /\ Bounded /\ [Next]_vars => (TypeOK /\ Parted /\ Counted /\ Bounded)'
  BY NextTypes, NextParted, NextBounded
<1> QED
  BY <1>1, <1>2, PTL DEF Spec

-----------------------------------------------------------------------------
(* What is still due.  The duration is taken down once for a match at most: *)
(* what it will be is never below the matches that are due, less the one    *)
(* that was pending when the timer was started.                             *)
Restarting(t) == /\ tim = t
                 /\ \/ call = "beeper_beep" /\ pc \in {"clock_off", "zero"}
                    \/ pc \in {"cs_clear", "cs_set", "tcnt", "duration", "enable"}

(* d matches are due, the duration will be g, a match is pending (f) or     *)
(* being counted (c).                                                       *)
Behind(d, g, f, c) == \/ d = Zero
                      \/ ~f /\ ~c /\ AtMost(Pred(d), g)
                      \/ ~(f <=> c) /\ AtMost(d, g)
                      \/ f /\ c /\ g # Zero /\ AtMost(d, Pred(g))

Covered == \A t \in Timer :
               \/ nested[t]
               \/ Restarting(t) /\ pc \notin {"duration", "enable"}
               \/ \A w \in Word : Stands(t, w) => Behind(due[t], Goal(t, w), flag[t], Has(t, Counting))
Expiring == \A t \in Timer : Has(t, {"mask"}) => nested[t] \/ Restarting(t) \/ due[t] = Zero
Finished == \A t \in Timer : mask[t] \/ nested[t] \/ Restarting(t) \/ due[t] = Zero
Started == call = "beeper_off" => due[tim] = Zero

(* Which call is at which step.                                             *)
Paths == /\ pc \in {"ctc", "pin", "pin0"} => call \in {"tdelay_init", "beeper_init"}
         /\ pc \in {"mask_off", "clock_off"} => call \in {"beeper_off", "beeper_beep"}
         /\ pc \in {"cs_clear", "cs_set", "tcnt", "duration", "enable"} => call \in {"tdelay", "beeper_beep"}
         /\ pc \in {"test", "spin"} => call \in {"tdelay", "beeper_block"}
         /\ pc = "zero" => call \in {"beeper_off", "beeper_beep", "tdelay", "beeper_block"}

(* A loop that has read a 0 first, and no borrow since, has read what is    *)
(* still there.                                                             *)
Reads == pc = "spin" /\ k > 1 /\ ~torn /\ ~nested[tim] /\ acc[1] = 0 =>
             /\ \A j \in 1 .. k - 1 : duration[tim][j] = acc[j]
             /\ \A f \in Frames : f.timer = tim /\ f.at = "store" => f.k = 1
Timed == Covered /\ Expiring /\ Finished /\ Started /\ Paths /\ Reads

(* One is taken off the countdown, or it grows: a match is counted.         *)
LEMMA BehindCounts ==
    ASSUME NEW d \in Word, NEW g \in Word, NEW h \in Word, NEW f, NEW c, Behind(d, g, f, c), c,
           (g # Zero /\ h = Pred(g)) \/ AtMost(g, h)
    PROVE  Behind(d, h, f, FALSE)
<1>1. SUFFICES ASSUME d # Zero PROVE Behind(d, h, f, FALSE)
  BY DEF Behind
<1>2. Pred(d) \in Word /\ Pred(g) \in Word /\ AtMost(Pred(d), d)
  BY <1>1, PredType, PredLess
<1>3. CASE ~f
  <2>1. AtMost(d, g)
    BY <1>1, <1>3 DEF Behind
  <2>2. AtMost(Pred(d), h)
    <3>1. CASE h = Pred(g)
      BY <1>1, <2>1, <3>1, PredMonotone
    <3>2. CASE AtMost(g, h)
      BY <1>2, <2>1, <3>2, AtMostTransitive
    <3> QED
      BY <3>1, <3>2
  <2> QED
    BY <1>3, <2>2 DEF Behind
<1>4. CASE f
  <2>1. g # Zero /\ AtMost(d, Pred(g))
    BY <1>1, <1>4 DEF Behind
  <2>2. AtMost(d, h)
    <3>1. CASE h = Pred(g)
      BY <2>1, <3>1
    <3>2. CASE AtMost(g, h)
      <4>1. AtMost(Pred(g), g)
        BY <2>1, PredLess
      <4>2. AtMost(d, g)
        BY <1>2, <2>1, <4>1, AtMostTransitive
      <4> QED
        BY <3>2, <4>2, AtMostTransitive
    <3> QED
      BY <3>1, <3>2
  <2> QED
    BY <1>4, <2>2 DEF Behind
<1> QED
  BY <1>3, <1>4

LEMMA BehindMatch ==
    ASSUME NEW d \in Word, NEW g \in Word, NEW f, NEW c, Behind(d, g, f, c)
    PROVE  Behind(IF d = Zero THEN d ELSE Pred(d), g, TRUE, c)
<1>1. SUFFICES ASSUME d # Zero PROVE Behind(Pred(d), g, TRUE, c)
  BY DEF Behind
<1>2. Pred(d) \in Word /\ Pred(g) \in Word /\ AtMost(Pred(d), d)
  BY <1>1, PredType, PredLess
<1>3. CASE ~f /\ ~c
  BY <1>1, <1>3 DEF Behind
<1>4. CASE f /\ ~c
  <2>1. AtMost(Pred(d), g)
    BY <1>1, <1>2, <1>4, AtMostTransitive DEF Behind
  <2> QED
    BY <1>4, <2>1 DEF Behind
<1>5. CASE ~f /\ c
  <2>1. g # Zero /\ AtMost(Pred(d), Pred(g))
    BY <1>1, <1>5, PredMonotone DEF Behind
  <2> QED
    BY <1>5, <2>1 DEF Behind
<1>6. CASE f /\ c
  <2>1. g # Zero /\ AtMost(d, Pred(g))
    BY <1>1, <1>6 DEF Behind
  <2>2. AtMost(Pred(d), Pred(g))
    BY <1>2, <2>1, AtMostTransitive
  <2> QED
    BY <1>6, <2>1, <2>2 DEF Behind
<1> QED
  BY <1>3, <1>4, <1>5, <1>6

(* A duration just set, with or without a match pending.                    *)
LEMMA BehindStart ==
    ASSUME NEW d \in Word, NEW f PROVE Behind(d, d, f, FALSE)
<1>1. d # Zero => AtMost(Pred(d), d)
  BY PredLess
<1>2. AtMost(d, d)
  BY DEF AtMost
<1> QED
  BY <1>1, <1>2 DEF Behind

(* When nothing stands, nothing is due but the match that was pending.      *)
LEMMA BehindZero ==
    ASSUME NEW d \in Word, NEW f, NEW c, Behind(d, Zero, f, c)
    PROVE  d \in {Zero, One} /\ (c => d = Zero)
<1>1. SUFFICES ASSUME d # Zero PROVE d = One /\ ~c
  OBVIOUS
<1>2. ~AtMost(d, Zero)
  BY <1>1, ZeroLeast
<1>3. ~f /\ ~c /\ AtMost(Pred(d), Zero)
  BY <1>1, <1>2 DEF Behind
<1> QED
  BY <1>1, <1>3, PredOne

LEMMA GoalType == ASSUME TypeOK, NEW t, NEW w \in Word PROVE Goal(t, w) \in Word
BY MixType DEF Goal, TypeOK

LEMMA HandlerReads == TypeOK /\ Parted /\ Counted /\ Reads /\ Handler => Reads'
<1> SUFFICES ASSUME TypeOK, Parted, Counted, Reads, Handler PROVE Reads'
  OBVIOUS
<1>0. UNCHANGED <<tim, pc, k, acc, nested>>
  BY HandlerMoves
<1> SUFFICES ASSUME pc = "spin", k > 1, ~torn', ~nested[tim], acc[1] = 0
             PROVE  /\ \A j \in 1 .. k - 1 : duration'[tim][j] = acc[j]
                    /\ \A f \in Frames' : f.timer = tim /\ f.at = "store" => f.k = 1
  BY <1>0 DEF Reads
<1>1. /\ stack # <<>> /\ Frames = {top} \cup Others /\ top \in Frame
      /\ \/ Return /\ Frames' = Others
         \/ \E f \in Frame : Goto(f) /\ f.timer = top.timer /\ Frames' = {f} \cup Others
  BY FramesMove
<1>2. \A t \in Timer : t # top.timer \/ top.at # "store" => duration'[t] = duration[t]
  BY HandlerMoves
<1>3. ~torn
  BY HandlerMoves, StoreMoves
<1>4. /\ \A j \in 1 .. k - 1 : duration[tim][j] = acc[j]
      /\ \A f \in Frames : f.timer = tim /\ f.at = "store" => f.k = 1
  BY <1>3 DEF Reads
<1>5. ~(top.timer = tim /\ top.at = "store")
  <2>1. SUFFICES ASSUME top.timer = tim, top.at = "store" PROVE FALSE
    OBVIOUS
  <2>2. top.k = 1
    BY <1>1, <1>4, <2>1
  <2>3. Sound(top)
    <3>1. top = stack[1] /\ 1 \in 1..Len(stack)
      BY <1>1, TopFrame
    <3> QED
      BY <2>1, <3>1 DEF Counted
  <2>4. 1 \in 1..Width /\ 1 \in 1 .. k - 1
    BY WidthAssumption DEF TypeOK
  <2>5. duration[tim][1] = top.val[1]
    BY <2>1, <2>2, <2>3, <2>4 DEF Sound
  <2>6. top.val[1] = 0
    BY <1>4, <2>4, <2>5
  <2>7. HandlerStore
    BY <2>1 DEF Handler, HandlerTest, HandlerLoad, HandlerRead, HandlerStore, HandlerMask,
                HandlerStop, HandlerPortRead, HandlerPortWrite, At
  <2> QED
    BY <2>1, <2>6, <2>7, StoreMoves DEF Reading
<1>6. duration'[tim] = duration[tim]
  BY <1>2, <1>5 DEF TypeOK
<1>7. ASSUME NEW f \in Frame, Goto(f), f.timer = top.timer, f.timer = tim, f.at = "store" PROVE f.k = 1
  <2>1. top.at \in Counting
    BY <1>7, StillCounting DEF Counting
  <2>2. CASE HandlerTest
    BY <1>1, <1>7, <2>2, TestMoves, SameFrame DEF AfterTest
  <2>3. CASE HandlerLoad
    BY <1>1, <1>7, <2>3, ReadMoves, SameFrame DEF HandlerLoad
  <2>4. ~HandlerStore /\ ~HandlerMask /\ ~HandlerStop /\ ~HandlerPortRead /\ ~HandlerPortWrite
    BY <1>5, <1>7, <2>1 DEF HandlerStore, HandlerMask, HandlerStop, HandlerPortRead, HandlerPortWrite,
                            At, Counting
  <2> QED
    BY <2>2, <2>3, <2>4 DEF Handler
<1> QED
  BY <1>1, <1>4, <1>6, <1>7

LEMMA HandlerTimed == TypeOK /\ Parted /\ Counted /\ Timed /\ Handler => Timed'
<1> SUFFICES ASSUME TypeOK, Parted, Counted, Timed, Handler PROVE Timed'
  OBVIOUS
<1>1. /\ stack # <<>> /\ top \in Frame
      /\ UNCHANGED <<flag, tim, pc, k, acc, call, asked, due, nested, over>>
      /\ \A t \in Timer : t # top.timer => mask'[t] = mask[t]
      /\ ~HandlerMask => mask' = mask
  BY HandlerMoves
<1>2. /\ \A t : Restarting(t)' = Restarting(t)
      /\ \A t, w : Goal(t, w)' = Goal(t, w)
  BY <1>1 DEF Restarting, Goal, Kept, Mix
<1>3. Started' /\ Paths'
  BY <1>1 DEF Timed, Started, Paths
<1>4. Reads'
  BY HandlerReads DEF Timed
<1>5. Finished'
  <2> SUFFICES ASSUME NEW t \in Timer, ~mask'[t], ~nested[t], ~Restarting(t) PROVE due[t] = Zero
    BY <1>1, <1>2 DEF Finished
  <2>1. CASE ~mask[t]
    BY <2>1 DEF Timed, Finished
  <2>2. CASE mask[t]
    <3>1. t = top.timer /\ HandlerMask
      BY <1>1, <2>2
    <3>2. Has(t, {"mask"})
      <4>1. top.at = "mask"
        BY <3>1 DEF HandlerMask, At
      <4>2. top \in Frames
        BY FramesMove
      <4> QED
        BY <3>1, <4>1, <4>2, HasFrame
    <3> QED
      BY <3>2 DEF Timed, Expiring
  <2> QED
    BY <2>1, <2>2
<1>6. ASSUME NEW t \in Timer, ~nested[t]
      PROVE  /\ ~(Restarting(t) /\ pc \notin {"duration", "enable"}) =>
                    \A v \in Word : Stands(t, v)' => Behind(due[t], Goal(t, v), flag[t], Has(t, Counting)')
             /\ Has(t, {"mask"})' => Restarting(t) \/ due[t] = Zero
  <2>1. PICK w \in Word :
            /\ \A v : Stands(t, v) <=> v = w
            /\ \/ /\ \A v : Stands(t, v)' <=> v = w
                  /\ Has(t, Counting)' <=> Has(t, Counting)
                  /\ Has(t, {"mask"})' => Has(t, {"mask"})
               \/ /\ w = Zero
                  /\ \A v : Stands(t, v)' <=> v = w
                  /\ Has(t, Counting) /\ ~Has(t, Counting)'
               \/ /\ w # Zero
                  /\ \A v : Stands(t, v)' <=> v = Pred(w)
                  /\ Has(t, Counting) /\ ~Has(t, Counting)'
                  /\ Has(t, {"mask"})' => Has(t, {"mask"})
    BY <1>6, HandlerCounts
  <2>2. ~(Restarting(t) /\ pc \notin {"duration", "enable"}) =>
            Behind(due[t], Goal(t, w), flag[t], Has(t, Counting))
    BY <1>6, <2>1 DEF Timed, Covered
  <2>3. /\ due[t] \in Word /\ Pred(w) \in Word /\ Goal(t, w) \in Word /\ Goal(t, Pred(w)) \in Word
        /\ flag[t] \in BOOLEAN /\ acc \in Word
    BY PredType, GoalType DEF TypeOK
  <2>4. CASE /\ \A v : Stands(t, v)' <=> v = w
             /\ Has(t, Counting)' <=> Has(t, Counting)
             /\ Has(t, {"mask"})' => Has(t, {"mask"})
    <3>1. Has(t, {"mask"})' => Restarting(t) \/ due[t] = Zero
      BY <1>6, <2>4 DEF Timed, Expiring
    <3>2. Behind(due[t], Goal(t, w), flag[t], Has(t, Counting)) =>
              Behind(due[t], Goal(t, w), flag[t], Has(t, Counting)')
      BY <2>4 DEF Behind
    <3> QED
      BY <2>2, <2>4, <3>1, <3>2
  <2>5. CASE /\ w = Zero
             /\ \A v : Stands(t, v)' <=> v = w
             /\ Has(t, Counting) /\ ~Has(t, Counting)'
    <3>1. Behind(due[t], Goal(t, w), flag[t], Has(t, Counting)) =>
              Behind(due[t], Goal(t, w), flag[t], FALSE)
      <4>1. AtMost(Goal(t, w), Goal(t, w))
        BY DEF AtMost
      <4> QED
        BY <2>3, <2>5, <4>1, BehindCounts
    <3>2. ~Restarting(t) => due[t] = Zero
      <4> SUFFICES ASSUME ~Restarting(t) PROVE due[t] = Zero
        OBVIOUS
      <4>1. Kept(t) = Width
        BY DEF Kept, Restarting
      <4>2. Goal(t, w) = Zero
        BY <2>3, <2>5, <4>1, MixEnds DEF Goal
      <4> QED
        BY <2>2, <2>3, <2>5, <4>2, BehindZero
    <3>3. Behind(due[t], Goal(t, w), flag[t], FALSE) => Behind(due[t], Goal(t, w), flag[t], Has(t, Counting)')
      BY <2>5 DEF Behind
    <3> QED
      BY <2>2, <2>5, <3>1, <3>2, <3>3
  <2>6. CASE /\ w # Zero
             /\ \A v : Stands(t, v)' <=> v = Pred(w)
             /\ Has(t, Counting) /\ ~Has(t, Counting)'
             /\ Has(t, {"mask"})' => Has(t, {"mask"})
    <3>1. Has(t, {"mask"})' => Restarting(t) \/ due[t] = Zero
      BY <1>6, <2>6 DEF Timed, Expiring
    <3>2. (Goal(t, w) # Zero /\ Goal(t, Pred(w)) = Pred(Goal(t, w))) \/ AtMost(Goal(t, w), Goal(t, Pred(w)))
      <4>1. Kept(t) \in 0..Width
        BY KeptType
      <4> QED
        BY <2>3, <4>1, MixPred DEF Goal
    <3>3. Behind(due[t], Goal(t, w), flag[t], Has(t, Counting)) =>
              Behind(due[t], Goal(t, Pred(w)), flag[t], FALSE)
      BY <2>3, <2>6, <3>2, BehindCounts
    <3>4. Behind(due[t], Goal(t, Pred(w)), flag[t], FALSE) =>
              Behind(due[t], Goal(t, Pred(w)), flag[t], Has(t, Counting)')
      BY <2>6 DEF Behind
    <3> QED
      BY <2>2, <2>6, <3>1, <3>3, <3>4
  <2> QED
    BY <2>1, <2>4, <2>5, <2>6
<1>7. Covered'
  BY <1>1, <1>2, <1>6 DEF Covered
<1>8. Expiring'
  BY <1>1, <1>2, <1>6 DEF Expiring
<1> QED
  BY <1>3, <1>4, <1>5, <1>7, <1>8 DEF Timed

LEMMA MatchTimed == ASSUME TypeOK, Timed, NEW t \in Timer, Match(t) PROVE Timed'
<1>1. /\ UNCHANGED <<mask, duration, stack, call, tim, pc, k, acc, nested, torn>>
      /\ flag' = [flag EXCEPT ![t] = TRUE]
      /\ due' = [due EXCEPT ![t] = IF @ = Zero THEN @ ELSE Pred(@)]
  BY DEF Match, main
<1>2. /\ \A u : Restarting(u)' = Restarting(u)
      /\ \A u, w : Goal(u, w)' = Goal(u, w)
      /\ \A u, w : Stands(u, w)' <=> Stands(u, w)
      /\ \A u, L : Has(u, L)' <=> Has(u, L)
      /\ Frames' = Frames
  BY <1>1 DEF Restarting, Goal, Kept, Mix, Stands, Has, Frames
<1>3. \A u \in Timer : /\ due'[u] = IF u = t /\ due[u] # Zero THEN Pred(due[u]) ELSE due[u]
                       /\ flag'[u] = (u = t \/ flag[u])
                       /\ due[u] = Zero => due'[u] = Zero
  BY <1>1 DEF TypeOK
<1>4. Paths' /\ Reads' /\ Started'
  BY <1>1, <1>2, <1>3 DEF Timed, Paths, Reads, Started, TypeOK
<1>5. Finished' /\ Expiring'
  BY <1>1, <1>2, <1>3 DEF Timed, Finished, Expiring
<1>6. ASSUME NEW u \in Timer, NEW w \in Word, Behind(due[u], Goal(u, w), flag[u], Has(u, Counting))
      PROVE  Behind(due'[u], Goal(u, w), flag'[u], Has(u, Counting))
  <2>1. CASE u # t
    <3>1. due'[u] = due[u] /\ (flag'[u] <=> flag[u])
      BY <1>3, <2>1
    <3> QED
      BY <1>6, <3>1 DEF Behind
  <2>2. CASE u = t
    <3>1. due[u] \in Word /\ Goal(u, w) \in Word
      BY GoalType DEF TypeOK
    <3>2. Behind(IF due[u] = Zero THEN due[u] ELSE Pred(due[u]), Goal(u, w), TRUE, Has(u, Counting))
      BY <1>6, <3>1, BehindMatch
    <3>3. due'[u] = (IF due[u] = Zero THEN due[u] ELSE Pred(due[u])) /\ flag'[u] = TRUE
      BY <1>3, <2>2
    <3> QED
      BY <3>2, <3>3
  <2> QED
    BY <2>1, <2>2
<1>7. Covered'
  <2> SUFFICES ASSUME NEW u \in Timer, ~nested[u], ~(Restarting(u) /\ pc \notin {"duration", "enable"}),
                      NEW w \in Word, Stands(u, w)
               PROVE  Behind(due'[u], Goal(u, w), flag'[u], Has(u, Counting))
    BY <1>1, <1>2, Zenon DEF Covered, Behind
  <2> QED
    BY <1>6 DEF Timed, Covered
<1> QED
  BY <1>4, <1>5, <1>7 DEF Timed

LEMMA VectorTimed == ASSUME TypeOK, Timed, NEW t \in Timer, Vector(t) PROVE Timed'
<1>1. /\ UNCHANGED <<mask, clock, duration, call, tim, pc, k, acc, asked, due, over, torn>>
      /\ \A u, w : Stands(u, w)' <=> Stands(u, w)
      /\ \A u \in Timer : ~nested'[u] => ~nested[u] /\ (u = t => ~Has(t, Counting))
      /\ \A u : Has(u, Counting)' <=> Has(u, Counting) \/ u = t
      /\ \A u : Has(u, {"mask"})' => Has(u, {"mask"})
      /\ flag[t] /\ flag' = [flag EXCEPT ![t] = FALSE]
  BY VectorKeeps
<1>2. /\ \A u : Restarting(u)' = Restarting(u)
      /\ \A u, w : Goal(u, w)' = Goal(u, w)
  BY <1>1 DEF Restarting, Goal, Kept, Mix
<1>3. Paths' /\ Started' /\ Finished' /\ Expiring'
  BY <1>1, <1>2 DEF Timed, Paths, Started, Finished, Expiring
<1>4. Reads'
  <2>1. \A f \in Frames' : f \in Frames \/ f.at = "test"
    <3>1. /\ Len(stack) \in Nat /\ Len(stack') = Len(stack) + 1 /\ stack'[1].at = "test"
          /\ \A i \in 1..Len(stack) : stack'[i + 1] = stack[i]
      BY AfterVector
    <3>2. ASSUME NEW i \in 1..Len(stack')
          PROVE  i = 1 \/ (i - 1 \in 1..Len(stack) /\ stack'[i] = stack[i - 1])
      <4>1. i = 1 \/ (i - 1 \in 1..Len(stack) /\ (i - 1) + 1 = i)
        BY <3>1
      <4> QED
        BY <3>1, <4>1
    <3> QED
      BY <3>1, <3>2 DEF Frames
  <2> QED
    BY <1>1, <2>1 DEF Timed, Reads, TypeOK
<1>5. Covered'
  <2> SUFFICES ASSUME NEW u \in Timer, ~nested'[u], ~(Restarting(u) /\ pc \notin {"duration", "enable"}),
                      NEW w \in Word, Stands(u, w)
               PROVE  Behind(due[u], Goal(u, w), flag'[u], Has(u, Counting)')
    BY <1>1, <1>2 DEF Covered
  <2>1. Behind(due[u], Goal(u, w), flag[u], Has(u, Counting))
    BY <1>1 DEF Timed, Covered
  <2>2. CASE u # t
    <3>1. flag'[u] = flag[u] /\ (Has(u, Counting)' <=> Has(u, Counting))
      BY <1>1, <2>2 DEF TypeOK
    <3> QED
      BY <2>1, <3>1 DEF Behind
  <2>3. CASE u = t
    <3>1. flag'[u] = FALSE /\ Has(u, Counting)' /\ flag[u] /\ ~Has(u, Counting)
      BY <1>1, <2>3 DEF TypeOK
    <3>2. Behind(due[u], Goal(u, w), FALSE, TRUE)
      BY <2>1, <3>1, Zenon DEF Behind
    <3> QED
      BY <3>1, <3>2 DEF Behind
  <2> QED
    BY <2>2, <2>3
<1> QED
  BY <1>3, <1>4, <1>5 DEF Timed

(* With no handler about, what is covered is what the durations cover.      *)
LEMMA CoveredAlone ==
    ASSUME stack = <<>>, stack' = stack, TypeOK, TypeOK'
    PROVE  /\ Covered <=> \A t \in Timer : \/ nested[t]
                                           \/ Restarting(t) /\ pc \notin {"duration", "enable"}
                                           \/ Behind(due[t], Goal(t, duration[t]), flag[t], FALSE)
           /\ (\A t \in Timer : \/ nested'[t]
                                \/ Restarting(t)' /\ pc' \notin {"duration", "enable"}
                                \/ Behind(due'[t], Goal(t, duration[t])', flag'[t], FALSE)) => Covered'
           /\ Expiring' /\ Frames = {} /\ Frames' = {}
<1>1. /\ \A t, L : ~Has(t, L) /\ ~Has(t, L)'
      /\ \A t, w : Stands(t, w) <=> w = duration[t]
      /\ \A t, w : Stands(t, w)' <=> w = duration'[t]
  BY NoHandler
<1>2. \A t \in Timer : duration[t] \in Word /\ duration'[t] \in Word
  BY DEF TypeOK
<1>3. \A d, g, f : \A c : ~c => (Behind(d, g, f, c) <=> Behind(d, g, f, FALSE))
  BY DEF Behind
<1>4. Covered <=> \A t \in Timer : \/ nested[t]
                                   \/ Restarting(t) /\ pc \notin {"duration", "enable"}
                                   \/ Behind(due[t], Goal(t, duration[t]), flag[t], FALSE)
  BY <1>1, <1>2, <1>3 DEF Covered
<1>5. (\A t \in Timer : \/ nested'[t]
                        \/ Restarting(t)' /\ pc' \notin {"duration", "enable"}
                        \/ Behind(due'[t], Goal(t, duration[t])', flag'[t], FALSE)) => Covered'
  BY <1>1, <1>2, <1>3 DEF Covered, Behind
<1>6. Expiring'
  BY <1>1 DEF Expiring
<1>7. Frames = {} /\ Frames' = {}
  <2>1. \A i : i \notin 1..Len(stack)
    OBVIOUS
  <2> QED
    BY <2>1 DEF Frames
<1> QED
  BY <1>4, <1>5, <1>6, <1>7

LEMMA EntersTimed == TypeOK /\ TypeOK' /\ Timed /\ Enters => Timed'
<1> SUFFICES ASSUME TypeOK, TypeOK', Timed, Enters PROVE Timed'
  OBVIOUS
<1>1. /\ UNCHANGED <<mask, clock, flag, duration, stack, nested, torn>>
      /\ stack = <<>> /\ pc = "idle" /\ tim' \in Timer
      /\ \/ pc' = "ctc" /\ call' \in {"tdelay_init", "beeper_init"}
         \/ pc' = "cs_clear" /\ call' = "tdelay"
         \/ pc' = "mask_off" /\ call' \in {"beeper_beep", "beeper_off"}
         \/ pc' = "test" /\ call' = "beeper_block"
      /\ IF call' = "beeper_off" THEN due' = [due EXCEPT ![tim'] = Zero] ELSE due' = due
  BY EntersMove DEF hw
<1>2. \A t \in Timer : due'[t] = due[t] \/ due'[t] = Zero
  BY <1>1 DEF TypeOK
<1>3. /\ \A t : ~Restarting(t)
      /\ \A t \in Timer : Goal(t, duration[t]) = duration[t] /\ Goal(t, duration[t])' = duration[t]
  <2>1. \A t \in Timer : Goal(t, duration[t]) = duration[t] /\ Goal(t, duration[t])' = duration'[t]
    BY <1>1, GoalStands
  <2> QED
    BY <1>1, <2>1 DEF Restarting
<1>4. Covered'
  <2>1. \A t \in Timer : nested[t] \/ Behind(due[t], duration[t], flag[t], FALSE)
    BY <1>1, <1>3, CoveredAlone DEF Timed
  <2>2. \A t \in Timer : nested[t] \/ Behind(due'[t], duration[t], flag[t], FALSE)
    BY <1>2, <2>1 DEF Behind
  <2> QED
    BY <1>1, <1>3, <2>2, CoveredAlone
<1>5. Expiring'
  BY <1>1, CoveredAlone
<1>6. Finished'
  BY <1>1, <1>2, <1>3 DEF Timed, Finished
<1>7. Started'
  BY <1>1 DEF Started, TypeOK
<1>8. Paths' /\ Reads'
  BY <1>1 DEF Paths, Reads
<1> QED
  BY <1>4, <1>5, <1>6, <1>7, <1>8 DEF Timed

(* A step of the main program that touches no duration and sets no new one. *)
LEMMA QuietStep ==
    ASSUME TypeOK, TypeOK', Timed, stack = <<>>, UNCHANGED <<stack, tim, duration, due, nested, flag>>,
           pc # "duration", pc' # "duration",
           Restarting(tim) /\ pc # "enable" => Restarting(tim)' /\ pc' # "enable",
           mask'[tim] \/ Restarting(tim)' \/ due[tim] = Zero \/ (~Restarting(tim) /\ ~mask[tim]),
           \A t \in Timer : t # tim => mask'[t] = mask[t]
    PROVE  Covered' /\ Expiring' /\ Finished'
<1>1. tim \in Timer
  BY DEF TypeOK
<1>2. \A t : t # tim => ~Restarting(t) /\ ~Restarting(t)'
  BY DEF Restarting
<1>3. \A t \in Timer : Goal(t, duration[t]) = duration[t] /\ Goal(t, duration[t])' = duration[t]
  BY GoalStands
<1>4. \A t \in Timer : \/ nested[t]
                       \/ Restarting(t) /\ pc \notin {"duration", "enable"}
                       \/ Behind(due[t], duration[t], flag[t], FALSE)
  BY <1>3, CoveredAlone DEF Timed
<1>5. \A t \in Timer : \/ nested'[t]
                       \/ Restarting(t)' /\ pc' \notin {"duration", "enable"}
                       \/ Behind(due[t], duration[t], flag[t], FALSE)
  BY <1>1, <1>2, <1>4
<1>6. Covered'
  BY <1>3, <1>5, CoveredAlone
<1>7. Finished'
  BY <1>1, <1>2 DEF Timed, Finished
<1> QED
  BY <1>6, <1>7, CoveredAlone

LEMMA CallStepTimed == TypeOK /\ TypeOK' /\ Parted /\ Timed /\ CallStep => Timed'
<1> SUFFICES ASSUME TypeOK, TypeOK', Parted, Timed, CallStep PROVE Timed'
  OBVIOUS
<1>1. stack = <<>> /\ UNCHANGED <<stack, tim>> /\ tim \in Timer
  BY CallStepMoves DEF TypeOK
<1>2. \A t : t # tim => ~Restarting(t) /\ ~Restarting(t)'
  BY <1>1 DEF Restarting
<1>3. Paths /\ Started /\ Reads
  BY DEF Timed
<1>4. ASSUME Covered' /\ Expiring' /\ Finished', Started', Paths', Reads' PROVE Timed'
  BY <1>4 DEF Timed
<1> USE DEF Step, ledger, hw
<1>5. CASE InitCtc \/ InitPin
  <2>1. /\ UNCHANGED <<duration, due, nested, flag, mask>>
        /\ pc \in {"ctc", "pin", "pin0"} /\ pc' \in {"pin", "pin0", "idle"}
        /\ call' \in {call, "none"} /\ (pc' # "idle" => call' = call)
    BY <1>5 DEF InitCtc, InitPin
  <2>2. ~Restarting(tim) /\ ~Restarting(tim)' /\ pc' \notin {"duration", "enable", "spin"}
    BY <1>1, <2>1 DEF Restarting
  <2>3. mask[tim] \/ due[tim] = Zero \/ nested[tim]
    BY <1>1, <2>2 DEF Timed, Finished
  <2>4. Covered' /\ Expiring' /\ Finished'
    <3>1. mask'[tim] \/ Restarting(tim)' \/ due[tim] = Zero \/ (~Restarting(tim) /\ ~mask[tim])
      BY <2>1, <2>2
    <3> QED
      BY <1>1, <2>1, <2>2, <3>1, QuietStep
  <2>5. Started' /\ Paths' /\ Reads'
    BY <1>1, <1>3, <2>1, <2>2 DEF Started, Paths, Reads
  <2> QED
    BY <1>4, <2>4, <2>5
<1>6. CASE MaskOff \/ ClockOff
  <2>1. /\ UNCHANGED <<duration, due, nested, flag, call>>
        /\ pc \in {"mask_off", "clock_off"} /\ pc' \in {"clock_off", "zero"}
        /\ \A t \in Timer : t # tim => mask'[t] = mask[t]
    BY <1>6 DEF MaskOff, ClockOff, TypeOK
  <2>2. CASE call = "beeper_beep"
    <3>1. Restarting(tim)' /\ pc' # "enable"
      BY <1>1, <2>1, <2>2 DEF Restarting
    <3>2. Covered' /\ Expiring' /\ Finished'
      BY <1>1, <2>1, <3>1, QuietStep
    <3>3. Started' /\ Paths' /\ Reads'
      BY <1>1, <1>3, <2>1, <2>2 DEF Started, Paths, Reads
    <3> QED
      BY <1>4, <3>2, <3>3
  <2>3. CASE call = "beeper_off"
    <3>1. due[tim] = Zero /\ ~Restarting(tim)
      BY <1>3, <2>1, <2>3 DEF Started, Restarting
    <3>2. Covered' /\ Expiring' /\ Finished'
      BY <1>1, <2>1, <3>1, QuietStep
    <3>3. Started' /\ Paths' /\ Reads'
      BY <1>1, <1>3, <2>1, <2>3, <3>1 DEF Started, Paths, Reads
    <3> QED
      BY <1>4, <3>2, <3>3
  <2> QED
    BY <1>3, <2>1, <2>2, <2>3 DEF Paths
<1>7. CASE ClearClock \/ StartClock
  <2>1. /\ UNCHANGED <<duration, due, nested, flag, mask, call>>
        /\ pc \in {"cs_clear", "cs_set"} /\ pc' \in {"cs_set", "tcnt"}
    BY <1>7 DEF ClearClock, StartClock
  <2>2. Restarting(tim)'
    BY <1>1, <2>1 DEF Restarting
  <2>3. Covered' /\ Expiring' /\ Finished'
    BY <1>1, <2>1, <2>2, QuietStep
  <2>4. Started' /\ Paths' /\ Reads'
    BY <1>1, <1>3, <2>1 DEF Started, Paths, Reads
  <2> QED
    BY <1>4, <2>3, <2>4
<1>8. CASE EnableInterrupt
  <2>1. /\ UNCHANGED <<duration, due, nested, flag>> /\ pc = "enable" /\ pc' \in {"test", "idle"}
        /\ mask'[tim] /\ \A t \in Timer : t # tim => mask'[t] = mask[t]
        /\ call' \in {call, "none"} /\ (pc' # "idle" => call' = "tdelay")
    BY <1>8 DEF EnableInterrupt, TypeOK
  <2>2. ~Restarting(tim)'
    BY <1>1, <2>1 DEF Restarting
  <2>3. Covered' /\ Expiring' /\ Finished'
    BY <1>1, <2>1, <2>2, QuietStep
  <2>4. Started' /\ Paths' /\ Reads'
    BY <1>1, <1>3, <2>1 DEF Started, Paths, Reads
  <2> QED
    BY <1>4, <2>3, <2>4
<1>9. CASE Test
  <2>1. /\ UNCHANGED <<duration, due, nested, flag, mask, k>> /\ pc = "test" /\ pc' \in {"spin", "zero"}
        /\ call' = call
    BY <1>9 DEF Test
  <2>2. ~Restarting(tim) /\ ~Restarting(tim)' /\ k = 1 /\ call \in {"tdelay", "beeper_block"}
    BY <1>1, <1>3, <2>1 DEF Restarting, Paths, Parted, FromStart
  <2>3. mask'[tim] \/ Restarting(tim)' \/ due[tim] = Zero \/ (~Restarting(tim) /\ ~mask[tim])
    BY <2>1, <2>2
  <2>4. Covered' /\ Expiring' /\ Finished'
    BY <1>1, <2>1, <2>2, <2>3, QuietStep
  <2>5. Started' /\ Paths' /\ Reads'
    BY <1>1, <1>3, <2>1, <2>2 DEF Started, Paths, Reads
  <2> QED
    BY <1>4, <2>4, <2>5
<1>10. CASE Spin
  <2>1. /\ UNCHANGED <<duration, due, nested, flag, mask>> /\ pc = "spin" /\ pc' \in {"spin", "idle"}
        /\ call' \in {call, "none"} /\ (pc' # "idle" => call' = call)
    BY <1>10 DEF Spin
  <2>2. ~Restarting(tim) /\ ~Restarting(tim)'
    BY <1>1, <2>1 DEF Restarting
  <2>3. mask'[tim] \/ Restarting(tim)' \/ due[tim] = Zero \/ (~Restarting(tim) /\ ~mask[tim])
    BY <2>1, <2>2
  <2>4. Covered' /\ Expiring' /\ Finished'
    BY <1>1, <2>1, <2>2, <2>3, QuietStep
  <2>5. Started' /\ Paths'
    BY <1>1, <1>3, <2>1 DEF Started, Paths
  <2>6. Reads'
    <3> SUFFICES ASSUME k' > 1, ~torn', ~nested[tim], acc'[1] = 0
                 PROVE  \A j \in 1 .. k' - 1 : duration[tim][j] = acc'[j]
      BY <1>1, <2>1, CoveredAlone DEF Reads
    <3>1. /\ k < Width /\ k' = k + 1 /\ acc' = [acc EXCEPT ![k] = duration[tim][k]]
          /\ torn' = (torn /\ 1 < k /\ k < Width)
      BY <1>10 DEF Spin
    <3>2. acc \in Word /\ k \in 1..Width
      BY DEF TypeOK
    <3>3. \A j \in 1..Width : acc'[j] = IF j = k THEN duration[tim][k] ELSE acc[j]
      BY <3>1, <3>2 DEF Word
    <3>4. \A j \in 1 .. k' - 1 : j \in 1..Width /\ (j = k \/ (j \in 1 .. k - 1 /\ k > 1))
      BY <3>1, <3>2, WidthAssumption
    <3>5. k > 1 => \A j \in 1 .. k - 1 : duration[tim][j] = acc[j]
      <4>1. SUFFICES ASSUME k > 1 PROVE \A j \in 1 .. k - 1 : duration[tim][j] = acc[j]
        OBVIOUS
      <4>2. ~torn
        BY <3>1, <4>1
      <4>3. acc[1] = 0
        <5>1. 1 \in 1..Width /\ 1 # k
          BY <4>1, WidthAssumption
        <5> QED
          BY <3>3, <5>1
      <4> QED
        BY <1>3, <2>1, <4>1, <4>2, <4>3 DEF Reads
    <3> QED
      BY <3>3, <3>4, <3>5
  <2> QED
    BY <1>4, <2>4, <2>5, <2>6
<1>11. CASE StoreZero
  <2>1. UNCHANGED <<mask, flag, due, nested>>
    BY <1>11 DEF StoreZero
  <2>2. PICK m \in {"cs_clear", "idle"} : m = IF call = "beeper_beep" THEN "cs_clear" ELSE "idle"
    OBVIOUS
  <2>3. StoreByte("zero", Zero, m)
    BY <1>11, <2>2 DEF StoreZero
  <2>4. /\ pc = "zero" /\ \A t \in Timer : t # tim => duration'[t] = duration[t]
        /\ pc' = "zero" \/ pc' = m
        /\ call' = IF pc' = "idle" THEN "none" ELSE call
    <3>1. /\ pc = "zero" /\ \A t \in Timer : t # tim => duration'[t] = duration[t]
          /\ pc' = "zero" \/ pc' = m
      BY <2>3, ZeroType, StoresByte
    <3> QED
      BY <2>2, <2>3, <3>1 DEF StoreByte
  <2>5. IF call = "beeper_beep" THEN Restarting(tim)' /\ pc' # "enable" ELSE due[tim] = Zero \/ nested[tim]
    <3>1. CASE call = "beeper_beep"
      BY <1>1, <2>2, <2>4, <3>1 DEF Restarting
    <3>2. CASE call # "beeper_beep"
      <4>1. ~Restarting(tim)
        BY <2>4, <3>2 DEF Restarting
      <4>2. ~mask[tim]
        BY <2>4 DEF Parted, Alone
      <4> QED
        BY <1>1, <3>2, <4>1, <4>2 DEF Timed, Finished
    <3> QED
      BY <3>1, <3>2
  <2>6. ASSUME NEW t \in Timer
        PROVE  /\ \/ nested[t]
                  \/ Restarting(t)' /\ pc' \notin {"duration", "enable"}
                  \/ Behind(due[t], Goal(t, duration[t])', flag[t], FALSE)
               /\ mask[t] \/ nested[t] \/ Restarting(t)' \/ due[t] = Zero
    <3>1. CASE t = tim
      <4>1. pc' \notin {"duration", "enable"}
        BY <2>2, <2>4
      <4>2. Restarting(tim)' => Restarting(t)'
        BY <1>1, <3>1 DEF Restarting
      <4>3. \A g : due[t] = Zero => Behind(due[t], g, flag[t], FALSE)
        BY DEF Behind
      <4> QED
        BY <2>5, <3>1, <4>1, <4>2, <4>3
    <3>2. CASE t # tim
      <4>1. Goal(t, duration[t])' = Goal(t, duration[t])
        BY <1>1, <2>4, <3>2, GoalStands
      <4>2. nested[t] \/ Behind(due[t], Goal(t, duration[t]), flag[t], FALSE)
        BY <1>1, <1>2, <3>2, CoveredAlone DEF Timed
      <4>3. mask[t] \/ nested[t] \/ due[t] = Zero
        BY <1>2, <3>2 DEF Timed, Finished
      <4> QED
        BY <4>1, <4>2, <4>3
    <3> QED
      BY <3>1, <3>2
  <2>7. Covered' /\ Expiring' /\ Finished'
    <3>1. Covered' /\ Expiring'
      BY <1>1, <2>1, <2>6, CoveredAlone
    <3>2. Finished'
      BY <2>1, <2>6 DEF Finished
    <3> QED
      BY <3>1, <3>2
  <2>8. Started' /\ Paths' /\ Reads'
    BY <1>1, <1>3, <2>1, <2>2, <2>4 DEF Started, Paths, Reads
  <2> QED
    BY <1>4, <2>7, <2>8
<1>12. CASE ClearCounter
  <2>1. /\ pc = "tcnt" /\ pc' = "duration" /\ UNCHANGED <<mask, flag, duration, k, acc>> /\ call' = call
        /\ due' = [due EXCEPT ![tim] = acc]
        /\ nested' = [nested EXCEPT ![tim] = FALSE]
    BY <1>12 DEF ClearCounter
  <2>2. \A t \in Timer : /\ t # tim => due'[t] = due[t] /\ nested'[t] = nested[t]
                         /\ t = tim => due'[t] = acc
    BY <2>1 DEF TypeOK
  <2>3. Restarting(tim)' /\ call \in {"tdelay", "beeper_beep"}
    BY <1>1, <1>3, <2>1 DEF Restarting, Paths
  <2>4. Goal(tim, duration[tim])' = acc
    <3>1. k = 1
      BY <2>1 DEF Parted, FromStart
    <3>2. Kept(tim)' = 0
      BY <1>1, <2>1, <3>1 DEF Kept
    <3>3. Goal(tim, duration[tim])' = Mix(0, duration[tim], acc)
      BY <1>1, <2>1, <3>2 DEF Goal, Mix
    <3> QED
      BY <1>1, <3>3, MixEnds DEF TypeOK
  <2>5. ASSUME NEW t \in Timer
        PROVE  \/ nested'[t]
               \/ Restarting(t)' /\ pc' \notin {"duration", "enable"}
               \/ Behind(due'[t], Goal(t, duration[t])', flag'[t], FALSE)
    <3>1. CASE t = tim
      <4>1. \A f : Behind(acc, acc, f, FALSE)
        <5>1. PICK d \in Word : d = acc
          BY DEF TypeOK
        <5> QED
          BY <5>1, BehindStart
      <4>2. Goal(t, duration[t])' = acc /\ due'[t] = acc
        BY <1>1, <2>2, <2>4, <3>1
      <4> QED
        BY <4>1, <4>2
    <3>2. CASE t # tim
      <4>1. Goal(t, duration[t])' = Goal(t, duration[t])
        BY <1>1, <2>1, <3>2, GoalStands
      <4>2. nested[t] \/ Behind(due[t], Goal(t, duration[t]), flag[t], FALSE)
        BY <1>1, <1>2, <3>2, CoveredAlone DEF Timed
      <4> QED
        BY <2>1, <2>2, <3>2, <4>1, <4>2
    <3> QED
      BY <3>1, <3>2
  <2>6. Covered' /\ Expiring'
    BY <1>1, <2>5, CoveredAlone
  <2>7. Finished'
    BY <1>2, <2>1, <2>2, <2>3 DEF Timed, Finished
  <2>8. Started' /\ Paths' /\ Reads'
    BY <1>1, <1>3, <2>1, <2>3 DEF Started, Paths, Reads
  <2> QED
    BY <1>4, <2>6, <2>7, <2>8
<1>13. CASE StoreDuration
  <2>1. /\ Goal(tim, duration[tim])' = Goal(tim, duration[tim])
        /\ pc = "duration" /\ pc' \in {"duration", "enable"}
        /\ \A t \in Timer : t # tim => duration'[t] = duration[t]
        /\ UNCHANGED <<mask, flag, due, nested, call>>
    BY <1>13, StoreKeepsGoal
  <2>2. Restarting(tim)'
    BY <1>1, <2>1 DEF Restarting
  <2>3. \A t \in Timer : Goal(t, duration[t])' = Goal(t, duration[t])
    BY <1>1, <2>1, GoalStands
  <2>4. Covered' /\ Expiring'
    <3>1. \A t \in Timer : nested[t] \/ Behind(due[t], Goal(t, duration[t]), flag[t], FALSE)
      BY <1>1, <2>1, CoveredAlone DEF Timed
    <3> QED
      BY <1>1, <2>1, <2>3, <3>1, CoveredAlone
  <2>5. Finished'
    BY <1>2, <2>1, <2>2 DEF Timed, Finished
  <2>6. Started' /\ Paths' /\ Reads'
    BY <1>1, <1>3, <2>1 DEF Started, Paths, Reads
  <2> QED
    BY <1>4, <2>4, <2>5, <2>6
<1> QED
  BY <1>5, <1>6, <1>7, <1>8, <1>9, <1>10, <1>11, <1>12, <1>13 DEF CallStep

LEMMA InitTimed == Init => Timed
<1> SUFFICES ASSUME Init PROVE Timed
  OBVIOUS
<1>1. /\ pc = "idle" /\ call = "none" /\ stack = <<>> /\ TypeOK
      /\ \A t \in Timer : due[t] = Zero
  BY InitTypes DEF Init
<1> QED
  BY <1>1 DEF Timed, Covered, Behind, Expiring, Finished, Started, Paths, Reads

LEMMA NextTimed ==
    TypeOK /\ TypeOK' /\ Parted /\ Counted /\ Timed /\ [Next]_vars => Timed'
<1> SUFFICES ASSUME TypeOK, TypeOK', Parted, Counted, Timed, [Next]_vars PROVE Timed'
  OBVIOUS
<1>1. CASE UNCHANGED vars
  <2> USE <1>1 DEF vars, hw, main, ledger
  <2>1. /\ \A t : Restarting(t)' = Restarting(t)
        /\ \A t, w : Goal(t, w)' = Goal(t, w)
        /\ \A t, w : Stands(t, w)' <=> Stands(t, w)
        /\ \A t, L : Has(t, L)' <=> Has(t, L)
        /\ Frames' = Frames
    BY DEF Restarting, Goal, Kept, Mix, Stands, Has, Frames
  <2>2. Expiring' /\ Finished' /\ Started' /\ Paths' /\ Reads'
    BY <2>1 DEF Timed, Expiring, Finished, Started, Paths, Reads
  <2>3. Covered'
    BY <2>1, Zenon DEF Timed, Covered, Behind
  <2> QED
    BY <2>2, <2>3 DEF Timed
<1> QED
  BY <1>1, HandlerTimed, MatchTimed, VectorTimed, EntersTimed, CallStepTimed DEF Next

LEMMA ReturnsInTime ==
    TypeOK /\ TypeOK' /\ Parted /\ Timed /\ Next /\ Returns => due[tim] \in {Zero, One} \/ torn \/ nested[tim]
<1> SUFFICES ASSUME TypeOK, TypeOK', Parted, Timed, Next, Returns, ~torn, ~nested[tim]
             PROVE  due[tim] \in {Zero, One}
  OBVIOUS
<1>1. call \in {"tdelay", "beeper_block"} /\ pc # "idle" /\ pc' = "idle"
  BY DEF Returns
<1>2. CallStep
  BY <1>1, HandlerMoves, EntersMove, VectorKeeps DEF Next, Match, main
<1>3. stack = <<>> /\ UNCHANGED <<stack, tim>> /\ tim \in Timer
  BY <1>2, CallStepMoves DEF TypeOK
<1>4. CASE StoreZero
  <2>1. pc = "zero"
    BY <1>4 DEF StoreZero, StoreByte, Step
  <2>2. ~mask[tim] /\ ~Restarting(tim)
    BY <1>1, <2>1 DEF Parted, Alone, Restarting
  <2> QED
    BY <1>3, <2>2 DEF Timed, Finished
<1>5. CASE Spin
  <2>1. /\ pc = "spin" /\ ~(k < Width) /\ [acc EXCEPT ![k] = duration[tim][k]] = Zero
    BY <1>1, <1>5 DEF Spin, Step
  <2>2. acc \in Word /\ duration[tim] \in Word /\ k = Width /\ due[tim] \in Word
    BY <1>3, <2>1, WidthAssumption DEF TypeOK
  <2>3. \A j \in 1..Width : (IF j = Width THEN duration[tim][j] ELSE acc[j]) = 0
    <3>1. \A j \in 1..Width : [acc EXCEPT ![k] = duration[tim][k]][j] = 0
      BY <2>1 DEF Zero
    <3> QED
      BY <2>2, <3>1 DEF Word
  <2>4. \A j \in 1..Width : duration[tim][j] = 0
    <3>1. CASE k = 1
      <4>1. \A j \in 1..Width : j = Width
        BY <2>2, <3>1
      <4> QED
        BY <2>3, <4>1
    <3>2. CASE k # 1
      <4>1. k > 1 /\ 1 \in 1..Width /\ 1 # Width
        BY <2>2, <3>2, WidthAssumption
      <4>2. acc[1] = 0
        BY <2>3, <4>1
      <4>3. \A j \in 1 .. k - 1 : duration[tim][j] = acc[j]
        BY <2>1, <4>1, <4>2 DEF Timed, Reads
      <4>4. \A j \in 1..Width : j = Width \/ j \in 1 .. k - 1
        BY <2>2, WidthAssumption
      <4> QED
        BY <2>3, <4>3, <4>4
    <3> QED
      BY <3>1, <3>2
  <2>5. duration[tim] = Zero
    <3>1. \A j \in 1..Width : duration[tim][j] = Zero[j]
      BY <2>4 DEF Zero
    <3> QED
      BY <2>2, <3>1, ZeroType, SameWord
  <2>6. Goal(tim, duration[tim]) = Zero
    <3>1. Kept(tim) = Width
      BY <2>1 DEF Kept
    <3> QED
      BY <2>2, <2>5, <3>1, MixEnds DEF Goal
  <2>7. Behind(due[tim], Zero, flag[tim], FALSE)
    <3>1. ~Restarting(tim)
      BY <2>1 DEF Restarting
    <3> QED
      BY <1>3, <2>6, <3>1, CoveredAlone DEF Timed
  <2> QED
    BY <2>2, <2>7, BehindZero
<1>6. ~(InitCtc \/ InitPin \/ MaskOff \/ ClockOff \/ ClearClock \/ StartClock)
  BY <1>1 DEF InitCtc, InitPin, MaskOff, ClockOff, ClearClock, StartClock, Step, Timed, Paths
<1>7. ~(ClearCounter \/ StoreDuration \/ EnableInterrupt \/ Test)
  <2>1. StoreDuration => pc' \in {"duration", "enable"}
    BY StoreKeepsGoal
  <2>2. ~EnableInterrupt
    BY <1>1 DEF EnableInterrupt, Step, Timed, Paths
  <2> QED
    BY <1>1, <2>1, <2>2 DEF ClearCounter, Test, Step
<1> QED
  BY <1>2, <1>4, <1>5, <1>6, <1>7 DEF CallStep

LEMMA TimingInvariant == Spec => [](TypeOK /\ Parted /\ Counted /\ Timed)
<1>1. Init => TypeOK /\ Parted /\ Counted /\ Timed
  BY InitTypes, InitParted, InitTimed
<1>2. TypeOK /\ Parted /\ Counted /\ Timed /\ [Next]_vars => (TypeOK /\ Parted /\ Counted /\ Timed)'
  BY NextTypes, NextParted, NextTimed
<1> QED
  BY <1>1, <1>2, PTL DEF Spec

-----------------------------------------------------------------------------
(* The properties. *)

(* Types and ranges: no byte of a duration and no index leaves its range.   *)
THEOREM TypeSafe == Spec => []TypeOK
BY Types

(* For every program and every width of a duration: seen from the main      *)
(* program, no duration is larger than was asked for, so no handler counts  *)
(* below 0, but where a handler was interrupted by itself or the timer was  *)
(* set up over a countdown that still ran (_isr_tdelay_handler,             *)
(* _tdc_set_duration).                                                      *)
THEOREM BoundsSafe == Spec => []WithinBounds
<1>1. TypeOK /\ Bounded => WithinBounds
  <2>1. SUFFICES ASSUME TypeOK, Bounded, stack = <<>>, NEW t \in Timer, ~BeingSet(t), ~nested[t], ~over[t]
                 PROVE  AtMost(duration[t], asked[t])
    BY DEF WithinBounds, NeverMoreThanAsked
  <2>2. \A i : i \notin 1..Len(stack)
    BY <2>1
  <2>3. Stands(t, duration[t]) /\ duration[t] \in Word
    BY <2>1, <2>2 DEF Stands, Has, TypeOK
  <2>4. ~Overwritten(t) /\ Kept(t) = Width
    BY <2>1 DEF BeingSet, Overwritten, Kept
  <2>5. Goal(t, duration[t]) = duration[t]
    BY <2>1, <2>3, <2>4, MixEnds DEF Goal, TypeOK
  <2> QED
    BY <2>1, <2>3, <2>4, <2>5 DEF Bounded, Ceiling
<1> QED
  BY <1>1, CountingInvariant, PTL

(* Between calls a timer whose interrupt is masked does not run.            *)
THEOREM MaskedSafe == Spec => []MaskedIsStopped
<1>1. TypeOK /\ Accounted => MaskedIsStopped
  <2>1. SUFFICES ASSUME Accounted, pc = "idle", stack = <<>>, NEW t \in Timer, clock[t] PROVE mask[t]
    BY DEF MaskedIsStopped
  <2>2. \A i : i \notin 1..Len(stack)
    BY <2>1
  <2> QED
    BY <2>1, <2>2 DEF Accounted, SeenToByCall, Has
<1> QED
  BY <1>1, RunningInvariant, PTL

(* For every program and every width of a duration: a call that blocks does *)
(* not come back before the matches it was asked for, save one pending when *)
(* its timer was started, but where its loop read bytes on both sides of a  *)
(* borrow, or a handler of its timer was interrupted by itself (_tdc_block). *)
(* A delay overlaid by another one, and one started while the last match of *)
(* the one before is served, are among them.                                *)
THEOREM NotEarlySafe == Spec => NotEarlyUnlessTorn
<1>1. TypeOK /\ TypeOK' /\ Parted /\ Timed /\ [Next]_vars
          => [Returns => due[tim] \in {Zero, One} \/ torn \/ nested[tim]]_vars
  BY ReturnsInTime
<1> QED
  BY <1>1, TimingInvariant, PTL DEF Spec, NotEarlyUnlessTorn
-----------------------------------------------------------------------------
(* The clock: quotients and products. *)

(* A quotient, by what it is.                                               *)
LEMMA Quotient ==
    ASSUME NEW a \in Nat, NEW b \in Nat \ {0}
    PROVE  /\ a \div b \in Nat
           /\ b * (a \div b) <= a
           /\ a < b * (a \div b) + b
  OBVIOUS

(* The larger factor makes the larger product.                              *)
LEMMA Larger ==
    ASSUME NEW a \in Nat, NEW x \in Nat, NEW y \in Nat, x <= y
    PROVE  a * x <= a * y
  OBVIOUS

(* Strictly, for a factor that is not 0.                                    *)
LEMMA StrictlyLarger ==
    ASSUME NEW a \in Nat \ {0}, NEW x \in Nat, NEW y \in Nat, x < y
    PROVE  a * x < a * y
  OBVIOUS

(* Two divisions, one after the other.                                      *)
LEMMA TwoQuotients ==
    ASSUME NEW a \in Nat, NEW m \in Nat \ {0}, NEW s \in Nat \ {0}
    PROVE  /\ (a \div m) \div s \in Nat
           /\ m * (s * ((a \div m) \div s)) <= a
           /\ a < m * (s * ((a \div m) \div s)) + m * s
<1> DEFINE x == a \div m
           q == x \div s
           p == s * q
<1>1. x \in Nat /\ m * x <= a /\ a < m * x + m
  BY Quotient
<1>2. q \in Nat /\ p <= x /\ x < p + s
  BY <1>1, Quotient
<1>3. p \in Nat
  BY <1>2
<1> HIDE DEF x, q, p
<1>4. m * p <= m * x
  BY <1>1, <1>2, <1>3, Larger
<1>5. m * (x + 1) <= m * (p + s)
  BY <1>1, <1>2, <1>3, Larger
<1>6. m * (x + 1) = m * x + m /\ m * (p + s) = m * p + m * s
  BY <1>1, <1>3
<1>7. m * p \in Nat /\ m * x \in Nat /\ m * s \in Nat
  BY <1>1, <1>3
<1>8. m * p <= a /\ a < m * p + m * s
  BY <1>1, <1>4, <1>5, <1>6, <1>7
<1> QED
  BY <1>2, <1>8 DEF x, q, p

-----------------------------------------------------------------------------
(* The speed of the serial port. *)

(* What the loop of serial_init computes for a speed within reach.          *)
LEMMA ComputedNearest ==
    ASSUME NEW s \in Nat \ {0}, s = speed, NEW d \in {0, 1}, InReach
    PROVE  LET S == IF d = 1 THEN 8 ELSE 16
           IN /\ Computed(d) \in Nat
              /\ d = 0 => Computed(d) <= 4095
              /\ 2 * Distance(BaudClock, S * (Computed(d) + 1) * s) <= S * s
<1> DEFINE m == IF d = 1 THEN 4 ELSE 8
           q == (BaudClock \div m) \div s
           p == s * q
           v == (q - 1) \div 2
<1>1. m \in Nat \ {0}
  OBVIOUS
<1>2. BaudClock \in Nat
  BY SpeedAssumption
<1>3. q \in Nat /\ m * p <= BaudClock /\ BaudClock < m * p + m * s
  BY <1>1, <1>2, TwoQuotients
<1>4. p \in Nat
  BY <1>3
<1>5. BaudClock < 65544 * s /\ 8 * s <= BaudClock
  <2>1. BaudClock \div 65544 \in Nat /\ BaudClock < 65544 * (BaudClock \div 65544) + 65544
    BY <1>2, Quotient
  <2>2. BaudClock \div 65544 < s /\ 8 * s <= BaudClock
    BY DEF InReach
  <2> QED
    BY <1>2, <2>1, <2>2
<1> HIDE DEF q, p
<1>6. q >= 1
  <2>1. SUFFICES ASSUME q = 0 PROVE FALSE
    BY <1>3
  <2>2. p = 0
    BY <2>1 DEF p
  <2> QED
    BY <2>2, <1>3, <1>5, <1>2
<1>7. q <= 16386 /\ (d = 0 => q <= 8192)
  <2>1. m * p < 65544 * s
    BY <1>3, <1>4, <1>5, <1>2
  <2>2. CASE d = 1
    <3>1. p < 16386 * s
      BY <2>1, <2>2, <1>4
    <3>2. SUFFICES ASSUME q >= 16386 PROVE FALSE
      BY <1>3, <2>2
    <3>3. s * 16386 <= s * q
      BY <3>2, <1>3, Larger
    <3> QED
      BY <3>1, <3>3, <1>4 DEF p
  <2>3. CASE d = 0
    <3>1. p < 8193 * s
      BY <2>1, <2>3, <1>4
    <3>2. SUFFICES ASSUME q >= 8193 PROVE FALSE
      BY <1>3, <2>3
    <3>3. s * 8193 <= s * q
      BY <3>2, <1>3, Larger
    <3> QED
      BY <3>1, <3>3, <1>4 DEF p
  <2> QED
    BY <2>2, <2>3
<1>8. v \in Nat /\ v <= 8192 /\ (d = 0 => v <= 4095)
  BY <1>3, <1>6, <1>7
<1>9. Computed(d) = v
  <2>1. Computed(d) = HalfLessOne(q)
    BY DEF Computed, q
  <2> QED
    BY <2>1, <1>3, <1>6, <1>8 DEF HalfLessOne
<1>10. q = 2 * (v + 1) \/ q = 2 * (v + 1) - 1
  BY <1>3, <1>6
<1> HIDE DEF v
<1>11. p = 2 * ((v + 1) * s) \/ p = 2 * ((v + 1) * s) - s
  BY <1>10, <1>8 DEF p
<1>12. (v + 1) * s \in Nat
  BY <1>8
<1> DEFINE S == IF d = 1 THEN 8 ELSE 16
<1>13. S * (v + 1) * s = S * ((v + 1) * s)
  BY <1>8
<1> DEFINE w == (v + 1) * s
<1> HIDE DEF w
<1>14. 2 * Distance(BaudClock, S * w) <= S * s
  <2>1. w \in Nat /\ (p = 2 * w \/ p = 2 * w - s)
    BY <1>11, <1>12 DEF w
  <2>2. CASE d = 1
    BY <2>1, <2>2, <1>2, <1>3, <1>4 DEF Distance
  <2>3. CASE d = 0
    BY <2>1, <2>3, <1>2, <1>3, <1>4 DEF Distance
  <2> QED
    BY <2>2, <2>3
<1>15. 2 * Distance(BaudClock, S * (v + 1) * s) <= S * s
  BY <1>13, <1>14 DEF w
<1> QED
  BY <1>8, <1>9, <1>15

(* serial_init has set the divisor from the table, or computed it. *)
BaudInv == /\ speed \in Speeds
           /\ use_double \in {0, 1}
           /\ u2x \in {0, 1}
           /\ set \in BOOLEAN
           /\ set => \/ \E p \in Predefined : p[1] = speed /\ u2x = p[2] /\ baud_value = p[3]
                     \/ /\ baud_value = Computed(u2x)
                        /\ u2x = 1 => ~(baud_value > 4095)

LEMMA BaudInvInit == BaudInit => BaudInv
  BY DEF BaudInit, BaudInv

LEMMA BaudInvNext == BaudInv /\ BaudNext => BaudInv'
<1> SUFFICES ASSUME BaudInv, BaudNext PROVE BaudInv'
  OBVIOUS
<1>0. set \in BOOLEAN
  BY DEF BaudInv
<1>1. CASE Choose
  <2>1. \A p \in Predefined : p[2] \in {0, 1}
    BY DEF Predefined
  <2> QED
    BY <1>1, <2>1 DEF Choose, BaudInv, Predefined
<1>2. CASE Compute
  <2>1. /\ speed' = speed /\ u2x' = use_double /\ baud_value' = Computed(use_double)
        /\ \/ baud_value' > 4095 /\ use_double = 1 /\ use_double' = 0 /\ set' = FALSE
           \/ ~(baud_value' > 4095 /\ use_double = 1) /\ use_double' = use_double /\ set' = TRUE
    BY <1>2 DEF Compute, BaudInv
  <2>2. Computed(u2x)' = Computed(use_double)
    BY <2>1 DEF Computed, HalfLessOne
  <2>3. /\ baud_value' = Computed(u2x)'
        /\ set' => (u2x' = 1 => ~(baud_value' > 4095))
    BY <2>1, <2>2
  <2>4. speed' \in Speeds /\ u2x' \in {0, 1}
    BY <2>1 DEF BaudInv
  <2>5. use_double' \in {0, 1}
    BY <2>1 DEF BaudInv
  <2>6. set' = TRUE \/ set' = set
    BY <1>2 DEF Compute
  <2>7. set' \in BOOLEAN
    BY <1>0, <2>6, Zenon
  <2>8. set' => \/ (\E p \in Predefined : p[1] = speed /\ u2x = p[2] /\ baud_value = p[3])'
                \/ (baud_value = Computed(u2x) /\ (u2x = 1 => ~(baud_value > 4095)))'
    BY <2>3
  <2> QED
    BY <2>4, <2>5, <2>7, <2>8 DEF BaudInv
<1> QED
  BY <1>1, <1>2 DEF BaudNext

LEMMA BaudInvNearest == BaudInv => BaudNearest
<1> SUFFICES ASSUME BaudInv, set, InReach
             PROVE  /\ baud_value <= 4095
                    /\ 2 * Distance(BaudClock, Samples * (baud_value + 1) * speed)
                          <= Samples * speed
  BY DEF BaudNearest
<1>1. speed \in Nat \ {0}
  BY SpeedAssumption DEF BaudInv
<1>2. CASE \E p \in Predefined : p[1] = speed /\ u2x = p[2] /\ baud_value = p[3]
  BY <1>1, <1>2 DEF Predefined, Samples, Distance
<1>3. CASE baud_value = Computed(u2x) /\ (u2x = 1 => ~(baud_value > 4095))
  <2>1. u2x \in {0, 1}
    BY DEF BaudInv
  <2>2. /\ Computed(u2x) \in Nat
        /\ u2x = 0 => Computed(u2x) <= 4095
        /\ 2 * Distance(BaudClock, Samples * (Computed(u2x) + 1) * speed) <= Samples * speed
    BY <1>1, <2>1, ComputedNearest DEF Samples
  <2> QED
    BY <1>3, <2>1, <2>2
<1> QED
  BY <1>2, <1>3 DEF BaudInv

-----------------------------------------------------------------------------
(* The search for a prescaler. *)

(* How many prescalers the table of a timer has. *)
Size(t) == IF t # 1 /\ TdelayTimer(t) = 2 THEN 7 ELSE 5

(* The end of a table, and the prescalers before it.                        *)
LEMMA TableEnds ==
    ASSUME NEW t \in 0..2, NEW p \in 1..Size(t)
    PROVE  Table(t)[p + 1] # 0 <=> p < Size(t)
<1>1. \A i \in 1..7 : Prescalers2[i + 1] # 0 <=> i < 7
  BY DEF Prescalers2
<1>2. \A i \in 1..5 : Prescalers01[i + 1] # 0 <=> i < 5
  BY DEF Prescalers01
<1> QED
  BY <1>1, <1>2 DEF Size, Table

(* What the prescalers before the end divide the clock by.                  *)
Factors == {1, 8, 32, 64, 128, 256, 1024}

(* A power of two for each exponent.                                        *)
LEMMA FactorIs ==
    ASSUME NEW t, NEW p
    PROVE  LET e == Table(t)[p + 1]
               f == Factor(t, p)
           IN /\ e = 0 => f = 1
              /\ e = 3 => f = 8
              /\ e = 5 => f = 32
              /\ e = 6 => f = 64
              /\ e = 7 => f = 128
              /\ e = 8 => f = 256
              /\ e = 10 => f = 1024
<1> DEFINE e == Table(t)[p + 1]
           f == Factor(t, p)
<1>1. /\ 2^0 = 1 /\ 2^3 = 8 /\ 2^5 = 32 /\ 2^6 = 64 /\ 2^7 = 128 /\ 2^8 = 256 /\ 2^10 = 1024
  OBVIOUS
<1>2. f = 2^e
  BY DEF Factor
<1> HIDE DEF e, f
<1>3. /\ e = 0 => f = 2^0
      /\ e = 3 => f = 2^3
      /\ e = 5 => f = 2^5
      /\ e = 6 => f = 2^6
      /\ e = 7 => f = 2^7
      /\ e = 8 => f = 2^8
      /\ e = 10 => f = 2^10
  BY <1>2, Zenon
<1>4. /\ e = 0 => f = 1
      /\ e = 3 => f = 8
      /\ e = 5 => f = 32
      /\ e = 6 => f = 64
      /\ e = 7 => f = 128
      /\ e = 8 => f = 256
      /\ e = 10 => f = 1024
  BY <1>1, <1>3
<1> QED
  BY <1>4 DEF e, f

LEMMA FactorValue ==
    ASSUME NEW t \in 0..2, NEW p \in 0..Size(t) - 1
    PROVE  Factor(t, p) \in Factors
<1>1. Table(t)[p + 1] \in {0, 3, 5, 6, 7, 8, 10}
  <2>1. \A i \in 0..6 : Prescalers2[i + 1] \in {0, 3, 5, 6, 7, 8, 10}
    BY DEF Prescalers2
  <2>2. \A i \in 0..4 : Prescalers01[i + 1] \in {0, 3, 5, 6, 7, 8, 10}
    BY DEF Prescalers01
  <2> QED
    BY <2>1, <2>2 DEF Size, Table
<1> QED
  BY <1>1, FactorIs DEF Factors

LEMMA SizeValue == \A t : Size(t) \in 5..7
  BY DEF Size

LEMMA CriterionValue == \A t : Criterion(t) \in {255, 260}
  BY DEF Criterion

(* The compare values are natural numbers.                                  *)
LEMMA OcrType ==
    ASSUME timer \in 0..2, freq \in Nat, NEW p \in 0..Size(timer) - 1
    PROVE  /\ OcrValues(p) \subseteq Nat
           /\ freq > 0 => OcrValues(p) = {Ocr(p)}
<1> DEFINE e == Factor(timer, p)
<1>1. e \in Nat \ {0}
  BY FactorValue DEF Factors
<1> HIDE DEF e
<1>2. freq > 0 => Ocr(p) \in Nat
  <2> SUFFICES ASSUME freq > 0 PROVE Ocr(p) \in Nat
    OBVIOUS
  <2>1. 2 * freq * e \in Nat \ {0}
    BY <1>1
  <2>2. FCpu \div (2 * freq * e) \in Nat
    BY <2>1, InputAssumption, Quotient
  <2> QED
    BY <2>2 DEF Ocr, e
<1>3. Criterion(timer) \in Nat
  BY CriterionValue
<1> QED
  BY <1>2, <1>3 DEF OcrValues

(* All the prescalers before the last one looked at were too fine, and the *)
(* last one is not, or there is no other.                                  *)
CalcInv ==
    /\ CalcTypeOK
    /\ presc \in 0..Size(timer)
    /\ stage = "search" =>
          /\ presc < Size(timer)
          /\ freq > 0 => \A p \in 0..presc - 1 : Ocr(p) > Criterion(timer)
    /\ stage \in {"program", "done"} =>
          /\ presc > 0
          /\ freq > 0 => /\ \A p \in 0..presc - 2 : Ocr(p) > Criterion(timer)
                         /\ ocr2 = Ocr(presc - 1)
                         /\ ocr2 <= Criterion(timer) \/ presc = Size(timer)
    /\ stage = "done" => cs = presc /\ ocr = Clamped(ocr2) /\ matches = Matches(freq, delay)

LEMMA CalcInvInit == CalcInit => CalcInv
<1> SUFFICES ASSUME CalcInit PROVE CalcInv
  OBVIOUS
<1>1. freq \in Nat
  BY InputAssumption DEF CalcInit, Frequencies
<1>2. timer \in 0..2 /\ delay \in Nat
  BY InputAssumption, ImplementedAssumption DEF CalcInit
<1>3. CalcTypeOK
  BY <1>1, <1>2 DEF CalcInit, CalcTypeOK
<1> QED
  BY <1>1, <1>2, <1>3, SizeValue DEF CalcInit, CalcInv

LEMMA CalcInvSearch == CalcInv /\ Search => CalcInv'
<1> SUFFICES ASSUME CalcInv, Search PROVE CalcInv'
  OBVIOUS
<1>1. /\ timer' = timer /\ freq' = freq /\ delay' = delay
      /\ cs' = cs /\ ocr' = ocr /\ matches' = matches
      /\ presc' = presc + 1 /\ ocr2' \in OcrValues(presc)
      /\ stage = "search"
      /\ stage' = IF ocr2' > Criterion(timer) /\ Table(timer)[presc' + 1] # 0
                  THEN "search" ELSE "program"
  BY DEF Search
<1>2. timer \in 0..2 /\ freq \in Nat /\ presc \in 0..Size(timer) - 1 /\ Size(timer) \in 5..7
  BY <1>1, SizeValue DEF CalcInv, CalcTypeOK
<1>3. ocr2' \in Nat /\ (freq > 0 => ocr2' = Ocr(presc))
  BY <1>1, <1>2, OcrType
<1>4. Table(timer)[presc' + 1] # 0 <=> presc' < Size(timer)
  BY <1>1, <1>2, TableEnds
<1>5. Size(timer)' = Size(timer) /\ Criterion(timer)' = Criterion(timer)
  BY <1>1 DEF Size, Criterion, TdelayTimer
<1>6. \A p : Ocr(p)' = Ocr(p)
  BY <1>1 DEF Ocr, Factor, Table, TdelayTimer
<1>7. CalcTypeOK'
  BY <1>1, <1>2, <1>3 DEF CalcInv, CalcTypeOK
<1>8. freq > 0 => \A p \in 0..presc - 1 : Ocr(p) > Criterion(timer)
  BY <1>1 DEF CalcInv
<1>9. Criterion(timer) \in Nat
  BY CriterionValue
<1>10. CASE stage' = "search"
  <2>1. ocr2' > Criterion(timer) /\ presc' < Size(timer)
    BY <1>1, <1>4, <1>10
  <2>2. freq > 0 => \A p \in 0..presc' - 1 : Ocr(p) > Criterion(timer)
    BY <1>1, <1>2, <1>3, <1>8, <2>1
  <2>3. freq' > 0 => \A p \in 0..presc' - 1 : Ocr(p)' > Criterion(timer)'
    BY <2>2, <1>1, <1>5, <1>6
  <2> QED
    BY <1>1, <1>2, <1>5, <1>7, <1>10, <2>1, <2>3 DEF CalcInv
<1>11. CASE stage' = "program"
  <2>1. ocr2' <= Criterion(timer) \/ presc' = Size(timer)
    BY <1>1, <1>2, <1>3, <1>4, <1>9, <1>11
  <2>2. freq > 0 => /\ \A p \in 0..presc' - 2 : Ocr(p) > Criterion(timer)
                    /\ ocr2' = Ocr(presc' - 1)
    BY <1>1, <1>2, <1>3, <1>8
  <2>3. freq' > 0 => /\ \A p \in 0..presc' - 2 : Ocr(p)' > Criterion(timer)'
                     /\ ocr2' = Ocr(presc - 1)'
                     /\ ocr2' <= Criterion(timer)' \/ presc' = Size(timer)'
    <3>1. Ocr(presc - 1)' = Ocr(presc' - 1)
      BY <1>1 DEF Ocr, Factor, Table, TdelayTimer
    <3> QED
      BY <2>1, <2>2, <1>1, <1>5, <1>6, <3>1
  <2> QED
    BY <1>1, <1>2, <1>5, <1>7, <1>11, <2>3 DEF CalcInv
<1> QED
  BY <1>1, <1>10, <1>11

LEMMA CalcInvProgram == CalcInv /\ Program => CalcInv'
<1> SUFFICES ASSUME CalcInv, Program PROVE CalcInv'
  OBVIOUS
<1>1. /\ timer' = timer /\ freq' = freq /\ delay' = delay /\ presc' = presc /\ ocr2' = ocr2
      /\ stage = "program" /\ stage' = "done"
      /\ cs' = presc % 8 /\ ocr' = Clamped(ocr2) /\ matches' = Matches(freq, delay)
  BY DEF Program
<1>2. presc \in 0..7 /\ freq \in Nat /\ delay \in Nat /\ ocr2 \in Nat
  BY DEF CalcInv, CalcTypeOK
<1>3. cs' = presc
  BY <1>1, <1>2
<1>4. ocr' \in 0..260
  BY <1>1, <1>2, CriterionValue DEF Clamped
<1>5. matches' \in Nat
  BY <1>1, <1>2, Quotient DEF Matches
<1>6. /\ Size(timer)' = Size(timer) /\ Criterion(timer)' = Criterion(timer)
      /\ Clamped(ocr2)' = Clamped(ocr2) /\ Matches(freq, delay)' = Matches(freq, delay)
      /\ Ocr(presc - 1)' = Ocr(presc - 1)
  BY <1>1 DEF Size, Criterion, TdelayTimer, Clamped, Matches, Ocr, Factor, Table
<1>7. \A p : Ocr(p)' = Ocr(p)
  BY <1>1 DEF Ocr, Factor, Table, TdelayTimer
<1>8. CalcTypeOK'
  BY <1>1, <1>2, <1>3, <1>4, <1>5 DEF CalcInv, CalcTypeOK
<1> QED
  BY <1>1, <1>3, <1>6, <1>7, <1>8 DEF CalcInv

(* With its own table, a clock select value divides by what the search took *)
(* it to divide by; with another, by no more.                               *)
LEMMA TableFits ==
    ASSUME timer \in Implemented, timer \in 0..2
    PROVE  /\ 1..Size(timer) \subseteq Dividers(timer)
           /\ \A p \in 0..Size(timer) - 1 : Divider(timer, p + 1) <= Factor(timer, p)
           /\ OwnTable => /\ Dividers(timer) = 1..Size(timer)
                          /\ \A p \in 0..Size(timer) - 1 : Factor(timer, p) = Divider(timer, p + 1)
<1>1. ASSUME timer # 1, TdelayTimer(timer) = 2, NEW p \in 0..6
      PROVE  Factor(timer, p) = <<1, 8, 32, 64, 128, 256, 1024>>[p + 1]
  <2>1. Table(timer) = Prescalers2
    BY <1>1 DEF Table
  <2>2. \/ p = 0 /\ Prescalers2[p + 1] = 0
        \/ p = 1 /\ Prescalers2[p + 1] = 3
        \/ p = 2 /\ Prescalers2[p + 1] = 5
        \/ p = 3 /\ Prescalers2[p + 1] = 6
        \/ p = 4 /\ Prescalers2[p + 1] = 7
        \/ p = 5 /\ Prescalers2[p + 1] = 8
        \/ p = 6 /\ Prescalers2[p + 1] = 10
    BY <1>1 DEF Prescalers2
  <2>3. \/ p = 0 /\ Factor(timer, p) = 1
        \/ p = 1 /\ Factor(timer, p) = 8
        \/ p = 2 /\ Factor(timer, p) = 32
        \/ p = 3 /\ Factor(timer, p) = 64
        \/ p = 4 /\ Factor(timer, p) = 128
        \/ p = 5 /\ Factor(timer, p) = 256
        \/ p = 6 /\ Factor(timer, p) = 1024
    BY <2>1, <2>2, FactorIs
  <2> QED
    BY <2>3
<1>2. ASSUME ~(timer # 1 /\ TdelayTimer(timer) = 2), NEW p \in 0..4
      PROVE  Factor(timer, p) = <<1, 8, 64, 256, 1024>>[p + 1]
  <2>1. Table(timer) = Prescalers01
    BY <1>2 DEF Table
  <2>2. \/ p = 0 /\ Prescalers01[p + 1] = 0
        \/ p = 1 /\ Prescalers01[p + 1] = 3
        \/ p = 2 /\ Prescalers01[p + 1] = 6
        \/ p = 3 /\ Prescalers01[p + 1] = 8
        \/ p = 4 /\ Prescalers01[p + 1] = 10
    BY <1>2 DEF Prescalers01
  <2>3. \/ p = 0 /\ Factor(timer, p) = 1
        \/ p = 1 /\ Factor(timer, p) = 8
        \/ p = 2 /\ Factor(timer, p) = 64
        \/ p = 3 /\ Factor(timer, p) = 256
        \/ p = 4 /\ Factor(timer, p) = 1024
    BY <2>1, <2>2, FactorIs
  <2> QED
    BY <2>3
<1>3. OwnTable <=> (timer = 2 => {0, 1} \subseteq Implemented)
  BY DEF OwnTable
<1>4. CASE timer = 2
  <2>1. OwnTable => TdelayTimer(timer) = 2
    <3> SUFFICES ASSUME {0, 1} \subseteq Implemented PROVE TdelayTimer(timer) = 2
      BY <1>3, <1>4
    <3>1. \A u \in Implemented : u \in {0, 1, 2}
      BY ImplementedAssumption
    <3>2. \A u \in Implemented : u < 2 <=> u \in {0, 1}
      BY <3>1
    <3>3. {u \in Implemented : u < 2} = {0, 1}
      BY <3>2, Zenon
    <3>4. Cardinality({0, 1}) = 2
      <4>1. IsFiniteSet({0}) /\ Cardinality({0}) = 1
        BY FS_Singleton
      <4>2. Cardinality({0} \cup {1}) = 2
        BY <4>1, FS_AddElement
      <4>3. {0} \cup {1} = {0, 1}
        OBVIOUS
      <4> QED
        BY <4>2, <4>3
    <3> QED
      BY <1>4, <3>3, <3>4 DEF TdelayTimer
  <2>2. Dividers(timer) = 1..7
    BY <1>4 DEF Dividers
  <2>3. CASE TdelayTimer(timer) = 2
    <3>1. Size(timer) = 7
      BY <1>4, <2>3 DEF Size
    <3>2. \A p \in 0..6 : Factor(timer, p) = Divider(timer, p + 1) /\ Factor(timer, p) \in Nat
      BY <1>1, <1>4, <2>3 DEF Divider
    <3> QED
      BY <2>2, <3>1, <3>2
  <2>4. CASE TdelayTimer(timer) # 2
    <3>1. Size(timer) = 5
      BY <1>4, <2>4 DEF Size
    <3>2. \A p \in 0..4 : Divider(timer, p + 1) <= Factor(timer, p)
      BY <1>2, <1>4, <2>4 DEF Divider
    <3> QED
      BY <2>1, <2>2, <2>4, <3>1, <3>2
  <2> QED
    BY <2>3, <2>4
<1>5. CASE timer # 2
  <2>1. ~(timer # 1 /\ TdelayTimer(timer) = 2)
    <3>1. CASE timer = 0
      <4>0. \A u \in Implemented : u \in {0, 1, 2}
        BY ImplementedAssumption
      <4>9. \A u \in Implemented : ~(u < 0)
        BY <4>0
      <4>1. {u \in Implemented : u < 0} = {}
        BY <4>9, Zenon
      <4>2. TdelayTimer(timer) = 0
        BY <3>1, <4>1, FS_EmptySet DEF TdelayTimer
      <4> QED
        BY <4>2
    <3>2. CASE timer = 1
      BY <3>2
    <3> QED
      BY <1>5, <3>1, <3>2
  <2>2. Size(timer) = 5
    BY <2>1 DEF Size
  <2>3. Dividers(timer) = 1..5
    BY <1>5 DEF Dividers
  <2>4. \A p \in 0..4 : Factor(timer, p) = Divider(timer, p + 1) /\ Factor(timer, p) \in Nat
    BY <1>2, <1>5, <2>1 DEF Divider
  <2> QED
    BY <2>2, <2>3, <2>4
<1> QED
  BY <1>4, <1>5

(* A prescaler divides by at most eight times as much as the one before.    *)
LEMMA DividerSteps ==
    ASSUME NEW t \in 0..2
    PROVE  /\ \A d \in Dividers(t) : Divider(t, d) \in Nat \ {0}
           /\ Divider(t, 1) = 1
           /\ \A d \in Dividers(t) \ {1} : /\ d - 1 \in Dividers(t)
                                           /\ Divider(t, d) <= 8 * Divider(t, d - 1)
           /\ \A d \in Dividers(t) : Divider(t, d) <= 1024
<1>1. CASE t = 2
  BY <1>1 DEF Divider, Dividers
<1>2. CASE t # 2
  BY <1>2 DEF Divider, Dividers
<1> QED
  BY <1>1, <1>2

(* The same of the tables, which begin with 1 and end with 1024.            *)
LEMMA FactorSteps ==
    ASSUME NEW t \in 0..2
    PROVE  /\ Factor(t, 0) = 1
           /\ Factor(t, Size(t) - 1) = 1024
           /\ \A p \in 1..Size(t) - 1 : Factor(t, p) <= 8 * Factor(t, p - 1)
<1>1. CASE t # 1 /\ TdelayTimer(t) = 2
  <2>1. Size(t) = 7 /\ Table(t) = Prescalers2
    BY <1>1 DEF Size, Table
  <2>2. /\ Prescalers2[0 + 1] = 0 /\ Prescalers2[1 + 1] = 3 /\ Prescalers2[2 + 1] = 5
        /\ Prescalers2[3 + 1] = 6 /\ Prescalers2[4 + 1] = 7 /\ Prescalers2[5 + 1] = 8
        /\ Prescalers2[6 + 1] = 10
    BY DEF Prescalers2
  <2>3. /\ Factor(t, 0) = 1 /\ Factor(t, 1) = 8 /\ Factor(t, 2) = 32 /\ Factor(t, 3) = 64
        /\ Factor(t, 4) = 128 /\ Factor(t, 5) = 256 /\ Factor(t, 6) = 1024
    BY <2>1, <2>2, FactorIs
  <2>4. \A p \in 1..6 : p \in {1, 2, 3, 4, 5, 6}
    OBVIOUS
  <2> QED
    BY <2>1, <2>3, <2>4
<1>2. CASE ~(t # 1 /\ TdelayTimer(t) = 2)
  <2>1. Size(t) = 5 /\ Table(t) = Prescalers01
    BY <1>2 DEF Size, Table
  <2>2. /\ Prescalers01[0 + 1] = 0 /\ Prescalers01[1 + 1] = 3 /\ Prescalers01[2 + 1] = 6
        /\ Prescalers01[3 + 1] = 8 /\ Prescalers01[4 + 1] = 10
    BY DEF Prescalers01
  <2>3. /\ Factor(t, 0) = 1 /\ Factor(t, 1) = 8 /\ Factor(t, 2) = 64 /\ Factor(t, 3) = 256
        /\ Factor(t, 4) = 1024
    BY <2>1, <2>2, FactorIs
  <2>4. \A p \in 1..4 : p \in {1, 2, 3, 4}
    OBVIOUS
  <2> QED
    BY <2>1, <2>3, <2>4
<1> QED
  BY <1>1, <1>2

(* The larger divisor makes the smaller quotient.                           *)
LEMMA SmallerQuotient ==
    ASSUME NEW a \in Nat, NEW x \in Nat \ {0}, NEW y \in Nat, x <= y
    PROVE  a \div y <= a \div x
<1> DEFINE q == a \div x
           r == a \div y
<1>1. q \in Nat /\ a < x * q + x /\ r \in Nat /\ y * r <= a
  BY Quotient
<1> HIDE DEF q, r
<1>2. SUFFICES ASSUME r >= q + 1 PROVE FALSE
  BY <1>1 DEF q, r
<1>3. x * (q + 1) <= x * r
  BY <1>1, <1>2, Larger
<1>4. r * x <= r * y
  BY <1>1, Larger
<1>5. x * (q + 1) = x * q + x /\ r * x = x * r /\ r * y = y * r /\ x * r \in Nat /\ y * r \in Nat
      /\ x * q \in Nat
  BY <1>1
<1> QED
  BY <1>1, <1>3, <1>4, <1>5

(* The half period asked for, in steps of the prescaler that the search     *)
(* takes clock select value d to be.                                        *)
Steps(d) == FCpu \div (2 * freq * Factor(timer, d - 1))

(* The search goes on as long as a prescaler does not fit.                  *)
LEMMA OcrFits ==
    ASSUME timer \in Implemented, timer \in 0..2, freq \in Nat \ {0},
           NEW d \in 1..Size(timer)
    PROVE  /\ Factor(timer, d - 1) \in Nat \ {0}
           /\ 2 * freq * Factor(timer, d - 1) \in Nat \ {0}
           /\ Steps(d) \in Nat
           /\ Ocr(d - 1) = IF Steps(d) = 0 THEN 0 ELSE Steps(d) - 1
           /\ Steps(d) <= Criterion(timer) + 1 <=> ~(Ocr(d - 1) > Criterion(timer))
           /\ OwnTable => (Fits(d) <=> Steps(d) <= Criterion(timer) + 1)
<1>1. Size(timer) \in 5..7
  BY SizeValue
<1>2. d - 1 \in 0..Size(timer) - 1 /\ (d - 1) + 1 = d
  BY <1>1
<1>3. OwnTable => Factor(timer, d - 1) = Divider(timer, d)
  BY <1>2, TableFits
<1>4. Ocr(d - 1) = IF Steps(d) = 0 THEN 0 ELSE Steps(d) - 1
  BY DEF Ocr, Steps
<1>5. Factor(timer, d - 1) \in Nat \ {0}
  BY <1>2, FactorValue DEF Factors
<1>6. 2 * freq * Factor(timer, d - 1) \in Nat \ {0}
  BY <1>5
<1>7. Steps(d) \in Nat
  BY <1>6, InputAssumption, Quotient DEF Steps
<1>8. Criterion(timer) \in Nat
  BY CriterionValue
<1>9. Steps(d) <= Criterion(timer) + 1 <=> ~(Ocr(d - 1) > Criterion(timer))
  BY <1>4, <1>7, <1>8
<1>10. OwnTable => (Fits(d) <=> Steps(d) <= Criterion(timer) + 1)
  BY <1>3 DEF Fits, Steps
<1> QED
  BY <1>4, <1>5, <1>6, <1>7, <1>9, <1>10

(* The compare value is what the search computed for the prescaler it found *)
(* and, with the table of the timer, that is the finest.                    *)
LEMMA Found ==
    ASSUME CalcInv, timer \in Implemented, Reachable
    PROVE  /\ cs \in 1..Size(timer)
           /\ Steps(cs) \in Nat \ {0}
           /\ ocr = Steps(cs) - 1
           /\ OwnTable => Fits(cs) /\ \A d \in Dividers(timer) : Fits(d) => cs <= d
<1>1. /\ timer \in 0..2 /\ freq \in Nat \ {0} /\ 2 * freq <= FCpu /\ stage = "done"
      /\ presc \in 1..Size(timer)
  BY SizeValue DEF CalcInv, CalcTypeOK, Reachable
<1>2. /\ \A p \in 0..presc - 2 : Ocr(p) > Criterion(timer)
      /\ ocr2 = Ocr(presc - 1)
      /\ ocr2 <= Criterion(timer) \/ presc = Size(timer)
      /\ cs = presc /\ ocr = Clamped(ocr2)
  BY <1>1 DEF CalcInv
<1>3. Size(timer) \in 5..7 /\ Criterion(timer) \in Nat
  BY SizeValue, CriterionValue
<1>4. cs \in 1..Size(timer)
  BY <1>1, <1>2
<1>5. ASSUME NEW d \in 1..Size(timer), Steps(d) <= Criterion(timer) + 1 PROVE cs <= d
  <2> SUFFICES ASSUME d < cs PROVE FALSE
    BY <1>1, <1>2, <1>3
  <2>1. d - 1 \in 0..presc - 2
    BY <1>1, <1>2, <1>3
  <2>2. ~(Ocr(d - 1) > Criterion(timer))
    BY <1>1, <1>5, OcrFits
  <2> QED
    BY <1>2, <2>1, <2>2
<1>6. Steps(cs) <= Criterion(timer) + 1
  <2>1. CASE ocr2 <= Criterion(timer)
    <3>1. ocr2 \in Nat
      BY DEF CalcInv, CalcTypeOK
    <3>2. ~(Ocr(cs - 1) > Criterion(timer))
      BY <1>2, <1>3, <2>1, <3>1
    <3> QED
      BY <1>1, <1>4, <3>2, OcrFits
  <2>2. CASE presc = Size(timer)
    <3>1. PICK d \in Dividers(timer) : Fits(d)
      BY DEF Reachable
    <3>2. Divider(timer, d) \in Nat \ {0} /\ Divider(timer, d) <= 1024
      BY <1>1, DividerSteps
    <3>3. Factor(timer, cs - 1) = 1024
      BY <1>1, <1>2, <2>2, FactorSteps
    <3> DEFINE D == Divider(timer, d)
    <3> HIDE DEF D
    <3>4. 2 * freq * D \in Nat \ {0} /\ 2 * freq * 1024 \in Nat /\ 2 * freq * D <= 2 * freq * 1024
      <4>1. (2 * freq) * D <= (2 * freq) * 1024
        BY <1>1, <3>2, Larger DEF D
      <4> QED
        BY <1>1, <3>2, <4>1 DEF D
    <3>5. FCpu \div (2 * freq * 1024) <= FCpu \div (2 * freq * D)
      BY <3>4, InputAssumption, SmallerQuotient
    <3>6. FCpu \div (2 * freq * D) <= Criterion(timer) + 1
      BY <3>1 DEF Fits, D
    <3>7. FCpu \div (2 * freq * D) \in Nat
      BY <3>4, InputAssumption, Quotient
    <3>8. Steps(cs) = FCpu \div (2 * freq * 1024) /\ Steps(cs) \in Nat
      BY <1>1, <1>4, <3>3, OcrFits DEF Steps
    <3> QED
      BY <1>3, <3>5, <3>6, <3>7, <3>8
  <2> QED
    BY <1>2, <2>1, <2>2
<1>7. Steps(cs) \in Nat /\ ocr2 = IF Steps(cs) = 0 THEN 0 ELSE Steps(cs) - 1
  BY <1>1, <1>2, <1>4, OcrFits
<1>8. Steps(cs) # 0
  <2> DEFINE w == 2 * freq * Factor(timer, cs - 1)
  <2>1. Factor(timer, cs - 1) \in Nat \ {0} /\ w \in Nat \ {0}
    BY <1>1, <1>4, OcrFits
  <2>2. w <= FCpu
    <3>1. CASE cs = 1
      BY <1>1, <3>1, FactorSteps
    <3>2. CASE cs # 1
      <4> DEFINE before == Factor(timer, cs - 2)
                 v == 2 * freq * before
      <4>1. cs - 1 \in 1..Size(timer) /\ (cs - 1) - 1 = cs - 2
        BY <1>3, <1>4, <3>2
      <4>2. before \in Nat \ {0} /\ v \in Nat \ {0} /\ Steps(cs - 1) \in Nat
            /\ Steps(cs - 1) = FCpu \div v
        BY <1>1, <4>1, OcrFits DEF Steps
      <4>3. Factor(timer, cs - 1) <= 8 * before
        <5>1. cs - 1 \in 1..Size(timer) - 1 /\ (cs - 1) - 1 = cs - 2
          BY <1>3, <1>4, <3>2
        <5>2. Factor(timer, cs - 1) <= 8 * Factor(timer, (cs - 1) - 1)
          BY <1>1, <5>1, FactorSteps
        <5> QED
          BY <5>1, <5>2
      <4>4. ~(Steps(cs - 1) <= Criterion(timer) + 1)
        BY <1>3, <1>4, <1>5, <4>1
      <4>5. Steps(cs - 1) >= 8
        BY <4>2, <4>4, CriterionValue
      <4>6. v * Steps(cs - 1) <= FCpu
        BY <4>2, InputAssumption, Quotient
      <4> HIDE DEF before
      <4>7. (2 * freq) * Factor(timer, cs - 1) <= (2 * freq) * (8 * before)
        BY <1>1, <2>1, <4>2, <4>3, Larger
      <4>8. (2 * freq) * (8 * before) = 8 * v
        BY <1>1, <4>2
      <4> HIDE DEF v
      <4>9. v * 8 <= v * Steps(cs - 1)
        BY <4>2, <4>5, Larger
      <4> QED
        BY <4>2, <4>6, <4>7, <4>8, <4>9, <2>1, InputAssumption
    <3> QED
      BY <3>1, <3>2
  <2> HIDE DEF w
  <2>3. FCpu < w * (FCpu \div w) + w
    BY <2>1, InputAssumption, Quotient
  <2>4. FCpu \div w # 0
    BY <2>1, <2>2, <2>3, InputAssumption
  <2> QED
    BY <2>4 DEF w, Steps
<1>9. ocr = Steps(cs) - 1
  BY <1>2, <1>6, <1>7, <1>8, CriterionValue DEF Clamped
<1>10. OwnTable => Fits(cs) /\ \A d \in Dividers(timer) : Fits(d) => cs <= d
  <2> SUFFICES ASSUME OwnTable PROVE Fits(cs) /\ \A d \in Dividers(timer) : Fits(d) => cs <= d
    OBVIOUS
  <2>1. Dividers(timer) = 1..Size(timer)
    BY <1>1, TableFits
  <2>2. \A d \in 1..Size(timer) : Fits(d) <=> Steps(d) <= Criterion(timer) + 1
    BY <1>1, OcrFits
  <2> QED
    BY <1>4, <1>5, <1>6, <2>1, <2>2
<1> QED
  BY <1>4, <1>7, <1>8, <1>9, <1>10

LEMMA CalcAsAsked ==
    ASSUME CalcInv, timer \in Implemented
    PROVE  TimerAsAsked
<1> SUFFICES ASSUME Reachable
             PROVE  /\ 2 * freq * HalfPeriod <= FCpu
                    /\ OwnTable => FCpu < 2 * freq * (HalfPeriod + Divider(timer, cs))
                    /\ 1000 * matches * HalfPeriod <= delay * FCpu
                    /\ OwnTable =>
                         delay * FCpu < 1000 * (matches + 1) * (HalfPeriod + Divider(timer, cs))
  <2>1. CalcTypeOK
    BY DEF CalcInv
  <2>2. FinestPrescaler
    BY Found DEF FinestPrescaler
  <2> QED
    BY <2>1, <2>2 DEF TimerAsAsked, PeriodAsAsked, LastsMilliseconds
<1> DEFINE D == Divider(timer, cs)
           F == Factor(timer, cs - 1)
           q == Steps(cs)
           w == 2 * freq * F
           H == D * q
<1>1. /\ timer \in 0..2 /\ freq \in Nat \ {0} /\ delay \in Nat /\ FCpu \in Nat \ {0}
      /\ Size(timer) \in 5..7
  BY InputAssumption, SizeValue DEF CalcInv, CalcTypeOK, Reachable
<1>2. cs \in 1..Size(timer) /\ q \in Nat \ {0} /\ ocr = q - 1
  BY Found
<1>3. F \in Nat \ {0} /\ w \in Nat \ {0}
  BY <1>1, <1>2, OcrFits
<1>4. D \in Nat \ {0} /\ D <= F /\ (OwnTable => F = D)
  <2>1. cs \in Dividers(timer)
    BY <1>1, <1>2, TableFits
  <2>2. cs - 1 \in 0..Size(timer) - 1 /\ (cs - 1) + 1 = cs
    BY <1>1, <1>2
  <2> QED
    BY <1>1, <2>1, <2>2, DividerSteps, TableFits
<1>5. w * q <= FCpu /\ FCpu < w * q + w
  BY <1>1, <1>3, Quotient DEF Steps
<1> HIDE DEF q
<1>6. HalfPeriod = H /\ H \in Nat \ {0}
  BY <1>2, <1>4 DEF HalfPeriod
<1> HIDE DEF D, F
<1>7. 2 * freq * H <= w * q
  <2>1. (2 * freq * q) * D <= (2 * freq * q) * F
    BY <1>1, <1>2, <1>3, <1>4, Larger
  <2>2. (2 * freq * q) * D = 2 * freq * H /\ (2 * freq * q) * F = w * q
    BY <1>1, <1>2, <1>3, <1>4
  <2> QED
    BY <2>1, <2>2
<1>8. OwnTable => w * q + w = 2 * freq * (H + D)
  BY <1>1, <1>2, <1>3, <1>4
<1>9. 2 * freq * H <= FCpu /\ (OwnTable => FCpu < 2 * freq * (H + D))
  <2>1. 2 * freq * H \in Nat /\ w * q \in Nat
    BY <1>1, <1>2, <1>3, <1>6
  <2> QED
    BY <1>1, <1>5, <1>7, <1>8, <2>1
<1>10. matches = (freq * delay) \div 500
  BY DEF CalcInv, Reachable, Matches
<1>11. freq * delay \in Nat
  BY <1>1
<1>12. matches \in Nat /\ 500 * matches <= freq * delay /\ freq * delay < 500 * matches + 500
  BY <1>10, <1>11, Quotient
<1> HIDE DEF H, w
<1>13. 1000 * matches * H <= delay * FCpu
  <2>1. H * (500 * matches) <= H * (freq * delay)
    BY <1>6, <1>11, <1>12, Larger
  <2>2. delay * (2 * freq * H) <= delay * FCpu
    BY <1>1, <1>6, <1>9, Larger
  <2>3. delay * (2 * freq * H) = 2 * (H * (freq * delay))
    BY <1>1, <1>6
  <2>4. 1000 * matches * H = 2 * (H * (500 * matches))
    BY <1>6, <1>12
  <2> QED
    BY <2>1, <2>2, <2>3, <2>4, <1>1, <1>6, <1>11, <1>12
<1>14. OwnTable => delay * FCpu < 1000 * (matches + 1) * (H + D)
  <2> SUFFICES ASSUME OwnTable PROVE delay * FCpu < 1000 * (matches + 1) * (H + D)
    OBVIOUS
  <2>1. H + D \in Nat \ {0}
    BY <1>4, <1>6
  <2>2. delay * FCpu <= delay * (2 * freq * (H + D))
    BY <1>1, <1>9, <2>1, Larger
  <2>3. (H + D) * (freq * delay) < (H + D) * (500 * matches + 500)
    BY <1>11, <1>12, <2>1, StrictlyLarger
  <2>4. delay * (2 * freq * (H + D)) = 2 * ((H + D) * (freq * delay))
    BY <1>1, <2>1
  <2>5. 1000 * (matches + 1) * (H + D) = 2 * ((H + D) * (500 * matches + 500))
    BY <1>12, <2>1
  <2> QED
    BY <2>1, <2>2, <2>3, <2>4, <2>5, <1>1, <1>11, <1>12
<1> QED
  BY <1>6, <1>9, <1>13, <1>14 DEF D

-----------------------------------------------------------------------------
(* Pulse width modulation. *)

(* Nothing is left of the calls before once a set-up is not clean, and a    *)
(* timer that was just initialised has no clock.                            *)
PwmInv == /\ stage # "pwm" => last.call = "none"
          /\ last.call = "init" => cs = 0
          /\ PwmAsAsked

LEMMA PwmInvInit == PwmInit => PwmInv
  BY DEF PwmInit, CalcInit, PwmInv, PwmAsAsked, FrequencyAsReturned, FrequencyAsAsked,
         StartsAtZero, Clean

(* Bits are only added to bits that fit.                                    *)
LEMMA SelectValue ==
    ASSUME NEW p
    PROVE  /\ Select(p) \in 0..7
           /\ cs = 0 /\ p \in 1..7 => Select(p) = p
<1> DEFINE Or(w) == IF 1 \in {(cs \div w) % 2, (p \div w) % 2} THEN w ELSE 0
<1>1. Select(p) = Or(1) + Or(2) + Or(4)
  BY DEF Select
<1>2. Or(1) \in {0, 1} /\ Or(2) \in {0, 2} /\ Or(4) \in {0, 4}
  OBVIOUS
<1>3. ASSUME cs = 0, p \in 1..7
      PROVE  Or(1) + Or(2) + Or(4) = p
  <2>1. p \in {1, 2, 3, 4, 5, 6, 7}
    BY <1>3
  <2> QED
    BY <1>3, <2>1
<1> HIDE DEF Or
<1> QED
  BY <1>1, <1>2, <1>3

(* The first pulse is the shortest, whatever TEMP holds.                    *)
LEMMA ClearedIsZero == Cleared.ocr = 0
  BY DEF Cleared, ClearOcr

(* A call of the pulse width functions leaves the last delay or tone alone. *)
LEMMA CalcInvPwm ==
    ASSUME CalcInv, Idle, SameCall, cs' \in 0..7, ocr' \in 0..260
    PROVE  CalcInv'
<1>1. Size(timer)' = Size(timer)
  BY DEF SameCall, Size, TdelayTimer
<1>2. CalcTypeOK'
  BY DEF CalcInv, CalcTypeOK, Idle, SameCall
<1> QED
  BY <1>1, <1>2 DEF CalcInv, Idle, SameCall

LEMMA InitPwmKeeps ==
    ASSUME CalcInv, PwmInv, NEW m, NEW q, InitPwm(m, q)
    PROVE  CalcInv' /\ PwmInv'
<1>1. ocr' = 0 /\ cs' = 0 /\ com' \subseteq pins' /\ last'.call = "init" /\ stage' = "pwm"
  BY ClearedIsZero DEF InitPwm, Pins, Idle
<1>2. CalcInv'
  BY <1>1, CalcInvPwm DEF InitPwm
<1> QED
  BY <1>1, <1>2 DEF PwmInv, PwmAsAsked, FrequencyAsReturned, FrequencyAsAsked, StartsAtZero, Clean

(* The periods that the names of the frequencies stand for.                 *)
LEMMA NominalValue ==
    ASSUME NEW f \in PwmFreq
    PROVE  \/ f = 2 /\ Nominal(f) = 4
           \/ f = 3 /\ Nominal(f) = 8
           \/ f = 4 /\ Nominal(f) = 16
           \/ f = 5 /\ Nominal(f) = 32
           \/ f = 6 /\ Nominal(f) = 64
           \/ f = 7 /\ Nominal(f) = 128
           \/ f = 8 /\ Nominal(f) = 256
           \/ f = 9 /\ Nominal(f) = 512
           \/ f = 10 /\ Nominal(f) = 1024
           \/ f = 11 /\ Nominal(f) = 2048
           \/ f = 12 /\ Nominal(f) = 4096
           \/ f = 13 /\ Nominal(f) = 8192
           \/ f = 14 /\ Nominal(f) = 16384
           \/ f = 15 /\ Nominal(f) = 32768
           \/ f = 16 /\ Nominal(f) = 65536
           \/ f = 17 /\ Nominal(f) = 262144
<1>1. /\ 2^2 = 4 /\ 2^3 = 8 /\ 2^4 = 16 /\ 2^5 = 32 /\ 2^6 = 64 /\ 2^7 = 128 /\ 2^8 = 256 /\ 2^9 = 512
      /\ 2^10 = 1024 /\ 2^11 = 2048 /\ 2^12 = 4096 /\ 2^13 = 8192 /\ 2^14 = 16384 /\ 2^15 = 32768 /\ 2^16 = 65536 /\ 2^18 = 262144
  OBVIOUS
<1>2. f \in 2..17 /\ Nominal(f) = IF f = 17 THEN 2^18 ELSE 2^f
  BY DEF PwmFreq, Nominal, FREQ_61
<1>3. f \in {2, 3, 4, 5, 6, 7, 8, 9, 10, 11, 12, 13, 14, 15, 16, 17}
  BY <1>2
<1>4. /\ f = 2 => 2^f = 2^2
      /\ f = 3 => 2^f = 2^3
      /\ f = 4 => 2^f = 2^4
      /\ f = 5 => 2^f = 2^5
      /\ f = 6 => 2^f = 2^6
      /\ f = 7 => 2^f = 2^7
      /\ f = 8 => 2^f = 2^8
      /\ f = 9 => 2^f = 2^9
      /\ f = 10 => 2^f = 2^10
      /\ f = 11 => 2^f = 2^11
      /\ f = 12 => 2^f = 2^12
      /\ f = 13 => 2^f = 2^13
      /\ f = 14 => 2^f = 2^14
      /\ f = 15 => 2^f = 2^15
      /\ f = 16 => 2^f = 2^16
  BY Zenon
<1> QED
  BY <1>1, <1>2, <1>3, <1>4

(* Each name of a frequency of an 8 bit timer is at the place of the clock  *)
(* select bits that make it, and no other period is to be had.              *)
LEMMA SelectsNominal ==
    ASSUME NEW t \in {0, 2}
    PROVE  /\ Len(Selects(t)) = (IF t = 0 THEN 5 ELSE 7)
           /\ \A p \in 1..Len(Selects(t)) :
                 /\ p \in Dividers(t) /\ p \in 1..7
                 /\ Selects(t)[p] \in PwmFreq
                 /\ 256 * Divider(t, p) = Nominal(Selects(t)[p])
           /\ \A f \in PwmFreq : (\A p \in 1..Len(Selects(t)) : Selects(t)[p] # f)
                 => \A d \in Dividers(t) : 256 * Divider(t, d) # Nominal(f)
<1>1. /\ Nominal(8) = 256 /\ Nominal(11) = 2048 /\ Nominal(13) = 8192 /\ Nominal(14) = 16384
      /\ Nominal(15) = 32768 /\ Nominal(16) = 65536 /\ Nominal(17) = 262144
  <2>1. \A f \in {8, 11, 13, 14, 15, 16, 17} : f \in PwmFreq
    BY DEF PwmFreq, FREQ_61
  <2> QED
    BY <2>1, NominalValue
<1>2. Dividers(t) = 1..Len(Selects(t)) /\ Len(Selects(t)) = (IF t = 0 THEN 5 ELSE 7)
  BY DEF Dividers, Selects
<1>3. ASSUME NEW p \in 1..Len(Selects(t))
      PROVE  /\ Selects(t)[p] \in PwmFreq
             /\ 256 * Divider(t, p) = Nominal(Selects(t)[p])
  <2>1. CASE t = 0
    <3>1. p \in {1, 2, 3, 4, 5}
      BY <1>2, <2>1
    <3> QED
      BY <1>1, <2>1, <3>1 DEF Selects, Divider, PwmFreq, FREQ_61
  <2>2. CASE t = 2
    <3>1. p \in {1, 2, 3, 4, 5, 6, 7}
      BY <1>2, <2>2
    <3> QED
      BY <1>1, <2>2, <3>1 DEF Selects, Divider, PwmFreq, FREQ_61
  <2> QED
    BY <2>1, <2>2
<1>4. ASSUME NEW f \in PwmFreq, NEW g \in PwmFreq, Nominal(f) = Nominal(g) PROVE f = g
  BY <1>4, NominalValue
<1>5. ASSUME NEW f \in PwmFreq, \A p \in 1..Len(Selects(t)) : Selects(t)[p] # f,
             NEW d \in Dividers(t)
      PROVE  256 * Divider(t, d) # Nominal(f)
  BY <1>2, <1>3, <1>4, <1>5
<1>6. \A p \in 1..Len(Selects(t)) : p \in Dividers(t) /\ p \in 1..7
  BY <1>2
<1> QED
  BY <1>2, <1>3, <1>5, <1>6

LEMMA SetupForBitresKeeps ==
    ASSUME CalcInv, PwmInv, NEW b \in Resolutions, SetupForBitres(b)
    PROVE  CalcInv' /\ PwmInv'
<1>1. /\ stage' = "pwm" /\ timer' = timer /\ ocr' = ocr /\ mode' = mode
      /\ cs' = Select(1)
      /\ last'.call = "bitres" /\ last'.arg = b /\ last'.clean = (last.call = "init")
  BY DEF SetupForBitres, Idle, SameCall, UseResolution, Returned
<1>2. CalcInv'
  <2>1. cs' \in 0..7
    BY <1>1, SelectValue
  <2>2. ocr' \in 0..260
    BY <1>1 DEF CalcInv, CalcTypeOK
  <2> QED
    BY <2>1, <2>2, CalcInvPwm DEF SetupForBitres
<1>3. ASSUME last.call = "init", b < 15, mode = "fast"
      PROVE  (cs \in Dividers(timer) /\ last.ret = FCpu \div PwmPeriod)'
  <2>1. cs' = 1
    BY <1>1, <1>3, SelectValue DEF PwmInv
  <2>2. timer \in 0..2
    BY DEF CalcInv, CalcTypeOK
  <2>3. cs' \in Dividers(timer)' /\ Divider(timer, cs)' = 1
    BY <1>1, <2>1, <2>2 DEF Dividers, Divider
  <2>4. CASE timer = 1
    <3>1. icr' = 2^b - 1 /\ last'.ret = FCpu \div 2^b
      BY <1>3, <2>4, ResolutionAssumption
         DEF SetupForBitres, UseResolution, TopOf, Quotients, Returned
    <3>2. 2^b \in Nat
      <4>1. b \in 0..1 \/ b \in 2..14
        BY <1>3, ResolutionAssumption
      <4>2. ASSUME b \in 2..14 PROVE 2^b \in Nat
        <5>1. b \in PwmFreq /\ Nominal(b) = 2^b
          BY <4>2 DEF PwmFreq, Nominal, FREQ_61
        <5> QED
          BY <5>1, NominalValue
      <4>3. ASSUME b \in 0..1 PROVE 2^b \in Nat
        <5>1. 2^0 = 1 /\ 2^1 = 2
          OBVIOUS
        <5>2. (b = 0 => 2^b = 2^0) /\ (b = 1 => 2^b = 2^1)
          BY Zenon
        <5> QED
          BY <4>3, <5>1, <5>2
      <4> QED
        BY <4>1, <4>2, <4>3
    <3>3. PwmPeriod' = 1 * (2^b - 1 + 1)
      BY <1>1, <1>3, <2>3, <2>4, <3>1 DEF PwmPeriod, Top
    <3> QED
      BY <2>3, <3>1, <3>2, <3>3
  <2>5. CASE timer # 1
    <3>1. last'.ret = FCpu \div 256
      BY <2>5 DEF SetupForBitres, Returned
    <3>2. PwmPeriod' = 256
      BY <1>1, <1>3, <2>3, <2>5 DEF PwmPeriod, Top
    <3> QED
      BY <2>3, <3>1, <3>2
  <2> QED
    BY <2>4, <2>5
<1>4. FrequencyAsReturned'
  BY <1>1, <1>3 DEF FrequencyAsReturned, Clean
<1> QED
  BY <1>1, <1>2, <1>4 DEF PwmInv, PwmAsAsked, FrequencyAsAsked, StartsAtZero, Clean

LEMMA SetupForFreqKeeps ==
    ASSUME CalcInv, PwmInv, NEW f \in PwmFreq, SetupForFreq(f)
    PROVE  CalcInv' /\ PwmInv'
<1> DEFINE Done == /\ cs' \in 0..7
                   /\ last'.call = "freq" /\ last'.clean = (last.call = "init")
                   /\ last.call = "init" /\ mode = "fast" => FrequencyAsAsked'
<1>1. /\ stage' = "pwm" /\ timer' = timer /\ ocr' = ocr /\ mode' = mode
      /\ timer \in 0..2 /\ cs \in 0..7 /\ ocr \in 0..260 /\ f \in 2..17
  BY DEF SetupForFreq, Idle, SameCall, CalcInv, CalcTypeOK, PwmFreq, FREQ_61
<1>2. last.call = "init" => cs = 0
  BY DEF PwmInv
<1>3. ASSUME timer = 1 /\ f # 17 PROVE Done
  <2>1. /\ cs' = Select(1) /\ icr' = TopOf(f)
        /\ last' = [call |-> "freq", arg |-> f, ret |-> f, clean |-> last.call = "init"]
    BY <1>3 DEF SetupForFreq, FREQ_61, UseResolution, Returned
  <2>2. ASSUME last.call = "init", mode = "fast" PROVE FrequencyAsAsked'
    <3>1. cs' = 1 /\ timer' = 1
      BY <1>1, <1>2, <1>3, <2>1, <2>2, SelectValue
    <3>2. Nominal(f) = 2^f
      BY <1>3 DEF Nominal, FREQ_61
    <3>3. Nominal(f) \in Nat /\ (f = 16 => Nominal(f) = 65536)
      BY NominalValue
    <3>4. icr' + 1 = Nominal(f)
      BY <1>1, <1>3, <2>1, <3>2, <3>3 DEF TopOf
    <3>5. Divider(timer, cs)' = 1 /\ cs' \in Dividers(timer)'
      BY <3>1 DEF Divider, Dividers
    <3>6. PwmPeriod' = Nominal(f) /\ Top' + 1 = 2^f
      BY <1>1, <2>2, <3>1, <3>2, <3>3, <3>4, <3>5 DEF PwmPeriod, Top
    <3>7. last'.ret = f /\ last'.arg = f /\ f # 0
      BY <1>1, <2>1
    <3> QED
      BY <3>5, <3>6, <3>7 DEF FrequencyAsAsked, Nominal, FREQ_61
  <2> QED
    BY <2>1, <2>2, SelectValue
<1>4. ASSUME timer # 1, NEW p \in 1..Len(Selects(timer)), Selects(timer)[p] = f,
             cs' = Select(p), Returned("freq", f, 8)
      PROVE  Done
  <2>2. last' = [call |-> "freq", arg |-> f, ret |-> 8, clean |-> last.call = "init"]
    BY <1>4 DEF Returned
  <2>3. ASSUME last.call = "init", mode = "fast" PROVE FrequencyAsAsked'
    <3>1. p \in Dividers(timer) /\ p \in 1..7 /\ 256 * Divider(timer, p) = Nominal(f)
      BY <1>1, <1>4, SelectsNominal
    <3>2. cs' = p
      BY <1>2, <1>4, <2>3, <3>1, SelectValue
    <3>3. cs' \in Dividers(timer)' /\ Divider(timer, cs)' = Divider(timer, p)
      BY <1>1, <3>1, <3>2 DEF Dividers, Divider
    <3>4. Divider(timer, p) \in Nat
      BY <1>1, <3>1, DividerSteps
    <3>5. PwmPeriod' = Nominal(f) /\ Top' + 1 = 256
      BY <1>1, <1>4, <2>3, <3>1, <3>3, <3>4 DEF PwmPeriod, Top
    <3>6. 2^8 = 256
      OBVIOUS
    <3>7. last'.ret = 8 /\ last'.arg = f
      BY <2>2
    <3> QED
      BY <3>3, <3>5, <3>6, <3>7 DEF FrequencyAsAsked, Nominal, FREQ_61
  <2> QED
    BY <1>4, <2>2, <2>3, SelectValue
<1>5. ASSUME timer = 1 \/ \A p \in 1..Len(Selects(timer)) : Selects(timer)[p] # f,
             ~(timer = 1 /\ f # 17), Returned("freq", f, 0), cs' = cs
      PROVE  Done
  <2>1. last' = [call |-> "freq", arg |-> f, ret |-> 0, clean |-> last.call = "init"]
    BY <1>5 DEF Returned
  <2>2. timer = 1 => Nominal(f) > 65536
    BY <1>5, NominalValue
  <2>3. timer # 1 => \A d \in Dividers(timer) : 256 * Divider(timer, d) # Nominal(f)
    BY <1>1, <1>5, SelectsNominal
  <2>4. FrequencyAsAsked'
    BY <1>1, <2>1, <2>2, <2>3 DEF FrequencyAsAsked, Nominal, FREQ_61, Dividers, Divider
  <2> QED
    BY <1>1, <1>5, <2>1, <2>4
<1> HIDE DEF Done
<1>6. Done
  BY <1>3, <1>4, <1>5 DEF SetupForFreq, FREQ_61
<1>7. CalcInv'
  BY <1>1, <1>6, CalcInvPwm DEF SetupForFreq, Done
<1>8. FrequencyAsAsked'
  <2>1. CASE Clean("freq")'
    <3>1. last.call = "init" /\ mode = "fast"
      BY <1>1, <1>6, <2>1 DEF Clean, Done
    <3> QED
      BY <1>6, <3>1 DEF Done
  <2>2. CASE ~Clean("freq")'
    BY <2>2 DEF FrequencyAsAsked
  <2> QED
    BY <2>1, <2>2
<1> QED
  BY <1>1, <1>6, <1>7, <1>8
     DEF PwmInv, PwmAsAsked, FrequencyAsReturned, StartsAtZero, Clean, Done

-----------------------------------------------------------------------------
(* The three together. *)

ClocksInv == timer \in Implemented /\ CalcInv /\ PwmInv /\ BaudInv

LEMMA PwmNextKeeps == ClocksInv /\ PwmNext => (CalcInv /\ PwmInv)' /\ timer' = timer
<1> SUFFICES ASSUME ClocksInv, PwmNext PROVE (CalcInv /\ PwmInv)' /\ timer' = timer
  OBVIOUS
<1>1. CASE CalcNext /\ UNCHANGED pwm
  <2>1. CalcInv' /\ timer' = timer /\ stage \in {"search", "program"}
    BY <1>1, CalcInvSearch, CalcInvProgram DEF CalcNext, Search, Program, ClocksInv
  <2>2. last' = last /\ stage' # "pwm" /\ last.call = "none"
    BY <1>1, <2>1 DEF CalcNext, Search, Program, pwm, ClocksInv, PwmInv
  <2> QED
    BY <2>1, <2>2 DEF PwmInv, PwmAsAsked, FrequencyAsReturned, FrequencyAsAsked, StartsAtZero, Clean
<1>2. ASSUME NEW m \in {"fast", "phase"}, NEW q \in 0..1, InitPwm(m, q)
      PROVE  (CalcInv /\ PwmInv)' /\ timer' = timer
  BY <1>2, InitPwmKeeps DEF ClocksInv, InitPwm, SameCall
<1>3. ASSUME NEW b \in Resolutions, SetupForBitres(b)
      PROVE  (CalcInv /\ PwmInv)' /\ timer' = timer
  BY <1>3, SetupForBitresKeeps DEF ClocksInv, SetupForBitres, SameCall
<1>4. ASSUME NEW f \in PwmFreq, SetupForFreq(f)
      PROVE  (CalcInv /\ PwmInv)' /\ timer' = timer
  BY <1>4, SetupForFreqKeeps DEF ClocksInv, SetupForFreq, SameCall
<1> QED
  BY <1>1, <1>2, <1>3, <1>4 DEF PwmNext

LEMMA CalcUnchanged == CalcInv /\ UNCHANGED calc => CalcInv'
<1> SUFFICES ASSUME CalcInv, UNCHANGED calc PROVE CalcInv'
  OBVIOUS
<1>1. /\ Size(timer)' = Size(timer) /\ Criterion(timer)' = Criterion(timer)
      /\ Clamped(ocr2)' = Clamped(ocr2) /\ Matches(freq, delay)' = Matches(freq, delay)
      /\ Ocr(presc - 1)' = Ocr(presc - 1)
      /\ \A p : Ocr(p)' = Ocr(p)
      /\ CalcTypeOK'
  BY DEF calc, Size, Criterion, TdelayTimer, Clamped, Matches, Ocr, Factor, Table, CalcInv,
         CalcTypeOK
<1> QED
  BY <1>1 DEF CalcInv, calc

LEMMA PwmUnchanged == PwmInv /\ UNCHANGED <<calc, pwm>> => PwmInv'
  BY DEF PwmInv, PwmAsAsked, FrequencyAsReturned, FrequencyAsAsked, StartsAtZero, Clean, calc, pwm,
         PwmPeriod, Top, Nominal, Divider, Dividers

LEMMA BaudUnchanged == BaudInv /\ UNCHANGED baud => BaudInv'
<1> SUFFICES ASSUME BaudInv, UNCHANGED baud PROVE BaudInv'
  OBVIOUS
<1>1. Computed(u2x)' = Computed(u2x)
  BY DEF baud, Computed, HalfLessOne
<1> QED
  BY <1>1 DEF BaudInv, baud, Predefined

LEMMA ClocksInvariant == ClocksSpec => []ClocksInv
<1>1. ClocksInit => ClocksInv
  BY CalcInvInit, PwmInvInit, BaudInvInit DEF ClocksInit, PwmInit, CalcInit, ClocksInv
<1>2. ClocksInv /\ [ClocksNext]_clocks => ClocksInv'
  <2> SUFFICES ASSUME ClocksInv, [ClocksNext]_clocks PROVE ClocksInv'
    OBVIOUS
  <2>1. CASE BaudNext /\ UNCHANGED <<calc, pwm>>
    <3>1. timer' = timer
      BY <2>1 DEF calc
    <3> QED
      BY <2>1, <3>1, BaudInvNext, CalcUnchanged, PwmUnchanged DEF ClocksInv
  <2>2. CASE PwmNext /\ UNCHANGED baud
    BY <2>2, PwmNextKeeps, BaudUnchanged DEF ClocksInv
  <2>3. CASE UNCHANGED clocks
    <3>1. UNCHANGED calc /\ UNCHANGED <<calc, pwm>> /\ UNCHANGED baud /\ timer' = timer
      BY <2>3 DEF clocks, calc
    <3> QED
      BY <3>1, CalcUnchanged, PwmUnchanged, BaudUnchanged DEF ClocksInv
  <2> QED
    BY <2>1, <2>2, <2>3 DEF ClocksNext
<1> QED
  BY <1>1, <1>2, PTL DEF ClocksSpec

(* A tone or a delay is as high and as long as was asked for, of every      *)
(* clock, tone and delay whose products fit 32 bits, and every set of       *)
(* timers in the library (_timer_freq_prescale, _timer_setup_ctc and        *)
(* _tdc_setup_delay).  The lower bounds do not reach timer 2 where it is    *)
(* set up from the other table, nor the length of tdelay_us.                *)
THEOREM TimerSafe == ClocksSpec => []TimerAsAsked
<1>1. ClocksInv => TimerAsAsked
  BY CalcAsAsked DEF ClocksInv
<1> QED
  BY <1>1, ClocksInvariant, PTL

(* The pulse width modulation is what was asked for and returned, for every *)
(* clock and resolution, any number of calls in any order, and after any    *)
(* tone or delay (tpwm_fpwm_init, tpwm_pwm_init, tpwm_setup_for_bitres and  *)
(* tpwm_setup_for_freq).                                                    *)
THEOREM PwmSafe == ClocksSpec => []PwmAsAsked
<1>1. ClocksInv => PwmAsAsked
  BY DEF ClocksInv, PwmInv
<1> QED
  BY <1>1, ClocksInvariant, PTL

(* For every clock, and every speed within its reach, a bit of the serial   *)
(* port is as long as the mode allows to come near (serial_init).           *)
THEOREM BaudSafe == ClocksSpec => []BaudNearest
<1>1. ClocksInv => BaudNearest
  BY BaudInvNearest DEF ClocksInv
<1> QED
  BY <1>1, ClocksInvariant, PTL
=============================================================================
