----------------------------- MODULE TwiProofs ------------------------------
(***************************************************************************)
(* Twi for every set of contexts, addresses, devices and lengths and every *)
(* combination of faults: types, who holds the bus between transactions,   *)
(* what a search finds, and what a transaction reports.                    *)
(***************************************************************************)
EXTENDS Twi, SequenceTheorems, TLAPS

(* What the peripheral and the data register have to do with the context.   *)
Granted == {"START", "REP_START", "MT_SLA_ACK", "MT_SLA_NACK", "MT_DATA_ACK", "MT_DATA_NACK",
            "MR_SLA_ACK", "MR_SLA_NACK", "MR_DATA_ACK", "MR_DATA_NACK"}

NotUsed == g = NULL => ~twint /\ phase = "none" /\ ~owned

(* A transaction is under way: the peripheral works or waits for TWI_vect,  *)
(* and what it reports concerns the address of the context.                 *)
UnderWay ==
    g # NULL /\ ctx[g].busy =>
        /\ ~ctx[g].rs
        /\ twint => phase = "none"
        /\ phase \in {"addr", "tx", "rx"} \/ (twint /\ twsr \in Granted) => owned
        /\ phase = "addr" => twdr.value = [addr |-> ctx[g].addr, rw |-> ctx[g].rw]
        /\ phase = "tx" \/ (twint /\ twsr \in {"MT_SLA_ACK", "MT_DATA_ACK"})
           => ctx[g].addr \in Present
        /\ phase = "tx" \/ (twint /\ twsr \in {"MR_DATA_ACK", "MR_DATA_NACK"})
           => twdr.value \in Nat

(* A transaction has ended: with a STOP, or with a repeated START that is   *)
(* under way or done, and whose interrupt is not served.                    *)
Ended ==
    g # NULL /\ ~ctx[g].busy =>
        /\ IF ctx[g].rs
           THEN /\ owned /\ ~ie
                /\ \/ phase = "start" /\ ~twint
                   \/ phase = "none" /\ twint /\ twsr \in {"START", "REP_START"}
           ELSE ~twint /\ (phase = "stop" \/ (phase = "none" /\ ~owned))
        /\ ctx[g].rw = "w" /\ ctx[g].err = 0 => ctx[g].addr \in Present

(* Only the context used last knows of a repeated START.                    *)
OneHolder == \A c \in Ctx : ctx[c].rs => c = g

(* The program goes on when the transaction has ended.                      *)
InSync == /\ pc \in {"idle", "scan"} /\ g # NULL => ~ctx[g].busy
          /\ pc = "sync" => g # NULL
          /\ pc = "scan" /\ g # NULL => g = req.ctx \/ ~ctx[g].rs
          /\ pc = "scan_sync" => g # NULL /\ g = req.ctx /\ ctx[g].addr = dev /\ ctx[g].rw = "w"

(* An acknowledged byte of a read is followed by another.                   *)
ReadGoesOn == twsr = "MR_DATA_ACK" => g # NULL /\ ctx[g].busy /\ phase \in {"none", "rx"}

FoundSoFar == pc \in {"scan", "scan_sync"} =>
                  /\ found \subseteq {a \in Present : ScanFirst <= a /\ a < dev}
                  /\ ScanFirst <= dev

IInv == /\ TypeOK /\ NotUsed /\ UnderWay /\ Ended /\ OneHolder /\ InSync /\ ReadGoesOn
        /\ FoundSoFar

-----------------------------------------------------------------------------
LEMMA InitInvariant == ASSUME \A r \in Garbage : r = FALSE PROVE Init => IInv
<1> SUFFICES ASSUME Init PROVE IInv
  OBVIOUS
<1>1. ASSUME NEW c \in Ctx
      PROVE  \E f \in Freq, r \in Garbage :
                 ctx[c] = [addr |-> 0, rw |-> "w", len |-> 0, xdata |-> 1, freq |-> f,
                           busy |-> FALSE, rs |-> r, stop |-> FALSE, err |-> 0]
  BY DEF Init
<1>2. \A c \in Ctx : ~ctx[c].rs
  <2> SUFFICES ASSUME NEW c \in Ctx PROVE ~ctx[c].rs
    OBVIOUS
  <2>1. PICK f \in Freq, r \in Garbage :
            ctx[c] = [addr |-> 0, rw |-> "w", len |-> 0, xdata |-> 1, freq |-> f,
                      busy |-> FALSE, rs |-> r, stop |-> FALSE, err |-> 0]
    BY <1>1
  <2>2. r = FALSE
    OBVIOUS
  <2> QED
    BY <2>1, <2>2
<1>3. \A c \in Ctx : ctx[c] \in Context
  <2> SUFFICES ASSUME NEW c \in Ctx PROVE ctx[c] \in Context
    OBVIOUS
  <2>1. PICK f \in Freq, r \in Garbage :
            ctx[c] = [addr |-> 0, rw |-> "w", len |-> 0, xdata |-> 1, freq |-> f,
                      busy |-> FALSE, rs |-> r, stop |-> FALSE, err |-> 0]
    BY <1>1
  <2>2. 0 \in Addr /\ 0 \in 0 .. LenMod - 1
    BY AddrAssumption, LenAssumption
  <2>3. r = FALSE
    OBVIOUS
  <2>4. ctx[c] = [addr |-> 0, rw |-> "w", len |-> 0, xdata |-> 1, freq |-> f,
                  busy |-> FALSE, rs |-> FALSE, stop |-> FALSE, err |-> 0]
    BY <2>1, <2>3
  <2>5. \A x : x = [addr |-> 0, rw |-> "w", len |-> 0, xdata |-> 1, freq |-> f,
                   busy |-> FALSE, rs |-> FALSE, stop |-> FALSE, err |-> 0] => x \in Context
    BY <2>2 DEF Context, Errors
  <2> QED
    BY <2>4, <2>5
<1>4. ctx \in [Ctx -> Context]
  <2> DEFINE S == {[addr |-> 0, rw |-> "w", len |-> 0, xdata |-> 1, freq |-> f,
                    busy |-> FALSE, rs |-> r, stop |-> FALSE, err |-> 0] : f \in Freq, r \in Garbage}
  <2>1. ctx \in [Ctx -> S]
    BY DEF Init
  <2> HIDE DEF S
  <2> QED
    BY <1>3, <2>1
<1>5. TypeOK
  <2>1. req \in [ctx : Ctx, rw : {"w", "r"}, len : 0 .. LenMod - 1, addr : Addr]
    BY LenAssumption, AddrAssumption DEF Init
  <2>2. twdr.kind = "data"
    BY DEF Init
  <2>3. wire \in Seq(Nat) /\ buf \in Seq(Nat)
    BY EmptySeq DEF Init
  <2>4. calls \in 0..MaxCalls /\ dev \in Nat /\ found \subseteq Addr
    BY CallsAssumption DEF Init
  <2>5. ready \subseteq Ctx /\ g \in Ctx \cup {NULL} /\ twbr \in Freq
    BY DEF Init
  <2>6. /\ twsr \in Status /\ phase \in Phase /\ pc = "idle"
        /\ twint = FALSE /\ ie = FALSE /\ ea = FALSE /\ owned = FALSE
    BY DEF Init, Status, Phase
  <2> QED
    BY <1>4, <2>1, <2>2, <2>3, <2>4, <2>5, <2>6 DEF TypeOK, TypeOK, Status, Phase
<1> QED
  BY <1>2, <1>5 DEF Init, IInv, NotUsed, UnderWay, Ended, OneHolder, InSync, ReadGoesOn, FoundSoFar

(* The peripheral. *)
LEMMA HwKeepsInvariant == IInv /\ Hw => IInv'
<1> SUFFICES ASSUME IInv, Hw PROVE IInv'
  OBVIOUS
<1> USE DEF Report, program
<1>0. g \in Ctx \cup {NULL} /\ wire \in Seq(Nat) /\ Len(wire) + 1 \in Nat
  BY LenProperties DEF IInv, TypeOK
<1>1. g # NULL
  BY DEF Hw, HwStart, HwAddr, HwTx, HwRx, ByteComes, HwStop, HwFault, IInv, NotUsed
<1>2. CASE HwStart
  <2>1. TypeOK'
    BY <1>2 DEF HwStart, IInv, TypeOK, Status, Phase
  <2> QED
    BY <1>1, <1>2, <2>1 DEF HwStart, IInv, NotUsed, UnderWay, Ended, OneHolder, InSync, ReadGoesOn, FoundSoFar, Granted
<1>3. CASE HwAddr
  <2>1. TypeOK'
    BY <1>3 DEF HwAddr, IInv, TypeOK, Status, Phase
  <2> QED
    BY <1>1, <1>3, <2>1 DEF HwAddr, IInv, NotUsed, UnderWay, Ended, OneHolder, InSync, ReadGoesOn, FoundSoFar, Granted
<1>4. CASE HwTx
  <2>1. twdr.value \in Nat
    BY <1>1, <1>4 DEF HwTx, IInv, UnderWay, Ended
  <2>2. Append(wire, twdr.value) \in Seq(Nat)
    BY <1>0, <2>1
  <2>3. TypeOK'
    BY <1>4, <2>2 DEF HwTx, IInv, TypeOK, Status, Phase
  <2> QED
    BY <1>1, <1>4, <2>3 DEF HwTx, IInv, NotUsed, UnderWay, Ended, OneHolder, InSync, ReadGoesOn, FoundSoFar, Granted
<1>5. CASE HwRx
  <2>1. Append(wire, Len(wire) + 1) \in Seq(Nat)
    BY <1>0
  <2>2. TypeOK'
    BY <1>5, <2>1 DEF HwRx, ByteComes, IInv, TypeOK, Status, Phase
  <2> QED
    BY <1>0, <1>1, <1>5, <2>2 DEF HwRx, ByteComes, IInv, NotUsed, UnderWay, Ended, OneHolder, InSync, ReadGoesOn, FoundSoFar, Granted
<1>6. CASE HwStop
  <2>1. TypeOK'
    <3>1. TypeOK /\ owned' \in BOOLEAN /\ phase' \in Phase
      BY <1>6 DEF HwStop, IInv, Phase
    <3>2. UNCHANGED <<ctx, ready, g, twint, ie, ea, twsr, twdr, twbr, wire, buf, pc, req, dev, found,
                      calls>>
      BY <1>6 DEF HwStop
    <3> QED
      BY <3>1, <3>2 DEF TypeOK
  <2> QED
    BY <1>1, <1>6, <2>1 DEF HwStop, IInv, NotUsed, UnderWay, Ended, OneHolder, InSync, ReadGoesOn, FoundSoFar, Granted
<1>7. CASE HwFault
  <2>1. Append(wire, Len(wire) + 1) \in Seq(Nat)
    BY <1>0
  <2>2. /\ wire' \in Seq(Nat) /\ twdr'.kind \in {"sla", "data"}
        /\ twint' = TRUE /\ phase' = "none" /\ owned' = FALSE
        /\ twsr' \in {"ARB_LOST", "BUS_ERROR", "SR_SLA_ACK"}
        /\ UNCHANGED <<program, ctx, g, ie, ea, twbr, buf>>
    <3>1. \/ UNCHANGED <<twdr, wire>>
          \/ /\ twdr' = [kind |-> "data", value |-> Len(wire) + 1]
             /\ wire' = Append(wire, Len(wire) + 1)
      BY <1>7 DEF HwFault, ByteComes
    <3>2. wire' \in Seq(Nat) /\ twdr'.kind \in {"sla", "data"}
      <4>1. CASE UNCHANGED <<twdr, wire>>
        BY <4>1 DEF IInv, TypeOK
      <4>2. CASE ~UNCHANGED <<twdr, wire>>
        BY <2>1, <3>1, <4>2
      <4> QED
        BY <4>1, <4>2
    <3>3. /\ twint' = TRUE /\ phase' = "none" /\ owned' = FALSE
          /\ twsr' \in {"ARB_LOST", "BUS_ERROR", "SR_SLA_ACK"}
          /\ UNCHANGED <<program, ctx, g, ie, ea, twbr, buf>>
      BY <1>7 DEF HwFault
    <3> QED
      BY <3>2, <3>3
  <2>3. TypeOK'
    BY <2>2 DEF IInv, TypeOK, Status, Phase
  <2>4. phase \in {"start", "addr", "tx", "rx"} /\ (phase = "start" => ~owned)
    BY <1>7 DEF HwFault, ByteComes
  <2>5. NotUsed' /\ UnderWay' /\ ReadGoesOn'
    BY <1>1, <2>2, <2>4 DEF IInv, NotUsed, UnderWay, Ended, ReadGoesOn, Granted
  <2>6. Ended'
    BY <1>1, <2>2, <2>4 DEF IInv, Ended
  <2>7. OneHolder' /\ InSync' /\ FoundSoFar'
    BY <1>1, <2>2 DEF IInv, OneHolder, InSync, FoundSoFar
  <2> QED
    BY <2>3, <2>5, <2>6, <2>7 DEF IInv
<1> QED
  BY <1>2, <1>3, <1>4, <1>5, <1>6, <1>7 DEF Hw

-----------------------------------------------------------------------------
(* TWI_vect. *)

(* The handler stores context r.                                            *)
LEMMA ContextStored ==
    ASSUME TypeOK, g \in Ctx, g' = g, NEW r \in Context, ctx' = [ctx EXCEPT ![g] = r]
    PROVE  /\ ctx' \in [Ctx -> Context] /\ ctx'[g'] = r
           /\ \A c \in Ctx : c # g => ctx'[c] = ctx[c]
BY DEF TypeOK

(* What the handler leaves alone.                                           *)
Aside == UNCHANGED <<program, g, twsr, twbr, owned, wire>>

(* The transaction goes on: only the place and the number of bytes left     *)
(* change in the context, and the peripheral starts on what the status      *)
(* calls for.                                                               *)
LEMMA GoesOn ==
    ASSUME IInv, g \in Ctx, ctx[g].busy, twint, Aside, Ack \/ \E more \in BOOLEAN : Nack(more),
           NEW l \in 0 .. LenMod - 1, NEW x \in Nat,
           ctx' = [ctx EXCEPT ![g] = [ctx[g] EXCEPT !.len = l, !.xdata = x]],
           buf' \in Seq(Nat), twdr'.kind \in {"sla", "data"},
           Continue = "addr" => twdr'.value = [addr |-> ctx[g].addr, rw |-> ctx[g].rw],
           Continue = "tx" => twdr'.value \in Nat
    PROVE  IInv'
<1> DEFINE r == [ctx[g] EXCEPT !.len = l, !.xdata = x]
<1>1. /\ r \in Context /\ r.busy = ctx[g].busy /\ r.rs = ctx[g].rs /\ r.addr = ctx[g].addr
      /\ r.rw = ctx[g].rw /\ r.err = ctx[g].err
  <2>1. ctx[g] \in Context
    BY DEF IInv, TypeOK
  <2>2. r \in Context
    BY <2>1 DEF Context
  <2>3. r.busy = ctx[g].busy /\ r.rs = ctx[g].rs
    BY <2>1 DEF Context
  <2>4. r.addr = ctx[g].addr /\ r.rw = ctx[g].rw /\ r.err = ctx[g].err
    BY <2>1 DEF Context
  <2> QED
    BY <2>2, <2>3, <2>4
<1> HIDE DEF r
<1>2. /\ ctx' \in [Ctx -> Context] /\ ctx'[g'] = r
      /\ \A c \in Ctx : c # g => ctx'[c] = ctx[c]
  <2>1. ctx' = [ctx EXCEPT ![g] = r] /\ g' = g
    BY DEF r, Aside
  <2> QED
    BY <1>1, <2>1, ContextStored DEF IInv
<1>3. twint' = FALSE /\ ie' = TRUE /\ ea' \in BOOLEAN /\ phase' = Continue
  BY DEF Ack, Nack, WriteTWCR
<1>4. g # NULL
  BY NullAssumption
<1>5. /\ Continue \in {"addr", "tx", "rx", "none"}
      /\ Continue \in {"addr", "tx", "rx"} => twsr \in Granted
      /\ Continue = "tx" => twsr \in {"MT_SLA_ACK", "MT_DATA_ACK"}
      /\ twsr = "MR_DATA_ACK" => Continue = "rx"
  BY DEF Continue, Granted
<1> HIDE DEF Continue
<1>6. TypeOK'
  <2>1. phase' \in Phase
    BY <1>3, <1>5 DEF Phase
  <2> QED
    BY <1>2, <1>3, <2>1 DEF IInv, TypeOK, Aside, program
<1>7. UnderWay'
  BY <1>1, <1>2, <1>3, <1>4, <1>5 DEF UnderWay, IInv, Aside
<1>8. Ended' /\ NotUsed' /\ OneHolder'
  BY <1>1, <1>2, <1>4 DEF Ended, NotUsed, OneHolder, IInv, Aside
<1>9. InSync' /\ FoundSoFar' /\ ReadGoesOn'
  BY <1>1, <1>2, <1>3, <1>4, <1>5 DEF InSync, FoundSoFar, ReadGoesOn, IInv, Aside, program
<1> QED
  BY <1>6, <1>7, <1>8, <1>9 DEF IInv

(* The transaction ends with a STOP, or with a repeated START.              *)
LEMMA Ends ==
    ASSUME IInv, g \in Ctx, ctx[g].busy, twint, Aside, twsr # "MR_DATA_ACK",
           NEW c \in Context, c.rs = FALSE, c.addr = ctx[g].addr, c.rw = ctx[g].rw,
           c.rw = "w" /\ c.err = 0 => c.addr \in Present,
           Stop(c) \/ (owned /\ StopRs(c)),
           buf' \in Seq(Nat), twdr' = twdr
    PROVE  IInv'
<1>1. g # NULL /\ phase = "none"
  BY NullAssumption DEF IInv, UnderWay
<1>2. CASE Stop(c)
  <2> DEFINE r == [c EXCEPT !.busy = FALSE]
  <2>1. /\ r \in Context /\ r.busy = FALSE /\ r.rs = FALSE /\ r.addr = ctx[g].addr
        /\ r.rw = ctx[g].rw /\ r.err = c.err
    BY DEF Context
  <2>2. ctx' = [ctx EXCEPT ![g] = r] /\ g' = g
    BY <1>2 DEF Stop, Aside
  <2> HIDE DEF r
  <2>3. /\ ctx' \in [Ctx -> Context] /\ ctx'[g'] = r
        /\ \A d \in Ctx : d # g => ctx'[d] = ctx[d]
    BY <2>1, <2>2, ContextStored DEF IInv
  <2>4. twint' = FALSE /\ ie' = TRUE /\ ea' = TRUE /\ phase' = "stop"
    BY <1>2 DEF Stop, WriteTWCR
  <2>5. TypeOK'
    BY <2>3, <2>4 DEF IInv, TypeOK, Aside, program, Phase
  <2>6. UnderWay' /\ Ended' /\ NotUsed' /\ OneHolder'
    BY <1>1, <2>1, <2>3, <2>4 DEF UnderWay, Ended, NotUsed, OneHolder, IInv, Aside
  <2>7. InSync' /\ FoundSoFar' /\ ReadGoesOn'
    BY <1>1, <2>1, <2>3, <2>4 DEF InSync, FoundSoFar, ReadGoesOn, IInv, Aside, program
  <2> QED
    BY <2>5, <2>6, <2>7 DEF IInv
<1>3. CASE owned /\ StopRs(c) /\ ~c.stop
  <2> DEFINE r == [c EXCEPT !.rs = TRUE, !.busy = FALSE]
  <2>1. /\ r \in Context /\ r.busy = FALSE /\ r.rs = TRUE /\ r.addr = ctx[g].addr
        /\ r.rw = ctx[g].rw /\ r.err = c.err
    BY DEF Context
  <2>2. ctx' = [ctx EXCEPT ![g] = r] /\ g' = g
    BY <1>3 DEF StopRs, Aside
  <2> HIDE DEF r
  <2>3. /\ ctx' \in [Ctx -> Context] /\ ctx'[g'] = r
        /\ \A d \in Ctx : d # g => ctx'[d] = ctx[d]
    BY <2>1, <2>2, ContextStored DEF IInv
  <2>4. twint' = FALSE /\ ie' = FALSE /\ ea' = FALSE /\ phase' = "start"
    BY <1>1, <1>3 DEF StopRs, WriteTWCR
  <2>5. TypeOK'
    BY <2>3, <2>4 DEF IInv, TypeOK, Aside, program, Phase
  <2>6. UnderWay' /\ Ended' /\ NotUsed' /\ OneHolder'
    BY <1>1, <1>3, <2>1, <2>3, <2>4 DEF UnderWay, Ended, NotUsed, OneHolder, IInv, Aside
  <2>7. InSync' /\ FoundSoFar' /\ ReadGoesOn'
    BY <1>1, <2>1, <2>3, <2>4 DEF InSync, FoundSoFar, ReadGoesOn, IInv, Aside, program
  <2> QED
    BY <2>5, <2>6, <2>7 DEF IInv
<1> QED
  BY <1>2, <1>3 DEF StopRs

(* Writing back what is there changes nothing.                              *)
LEMMA SameContext ==
    ASSUME TypeOK, g \in Ctx
    PROVE  /\ ctx[g].len \in 0 .. LenMod - 1 /\ ctx[g].xdata \in Nat
           /\ ctx = [ctx EXCEPT ![g] = [ctx[g] EXCEPT !.len = ctx[g].len, !.xdata = ctx[g].xdata]]
<1>1. ctx[g] \in Context
  BY DEF TypeOK
<1>2. [ctx[g] EXCEPT !.len = ctx[g].len, !.xdata = ctx[g].xdata] = ctx[g]
  BY <1>1 DEF Context
<1> QED
  BY <1>1, <1>2 DEF TypeOK, Context

LEMMA Minus1Type == \A l \in 0 .. LenMod - 1 : Minus1(l) \in 0 .. LenMod - 1
BY LenAssumption DEF Minus1

(* What the peripheral sent is stored in the buffer.                        *)
LEMMA StoredType ==
    ASSUME IInv, g \in Ctx, ctx[g].busy, twint, twsr \in {"MR_DATA_ACK", "MR_DATA_NACK"},
           NEW x \in Nat
    PROVE  Stored(x) \in Seq(Nat)
<1>1. twdr.value \in Nat /\ buf \in Seq(Nat)
  BY NullAssumption DEF IInv, UnderWay, TypeOK
<1>2. CASE x <= Len(buf) /\ x # 0
  <2>1. x \in 1..Len(buf)
    BY <1>1, <1>2, LenProperties
  <2> QED
    BY <1>1, <1>2, <2>1, ExceptSeq DEF Stored
<1>3. CASE x = 0
  <2>1. [buf EXCEPT ![x] = twdr.value] = buf
    <3>1. 0 \notin DOMAIN buf
      BY <1>1, LenProperties
    <3>2. buf \in [1..Len(buf) -> Nat]
      BY <1>1, LenProperties
    <3> QED
      BY <1>3, <3>1, <3>2, Zenon
  <2>2. x <= Len(buf)
    BY <1>1, <1>3, LenProperties
  <2> QED
    BY <1>1, <2>1, <2>2 DEF Stored
<1>4. CASE ~(x <= Len(buf))
  BY <1>1, <1>4 DEF Stored
<1> QED
  BY <1>2, <1>3, <1>4

LEMMA VectorKeepsInvariant == IInv /\ TWI_vect => IInv'
<1> SUFFICES ASSUME IInv, TWI_vect PROVE IInv'
  OBVIOUS
<1>1. twint /\ ie /\ Aside
  BY DEF TWI_vect, Aside
<1>2. g \in Ctx /\ g # NULL /\ ctx[g].busy /\ phase = "none"
  BY <1>1 DEF IInv, TypeOK, NotUsed, Ended, UnderWay
<1>3. ctx[g] \in Context /\ ctx[g].rs = FALSE /\ twdr.kind \in {"sla", "data"} /\ buf \in Seq(Nat)
  BY <1>2 DEF IInv, TypeOK, UnderWay, Context
<1>4. CASE IsrStart
  <2>1. Continue = "addr"
    BY <1>4 DEF IsrStart, Continue
  <2>2. twdr' = [kind |-> "sla", value |-> [addr |-> ctx[g].addr, rw |-> ctx[g].rw]]
    BY <1>4 DEF IsrStart
  <2>3. Ack /\ ctx' = ctx /\ buf' = buf
    BY <1>4 DEF IsrStart
  <2> HIDE DEF Continue
  <2> QED
    BY <1>1, <1>2, <1>3, <2>1, <2>2, <2>3, SameContext, GoesOn DEF IInv
<1>5. CASE IsrTransmit
  <2> DEFINE l == Minus1(ctx[g].len)
             c == [ctx[g] EXCEPT !.len = l]
  <2>1. twsr \in {"MT_SLA_ACK", "MT_DATA_ACK"} /\ Continue = "tx" /\ buf' = buf
    BY <1>5 DEF IsrTransmit, Continue
  <2>2. l \in 0 .. LenMod - 1 /\ ctx[g].len \in 0 .. LenMod - 1
    BY <1>3, Minus1Type DEF Context
  <2> HIDE DEF l
  <2>3. /\ c \in Context /\ c.rs = FALSE /\ c.addr = ctx[g].addr /\ c.rw = ctx[g].rw
        /\ c.xdata = ctx[g].xdata /\ c.xdata \in Nat
    BY <1>3, <2>2 DEF Context
  <2>4. owned /\ ctx[g].addr \in Present
    BY <1>1, <1>2, <2>1 DEF IInv, UnderWay, Granted
  <2>5. CASE ctx[g].len # 0
    <3>1. Ack /\ twdr' = [kind |-> "data", value |-> c.xdata]
      BY <1>5, <2>5 DEF IsrTransmit, l
    <3>2. ctx' = [ctx EXCEPT ![g] = [c EXCEPT !.xdata = @ + 1]]
      BY <1>5, <2>5 DEF IsrTransmit, l
    <3>3. [c EXCEPT !.xdata = @ + 1] = [ctx[g] EXCEPT !.len = l, !.xdata = c.xdata + 1]
      BY <1>3 DEF Context
    <3>4. c.xdata + 1 \in Nat
      BY <2>3
    <3> HIDE DEF c
    <3> DEFINE x == c.xdata + 1
    <3>5. ctx' = [ctx EXCEPT ![g] = [ctx[g] EXCEPT !.len = l, !.xdata = x]] /\ x \in Nat
      BY <3>2, <3>3, <3>4
    <3>6. twdr'.kind \in {"sla", "data"} /\ twdr'.value \in Nat
      BY <2>3, <3>1
    <3> HIDE DEF x
    <3> QED
      BY <1>1, <1>2, <1>3, <2>1, <2>2, <3>1, <3>5, <3>6, GoesOn
  <2>6. CASE ctx[g].len = 0
    <3>1. StopRs(c) /\ twdr' = twdr
      BY <1>5, <2>6 DEF IsrTransmit, l
    <3> HIDE DEF c
    <3> QED
      BY <1>1, <1>2, <1>3, <2>1, <2>3, <2>4, <3>1, Ends
  <2> QED
    BY <2>5, <2>6
<1>6. CASE IsrTransmitNack \/ IsrArbLost \/ IsrReceiveEnd
  <2>1. PICK e \in 1..5 : Stop([ctx[g] EXCEPT !.err = e])
                          \/ (twsr \in Granted /\ StopRs([ctx[g] EXCEPT !.err = e]))
    BY <1>6 DEF IsrTransmitNack, IsrArbLost, IsrReceiveEnd, Granted
  <2> DEFINE c == [ctx[g] EXCEPT !.err = e]
  <2>2. /\ c \in Context /\ c.rs = FALSE /\ c.addr = ctx[g].addr /\ c.rw = ctx[g].rw
        /\ c.err # 0
    <3>1. e \in Errors /\ e # 0
      BY DEF Errors
    <3>2. c \in Context /\ c.err = e
      BY <1>3, <3>1 DEF Context
    <3>3. c.rs = ctx[g].rs /\ c.addr = ctx[g].addr /\ c.rw = ctx[g].rw
      BY <1>3 DEF Context
    <3> QED
      BY <1>3, <3>1, <3>2, <3>3
  <2>3. Stop(c) \/ (owned /\ StopRs(c))
    BY <1>1, <1>2, <2>1 DEF IInv, UnderWay
  <2>4. twsr # "MR_DATA_ACK" /\ twdr' = twdr
    BY <1>6 DEF IsrTransmitNack, IsrArbLost, IsrReceiveEnd
  <2>5. buf' \in Seq(Nat)
    <3>1. ctx[g].xdata \in Nat
      BY <1>3 DEF Context
    <3> QED
      BY <1>1, <1>2, <1>3, <1>6, <3>1, StoredType DEF IsrTransmitNack, IsrArbLost, IsrReceiveEnd
  <2> HIDE DEF c
  <2> QED
    BY <1>1, <1>2, <2>2, <2>3, <2>4, <2>5, Ends
<1>7. CASE IsrReceive
  <2> DEFINE x == IF twsr = "MR_DATA_ACK" THEN ctx[g].xdata + 1 ELSE ctx[g].xdata
             l == Minus1(ctx[g].len)
  <2>1. l \in 0 .. LenMod - 1 /\ x \in Nat /\ ctx[g].xdata \in Nat
    BY <1>3, Minus1Type DEF Context
  <2>2. Continue = "rx" /\ twdr' = twdr
    BY <1>7 DEF IsrReceive, Continue
  <2>3. buf' \in Seq(Nat)
    BY <1>1, <1>2, <1>3, <1>7, <2>1, StoredType DEF IsrReceive
  <2>4. Nack(More(l)) /\ More(l) \in BOOLEAN
    BY <1>7 DEF IsrReceive, More
  <2>5. ctx' = [ctx EXCEPT ![g].xdata = x, ![g].len = l]
    BY <1>7 DEF IsrReceive
  <2> HIDE DEF x, l
  <2>6. ctx' = [ctx EXCEPT ![g] = [ctx[g] EXCEPT !.len = l, !.xdata = x]]
    <3>1. [[ctx[g] EXCEPT !.xdata = x] EXCEPT !.len = l] = [ctx[g] EXCEPT !.len = l, !.xdata = x]
      BY <1>3 DEF Context
    <3>2. ctx' = [ctx EXCEPT ![g] = [[ctx[g] EXCEPT !.xdata = x] EXCEPT !.len = l]]
      BY <1>2, <2>5 DEF IInv, TypeOK
    <3> QED
      BY <3>1, <3>2
  <2> HIDE DEF Continue
  <2> QED
    BY <1>1, <1>2, <1>3, <2>1, <2>2, <2>3, <2>4, <2>6, GoesOn
<1>8. CASE IsrOther
  <2>1. Continue = "none"
    BY <1>2, <1>8 DEF IsrOther, Continue
  <2>2. Ack /\ ctx' = ctx /\ buf' = buf /\ twdr' = twdr
    BY <1>8 DEF IsrOther
  <2> HIDE DEF Continue
  <2> QED
    BY <1>1, <1>2, <1>3, <2>1, <2>2, SameContext, GoesOn DEF IInv
<1> QED
  BY <1>4, <1>5, <1>6, <1>7, <1>8 DEF TWI_vect

-----------------------------------------------------------------------------
(* The program. *)

LEMMA InitContextKeepsInvariant ==
    ASSUME IInv, NEW c \in Ctx, NEW f \in Freq, twi_minit(c, f) PROVE IInv'
<1>1. /\ g = NULL /\ g' = g /\ pc = "idle" /\ pc' = pc
      /\ UNCHANGED <<twint, phase, owned, twsr, wire, buf, req, dev, found, calls, twdr>>
      /\ ie' = TRUE /\ ea' = TRUE /\ twbr' = f /\ ready' = ready \cup {c}
  BY DEF twi_minit, WriteTWCR
<1>2. ctx' = [ctx EXCEPT ![c].addr = 0, ![c].rw = "w", ![c].freq = f]
  BY DEF twi_minit
<1>3. ctx[c] \in Context
  BY DEF IInv, TypeOK
<1> DEFINE r == [ctx[c] EXCEPT !.addr = 0, !.rw = "w", !.freq = f]
<1>4. r \in Context /\ r.rs = ctx[c].rs
  BY <1>3, AddrAssumption DEF Context
<1>5. ctx' = [ctx EXCEPT ![c] = r]
  BY <1>2 DEF IInv, TypeOK
<1> HIDE DEF r
<1>6. /\ ctx' \in [Ctx -> Context] /\ ctx'[c] = r
      /\ \A d \in Ctx : d # c => ctx'[d] = ctx[d]
  BY <1>4, <1>5 DEF IInv, TypeOK
<1>7. TypeOK'
  BY <1>1, <1>6 DEF IInv, TypeOK
<1>8. UnderWay' /\ Ended' /\ NotUsed' /\ OneHolder'
  BY <1>1, <1>4, <1>6 DEF UnderWay, Ended, NotUsed, OneHolder, IInv
<1>9. InSync' /\ FoundSoFar' /\ ReadGoesOn'
  BY <1>1 DEF InSync, FoundSoFar, ReadGoesOn, IInv
<1> QED
  BY <1>7, <1>8, <1>9 DEF IInv

(* A transaction is started by a context that may use the bus.              *)
LEMMA MxStarts ==
    ASSUME IInv, pc \in {"idle", "scan"}, NEW c \in Ctx, g = NULL \/ g = c \/ ~ctx[g].rs,
           NEW rw \in {"w", "r"}, NEW a \in Addr, NEW l \in 0 .. LenMod - 1, NEW s \in BOOLEAN,
           Mx(c, rw, a, l, s)
    PROVE  /\ ctx' \in [Ctx -> Context] /\ g' = c /\ twbr' \in Freq
           /\ ctx'[g'].addr = a /\ ctx'[g'].rw = rw /\ ctx'[g'].busy
           /\ UnderWay' /\ Ended' /\ NotUsed' /\ OneHolder' /\ ReadGoesOn'
           /\ twint' \in BOOLEAN /\ ie' \in BOOLEAN /\ ea' \in BOOLEAN /\ phase' \in Phase
           /\ ctx'[g'].xdata = 1 /\ ctx'[g'].len = l /\ ctx'[g'].err = 0
           /\ phase' \in {"start", "stop_start", "none"}
           /\ twint' => twsr' \in {"START", "REP_START"}
<1>1. g' = c /\ c # NULL /\ UNCHANGED <<twsr, twdr, owned>>
  BY NullAssumption DEF Mx, Bus
<1>2. ctx[c] \in Context
  BY DEF IInv, TypeOK
<1> DEFINE r == [ctx[c] EXCEPT !.xdata = 1, !.len = l, !.addr = a, !.rw = rw,
                               !.busy = TRUE, !.err = 0, !.rs = FALSE, !.stop = s]
<1>3. /\ r \in Context /\ r.busy = TRUE /\ r.rs = FALSE /\ r.addr = a /\ r.rw = rw
      /\ r.xdata = 1 /\ r.len = l /\ r.err = 0
  <2> DEFINE e == [ctx[c] EXCEPT !.xdata = 1, !.len = l, !.addr = a, !.rw = rw]
             f == [e EXCEPT !.busy = TRUE, !.err = 0, !.rs = FALSE]
  <2>1. e \in Context /\ e.addr = a /\ e.rw = rw
    BY <1>2 DEF Context
  <2>2. e.xdata = 1 /\ e.len = l
    BY <1>2 DEF Context
  <2>3. r = [f EXCEPT !.stop = s]
    BY <1>2 DEF Context
  <2> HIDE DEF e
  <2>4. /\ f \in Context /\ f.busy = TRUE /\ f.rs = FALSE /\ f.addr = a /\ f.rw = rw
        /\ f.xdata = 1 /\ f.len = l /\ f.err = 0
    <3>1. 0 \in Errors
      BY DEF Errors
    <3>2. f \in Context
      BY <2>1, <3>1 DEF Context
    <3>3. f.busy = TRUE /\ f.rs = FALSE /\ f.err = 0
      BY <2>1 DEF Context
    <3>4. f.xdata = 1 /\ f.len = l
      BY <2>1, <2>2 DEF Context
    <3>5. f.addr = a /\ f.rw = rw
      BY <2>1 DEF Context
    <3> QED
      BY <3>2, <3>3, <3>4, <3>5
  <2> HIDE DEF f, r
  <2>5. r \in Context /\ r.busy = TRUE /\ r.rs = FALSE /\ r.addr = a /\ r.rw = rw
    BY <2>3, <2>4 DEF Context
  <2>6. r.xdata = 1 /\ r.len = l /\ r.err = 0
    BY <2>3, <2>4 DEF Context
  <2> QED
    BY <2>5, <2>6
<1>4. ctx' = [ctx EXCEPT ![c] = r]
  BY <1>2 DEF Mx, IInv, TypeOK
<1> HIDE DEF r
<1>6. /\ ctx' \in [Ctx -> Context] /\ ctx'[c] = r
      /\ \A d \in Ctx : d # c => ctx'[d] = ctx[d]
  BY <1>3, <1>4 DEF IInv, TypeOK
<1>7. ~(g # NULL /\ ctx[g].busy) /\ twsr # "MR_DATA_ACK"
  BY DEF IInv, InSync, ReadGoesOn
<1>8. twbr' \in Freq
  BY <1>2 DEF Mx, IInv, TypeOK, Context
<1>9. /\ twint' \in BOOLEAN /\ ie' \in BOOLEAN /\ ea' \in BOOLEAN /\ phase' \in Phase
      /\ IF ctx[c].rs THEN twint' = twint /\ phase' = phase
         ELSE twint' = FALSE /\ phase' \in {"start", "stop_start"}
  <2>1. CASE ctx[c].rs
    BY <2>1 DEF Mx, Go, WriteTWCR, IInv, TypeOK
  <2>2. CASE ~ctx[c].rs
    BY <2>2 DEF Mx, Go, WriteTWCR, Phase
  <2> QED
    BY <2>1, <2>2
<1>10. ctx[c].rs => /\ g = c /\ ~ctx[c].busy
                    /\ \/ phase = "start" /\ ~twint
                       \/ phase = "none" /\ twint /\ owned /\ twsr \in {"START", "REP_START"}
  BY <1>1, <1>7 DEF IInv, OneHolder, Ended
<1>11. UnderWay'
  <2>1. CASE ctx[c].rs
    BY <1>1, <1>3, <1>6, <1>9, <1>10, <2>1 DEF UnderWay
  <2>2. CASE ~ctx[c].rs
    BY <1>1, <1>3, <1>6, <1>9, <2>2 DEF UnderWay
  <2> QED
    BY <2>1, <2>2
<1>12. OneHolder'
  <2>1. SUFFICES ASSUME NEW d \in Ctx, d # c PROVE ~ctx'[d].rs
    BY <1>1, <1>3, <1>6 DEF OneHolder
  <2>2. ctx'[d] = ctx[d]
    BY <1>6, <2>1
  <2> QED
    BY <2>1, <2>2, NullAssumption DEF IInv, OneHolder
<1>13. Ended' /\ NotUsed' /\ ReadGoesOn'
  BY <1>1, <1>3, <1>6, <1>7 DEF Ended, NotUsed, ReadGoesOn
<1>14. phase' \in {"start", "stop_start", "none"} /\ (twint' => twsr' \in {"START", "REP_START"})
  BY <1>1, <1>9, <1>10
<1> QED
  BY <1>1, <1>3, <1>6, <1>8, <1>9, <1>11, <1>12, <1>13, <1>14

LEMMA UsableFree ==
    ASSUME Disciplined, NEW c \in Usable PROVE c \in Ctx /\ (g = NULL \/ g = c \/ ~ctx[g].rs)
BY DEF Usable

(* A step that leaves the bus and the contexts alone.                       *)
LEMMA BusLeftAlone ==
    ASSUME IInv, UNCHANGED <<hw, ctx, g, twbr, wire, buf, ready>>
    PROVE  UnderWay' /\ Ended' /\ NotUsed' /\ OneHolder' /\ ReadGoesOn'
BY DEF IInv, hw, UnderWay, Ended, NotUsed, OneHolder, ReadGoesOn

LEMMA TransactKeepsInvariant == ASSUME Disciplined, IInv, Transact PROVE IInv'
<1>1. PICK c \in Usable, rw \in {"w", "r"}, a \in Addr, l \in Lens, s \in StopFlags :
          Mx(c, rw, a, l, s)
  BY DEF Transact
<1>2. /\ c \in Ctx /\ (g = NULL \/ g = c \/ ~ctx[g].rs) /\ l \in 0 .. LenMod - 1 /\ s \in BOOLEAN
      /\ pc = "idle" /\ pc' = "sync" /\ c # NULL
  BY UsableFree, LenAssumption, FlagAssumption, NullAssumption DEF Transact, Call
<1>3. /\ ctx' \in [Ctx -> Context] /\ g' = c /\ twbr' \in Freq
      /\ UnderWay' /\ Ended' /\ NotUsed' /\ OneHolder' /\ ReadGoesOn'
      /\ twint' \in BOOLEAN /\ ie' \in BOOLEAN /\ ea' \in BOOLEAN /\ phase' \in Phase
  BY <1>1, <1>2, MxStarts
<1>4. /\ req' = [ctx |-> c, rw |-> rw, len |-> l, addr |-> a] /\ wire' = <<>> /\ buf' = <<>>
      /\ UNCHANGED <<twsr, twdr, owned, ready, dev, found>>
  <2>1. UNCHANGED <<dev, found>>
    BY DEF Transact
  <2> QED
    BY <1>1, <2>1 DEF Mx
<1>5. calls' \in 0..MaxCalls
  BY CallsAssumption DEF Transact, Call, IInv, TypeOK
<1>6. TypeOK'
  BY <1>2, <1>3, <1>4, <1>5, EmptySeq DEF IInv, TypeOK
<1>7. InSync' /\ FoundSoFar'
  BY <1>2, <1>3 DEF InSync, FoundSoFar
<1> QED
  BY <1>3, <1>6, <1>7 DEF IInv

LEMMA ScanKeepsInvariant == ASSUME Disciplined, IInv, Scan PROVE IInv'
<1>1. pc = "scan" /\ UNCHANGED <<dev, found, calls>>
  BY DEF Scan
<1>2. CASE dev <= ScanLast
  <2>1. Mx(req.ctx, "w", dev, 0, TRUE) /\ pc' = "scan_sync"
    BY <1>2 DEF Scan
  <2>2. /\ req.ctx \in Ctx /\ dev \in Addr /\ 0 \in 0 .. LenMod - 1 /\ req.ctx # NULL
        /\ g = NULL \/ g = req.ctx \/ ~ctx[g].rs
    <3>1. dev \in ScanFirst..ScanLast
      BY <1>1, <1>2, AddrAssumption DEF IInv, TypeOK, FoundSoFar
    <3> QED
      BY <1>1, <3>1, AddrAssumption, LenAssumption, NullAssumption DEF IInv, TypeOK, InSync
  <2> DEFINE c == req.ctx
  <2>3. /\ ctx' \in [Ctx -> Context] /\ g' = c /\ twbr' \in Freq
        /\ ctx'[g'].addr = dev /\ ctx'[g'].rw = "w" /\ ctx'[g'].busy
        /\ UnderWay' /\ Ended' /\ NotUsed' /\ OneHolder' /\ ReadGoesOn'
        /\ twint' \in BOOLEAN /\ ie' \in BOOLEAN /\ ea' \in BOOLEAN /\ phase' \in Phase
    BY <1>1, <2>1, <2>2, MxStarts
  <2>4. /\ req' = [ctx |-> c, rw |-> "w", len |-> 0, addr |-> dev] /\ wire' = <<>> /\ buf' = <<>>
        /\ UNCHANGED <<twsr, twdr, owned, ready>>
    BY <2>1 DEF Mx
  <2>5. TypeOK'
    BY <1>1, <2>1, <2>2, <2>3, <2>4, EmptySeq DEF IInv, TypeOK
  <2>6. InSync'
    BY <1>1, <2>1, <2>2, <2>3, <2>4 DEF InSync
  <2>7. FoundSoFar'
    BY <1>1, <2>1 DEF IInv, FoundSoFar
  <2> QED
    BY <2>3, <2>5, <2>6, <2>7 DEF IInv
<1>3. CASE ~(dev <= ScanLast)
  <2>1. pc' = "idle" /\ UNCHANGED <<hw, ctx, g, twbr, wire, buf, ready, req>>
    BY <1>3 DEF Scan
  <2>2. UnderWay' /\ Ended' /\ NotUsed' /\ OneHolder' /\ ReadGoesOn'
    BY <2>1, BusLeftAlone
  <2>3. TypeOK' /\ InSync' /\ FoundSoFar'
    BY <1>1, <2>1 DEF IInv, TypeOK, InSync, FoundSoFar, hw
  <2> QED
    BY <2>2, <2>3 DEF IInv
<1> QED
  BY <1>2, <1>3

LEMMA ScanCheckKeepsInvariant == ASSUME IInv, ScanCheck PROVE IInv'
<1>1. /\ pc = "scan_sync" /\ pc' = "scan" /\ dev' = dev + 1
      /\ found' = IF ctx[req.ctx].err = 0 THEN found \cup {dev} ELSE found
      /\ UNCHANGED <<hw, ctx, g, twbr, wire, buf, ready, req, calls>>
  BY DEF ScanCheck
<1>2. UnderWay' /\ Ended' /\ NotUsed' /\ OneHolder' /\ ReadGoesOn'
  BY <1>1, BusLeftAlone
<1>3. /\ g # NULL /\ g = req.ctx /\ g \in Ctx /\ ~ctx[g].busy
      /\ ctx[g].addr = dev /\ ctx[g].rw = "w"
  BY <1>1 DEF ScanCheck, Synced, IInv, TypeOK, InSync
<1>4. ctx[g].err = 0 => dev \in Present
  BY <1>3 DEF IInv, Ended
<1>5. found' \subseteq Addr /\ dev' \in Nat /\ dev \in Nat
  BY <1>1, <1>3, <1>4, AddrAssumption DEF IInv, TypeOK
<1>6. TypeOK'
  BY <1>1, <1>5 DEF IInv, TypeOK, hw
<1>7. InSync'
  BY <1>1, <1>3 DEF InSync
<1>8. FoundSoFar'
  <2>1. found \subseteq {a \in Present : ScanFirst <= a /\ a < dev} /\ ScanFirst <= dev
    BY <1>1 DEF IInv, FoundSoFar
  <2>2. Present \subseteq Nat /\ ScanFirst \in Nat
    BY AddrAssumption
  <2>3. \A a \in found' : a \in Present /\ ScanFirst <= a /\ a < dev'
    <3>1. SUFFICES ASSUME NEW a \in found' PROVE a \in Present /\ ScanFirst <= a /\ a < dev'
      OBVIOUS
    <3>2. a \in found \/ (a = dev /\ dev \in Present)
      BY <1>1, <1>3, <1>4, <3>1
    <3>3. CASE a \in found
      BY <1>1, <1>5, <2>1, <2>2, <3>3
    <3>4. CASE a = dev /\ dev \in Present
      BY <1>1, <1>5, <2>1, <2>2, <3>4
    <3> QED
      BY <3>2, <3>3, <3>4
  <2> QED
    BY <1>1, <1>5, <2>1, <2>2, <2>3 DEF FoundSoFar
<1> QED
  BY <1>2, <1>6, <1>7, <1>8 DEF IInv

LEMMA SyncKeepsInvariant == ASSUME Disciplined, IInv, twi_sync \/ twi_search_devices PROVE IInv'
<1>1. UNCHANGED <<hw, ctx, g, twbr, wire, buf, ready>>
  BY DEF twi_sync, twi_search_devices
<1>2. UnderWay' /\ Ended' /\ NotUsed' /\ OneHolder' /\ ReadGoesOn'
  BY <1>1, BusLeftAlone
<1>3. CASE twi_sync
  <2>1. TypeOK' /\ FoundSoFar'
    BY <1>3 DEF twi_sync, IInv, TypeOK, FoundSoFar, hw
  <2>2. InSync'
    BY <1>3 DEF twi_sync, Synced, IInv, InSync
  <2> QED
    BY <1>2, <2>1, <2>2 DEF IInv
<1>4. CASE twi_search_devices
  <2>1. PICK c \in Usable : req' = [req EXCEPT !.ctx = c]
    BY <1>4 DEF twi_search_devices
  <2>2. /\ c \in Ctx /\ (g = NULL \/ g = c \/ ~ctx[g].rs)
        /\ pc = "idle" /\ pc' = "scan" /\ dev' = ScanFirst /\ found' = {}
    BY <1>4, <2>1, UsableFree DEF twi_search_devices, Call
  <2>3. calls' \in 0..MaxCalls /\ dev' \in Nat
    BY <1>4, CallsAssumption, AddrAssumption DEF twi_search_devices, Call, IInv, TypeOK
  <2>4. req'.ctx = c /\ req' \in [ctx : Ctx, rw : {"w", "r"}, len : 0 .. LenMod - 1, addr : Addr]
    BY <2>1, <2>2 DEF IInv, TypeOK
  <2>5. TypeOK'
    BY <1>1, <2>2, <2>3, <2>4 DEF IInv, TypeOK, hw
  <2>6. InSync' /\ FoundSoFar'
    BY <1>1, <2>2, <2>3, <2>4 DEF IInv, InSync, FoundSoFar
  <2> QED
    BY <1>2, <2>5, <2>6 DEF IInv
<1> QED
  BY <1>3, <1>4

LEMMA NextKeepsInvariant == ASSUME Disciplined PROVE IInv /\ [Next]_vars => IInv'
<1> SUFFICES ASSUME IInv, [Next]_vars PROVE IInv'
  OBVIOUS
<1>1. CASE Hw
  BY <1>1, HwKeepsInvariant
<1>2. CASE TWI_vect
  BY <1>2, VectorKeepsInvariant
<1>3. CASE \E c \in Ctx, f \in Freq : twi_minit(c, f)
  BY <1>3, InitContextKeepsInvariant
<1>4. CASE Transact
  BY <1>4, TransactKeepsInvariant
<1>5. CASE Scan
  BY <1>5, ScanKeepsInvariant
<1>6. CASE ScanCheck
  BY <1>6, ScanCheckKeepsInvariant
<1>7. CASE twi_sync \/ twi_search_devices
  BY <1>7, SyncKeepsInvariant
<1>8. CASE UNCHANGED vars
  <2>1. UNCHANGED <<hw, program, ctx, g, twbr, wire, buf>>
    BY <1>8 DEF vars
  <2>2. UnderWay' /\ Ended' /\ NotUsed' /\ OneHolder' /\ ReadGoesOn'
    BY <2>1, BusLeftAlone DEF program
  <2>3. TypeOK' /\ InSync' /\ FoundSoFar'
    BY <2>1 DEF IInv, TypeOK, InSync, FoundSoFar, hw, program
  <2> QED
    BY <2>2, <2>3 DEF IInv
<1> QED
  BY <1>1, <1>2, <1>3, <1>4, <1>5, <1>6, <1>7, <1>8 DEF Next, Program

LEMMA Invariant ==
    ASSUME Disciplined, \A r \in Garbage : r = FALSE PROVE Spec => []IInv
<1>1. Init => IInv
  BY InitInvariant
<1>2. IInv /\ [Next]_vars => IInv'
  BY NextKeepsInvariant
<1> QED
  BY <1>1, <1>2, PTL DEF Spec

-----------------------------------------------------------------------------
(* What a transaction reports.                                              *)

(* The peripheral has not sent the address yet, or reported on it with one  *)
(* of acks.                                                                 *)
AtStart(acks) == \/ phase \in {"start", "stop_start", "addr"}
                 \/ twint /\ twsr \in {"START", "REP_START"} \cup acks

(* A write under way: the context counts what is left of it and the bytes   *)
(* the device accepted, and the byte that is being sent is the next one.    *)
Writing ==
    g # NULL /\ ctx[g].busy /\ req.rw = "w" =>
        /\ phase # "rx"
        /\ twint => twsr \notin {"MR_SLA_ACK", "MR_SLA_NACK", "MR_DATA_ACK", "MR_DATA_NACK"}
        /\ AtStart({"MT_SLA_ACK", "MT_SLA_NACK"}) =>
               ctx[g].xdata = 1 /\ ctx[g].len = req.len /\ Len(wire) = 0
        /\ phase = "tx" \/ (twint /\ twsr = "MT_DATA_NACK") =>
               ctx[g].xdata = Len(wire) + 2 /\ ctx[g].len = req.len - Len(wire) - 1
        /\ phase = "tx" => twdr.value = Len(wire) + 1
        /\ twint /\ twsr = "MT_DATA_ACK" =>
               ctx[g].xdata = Len(wire) + 1 /\ ctx[g].len = req.len - Len(wire)
        /\ twint /\ twsr = "ARB_LOST" => req.len = 0 \/ Len(wire) < req.len

(* The last byte of a read came, and was not stored.                        *)
LostLast == wire = Append(buf, Len(wire)) /\ Len(wire) = req.len

(* A read under way: the byte that came last, if it was not stored yet, is  *)
(* the only one that is not in the buffer, and it is acknowledged exactly   *)
(* when another is wanted.                                                  *)
Reading ==
    g # NULL /\ ctx[g].busy /\ req.rw = "r" =>
        /\ phase # "tx" /\ req.len # 0
        /\ twint => twsr \notin {"MT_SLA_ACK", "MT_SLA_NACK", "MT_DATA_ACK", "MT_DATA_NACK"}
        /\ AtStart({"MR_SLA_ACK", "MR_SLA_NACK"}) =>
               ctx[g].xdata = 1 /\ ctx[g].len = req.len /\ wire = <<>> /\ buf = <<>>
        /\ phase = "rx" =>
               /\ ctx[g].xdata = Len(wire) + 1 /\ ctx[g].len = req.len - Len(wire) - 1
               /\ buf = wire /\ (ea <=> ctx[g].len # 0)
        /\ twint /\ twsr \in {"MR_DATA_ACK", "MR_DATA_NACK"} =>
               /\ ctx[g].xdata = Len(wire) /\ ctx[g].len = req.len - Len(wire)
               /\ wire = Append(buf, twdr.value)
               /\ twsr = "MR_DATA_NACK" <=> ctx[g].len = 0
        /\ twint /\ twsr = "ARB_LOST" => LostLast \/ (wire = <<>> /\ buf = <<>>)

(* A transaction that has ended tells what happened.                        *)
Told ==
    g # NULL /\ ~ctx[g].busy =>
        /\ req.rw = "w" /\ req.len > 0 => (ctx[g].err = 0 <=> Len(wire) = req.len)
        /\ req.rw = "r" => /\ buf = wire \/ (ctx[g].err = 1 /\ LostLast)
                           /\ ctx[g].err = 4 => wire = <<>>
                           /\ Len(buf) = req.len <=> ctx[g].err \notin {1, 4}

(* What the context and the call have in common.                            *)
Recorded == g # NULL => /\ ctx[g].rw = req.rw /\ ctx[g].addr = req.addr
                        /\ ctx[g].busy => ctx[g].err = 0

InOrder == \A i \in 1..Len(wire) : wire[i] = i

Reports == Writing /\ Reading /\ Told /\ Recorded /\ InOrder

LEMMA InitReports == Init => Reports
BY DEF Init, Reports, Writing, Reading, Told, LostLast, Recorded, InOrder

(* Types that the following steps need.                                     *)
LEMMA ReportTypes ==
    ASSUME IInv
    PROVE  /\ wire \in Seq(Nat) /\ buf \in Seq(Nat) /\ Len(wire) \in Nat /\ Len(buf) \in Nat
           /\ req.len \in Nat /\ req.rw \in {"w", "r"}
           /\ g # NULL => /\ g \in Ctx /\ ctx[g] \in Context
                          /\ ctx[g].len \in 0 .. LenMod - 1 /\ ctx[g].xdata \in Nat
                          /\ ctx[g].busy \in BOOLEAN /\ ctx[g].err \in Errors
                          /\ ctx[g].rw \in {"w", "r"}
BY LenAssumption DEF IInv, TypeOK, Context

(* The peripheral.                                                          *)
LEMMA HwReports == IInv /\ Reports /\ Hw => Reports'
<1> SUFFICES ASSUME IInv, Reports, Hw PROVE Reports'
  OBVIOUS
<1> USE DEF Report, program, Reports
<1>1. g # NULL /\ g \in Ctx /\ UNCHANGED <<ctx, g, req, buf, ie, ea>>
  BY ReportTypes DEF Hw, HwStart, HwAddr, HwTx, HwRx, ByteComes, HwStop, HwFault, IInv, NotUsed
<1>2. /\ Len(wire) \in Nat /\ wire \in Seq(Nat) /\ req.rw \in {"w", "r"} /\ req.len \in Nat
      /\ ctx[g].len \in Nat /\ ctx[g].xdata \in Nat /\ ctx[g].busy \in BOOLEAN /\ ea \in BOOLEAN
  BY <1>1, ReportTypes, LenAssumption DEF IInv, TypeOK
<1>3. Recorded'
  BY <1>1 DEF Recorded
<1>4. phase \in {"addr", "tx", "rx"} => ctx[g].busy
  BY <1>1 DEF IInv, Ended
<1>5. CASE HwStart
  BY <1>1, <1>2, <1>3, <1>5 DEF HwStart, Writing, Reading, Told, LostLast, InOrder, AtStart
<1>6. CASE HwAddr
  <2>1. twdr.value.rw = req.rw /\ phase = "addr" /\ ctx[g].busy
    BY <1>1, <1>4, <1>6 DEF HwAddr, IInv, UnderWay, Recorded
  <2> QED
    BY <1>1, <1>2, <1>3, <1>6, <2>1 DEF HwAddr, Writing, Reading, Told, LostLast, InOrder, AtStart
<1>7. CASE HwTx
  <2>1. ctx[g].busy /\ req.rw = "w" /\ phase = "tx" /\ twdr.value = Len(wire) + 1
    BY <1>1, <1>2, <1>4, <1>7 DEF HwTx, Reading, Writing
  <2>2. /\ phase' = "none" /\ twint' = TRUE
        /\ \/ twsr' = "MT_DATA_NACK" /\ wire' = wire
           \/ twsr' = "MT_DATA_ACK" /\ wire' = Append(wire, Len(wire) + 1)
    BY <1>7, <2>1 DEF HwTx
  <2>3. wire' = Append(wire, Len(wire) + 1) => Len(wire') = Len(wire) + 1 /\ InOrder'
    BY <1>2, AppendProperties DEF InOrder
  <2>4. InOrder'
    BY <2>2, <2>3 DEF InOrder
  <2> QED
    BY <1>1, <1>2, <1>3, <2>1, <2>2, <2>3, <2>4 DEF Writing, Reading, Told, AtStart
<1>8. CASE HwRx
  <2>1. ctx[g].busy /\ req.rw = "r" /\ phase = "rx"
    BY <1>1, <1>2, <1>4, <1>8 DEF HwRx, ByteComes, Reading, Writing
  <2>2. /\ phase' = "none" /\ twint' = TRUE /\ twsr' = IF ea THEN "MR_DATA_ACK" ELSE "MR_DATA_NACK"
        /\ wire' = Append(wire, Len(wire) + 1) /\ twdr'.value = Len(wire) + 1
    BY <1>8 DEF HwRx, ByteComes
  <2>3. Len(wire') = Len(wire) + 1 /\ InOrder'
    BY <1>2, <2>2, AppendProperties DEF InOrder
  <2>4. /\ ctx[g].xdata = Len(wire) + 1 /\ ctx[g].len = req.len - Len(wire) - 1
        /\ buf = wire /\ (ea <=> ctx[g].len # 0) /\ req.len # 0
    BY <1>1, <2>1 DEF Reading
  <2>5. Reading'
    BY <1>1, <1>2, <2>1, <2>2, <2>3, <2>4 DEF Reading, AtStart
  <2> QED
    BY <1>1, <1>3, <2>1, <2>3, <2>5 DEF Writing, Told
<1>9. CASE HwStop
  BY <1>1, <1>2, <1>3, <1>9 DEF HwStop, Writing, Reading, Told, LostLast, InOrder, AtStart
<1>10. CASE HwFault
  <2>1. /\ phase' = "none" /\ twint' = TRUE
        /\ \/ /\ twsr' = "ARB_LOST" /\ phase \in {"addr", "tx"} /\ UNCHANGED wire
           \/ /\ twsr' = "ARB_LOST" /\ phase = "rx" /\ ~ea
              /\ wire' = Append(wire, Len(wire) + 1)
           \/ twsr' \in {"BUS_ERROR", "SR_SLA_ACK"} /\ UNCHANGED wire
    BY <1>10 DEF HwFault, ByteComes
  <2>2. CASE UNCHANGED wire
    <3>1. Told' /\ InOrder'
      BY <1>1, <1>2, <2>2 DEF Told, LostLast, InOrder
    <3>2. twsr' = "ARB_LOST" => phase \in {"addr", "tx"}
      <4>1. wire # Append(wire, Len(wire) + 1)
        BY <1>2, AppendProperties
      <4> QED
        BY <2>1, <2>2, <4>1
    <3>3. Writing'
      BY <1>1, <1>2, <1>4, <2>1, <2>2, <3>2 DEF Writing, AtStart
    <3>4. Reading'
      BY <1>1, <1>2, <1>4, <2>1, <2>2, <3>2 DEF Reading, AtStart
    <3> QED
      BY <1>3, <3>1, <3>3, <3>4
  <2>3. CASE wire' # wire
    <3>1. /\ twsr' = "ARB_LOST" /\ phase = "rx" /\ ~ea /\ wire' = Append(wire, Len(wire) + 1)
          /\ ctx[g].busy /\ req.rw = "r"
      BY <1>1, <1>2, <1>4, <2>1, <2>3 DEF Writing
    <3>2. Len(wire') = Len(wire) + 1 /\ InOrder'
      BY <1>2, <3>1, AppendProperties DEF InOrder
    <3>3. buf = wire /\ ctx[g].len = 0 /\ ctx[g].len = req.len - Len(wire) - 1 /\ req.len # 0
      BY <1>1, <3>1 DEF Reading
    <3>4. LostLast'
      BY <1>1, <1>2, <3>1, <3>2, <3>3 DEF LostLast
    <3>5. Reading'
      BY <1>1, <2>1, <3>1, <3>3, <3>4 DEF Reading, AtStart
    <3>6. ctx'[g'].busy /\ req'.rw = "r"
      BY <1>1, <3>1
    <3>7. Writing' /\ Told'
      BY <3>6 DEF Writing, Told
    <3> QED
      BY <1>3, <3>2, <3>5, <3>7
  <2> QED
    BY <2>2, <2>3
<1> QED
  BY <1>5, <1>6, <1>7, <1>8, <1>9, <1>10 DEF Hw

(* TWI_vect.                                                                *)

(* The transaction has ended with what is told of it.                       *)
LEMMA EndReports ==
    ASSUME IInv, Reports, g \in Ctx, ctx[g].busy, Aside,
           NEW c \in Context, c.addr = ctx[g].addr, c.rw = ctx[g].rw, Stop(c) \/ StopRs(c),
           req.rw = "w" /\ req.len > 0 => (c.err = 0 <=> Len(wire) = req.len),
           req.rw = "r" => /\ buf' = wire \/ (c.err = 1 /\ LostLast /\ buf' = buf)
                           /\ c.err = 4 => wire = <<>>
                           /\ Len(buf') = req.len <=> c.err \notin {1, 4}
    PROVE  Reports'
<1>1. g # NULL /\ UNCHANGED <<g, wire, req>>
  BY NullAssumption DEF Aside, program
<1>2. PICK rs \in BOOLEAN : ctx' = [ctx EXCEPT ![g] = [c EXCEPT !.rs = rs, !.busy = FALSE]]
  <2>1. CASE Stop(c)
    <3>1. [c EXCEPT !.rs = c.rs, !.busy = FALSE] = [c EXCEPT !.busy = FALSE] /\ c.rs \in BOOLEAN
      BY DEF Context
    <3> QED
      BY <2>1, <3>1 DEF Stop
  <2>2. CASE ~Stop(c)
    BY <2>2 DEF StopRs
  <2> QED
    BY <2>1, <2>2
<1> DEFINE r == [c EXCEPT !.rs = rs, !.busy = FALSE]
<1>3. r.busy = FALSE /\ r.addr = c.addr /\ r.rw = c.rw /\ r.err = c.err
  BY DEF Context
<1> HIDE DEF r
<1>4. ctx'[g'] = r
  BY <1>1, <1>2 DEF r, IInv, TypeOK
<1> QED
  BY <1>1, <1>3, <1>4 DEF Reports, Writing, Reading, Told, LostLast, Recorded, InOrder

(* The transaction goes on: the context keeps what it has in common with    *)
(* the call.                                                                *)
LEMMA GoOnReports ==
    ASSUME IInv, Reports, g \in Ctx, ctx[g].busy, Aside, NEW l \in 0 .. LenMod - 1, NEW x \in Nat,
           ctx' = [ctx EXCEPT ![g] = [ctx[g] EXCEPT !.len = l, !.xdata = x]],
           Ack \/ \E more \in BOOLEAN : Nack(more)
    PROVE  /\ Told' /\ Recorded' /\ InOrder'
           /\ ctx'[g'].len = l /\ ctx'[g'].xdata = x /\ ctx'[g'].busy
           /\ UNCHANGED <<g, wire, req, twsr>> /\ twint' = FALSE /\ phase' = Continue
<1>1. UNCHANGED <<g, wire, req, twsr>>
  BY DEF Aside, program
<1>2. ctx[g] \in Context
  BY DEF IInv, TypeOK
<1> DEFINE r == [ctx[g] EXCEPT !.len = l, !.xdata = x]
<1>3. r.len = l /\ r.xdata = x /\ r.busy = ctx[g].busy
  BY <1>2 DEF Context
<1>4. r.addr = ctx[g].addr /\ r.rw = ctx[g].rw /\ r.err = ctx[g].err
  BY <1>2 DEF Context
<1> HIDE DEF r
<1>5. ctx'[g'] = r
  BY <1>1 DEF r, IInv, TypeOK
<1>6. twint' = FALSE /\ phase' = Continue
  BY DEF Ack, Nack, WriteTWCR
<1> QED
  BY <1>1, <1>3, <1>4, <1>5, <1>6 DEF Reports, Told, Recorded, InOrder

LEMMA Minus1Value == \A l \in 0 .. LenMod - 1 : l # 0 => Minus1(l) = l - 1
<1> SUFFICES ASSUME NEW l \in 0 .. LenMod - 1, l # 0 PROVE Minus1(l) = l - 1
  OBVIOUS
<1>1. l + LenMod - 1 = LenMod + (l - 1) /\ l - 1 \in 0 .. LenMod - 1
  BY LenAssumption
<1>2. (LenMod + (l - 1)) % LenMod = l - 1
  BY <1>1, LenAssumption
<1> QED
  BY <1>1, <1>2 DEF Minus1

(* The byte that came last is stored behind those that came before.         *)
LEMMA StoredLast ==
    ASSUME wire = Append(buf, twdr.value), buf \in Seq(Nat), twdr.value \in Nat
    PROVE  Stored(Len(wire)) = wire /\ Len(wire) = Len(buf) + 1
<1>1. Len(wire) = Len(buf) + 1 /\ Len(buf) \in Nat
  BY AppendProperties
<1> QED
  BY <1>1 DEF Stored

(* What a status that is stored in a context leaves alone.                  *)
LEMMA ErrStored ==
    ASSUME NEW c \in Context, NEW e \in Errors
    PROVE  /\ [c EXCEPT !.err = e] \in Context /\ [c EXCEPT !.err = e].err = e
           /\ [c EXCEPT !.err = e].addr = c.addr /\ [c EXCEPT !.err = e].rw = c.rw
<1>1. [c EXCEPT !.err = e] \in Context /\ [c EXCEPT !.err = e].err = e
  BY DEF Context
<1>2. [c EXCEPT !.err = e].addr = c.addr /\ [c EXCEPT !.err = e].rw = c.rw
  BY DEF Context
<1> QED
  BY <1>1, <1>2

LEMMA VectorReports == IInv /\ Reports /\ TWI_vect => Reports'
<1> SUFFICES ASSUME IInv, Reports, TWI_vect PROVE Reports'
  OBVIOUS
<1>1. twint /\ ie /\ Aside
  BY DEF TWI_vect, Aside
<1>2. g \in Ctx /\ g # NULL /\ ctx[g].busy /\ phase = "none"
  BY <1>1 DEF IInv, TypeOK, NotUsed, Ended, UnderWay
<1>3. /\ ctx[g] \in Context /\ ctx[g].len \in 0 .. LenMod - 1 /\ ctx[g].xdata \in Nat
      /\ wire \in Seq(Nat) /\ buf \in Seq(Nat) /\ Len(wire) \in Nat /\ Len(buf) \in Nat
      /\ req.len \in Nat /\ req.rw \in {"w", "r"} /\ ctx[g].err = 0 /\ ctx[g].rw = req.rw
      /\ LenMod \in Nat
  BY <1>2, ReportTypes, LenAssumption DEF Reports, Recorded
<1>4. CASE IsrStart
  <2>1. /\ twsr \in {"START", "REP_START"} /\ Ack /\ ctx' = ctx /\ buf' = buf
    BY <1>4 DEF IsrStart
  <2>2. /\ Told' /\ Recorded' /\ InOrder'
        /\ UNCHANGED <<g, wire, req, twsr>> /\ twint' = FALSE /\ phase' = Continue
    BY <1>1, <1>2, <1>3, <2>1, SameContext, GoOnReports DEF IInv
  <2>3. phase' = "addr"
    BY <2>1, <2>2 DEF Continue
  <2> QED
    BY <1>1, <1>2, <1>3, <2>1, <2>2, <2>3 DEF Reports, Writing, Reading, AtStart
<1>5. CASE IsrTransmit
  <2>1. twsr \in {"MT_SLA_ACK", "MT_DATA_ACK"} /\ buf' = buf /\ req.rw = "w"
    BY <1>1, <1>2, <1>3, <1>5 DEF IsrTransmit, Reports, Reading
  <2>2. ctx[g].xdata = Len(wire) + 1 /\ ctx[g].len = req.len - Len(wire)
    BY <1>1, <1>2, <1>3, <2>1 DEF Reports, Writing, AtStart
  <2> DEFINE l == Minus1(ctx[g].len)
             c == [ctx[g] EXCEPT !.len = l]
  <2>3. l \in 0 .. LenMod - 1 /\ (ctx[g].len # 0 => l = ctx[g].len - 1)
    BY <1>3, Minus1Type, Minus1Value
  <2>4. CASE ctx[g].len # 0
    <3>1. /\ Ack /\ twdr' = [kind |-> "data", value |-> c.xdata]
          /\ ctx' = [ctx EXCEPT ![g] = [c EXCEPT !.xdata = @ + 1]]
      BY <1>5, <2>4 DEF IsrTransmit
    <3>2. /\ c.xdata = ctx[g].xdata
          /\ [c EXCEPT !.xdata = @ + 1] = [ctx[g] EXCEPT !.len = l, !.xdata = ctx[g].xdata + 1]
      BY <1>3 DEF Context
    <3> HIDE DEF c, l
    <3> DEFINE x == ctx[g].xdata + 1
    <3>3. /\ ctx' = [ctx EXCEPT ![g] = [ctx[g] EXCEPT !.len = l, !.xdata = x]] /\ x \in Nat
      <4>1. x \in Nat
        BY <1>3
      <4> QED
        BY <3>1, <3>2, <4>1
    <3>4. x = Len(wire) + 2 /\ l = req.len - Len(wire) - 1 /\ twdr'.value = Len(wire) + 1
      BY <1>3, <2>2, <2>3, <2>4, <3>1, <3>2
    <3> HIDE DEF x
    <3>5. /\ Told' /\ Recorded' /\ InOrder' /\ ctx'[g'].len = l /\ ctx'[g'].xdata = x
          /\ UNCHANGED <<g, wire, req, twsr>> /\ twint' = FALSE /\ phase' = Continue
      BY <1>1, <1>2, <2>3, <3>1, <3>3, GoOnReports
    <3>6. phase' = "tx"
      BY <2>1, <3>5 DEF Continue
    <3> QED
      BY <1>1, <1>2, <1>3, <2>1, <3>4, <3>5, <3>6 DEF Reports, Writing, Reading, AtStart
  <2>5. CASE ctx[g].len = 0
    <3>1. StopRs(c)
      BY <1>5, <2>5 DEF IsrTransmit
    <3>2. c \in Context /\ c.addr = ctx[g].addr /\ c.rw = ctx[g].rw /\ c.err = 0
      BY <1>3, <2>3 DEF Context
    <3>3. Len(wire) = req.len
      BY <1>3, <2>2, <2>5
    <3> HIDE DEF c, l
    <3> QED
      BY <1>1, <1>2, <2>1, <3>1, <3>2, <3>3, EndReports
  <2> QED
    BY <2>4, <2>5
<1>6. CASE IsrTransmitNack
  <2>1. PICK e \in {2, 3} : /\ StopRs([ctx[g] EXCEPT !.err = e]) /\ buf' = buf
                            /\ twsr = IF e = 2 THEN "MT_SLA_NACK" ELSE "MT_DATA_NACK"
    BY <1>6 DEF IsrTransmitNack
  <2>2. req.rw = "w"
    BY <1>1, <1>2, <1>3, <2>1 DEF Reports, Reading
  <2>3. req.len > 0 => Len(wire) # req.len
    <3>1. CASE e = 2
      <4>1. AtStart({"MT_SLA_ACK", "MT_SLA_NACK"})
        BY <1>1, <1>2, <1>3, <2>1, <3>1 DEF AtStart
      <4> QED
        BY <1>1, <1>2, <1>3, <2>2, <4>1 DEF Reports, Writing
    <3>2. CASE e = 3
      BY <1>1, <1>2, <1>3, <2>1, <2>2, <3>2 DEF Reports, Writing
    <3> QED
      BY <3>1, <3>2
  <2> DEFINE c == [ctx[g] EXCEPT !.err = e]
  <2>4. c \in Context /\ c.addr = ctx[g].addr /\ c.rw = ctx[g].rw /\ c.err # 0
    <3>1. e \in Errors /\ e # 0
      BY DEF Errors
    <3> QED
      BY <1>3, <3>1, ErrStored
  <2>5. StopRs(c)
    BY <2>1
  <2> HIDE DEF c
  <2> QED
    BY <1>1, <1>2, <2>2, <2>3, <2>4, <2>5, EndReports
<1>7. CASE IsrArbLost
  <2> DEFINE c == [ctx[g] EXCEPT !.err = 1]
  <2>1. twsr = "ARB_LOST" /\ Stop(c) /\ buf' = buf
    BY <1>7 DEF IsrArbLost
  <2>2. c \in Context /\ c.addr = ctx[g].addr /\ c.rw = ctx[g].rw /\ c.err = 1
    <3>1. 1 \in Errors
      BY DEF Errors
    <3> QED
      BY <1>3, <3>1, ErrStored
  <2>3. req.rw = "w" /\ req.len > 0 => Len(wire) # req.len
    BY <1>1, <1>2, <1>3, <2>1 DEF Reports, Writing
  <2>4. req.rw = "r" => (buf = wire \/ LostLast) /\ Len(buf) # req.len
    <3>1. ASSUME req.rw = "r" PROVE (LostLast \/ (wire = <<>> /\ buf = <<>>)) /\ req.len # 0
      BY <1>1, <1>2, <2>1, <3>1 DEF Reports, Reading
    <3>2. ASSUME LostLast PROVE Len(buf) # req.len
      <4>1. Len(Append(buf, Len(wire))) = Len(buf) + 1
        BY <1>3, AppendProperties
      <4> QED
        BY <1>3, <3>2, <4>1 DEF LostLast
    <3> QED
      BY <1>3, <3>1, <3>2
  <2> HIDE DEF c
  <2> QED
    BY <1>1, <1>2, <2>1, <2>2, <2>3, <2>4, EndReports
<1>8. CASE IsrReceive
  <2>1. twsr \in {"MR_SLA_ACK", "MR_DATA_ACK"} /\ req.rw = "r"
    BY <1>1, <1>2, <1>3, <1>8 DEF IsrReceive, Reports, Writing
  <2> DEFINE x == IF twsr = "MR_DATA_ACK" THEN ctx[g].xdata + 1 ELSE ctx[g].xdata
             l == Minus1(ctx[g].len)
  <2>2. l \in 0 .. LenMod - 1 /\ x \in Nat /\ (ctx[g].len # 0 => l = ctx[g].len - 1)
    BY <1>3, Minus1Type, Minus1Value
  <2>3. /\ Nack(More(l)) /\ More(l) \in BOOLEAN
        /\ buf' = IF twsr = "MR_DATA_ACK" THEN Stored(ctx[g].xdata) ELSE buf
    BY <1>8 DEF IsrReceive, More
  <2>4. ctx' = [ctx EXCEPT ![g].xdata = x, ![g].len = l]
    BY <1>8 DEF IsrReceive
  <2>5. buf' = wire /\ x = Len(wire) + 1 /\ l = req.len - Len(wire) - 1
    <3>1. CASE twsr = "MR_SLA_ACK"
      <4>1. /\ ctx[g].xdata = 1 /\ ctx[g].len = req.len /\ wire = <<>> /\ buf = <<>>
            /\ req.len # 0
        BY <1>1, <1>2, <2>1, <3>1 DEF Reports, Reading, AtStart
      <4> QED
        BY <1>3, <2>2, <2>3, <3>1, <4>1
    <3>2. CASE twsr = "MR_DATA_ACK"
      <4>1. /\ ctx[g].xdata = Len(wire) /\ ctx[g].len = req.len - Len(wire)
            /\ wire = Append(buf, twdr.value) /\ ctx[g].len # 0
        BY <1>1, <1>2, <2>1, <3>2 DEF Reports, Reading
      <4>2. twdr.value \in Nat
        BY <1>1, <1>2, <3>2 DEF IInv, UnderWay
      <4>3. Stored(Len(wire)) = wire
        BY <1>3, <4>1, <4>2, StoredLast
      <4> QED
        BY <1>3, <2>2, <2>3, <3>2, <4>1, <4>3
    <3> QED
      BY <2>1, <3>1, <3>2
  <2> HIDE DEF x, l
  <2>6. ctx' = [ctx EXCEPT ![g] = [ctx[g] EXCEPT !.len = l, !.xdata = x]]
    <3>1. [[ctx[g] EXCEPT !.xdata = x] EXCEPT !.len = l] = [ctx[g] EXCEPT !.len = l, !.xdata = x]
      BY <1>3 DEF Context
    <3>2. ctx' = [ctx EXCEPT ![g] = [[ctx[g] EXCEPT !.xdata = x] EXCEPT !.len = l]]
      BY <1>2, <2>4 DEF IInv, TypeOK
    <3> QED
      BY <3>1, <3>2
  <2>7. /\ Told' /\ Recorded' /\ InOrder' /\ ctx'[g'].len = l /\ ctx'[g'].xdata = x
        /\ UNCHANGED <<g, wire, req, twsr>> /\ twint' = FALSE /\ phase' = Continue
    BY <1>1, <1>2, <2>2, <2>3, <2>6, GoOnReports
  <2>8. phase' = "rx" /\ (ea' <=> l # 0)
    BY <2>1, <2>3, <2>7 DEF Continue, Nack, WriteTWCR, More
  <2>9. req.len # 0
    BY <1>2, <2>1 DEF Reports, Reading
  <2> QED
    BY <1>1, <1>2, <1>3, <2>1, <2>5, <2>7, <2>8, <2>9 DEF Writing, Reading, AtStart, Reports
<1>9. CASE IsrReceiveEnd
  <2>1. PICK e \in {4, 5} : /\ StopRs([ctx[g] EXCEPT !.err = e])
                            /\ twsr = IF e = 4 THEN "MR_SLA_NACK" ELSE "MR_DATA_NACK"
                            /\ buf' = IF e = 4 THEN buf ELSE Stored(ctx[g].xdata)
    BY <1>9 DEF IsrReceiveEnd
  <2>2. req.rw = "r"
    BY <1>1, <1>2, <1>3, <2>1 DEF Reports, Writing
  <2>3. CASE e = 4
    <3>1. wire = <<>> /\ buf = <<>> /\ req.len # 0 /\ Len(buf) = 0
      BY <1>1, <1>2, <2>1, <2>2, <2>3 DEF Reports, Reading, AtStart
    <3> DEFINE c == [ctx[g] EXCEPT !.err = 4]
    <3>2. c \in Context /\ c.addr = ctx[g].addr /\ c.rw = ctx[g].rw /\ c.err = 4
      <4>1. 4 \in Errors
        BY DEF Errors
      <4> QED
        BY <1>3, <4>1, ErrStored
    <3>3. StopRs(c)
      BY <2>1, <2>3
    <3> HIDE DEF c
    <3> QED
      BY <1>1, <1>2, <2>1, <2>2, <2>3, <3>1, <3>2, <3>3, EndReports
  <2>4. CASE e = 5
    <3>1. /\ ctx[g].xdata = Len(wire) /\ ctx[g].len = req.len - Len(wire)
          /\ wire = Append(buf, twdr.value) /\ ctx[g].len = 0
      BY <1>1, <1>2, <2>1, <2>2, <2>4 DEF Reports, Reading
    <3>2. twdr.value \in Nat
      BY <1>1, <1>2, <2>1, <2>4 DEF IInv, UnderWay
    <3>3. buf' = wire /\ Len(wire) = req.len
      BY <1>3, <2>1, <2>4, <3>1, <3>2, StoredLast
    <3> DEFINE c == [ctx[g] EXCEPT !.err = 5]
    <3>4. c \in Context /\ c.addr = ctx[g].addr /\ c.rw = ctx[g].rw /\ c.err = 5
      <4>1. 5 \in Errors
        BY DEF Errors
      <4> QED
        BY <1>3, <4>1, ErrStored
    <3>5. StopRs(c)
      BY <2>1, <2>4
    <3> HIDE DEF c
    <3> QED
      BY <1>1, <1>2, <2>2, <3>3, <3>4, <3>5, EndReports
  <2> QED
    BY <2>3, <2>4
<1>10. CASE IsrOther
  <2>1. /\ twsr \in {"BUS_ERROR", "SR_SLA_ACK", "none"} /\ Ack /\ ctx' = ctx /\ buf' = buf
    BY <1>2, <1>10 DEF IsrOther
  <2>2. /\ Told' /\ Recorded' /\ InOrder'
        /\ UNCHANGED <<g, wire, req, twsr>> /\ twint' = FALSE /\ phase' = Continue
    BY <1>1, <1>2, <1>3, <2>1, SameContext, GoOnReports DEF IInv
  <2>3. phase' = "none"
    BY <2>1, <2>2 DEF Continue
  <2> QED
    BY <1>1, <1>2, <1>3, <2>1, <2>2, <2>3 DEF Reports, Writing, Reading, AtStart
<1> QED
  BY <1>4, <1>5, <1>6, <1>7, <1>8, <1>9, <1>10 DEF TWI_vect

(* The program.                                                             *)

(* A transaction that starts has nothing on the wire yet; a read asks for   *)
(* at least a byte.                                                         *)
LEMMA MxReports ==
    ASSUME IInv, pc \in {"idle", "scan"}, NEW c \in Ctx, g = NULL \/ g = c \/ ~ctx[g].rs,
           NEW rw \in {"w", "r"}, NEW a \in Addr, NEW l \in 0 .. LenMod - 1, NEW s \in BOOLEAN,
           Mx(c, rw, a, l, s), rw = "r" => l # 0
    PROVE  Reports'
<1>1. /\ ctx'[g'].addr = a /\ ctx'[g'].rw = rw /\ ctx'[g'].busy
      /\ ctx'[g'].xdata = 1 /\ ctx'[g'].len = l /\ ctx'[g'].err = 0
      /\ phase' \in {"start", "stop_start", "none"} /\ (twint' => twsr' \in {"START", "REP_START"})
  BY MxStarts
<1>2. req' = [ctx |-> c, rw |-> rw, len |-> l, addr |-> a] /\ wire' = <<>> /\ buf' = <<>>
  BY DEF Mx
<1>3. /\ req'.rw = rw /\ req'.len = l /\ req'.addr = a /\ Len(wire') = 0
  BY <1>2
<1>4. Recorded' /\ InOrder' /\ Told'
  BY <1>1, <1>3 DEF Recorded, InOrder, Told
<1>5. Writing'
  BY <1>1, <1>3 DEF Writing
<1>6. Reading'
  BY <1>1, <1>2, <1>3 DEF Reading
<1> QED
  BY <1>4, <1>5, <1>6 DEF Reports

(* A step that leaves the bus, the contexts and the call alone.             *)
LEMMA ReportsLeftAlone ==
    ASSUME Reports, UNCHANGED <<hw, ctx, g, wire, buf>>,
           req'.rw = req.rw, req'.len = req.len, req'.addr = req.addr
    PROVE  Reports'
BY DEF hw, Reports, Writing, Reading, AtStart, Told, LostLast, Recorded, InOrder

LEMMA ProgramReports ==
    ASSUME Disciplined, 0 \notin Lens, IInv, Reports, Program PROVE Reports'
<1>1. ASSUME NEW c \in Ctx, NEW f \in Freq, twi_minit(c, f) PROVE Reports'
  <2>1. g = NULL /\ g' = g /\ UNCHANGED wire
    BY <1>1 DEF twi_minit
  <2> QED
    BY <2>1 DEF Reports, Writing, Reading, Told, Recorded, InOrder
<1>2. CASE Transact
  <2>1. PICK c \in Usable, rw \in {"w", "r"}, a \in Addr, l \in Lens, s \in StopFlags :
            Mx(c, rw, a, l, s)
    BY <1>2 DEF Transact
  <2>2. /\ c \in Ctx /\ (g = NULL \/ g = c \/ ~ctx[g].rs) /\ l \in 0 .. LenMod - 1 /\ s \in BOOLEAN
        /\ pc = "idle" /\ l # 0
    BY <1>2, UsableFree, LenAssumption, FlagAssumption DEF Transact, Call
  <2> QED
    BY <2>1, <2>2, MxReports
<1>3. CASE Scan /\ dev <= ScanLast
  <2>1. Mx(req.ctx, "w", dev, 0, TRUE) /\ pc = "scan"
    BY <1>3 DEF Scan
  <2>2. dev \in ScanFirst..ScanLast
    BY <1>3, <2>1, AddrAssumption DEF IInv, TypeOK, FoundSoFar
  <2>3. req.ctx \in Ctx /\ (g = NULL \/ g = req.ctx \/ ~ctx[g].rs) /\ 0 \in 0 .. LenMod - 1
    BY <2>1, LenAssumption DEF IInv, TypeOK, InSync
  <2> QED
    BY <2>1, <2>2, <2>3, AddrAssumption, MxReports
<1>4. CASE Scan /\ ~(dev <= ScanLast)
  BY <1>4, ReportsLeftAlone DEF Scan
<1>5. CASE twi_sync \/ ScanCheck
  BY <1>5, ReportsLeftAlone DEF twi_sync, ScanCheck
<1>6. CASE twi_search_devices
  <2>1. PICK c : req' = [req EXCEPT !.ctx = c]
    BY <1>6 DEF twi_search_devices
  <2>2. req'.rw = req.rw /\ req'.len = req.len /\ req'.addr = req.addr
    BY <2>1 DEF IInv, TypeOK
  <2> QED
    BY <1>6, <2>2, ReportsLeftAlone DEF twi_search_devices
<1> QED
  BY <1>1, <1>2, <1>3, <1>4, <1>5, <1>6 DEF Program

LEMMA ReportsInvariant ==
    ASSUME Disciplined, \A r \in Garbage : r = FALSE, 0 \notin Lens
    PROVE  Spec => [](IInv /\ Reports)
<1>1. Init => IInv /\ Reports
  BY InitInvariant, InitReports
<1>2. IInv /\ Reports /\ [Next]_vars => (IInv /\ Reports)'
  <2> SUFFICES ASSUME IInv, Reports, [Next]_vars PROVE Reports'
    BY NextKeepsInvariant
  <2>1. CASE UNCHANGED vars
    BY <2>1, ReportsLeftAlone DEF vars, program
  <2> QED
    BY <2>1, HwReports, VectorReports, ProgramReports DEF Next
<1> QED
  BY <1>1, <1>2, PTL DEF Spec

-----------------------------------------------------------------------------
(* The theorems.  They are about programs that clear a context before they  *)
(* initialise it and that go on with it after a repeated START.             *)

(* The variables keep their types.                                          *)
THEOREM TypeSafe ==
    ASSUME Disciplined, \A r \in Garbage : r = FALSE PROVE Spec => []TypeOK
<1>1. IInv => TypeOK
  BY DEF IInv
<1> QED
  BY <1>1, Invariant, PTL

(* Between transactions the bus is held only for a repeated START that the  *)
(* context knows of, and no interrupt is waiting, whatever went wrong.      *)
THEOREM HeldSafe ==
    ASSUME Disciplined, \A r \in Garbage : r = FALSE PROVE Spec => []HeldOnPurpose
<1>1. IInv => HeldOnPurpose
  <2> SUFFICES ASSUME IInv, Done PROVE HeldOnPurpose
    BY DEF HeldOnPurpose
  <2>1. g # NULL /\ g \in Ctx /\ ~ctx[g].busy
    BY DEF Done, IInv, InSync, TypeOK
  <2>2. CASE ctx[g].rs
    BY <2>1, <2>2 DEF IInv, Ended, HeldOnPurpose
  <2>3. CASE ~ctx[g].rs
    BY <2>1, <2>3 DEF IInv, Ended, HeldOnPurpose
  <2> QED
    BY <2>2, <2>3
<1> QED
  BY <1>1, Invariant, PTL

(* A search reports only devices that are on the bus, with any range of     *)
(* addresses, devices and faults.                                           *)
THEOREM SearchSafe ==
    ASSUME Disciplined, \A r \in Garbage : r = FALSE PROVE Spec => []FindsOnlyPresent
<1>1. IInv => FindsOnlyPresent
  BY DEF IInv, FoundSoFar, FindsOnlyPresent
<1> QED
  BY <1>1, Invariant, PTL

(* No read ends on a byte that was acknowledged, however many were asked    *)
(* for.                                                                     *)
THEOREM ReadsSafe ==
    ASSUME Disciplined, \A r \in Garbage : r = FALSE PROVE Spec => LastByteNacked
<1>1. IInv /\ Next => (phase' \in {"stop", "start"} /\ phase' # phase => twsr # "MR_DATA_ACK")
  <2> SUFFICES ASSUME IInv, Next, twsr = "MR_DATA_ACK"
               PROVE  ~(phase' \in {"stop", "start"} /\ phase' # phase)
    OBVIOUS
  <2>1. g # NULL /\ ctx[g].busy /\ phase \in {"none", "rx"}
    BY DEF IInv, ReadGoesOn
  <2>2. CASE Hw
    BY <2>1, <2>2 DEF Hw, HwStart, HwAddr, HwTx, HwRx, ByteComes, HwStop, HwFault, Report
  <2>3. CASE TWI_vect
    BY <2>1, <2>3 DEF TWI_vect, IsrStart, IsrTransmit, IsrTransmitNack, IsrArbLost, IsrReceive,
       IsrReceiveEnd, IsrOther, Ack, Nack, WriteTWCR, Continue
  <2>4. CASE \E c \in Ctx, f \in Freq : twi_minit(c, f)
    BY <2>1, <2>4 DEF twi_minit
  <2>5. CASE Transact \/ Scan
    <3>1. pc \in {"idle", "scan"}
      BY <2>5 DEF Transact, Call, Scan
    <3> QED
      BY <2>1, <3>1 DEF IInv, InSync
  <2>6. CASE ScanCheck \/ twi_sync \/ twi_search_devices
    BY <2>6 DEF ScanCheck, twi_sync, twi_search_devices, hw
  <2> QED
    BY <2>2, <2>3, <2>4, <2>5, <2>6 DEF Next, Program
<1>2. IInv /\ [Next]_vars
      => [phase' \in {"stop", "start"} /\ phase' # phase => twsr # "MR_DATA_ACK"]_vars
  BY <1>1
<1> QED
  BY <1>2, Invariant, PTL DEF Spec, LastByteNacked

(* A sequence that counts up from 1.                                        *)
LEMMA CountsUp == ASSUME NEW s \in Seq(Nat), \A i \in 1..Len(s) : s[i] = i PROVE Numbered(s)
<1> DEFINE n == [i \in 1..Len(s) |-> i]
<1>1. Len(s) \in Nat
  OBVIOUS
<1>2. n \in Seq(Nat) /\ Len(n) = Len(s) /\ \A i \in 1..Len(s) : n[i] = i
  BY <1>1
<1> HIDE DEF n
<1>3. s = n
  BY <1>1, <1>2, SeqEqual
<1> QED
  BY <1>3 DEF Numbered, n

(* When twi_sync returns, the data are where twi_status says.  A write sent *)
(* its bytes from the first on, and all of them exactly when no error is    *)
(* reported.  A read stored what the device sent from the first byte on,    *)
(* all of it exactly when neither lost arbitration nor a denied address is  *)
(* reported, and without the last byte where another master won in the bit  *)
(* that denies it.  (That a good read reports 5, a bus error by             *)
(* twi_common.h, is not part of it: ReadReportsNoError is violated.  A read *)
(* of 0 bytes, which the code takes for one of LenMod, is not one of the    *)
(* calls.)                                                                  *)
THEOREM ReportsSafe ==
    ASSUME Disciplined, \A r \in Garbage : r = FALSE, 0 \notin Lens
    PROVE  Spec => []ReportedAsHappened
<1>1. IInv /\ Reports => ReportedAsHappened
  <2> SUFFICES ASSUME IInv, Reports, Done PROVE ReportedAsHappened
    BY DEF ReportedAsHappened, WriteAsReported, ReadIsWhole
  <2>1. /\ g # NULL /\ ~ctx[g].busy /\ wire \in Seq(Nat) /\ buf \in Seq(Nat)
        /\ Len(wire) \in Nat /\ Len(buf) \in Nat
    BY ReportTypes DEF Done, IInv, InSync
  <2>2. Numbered(wire)
    BY <2>1, CountsUp DEF Reports, InOrder
  <2>3. req.rw = "w" /\ ctx[g].err = 0 => req.addr \in Present
    BY <2>1 DEF IInv, Ended, Reports, Recorded
  <2>4. WriteAsReported
    BY <2>1, <2>2, <2>3 DEF WriteAsReported, Reports, Told
  <2>5. ASSUME buf = wire, req.rw = "r" PROVE ReadIsWhole
    <3>1. /\ ctx[g].err = 4 => wire = <<>>
          /\ Len(buf) = req.len <=> ctx[g].err \notin {1, 4}
      BY <2>1, <2>5 DEF Reports, Told
    <3>2. Len(wire) - Len(buf) \in {0, 1}
      BY <2>1, <2>5
    <3>3. Numbered(buf)
      BY <2>2, <2>5
    <3> QED
      BY <2>2, <2>5, <3>1, <3>2, <3>3 DEF ReadIsWhole
  <2>6. ASSUME buf # wire, req.rw = "r" PROVE ReadIsWhole
    <3>1. ctx[g].err = 1 /\ LostLast
      BY <2>1, <2>6 DEF Reports, Told
    <3>2. /\ Len(wire) = Len(buf) + 1
          /\ \A i \in 1..Len(buf) : Append(buf, Len(wire))[i] = buf[i]
      BY <2>1, <3>1, AppendProperties DEF LostLast
    <3>3. \A i \in 1..Len(buf) : buf[i] = i
      BY <2>1, <3>1, <3>2 DEF LostLast, Reports, InOrder
    <3>4. Numbered(buf)
      BY <2>1, <3>3, CountsUp
    <3>5. Len(wire) - Len(buf) \in {0, 1} /\ Len(buf) # req.len
      BY <2>1, <3>1, <3>2 DEF LostLast
    <3> QED
      BY <2>2, <3>1, <3>4, <3>5 DEF ReadIsWhole
  <2>7. ASSUME req.rw # "r" PROVE ReadIsWhole
    BY <2>7 DEF ReadIsWhole
  <2>8. ReadIsWhole
    BY <2>5, <2>6, <2>7
  <2> QED
    BY <2>4, <2>8 DEF ReportedAsHappened
<1> QED
  BY <1>1, ReportsInvariant, PTL
=============================================================================
