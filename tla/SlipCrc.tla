------------------------------ MODULE SlipCrc -------------------------------
(***************************************************************************)
(* The checksum of a SLIP packet: slip_append_crc16, slip_prepend_crc16    *)
(* and slip_verify_crc16 (slip.c), with _crc16_update of avr-libc.         *)
(*                                                                         *)
(* One behaviour inserts the checksum into a buffer, may damage one byte   *)
(* on the way, and verifies it.  Bytes and words are sets of bit numbers,  *)
(* 0 being the lowest: xor is the difference of sets, and the number 0 the *)
(* empty set.  Loops keep the widths of the code.                          *)
(***************************************************************************)
EXTENDS Integers

CONSTANTS CharSize,  \* 256: lengths, counters and positions are uint8_t
          DataLens,  \* values of a_datalen
          Fill,      \* the values of the data bytes that vary
          Varying,   \* how many of the first bytes vary (bound); the others are 0
          Places,    \* values of a_ap: TRUE is slip_append_crc16
          Damage     \* the values a byte may be damaged to

ASSUME LensAssumption == /\ CharSize \in Nat \ {0, 1} /\ Varying \in Nat
                         /\ DataLens \subseteq 1 .. CharSize - 1
ASSUME FillAssumption == Fill \cup Damage \subseteq SUBSET (0..7)
ASSUME PlacesAssumption == Places \subseteq BOOLEAN

VARIABLES a_buff,
          datalen, ap,
          step, idx, crc, \* the step, i or the bytes handled, and crc_calcd
          buflen,   \* what the insertion returned
          recv,     \* crc_recv
          damaged,
          verdict   \* what slip_verify_crc16 returned

crcVars == <<a_buff, datalen, ap, step, idx, crc, buflen, recv, damaged, verdict>>

Octet == SUBSET (0..7)
Word == SUBSET (0..15)
Low(w) == w \cap 0..7
High(w) == {i - 8 : i \in w \ (0..7)}
Xor(a, b) == (a \ b) \cup (b \ a)

(* _crc16_update: eight shifts to the right, each with the polynomial       *)
(* 0xA001 when a bit falls out.                                             *)
Halved(c) == {i - 1 : i \in c \ {0}}
Shift(c) == IF 0 \in c THEN Xor(Halved(c), {0, 13, 15}) ELSE Halved(c)
Crc16Update(c, b) == Shift(Shift(Shift(Shift(Shift(Shift(Shift(Shift(Xor(c, b)))))))))

CrcPos == IF ap THEN datalen ELSE 0
CrcOffs == IF ap THEN 2 ELSE 0

(* The 16 bit word at position p of the buffer (from 0), low byte first. *)
WordAt(p) == a_buff[p + 1] \cup {i + 8 : i \in a_buff[p + 2]}

(* fault: the low byte keeps the whole word *)
WithWordWide(p, w) == [a_buff EXCEPT ![p + 1] = w, ![p + 2] = High(w)]

WithWord(p, w) == [a_buff EXCEPT ![p + 1] = Low(w), ![p + 2] = High(w)]

CrcInit == /\ datalen \in DataLens
           /\ ap \in Places
           /\ ap \/ datalen >= 2
           /\ \E d \in [1 .. (IF Varying < datalen THEN Varying ELSE datalen) -> Fill] :
                  a_buff = [j \in 1 .. datalen + 2 |-> IF j \in DOMAIN d THEN d[j] ELSE {}]
           /\ step = "insert"
           /\ idx = 0 /\ crc = {} /\ buflen = 0 /\ recv = {} /\ damaged = FALSE /\ verdict = {}

Inc(x) == (x + 1) % CharSize

(* _slip_insert_crc16: the placeholder is zeroed before the loop starts.    *)
Byte(j) == IF j \in {CrcPos, CrcPos + 1} THEN {} ELSE a_buff[j + 1]

(* fault: the word is stored high byte first *)
InsertSwapped ==
    /\ step = "insert"
    /\ IF idx < datalen + CrcOffs
       THEN /\ crc' = Crc16Update(crc, Byte(idx))
            /\ idx' = Inc(idx)
            /\ UNCHANGED <<a_buff, buflen, step>>
       ELSE /\ a_buff' = WithWord(CrcPos, High(crc) \cup {i + 8 : i \in Low(crc)})
            /\ buflen' = (datalen + CrcOffs) % CharSize
            /\ step' = "sent"
            /\ idx' = 0 /\ crc' = {}
    /\ UNCHANGED <<datalen, ap, recv, damaged, verdict>>

(* i is a uint8_t, the limit an int; the return value is a uint8_t. *)
Insert == /\ step = "insert"
          /\ IF idx < datalen + CrcOffs
             THEN /\ crc' = Crc16Update(crc, Byte(idx))
                  /\ idx' = Inc(idx)
                  /\ UNCHANGED <<a_buff, buflen, step>>
             ELSE /\ a_buff' = WithWord(CrcPos, crc)
                  /\ buflen' = (datalen + CrcOffs) % CharSize
                  /\ step' = "sent"
                  /\ idx' = 0 /\ crc' = {}
          /\ UNCHANGED <<datalen, ap, recv, damaged, verdict>>

(* The line changes a byte. *)
Corrupt == /\ step = "sent" /\ ~damaged
           /\ \E j \in 1..buflen, b \in Damage :
                  b # a_buff[j] /\ a_buff' = [a_buff EXCEPT ![j] = b]
           /\ damaged' = TRUE
           /\ UNCHANGED <<datalen, ap, step, idx, crc, buflen, recv, verdict>>

(* slip_verify_crc16 of the whole buffer, at the position of the checksum. *)
VerifyStart == /\ step = "sent"
               /\ IF CrcPos + 2 > buflen \/ buflen = 0
                  THEN step' = "done" /\ UNCHANGED <<recv, a_buff>>
                  ELSE /\ step' = "verify"
                       /\ recv' = WordAt(CrcPos)
                       /\ a_buff' = WithWord(CrcPos, {})
               /\ UNCHANGED <<datalen, ap, idx, crc, buflen, damaged, verdict>>

(* fault: only the low bytes are compared *)
ResultLow == IF Low(crc) = Low(recv) THEN Low(crc) ELSE {}

(* crc_calcd == crc_recv ? crc_calcd : 0, as a uint8_t *)
Result == IF crc = recv THEN Low(crc) ELSE {}

Verify == /\ step = "verify"
          /\ IF idx < buflen
             THEN /\ crc' = Crc16Update(crc, a_buff[idx + 1])
                  /\ idx' = idx + 1
                  /\ UNCHANGED <<step, verdict>>
             ELSE /\ verdict' = Result
                  /\ step' = "done"
                  /\ UNCHANGED <<idx, crc>>
          /\ UNCHANGED <<a_buff, datalen, ap, buflen, recv, damaged>>

CrcNext == Insert \/ Corrupt \/ VerifyStart \/ Verify

CrcSpec == CrcInit /\ [][CrcNext]_crcVars

-----------------------------------------------------------------------------
(* Properties. *)

CrcTypeOK == /\ a_buff \in [1 .. datalen + 2 -> Octet]
             /\ datalen \in DataLens /\ ap \in Places
             /\ step \in {"insert", "sent", "verify", "done"}
             /\ idx \in 0 .. CharSize - 1
             /\ {crc, recv} \subseteq Word
             /\ buflen \in 0 .. CharSize - 1 /\ verdict \in Octet
             /\ damaged \in BOOLEAN

(* A packet with a damaged byte, of the data or of the checksum, is not     *)
(* accepted (slip_verify_crc16).                                            *)
DamageDetected == step = "done" /\ damaged => verdict = {}

(* An intact packet has the checksum that is calculated for it, wherever it *)
(* was inserted, and is accepted; except that a verdict of 8 bits cannot    *)
(* accept a checksum whose low byte is 0.                                   *)
IntactMatches ==
    step = "done" /\ ~damaged => crc = recv /\ (Low(recv) # {} => verdict # {})

(* A packet is accepted if it is intact, with that exception, and refused   *)
(* if it is damaged.                                                        *)
VerdictRight == CrcTypeOK /\ DamageDetected /\ IntactMatches

(* As documented, without the exception: slip_verify_crc16 does not return  *)
(* 0 for an intact packet.  The code does not keep this.                    *)
IntactAccepted == step = "done" /\ ~damaged /\ recv # {} => verdict # {}

(* The loop that computes the checksum ends: its counter grows with every   *)
(* turn (_slip_insert_crc16).                                               *)
InsertEnds == [][step = "insert" /\ step' = "insert" => idx' > idx]_crcVars
=============================================================================
