------------------------------ MODULE Vouchers ------------------------------
(***************************************************************************)
(* How a voucher code is made (mintcode_api/vouchers.py): random bytes in  *)
(* Crockford's base 32, cut to the length asked for, with a tag that       *)
(* depends on the label put in at a position.  A code is the sequence of   *)
(* its digits; the alphabet is in ASCII order, so that digits compare as   *)
(* the characters do.                                                      *)
(***************************************************************************)
EXTENDS Integers, SequencesExt

CONSTANTS
    None,        \* Python's None: no label
    Random(_),   \* the byte strings secrets.token_bytes may return: a bound
    Mac(_)       \* HMAC-SHA256 of a label under the voucher secret, its first bytes

Byte == 0 .. 255

-----------------------------------------------------------------------------
(* Fault: what is left of a byte is dropped when the next one comes.         *)
WindowOfByte(bytes, j) == bytes[j]

(* value when byte j has been shifted in: the loop keeps every byte, and     *)
(* looks at bits of the last two only.                                       *)
Window(bytes, j) == (IF j = 1 THEN 0 ELSE bytes[j - 1] * 256) + bytes[j]

(* Digit i is put out in the round of the byte that completes its five bits; *)
(* what is left at the end is shifted up to five.                            *)
Digit(bytes, i) ==
    LET n == Len(bytes)
        j == (5 * i + 7) \div 8
    IN IF j <= n THEN (Window(bytes, j) \div 2 ^ (8 * j - 5 * i)) % 32
                 ELSE (bytes[n] * 2 ^ (5 * i - 8 * n)) % 32

Encode(bytes) == [i \in 1 .. (8 * Len(bytes) + 4) \div 5 |-> Digit(bytes, i)]

Cut(s, n) == SubSeq(s, 1, IF n < Len(s) THEN n ELSE Len(s))

TokenBytes(length) == (length * 5 + 7) \div 8
RandomCode(length, bytes) == Cut(Encode(bytes), length)
LabelTag(label, length) == Cut(Encode(Mac(label)), length)

(* The route brings label_pos down to the length before it asks for codes.   *)
LabelPos(p) == IF p.label_pos < p.length THEN p.label_pos ELSE p.length

Code(p, bytes) ==
    LET base == RandomCode(p.length, bytes)
        pos  == LabelPos(p)
    IN IF p.label = None THEN base
       ELSE SubSeq(base, 1, pos) \o LabelTag(p.label, p.label_length)
              \o SubSeq(base, pos + 1, Len(base))

(* generate_voucher_codes raises: an empty label counts as a label, but the  *)
(* route passes no secret for it.                                            *)
Unmakeable(p) == p.label = ""

Codes(p) ==
    IF Unmakeable(p) THEN {} ELSE {Code(p, bytes) : bytes \in Random(TokenBytes(p.length))}

(* sorted() of the codes.                                                    *)
Before(a, b) ==
    \/ Len(a) < Len(b) /\ \A i \in DOMAIN a : a[i] = b[i]
    \/ \E i \in DOMAIN a \intersect (DOMAIN b) :
         a[i] < b[i] /\ \A j \in 1 .. i - 1 : a[j] = b[j]

Sorted(S) ==
    [i \in 1 .. Cardinality(S) |->
       CHOOSE code \in S : Cardinality({other \in S : Before(other, code)}) = i - 1]

-----------------------------------------------------------------------------
(* The reference: the bytes as one row of bits, read five at a time.         *)
Bit(bytes, k) ==
    IF k < 8 * Len(bytes) THEN (bytes[k \div 8 + 1] \div 2 ^ (7 - (k % 8))) % 2 ELSE 0

Base32(bytes) ==
    [i \in 1 .. (8 * Len(bytes) + 4) \div 5 |->
        LET k == 5 * (i - 1)
        IN 16 * Bit(bytes, k) + 8 * Bit(bytes, k + 1) + 4 * Bit(bytes, k + 2)
             + 2 * Bit(bytes, k + 3) + Bit(bytes, k + 4)]

(* A code made for p: random digits, with nothing but the label's tag in     *)
(* between, at the place the label can be looked up at.                      *)
WellFormed(p, code) ==
    LET tagged == p.label # None
        pos    == LabelPos(p)
        size   == IF tagged THEN p.label_length ELSE 0
        base   == SubSeq(code, 1, pos) \o SubSeq(code, pos + size + 1, Len(code))
        tag    == SubSeq(code, pos + 1, pos + size)
    IN /\ Len(code) = p.length + size
       /\ \E bytes \in Random(TokenBytes(p.length)) : IsPrefix(base, Base32(bytes))
       /\ tagged => IsPrefix(tag, Base32(Mac(p.label)))
=============================================================================
