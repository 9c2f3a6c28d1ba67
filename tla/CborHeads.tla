------------------------------ MODULE CborHeads -------------------------------
(***************************************************************************)
(* The bytes of CBOR heads (cbor/head.hpp): make_head, parse_head, the     *)
(* test for the shortest form, and typed arrays (RFC 8746), whose elements *)
(* cbor/write.hpp copies and cbor/read.hpp converts.                       *)
(*                                                                         *)
(* An initial byte holds a major type and Inline + 8 additional            *)
(* informations, a further byte one of B values.                           *)
(***************************************************************************)
EXTENDS Integers, Sequences, SequencesExt

CONSTANTS
  Inline,   \* arguments held by the initial byte (24)
  B         \* values of a byte (256)

ASSUME HeadAssumption == Inline \in Nat \ {0} /\ B \in Nat /\ Inline < B /\ B % 2 = 0

Ai         == Inline + 8
Reserved   == Inline + 4 .. Inline + 6
Indefinite == Inline + 7
BreakCode  == 7 * Ai + Indefinite

Uint   == 0
Nint   == 1
TagMt  == 6
Simple == 7

(* Big-endian digits.                                                      *)
Digits(x, n)  == [k \in 1 .. n |-> (x \div B ^ (n - k)) % B]
Number(bytes) == FoldLeft(LAMBDA v, b : v * B + b, 0, bytes)

(* The argument sizes, by the additional information after Inline.         *)
Sizes == << 1, 2, 4, 8 >>

(* Mutant: the limit of a size is left to the next one.                    *)
HoldsBelow(k, v) == v < B ^ Sizes[k] - 1

(* The k-th size holds v.                                                  *)
HoldsValue(k, v) == v < B ^ Sizes[k]

MakeHeadBytes(m, v) ==
  IF v < Inline THEN << m * Ai + v >>
  ELSE LET k == CHOOSE k \in 1 .. 4 : (k = 4 \/ HoldsValue(k, v)) /\ \A j \in 1 .. k - 1 : ~HoldsValue(j, v)
       IN  << m * Ai + Inline + k - 1 >> \o Digits(v, Sizes[k])

AppendInt(i) == IF i >= 0 THEN MakeHeadBytes(Uint, i) ELSE MakeHeadBytes(Nint, -1 - i)

NoHead == [mt |-> 0, ai |-> 0, value |-> 0, indefinite |-> FALSE, length |-> 0, reserved |-> FALSE, is_break |-> FALSE]

ParseHead(in, pos) ==
  LET ib == in[pos]
      h  == [NoHead EXCEPT !.mt = ib \div Ai, !.ai = ib % Ai]
      n  == Sizes[h.ai - Inline + 1]
  IN  IF pos > Len(in) THEN NoHead
      ELSE IF ib = BreakCode THEN [h EXCEPT !.is_break = TRUE, !.length = 1]
      ELSE IF h.ai < Inline THEN [h EXCEPT !.value = h.ai, !.length = 1]
      ELSE IF h.ai = Indefinite THEN [h EXCEPT !.indefinite = TRUE, !.length = 1, !.reserved = h.mt \in {Uint, Nint, TagMt}]
      ELSE IF h.ai \in Reserved THEN [h EXCEPT !.reserved = TRUE, !.length = 1]
      ELSE IF pos + n > Len(in) THEN h
      ELSE [h EXCEPT !.value = Number(SubSeq(in, pos + 1, pos + n)), !.length = 1 + n]

(* parsed_head::shortest; the width of a float is judged elsewhere.        *)
Shortest(h) ==
  /\ ~h.indefinite /\ ~h.is_break /\ ~h.reserved
  /\ \/ h.mt = Simple /\ h.ai > Inline
     \/ h.ai < Inline
     \/ h.ai = Inline /\ h.value >= Inline
     \/ h.ai \in Inline + 1 .. Inline + 3 /\ ~HoldsValue(h.ai - Inline, h.value)

-----------------------------------------------------------------------------
(* Typed arrays.  An element type is [float, signed, size] and its values  *)
(* are numbers.  A float has a sign, an exponent (together two digits) and *)
(* the remaining digits m of its size: it is the number m * B ^ exponent.  *)

TypedArrayTag(e, little) ==
  LET k == CHOOSE k \in 1 .. 4 : Sizes[k] = e.size
  IN  IF e.float THEN IF little THEN 83 + k - 1 ELSE 79 + k - 1
      ELSE IF e.signed THEN IF k = 1 THEN 72 ELSE IF little THEN 75 + k ELSE 71 + k
      ELSE IF k = 1 THEN 64 ELSE IF little THEN 67 + k ELSE 63 + k

Abs(v)          == IF v < 0 THEN -v ELSE v
Coefficients(e) == B ^ (e.size - 2)
MaxExp          == B ^ 2 \div 2 - 1
Infinite        == B ^ 14   \* stands for infinity: beyond every number of 8 bytes

FloatBits(e, v) ==
  LET x == CHOOSE x \in 0 .. MaxExp : Abs(v) % B ^ x = 0 /\ Abs(v) \div B ^ x < Coefficients(e)
  IN  (IF v < 0 THEN B ^ e.size \div 2 ELSE 0) + x * Coefficients(e) + Abs(v) \div B ^ x

FloatOf(e, w) ==
  LET u == w % (B ^ e.size \div 2)
  IN  (IF u = w THEN 1 ELSE -1) * (u % Coefficients(e)) * B ^ (u \div Coefficients(e))

(* The memory of an array on a host: the bits of a value, in its order.    *)
Bits(e, v)           == IF e.float THEN FloatBits(e, v) ELSE IF v < 0 THEN v + B ^ e.size ELSE v
InMemory(e, v, little) == IF little THEN Reverse(Digits(Bits(e, v), e.size)) ELSE Digits(Bits(e, v), e.size)
WriteRange(e, vs, little) == FlattenSeq([i \in DOMAIN vs |-> InMemory(e, vs[i], little)])

(* The element type and the byte order a tag stands for.                   *)
TagFloat(tag)  == tag >= 80
TagLittle(tag) == IF TagFloat(tag) THEN tag >= 84 ELSE (tag \div 4) % 2 = 1
TagSize(tag)   == IF TagFloat(tag) THEN 2 * 2 ^ (tag - IF TagLittle(tag) THEN 84 ELSE 80) ELSE 2 ^ (tag % 4)
TagSigned(tag) == ~TagFloat(tag) /\ tag >= 72

(* Mutant: a word is taken for an unsigned number.                         *)
SignExtendedNot(w, size) == w

(* The sign bit of a word of that size is extended.                        *)
SignExtended(w, size) == IF 2 * w >= B ^ size THEN w - B ^ size ELSE w

MinOf(e)   == IF e.signed THEN -(B ^ e.size \div 2) ELSE 0
MaxOf(e)   == IF e.signed THEN B ^ e.size \div 2 - 1 ELSE B ^ e.size - 1

(* static_cast to a float type: rounds to nearest, ties to even, without   *)
(* a word when the number is not one of the type; past its range the host  *)
(* gives infinity.                                                         *)
Cast(e, v) ==
  LET sign == IF v < 0 THEN -1 ELSE 1
      fits(x) == Abs(v) < Coefficients(e) * B ^ x
      x    == CHOOSE x \in 0 .. MaxExp + e.size : fits(x) /\ \A y \in 0 .. x - 1 : ~fits(y)
      q    == Abs(v) \div B ^ x
      r    == 2 * (Abs(v) % B ^ x)
      near == (IF r > B ^ x \/ (r = B ^ x /\ q % 2 = 1) THEN q + 1 ELSE q) * B ^ x
  IN  sign * IF near >= Coefficients(e) * B ^ MaxExp THEN Infinite ELSE near

Typed(c, vs) == [code |-> c, out |-> vs]

(* typed_array_into, for an element type e on a host of the given order;   *)
(* fixed is the size of an array that cannot be resized, Nullsize if any.  *)
NullSize == -1

TypedArrayInto(tag, bytes, e, native, fixed) ==
  LET size    == TagSize(tag)
      n       == Len(bytes) \div size
      word(i) == LET w == SubSeq(bytes, (i - 1) * size + 1, i * size)
                 IN  Number(IF TagLittle(tag) THEN Reverse(w) ELSE w)
      raw(i)  == LET w == SubSeq(bytes, (i - 1) * size + 1, i * size)
                 IN  Number(IF native THEN Reverse(w) ELSE w)
      value(i) == IF TagFloat(tag) THEN FloatOf([size |-> size], word(i))
                  ELSE IF TagSigned(tag) THEN SignExtended(word(i), size) ELSE word(i)
      same    == TagFloat(tag) = e.float /\ size = e.size /\ TagLittle(tag) = native /\ (TagFloat(tag) \/ TagSigned(tag) = e.signed)
  IN  IF TagFloat(tag) /\ size = 16 THEN Typed("type_mismatch", << >>)
      ELSE IF Len(bytes) % size # 0 THEN Typed("malformed_item", << >>)
      ELSE IF fixed # NullSize /\ fixed # n THEN Typed("type_mismatch", << >>)
      ELSE IF same  \* memcpy
           THEN Typed("none", [i \in 1 .. n |-> IF e.float THEN FloatOf(e, raw(i))
                                               ELSE IF e.signed THEN SignExtended(raw(i), size) ELSE raw(i)])
      ELSE IF TagFloat(tag) /\ ~e.float /\ n > 0 THEN Typed("type_mismatch", << >>)
      ELSE IF ~e.float /\ \E i \in 1 .. n : value(i) \notin MinOf(e) .. MaxOf(e) THEN Typed("out_of_range", << >>)
      ELSE Typed("none", [i \in 1 .. n |-> IF e.float THEN Cast(e, value(i)) ELSE value(i)])

===============================================================================
