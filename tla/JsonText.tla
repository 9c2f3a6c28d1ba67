------------------------------- MODULE JsonText -------------------------------
(***************************************************************************)
(* Strings and numbers of JSON text: write_string and put_escape           *)
(* (json/escape.hpp), parse_string with its escapes, quoted_integer and    *)
(* decode_bytes (json/read.hpp), scan_number (json/number.hpp).            *)
(***************************************************************************)
EXTENDS Lower

CONSTANTS
  UMax,     \* UINT64_MAX
  MinExp10, \* decimal exponents of the values a double can hold
  MaxExp10,
  ExpLimit  \* where the estimate of an exponent stops growing (100000)

ASSUME RangeAssumption ==
  UMax \in Nat /\ UMax % 2 = 1 /\ MinExp10 \in Int /\ MaxExp10 \in Nat /\ ExpLimit \in Nat \ {0}

IMax == (UMax - 1) \div 2    \* INT64_MAX

Quote == 34
Slash == 92    \* the backslash
U     == 117

(* The short escapes: letter and character.                                *)
Short == {<< 34, 34 >>, << 92, 92 >>, << 47, 47 >>, << 98, 8 >>, << 102, 12 >>, << 110, 10 >>, << 114, 13 >>, << 116, 9 >>}

-----------------------------------------------------------------------------
(* Writing.                                                                *)

HexUpper(v) == IF v < 10 THEN 48 + v ELSE 65 + v - 10

NeedsEscape(c) == c < 32 \/ c \in {Quote, Slash}

PutEscape(c) ==
  IF \E p \in Short : p[2] = c
  THEN << Slash, (CHOOSE p \in Short : p[2] = c)[1] >>
  ELSE << Slash, U, 48, 48, HexUpper(c \div 16), HexUpper(c % 16) >>

Escaped(s) == FlattenSeq([i \in DOMAIN s |-> IF NeedsEscape(s[i]) THEN PutEscape(s[i]) ELSE << s[i] >>])

(* Npos is the exception for text that is not UTF-8.                       *)
WriteString(s) == IF ValidateUtf8(s) # Npos THEN << Npos >> ELSE << Quote >> \o Escaped(s) \o << Quote >>

(* prepared_key_blob: the same at compile time, with the colon.            *)
PreparedKeyBlob(s, pretty) == << Quote >> \o Escaped(s) \o << Quote, 58 >> \o (IF pretty THEN << 32 >> ELSE << >>)

-----------------------------------------------------------------------------
(* Reading a string.  The result: the code, the text, whether it is        *)
(* borrowed from the input, and the position after it.                     *)

Text(t, b, p) == [code |-> "none", text |-> t, borrowed |-> b, pos |-> p]
Bad(c)        == [code |-> c, text |-> << >>, borrowed |-> FALSE, pos |-> 0]

Hex4(in, at) ==
  IF at + 3 > Len(in) \/ \E k \in at .. at + 3 : HexValue(in[k]) < 0 THEN Npos
  ELSE FoldLeft(LAMBDA v, c : v * 16 + HexValue(c), 0, SubSeq(in, at, at + 3))

AppendUtf8(cp) ==
  LET tail(k) == 128 + ((cp \div 64 ^ k) % 64)
  IN  IF cp < 128 THEN << cp >>
      ELSE IF cp < 2048 THEN << 192 + cp \div 64, tail(0) >>
      ELSE IF cp < 65536 THEN << 224 + cp \div 4096, tail(1), tail(0) >>
      ELSE << 240 + cp \div 262144, tail(2), tail(1), tail(0) >>

High == 55296 .. 56319
Low  == 56320 .. 57343

(* Mutant: the units of a pair are added without their bases.              *)
PairUnbased(hi, lo) == 65536 + (hi - 55296) * 1024 + (lo - 55296)

Pair(hi, lo) == 65536 + (hi - 55296) * 1024 + (lo - 56320)

(* At the backslash at i of a \u escape: the code point and the length of  *)
(* the escape, or Npos.                                                    *)
UnicodeEscape(in, i) ==
  LET cp == Hex4(in, i + 2)
      lo == IF i + 11 < Len(in) + 1 /\ in[i + 6] = Slash /\ in[i + 7] = U THEN Hex4(in, i + 8) ELSE Npos
  IN  IF cp = Npos \/ cp \in Low THEN << Npos, 0 >>
      ELSE IF cp \in High THEN IF lo \in Low THEN << Pair(cp, lo), 12 >> ELSE << Npos, 0 >>
      ELSE << cp, 6 >>

(* The raw bytes between the quotes are what is checked for UTF-8.         *)
Closed(in, open, i, text, borrowed) ==
  IF ValidateUtf8(SubSeq(in, open + 1, i - 1)) # Npos THEN Bad("invalid_utf8") ELSE Text(text, borrowed, i + 1)

RECURSIVE ParseEscaped(_, _, _, _)
ParseEscaped(in, open, i, scratch) ==
  IF i > Len(in) THEN Bad("unterminated_string")
  ELSE IF in[i] = Quote THEN Closed(in, open, i, scratch, FALSE)
  ELSE IF in[i] < 32 THEN Bad("unexpected_token")
  ELSE IF in[i] # Slash THEN ParseEscaped(in, open, i + 1, Append(scratch, in[i]))
  ELSE IF i + 1 > Len(in) THEN Bad("unterminated_string")
  ELSE IF in[i + 1] = U
       THEN LET u == UnicodeEscape(in, i)
            IN  IF u[1] = Npos THEN Bad("invalid_escape")
                ELSE ParseEscaped(in, open, i + u[2], scratch \o AppendUtf8(u[1]))
  ELSE IF \E p \in Short : p[1] = in[i + 1]
       THEN ParseEscaped(in, open, i + 2, Append(scratch, (CHOOSE p \in Short : p[1] = in[i + 1])[2]))
  ELSE Bad("invalid_escape")

(* parse_string, at the quote at `open'.                                   *)
ParseString(in, open) ==
  LET i == SelectInSubSeq(in, open + 1, Len(in), LAMBDA c : c \in {Quote, Slash} \/ c < 32)
  IN  IF i = 0 THEN Bad("unterminated_string")
      ELSE IF in[i] = Quote THEN Closed(in, open, i, SubSeq(in, open + 1, i - 1), TRUE)
      ELSE IF in[i] = Slash THEN ParseEscaped(in, open, i, SubSeq(in, open + 1, i - 1))
      ELSE Bad("unexpected_token")

(* decode_bytes: a string that is no encoding sets the position back.      *)
DecodeBytes(in, enc) ==
  LET s == ParseString(in, 1)
      b == IF enc = "hex" THEN HexDecode(s.text) ELSE Base64Decode(s.text, enc = "base64url")
  IN  IF s.code # "none" THEN s
      ELSE IF b.ok THEN Text(b.out, FALSE, s.pos)
      ELSE [Bad("type_mismatch") EXCEPT !.pos = 1]

-----------------------------------------------------------------------------
(* Numbers.                                                                *)

Digit        == 48 .. 57
At(s, i, cs) == i <= Len(s) /\ s[i] \in cs

(* The first index from i on that holds no digit.                          *)
DigitsEnd(s, i) ==
  LET k == SelectInSubSeq(s, i, Len(s), LAMBDA c : c \notin Digit) IN IF k = 0 THEN Len(s) + 1 ELSE k

(* After the integer digits at i, after a fraction, after an exponent:     *)
(* where the part ends, 0 if it is malformed.                              *)
IntegerEnd(s, i) ==
  IF At(s, i, {48}) THEN IF At(s, i + 1, Digit) THEN 0 ELSE i + 1
  ELSE IF At(s, i, Digit) THEN DigitsEnd(s, i) ELSE 0

FractionEnd(s, i) ==
  IF ~At(s, i, {46}) THEN i ELSE IF At(s, i + 1, Digit) THEN DigitsEnd(s, i + 1) ELSE 0

ExponentEnd(s, i) ==
  LET j == IF At(s, i + 1, {43, 45}) THEN i + 2 ELSE i + 1
  IN  IF ~At(s, i, {69, 101}) THEN i ELSE IF At(s, j, Digit) THEN DigitsEnd(s, j) ELSE 0

(* Mutant: the last digit may go past the width.                           *)
AccumulatedLate(v, d) == IF v = Npos \/ v > UMax \div 10 THEN Npos ELSE v * 10 + d

(* One digit of the 64-bit value, Npos once it has overflown.              *)
Accumulated(v, d) == IF v = Npos \/ v > (UMax - d) \div 10 THEN Npos ELSE v * 10 + d

Value(digits) == FoldLeft(LAMBDA v, c : Accumulated(v, c - 48), 0, digits)

(* The parts of a well-formed literal: integer digits without leading      *)
(* zeros, fraction digits, the value of the exponent, and exp10, which     *)
(* leaves out the digits that follow once the limit is reached.            *)
Parts(s, start, e1, e2, e3) ==
  LET int    == SubSeq(s, start, e1 - 1)
      esign  == IF At(s, e2 + 1, {45}) THEN -1 ELSE 1
      edigit == SelectSeq(SubSeq(s, e2 + 1, e3 - 1), LAMBDA c : c \in Digit)
      upto(limit) == FoldLeft(LAMBDA v, c : IF limit = Npos \/ v < limit THEN v * 10 + c - 48 ELSE v, 0, edigit)
  IN  [ int  |-> IF int = << 48 >> THEN << >> ELSE int,
        frac |-> SubSeq(s, e1 + 1, e2 - 1),
        exp  |-> esign * upto(Npos), exp10 |-> esign * upto(ExpLimit) ]

(* External, std::from_chars: result_out_of_range for a number that is not *)
(* zero and whose leading digit is outside the exponents of a double.      *)
LeadingExp(p) ==
  IF p.int # << >> THEN Len(p.int) - 1 + p.exp
  ELSE p.exp - SelectInSeq(p.frac, LAMBDA c : c # 48)

IsZero(p) == \A i \in DOMAIN (p.int \o p.frac) : (p.int \o p.frac)[i] = 48

FromCharsFails(p) == ~IsZero(p) /\ LeadingExp(p) \notin MinExp10 .. MaxExp10

(* The exponent by which the code tells overflow from underflow: it does   *)
(* not look into the fraction.                                             *)
Magnitude(p) == Len(p.int) - 1 + p.exp10

Scan(k, n, v, e) == [kind |-> k, length |-> n, value |-> v, error |-> e]

ScanReal(p, n) ==
  IF FromCharsFails(p)
  THEN IF Magnitude(p) > 0 THEN Scan("undefined", n, 0, "out_of_range") ELSE Scan("real", n, << "zero" >>, "none")
  ELSE Scan("real", n, << "rounded" >>, "none")

ScanNumber(s) ==
  LET neg   == At(s, 1, {45})
      start == IF neg THEN 2 ELSE 1
      e1    == IntegerEnd(s, start)
      e2    == IF e1 = 0 THEN 0 ELSE FractionEnd(s, e1)
      e3    == IF e2 = 0 THEN 0 ELSE ExponentEnd(s, e2)
      v     == Value(SubSeq(s, start, e1 - 1))
  IN  IF e3 = 0 THEN Scan("undefined", 0, 0, "invalid_number")
      ELSE IF e3 = e1 /\ v # Npos /\ ~neg THEN Scan("uint", e3 - 1, v, "none")
      ELSE IF e3 = e1 /\ v # Npos /\ v <= IMax + 1 THEN Scan("sint", e3 - 1, -v, "none")
      ELSE ScanReal(Parts(s, start, e1, e2, e3), e3 - 1)

(* write_uint and write_sint: the decimal digits (std::to_chars).          *)
RECURSIVE WriteUint(_)
WriteUint(u) == (IF u < 10 THEN << >> ELSE WriteUint(u \div 10)) \o << 48 + (u % 10) >>

WriteSint(i) == IF i < 0 THEN << 45 >> \o WriteUint(-i) ELSE WriteUint(i)

(* quoted_integer: a string that holds exactly one integer of the type;    *)
(* otherwise the position is set back to the quote.                        *)
QuotedInteger(in, unsigned) ==
  LET s == ParseString(in, 1)
      n == ScanNumber(s.text)
  IN  IF s.code # "none" THEN s
      ELSE IF n.kind \notin {"uint", "sint"} \/ n.length # Len(s.text) THEN [Bad("type_mismatch") EXCEPT !.pos = 1]
      ELSE IF (unsigned /\ n.kind = "sint") \/ (~unsigned /\ n.kind = "uint" /\ n.value > IMax)
           THEN [Bad("out_of_range") EXCEPT !.pos = 1]
      ELSE Text(<< n.value >>, FALSE, s.pos)

===============================================================================
