-------------------------------- MODULE Lower ---------------------------------
(***************************************************************************)
(* The conversions of core/lower.hpp: base64, hex, UTF-8 and binary16.     *)
(* Bytes and characters are their codes.                                   *)
(***************************************************************************)
EXTENDS Integers, Sequences, SequencesExt

CONSTANT
  Mant,   \* bits of a half's fraction (10)
  Exps,   \* number of its exponents (32)
  X       \* a double has this many steps between two subnormal halves

ASSUME HalfAssumption == Mant \in Nat /\ Exps \in Nat \ 0 .. 3 /\ Exps % 2 = 0 /\ X \in Nat \ {0}

Npos == -1

-----------------------------------------------------------------------------
(* base64 and base64url.                                                   *)

B64(url) ==
  [v \in 0 .. 63 |->
     IF v < 26 THEN 65 + v
     ELSE IF v < 52 THEN 97 + v - 26
     ELSE IF v < 62 THEN 48 + v - 52
     ELSE (IF url THEN << 45, 95 >> ELSE << 43, 47 >>)[v - 61]]

B64Value(c, url) ==
  IF c \in 65 .. 90 THEN c - 65
  ELSE IF c \in 97 .. 122 THEN c - 97 + 26
  ELSE IF c \in 48 .. 57 THEN c - 48 + 52
  ELSE IF c = (IF url THEN 45 ELSE 43) THEN 62
  ELSE IF c = (IF url THEN 95 ELSE 47) THEN 63
  ELSE -1

Pad == 61    \* '='

(* The first n characters for the 24 bits of v.                            *)
Sextets(v, n, url) == [k \in 1 .. n |-> B64(url)[(v \div 64 ^ (4 - k)) % 64]]

RECURSIVE Base64Encode(_, _)
Base64Encode(in, url) ==
  IF in = << >> THEN << >>
  ELSE IF Len(in) >= 3
       THEN Sextets(in[1] * 65536 + in[2] * 256 + in[3], 4, url) \o Base64Encode(SubSeq(in, 4, Len(in)), url)
  ELSE LET v == in[1] * 65536 + IF Len(in) = 2 THEN in[2] * 256 ELSE 0
       IN  Sextets(v, Len(in) + 1, url) \o (IF url THEN << >> ELSE [k \in 1 .. 3 - Len(in) |-> Pad])

(* Mutant: only one character of padding is taken off.                     *)
UnpaddedOnce(in) == IF in # << >> /\ Last(in) = Pad THEN Front(in) ELSE in

Unpadded(in) ==
  LET n == SelectLastInSeq(in, LAMBDA c : c # Pad) IN SubSeq(in, 1, n)

Failed == [ok |-> FALSE, out |-> << >>]

(* Of acc only the low 14 bits are ever looked at.                         *)
B64Step(st, c, url) ==
  LET v    == B64Value(c, url)
      acc  == (st.acc * 64 + v) % 2 ^ 14
      bits == st.bits + 6
  IN  IF ~st.ok \/ v < 0 THEN [st EXCEPT !.ok = FALSE]
      ELSE IF bits < 8 THEN [st EXCEPT !.acc = acc, !.bits = bits]
      ELSE [st EXCEPT !.acc = acc, !.bits = bits - 8, !.out = Append(@, (acc \div 2 ^ (bits - 8)) % 256)]

Base64Decode(text, url) ==
  LET in == Unpadded(text)
      st == FoldLeft(LAMBDA s, c : B64Step(s, c, url), [ok |-> TRUE, acc |-> 0, bits |-> 0, out |-> << >>], in)
  IN  IF Len(in) % 4 = 1 \/ ~st.ok THEN Failed ELSE [ok |-> TRUE, out |-> st.out]

(* hex.                                                                    *)
HexDigit(v) == IF v < 10 THEN 48 + v ELSE 97 + v - 10

HexValue(c) ==
  IF c \in 48 .. 57 THEN c - 48
  ELSE IF c \in 97 .. 102 THEN c - 97 + 10
  ELSE IF c \in 65 .. 70 THEN c - 65 + 10
  ELSE -1

HexEncode(in) ==
  [k \in 1 .. 2 * Len(in) |->
     LET b == in[(k + 1) \div 2] IN HexDigit(IF k % 2 = 1 THEN b \div 16 ELSE b % 16)]

HexDecode(in) ==
  IF Len(in) % 2 = 1 \/ \E i \in DOMAIN in : HexValue(in[i]) < 0 THEN Failed
  ELSE [ok |-> TRUE, out |-> [k \in 1 .. Len(in) \div 2 |-> HexValue(in[2 * k - 1]) * 16 + HexValue(in[2 * k])]]

-----------------------------------------------------------------------------
(* validate_utf8: Npos, or the offset of the first invalid sequence.       *)

(* Mutant: surrogates are let through.                                     *)
SecondByteLoose(c) ==
  CASE c = 224 -> 160 .. 191 [] c = 240 -> 144 .. 191 [] c = 244 -> 128 .. 143 [] OTHER -> 128 .. 191

(* Second bytes that can follow c: no overlong form, no surrogate, nothing *)
(* above U+10FFFF.                                                         *)
SecondByte(c) ==
  CASE c = 224 -> 160 .. 191 [] c = 237 -> 128 .. 159 [] c = 240 -> 144 .. 191 [] c = 244 -> 128 .. 143
    [] OTHER -> 128 .. 191

(* The length of the sequence that c starts, 0 if none.                    *)
Utf8Length(c) ==
  IF c < 128 THEN 1 ELSE IF c \in 194 .. 223 THEN 2 ELSE IF c \in 224 .. 239 THEN 3 ELSE IF c \in 240 .. 244 THEN 4 ELSE 0

ValidSequence(s, i) ==
  LET n == Utf8Length(s[i])
  IN  /\ n > 0 /\ i + n - 1 <= Len(s)
      /\ \A k \in i + 1 .. i + n - 1 : s[k] \in (IF k = i + 1 THEN SecondByte(s[i]) ELSE 128 .. 191)

RECURSIVE Utf8From(_, _)
Utf8From(s, i) ==
  IF i > Len(s) THEN Npos
  ELSE IF ValidSequence(s, i) THEN Utf8From(s, i + Utf8Length(s[i]))
  ELSE i - 1

ValidateUtf8(s) == Utf8From(s, 1)

-----------------------------------------------------------------------------
(* binary16.  A double is [sign, n, class]: n steps of 1/X of the smallest *)
(* subnormal half, or class "inf" or "nan".  A half is its bits.           *)

Frac    == 2 ^ Mant
SignBit == Exps * Frac
Inf     == (Exps - 1) * Frac              \* 0x7C00
NaN     == Inf + Frac \div 2              \* 0x7E00
MaxHalf == X * (2 * Frac - 1) * 2 ^ (Exps - 3)   \* 65504

FromHalf(h) ==
  LET sign == h \div SignBit
      exp  == (h % SignBit) \div Frac
      mant == h % Frac
  IN  IF exp = Exps - 1 THEN [sign |-> IF mant = 0 THEN sign ELSE 0, n |-> 0, class |-> IF mant = 0 THEN "inf" ELSE "nan"]
      ELSE [sign |-> sign, n |-> X * IF exp = 0 THEN mant ELSE (mant + Frac) * 2 ^ (exp - 1), class |-> "finite"]

(* The biased exponent of n, at least 1 for a normal half (frexp).         *)
Exponent(n) == CHOOSE e \in -8 .. Exps + 1 :
  IF e < 1 THEN n * 2 ^ (1 - e) >= X * Frac /\ n * 2 ^ (1 - e) < 2 * X * Frac
  ELSE n >= X * Frac * 2 ^ (e - 1) /\ n < 2 * X * Frac * 2 ^ (e - 1)

(* The half with the value of d, Npos if there is none.                    *)
ToHalf(d) ==
  LET sign == d.sign * SignBit
      e    == Exponent(d.n)
      ulp  == X * 2 ^ (e - 1)
  IN  IF d.class = "nan" THEN NaN
      ELSE IF d.class = "inf" THEN sign + Inf
      ELSE IF d.n = 0 THEN sign
      ELSE IF d.n > MaxHalf THEN Npos
      ELSE IF e >= 1 THEN IF d.n % ulp = 0 THEN sign + e * Frac + (d.n \div ulp - Frac) ELSE Npos
      ELSE IF d.n % X = 0 /\ d.n \div X < Frac THEN sign + d.n \div X ELSE Npos

(* Mutant: ties are rounded up.                                            *)
RoundedUp(n, ulp) == IF 2 * (n % ulp) >= ulp THEN n \div ulp + 1 ELSE n \div ulp

(* n / ulp to the nearest integer, ties to even.                           *)
Rounded(n, ulp) ==
  LET fl == n \div ulp
  IN  IF 2 * (n % ulp) > ulp \/ (2 * (n % ulp) = ulp /\ fl % 2 = 1) THEN fl + 1 ELSE fl

(* to_half_rounded: beyond the midpoint to the next power of two, infinity.*)
ToHalfRounded(d) ==
  LET sign == d.sign * SignBit
      e    == Exponent(d.n)
      m    == IF e >= 1 THEN Rounded(d.n, X * 2 ^ (e - 1)) ELSE Rounded(d.n + X * Frac, X)
  IN  IF ToHalf(d) # Npos THEN ToHalf(d)
      ELSE IF 2 * d.n >= 2 * MaxHalf + X * 2 ^ (Exps - 3) THEN sign + Inf
      ELSE IF e < 1 THEN sign + (IF m - Frac >= Frac THEN Frac + (m - 2 * Frac) ELSE m - Frac)
      ELSE IF m >= 2 * Frac
           THEN IF e + 1 >= Exps - 1 THEN sign + Inf ELSE sign + (e + 1) * Frac + ((m - Frac) % Frac)
      ELSE sign + e * Frac + (m % Frac)

===============================================================================
