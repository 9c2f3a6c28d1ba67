---------------------------- MODULE MCConversions -----------------------------
(***************************************************************************)
(* Inputs on both sides of every limit, and what each conversion is        *)
(* expected to give, defined without the conversion's own steps.           *)
(***************************************************************************)
EXTENDS Conversions

Upto(S, n) == UNION {[1 .. k -> S] : k \in 0 .. n}

(* The step taken was a call of the conversion `name'.                     *)
On(name) == op = name

-----------------------------------------------------------------------------
(* UTF-8, base64, hex.                                                     *)

Edges == {65, 127, 128, 143, 144, 159, 160, 191, 192, 193, 194, 223, 224, 237, 239, 240, 244, 245, 255}

Utf8Inputs ==
  Upto(Edges, 2) \cup {<< a, b, c >> : a \in {65, 194, 224, 237, 239, 240}, b \in Edges, c \in {65, 127, 128, 191, 192}}
  \cup {<< a, b, c, d >> : a \in {240, 243, 244, 245}, b \in Edges, c \in {127, 128, 191, 192}, d \in {127, 128, 191, 192}}
  \cup {<< 65, a, b, c >> : a \in {194, 224, 237}, b \in {128, 159, 160, 191}, c \in {65, 128, 191}}

(* The scalar value whose bits b holds.                                    *)
ScalarOf(b) ==
  LET low(k) == b[k] - 128
  IN  CASE Len(b) = 1 -> b[1]
        [] Len(b) = 2 -> (b[1] - 192) * 64 + low(2)
        [] Len(b) = 3 -> (b[1] - 224) * 4096 + low(2) * 64 + low(3)
        [] Len(b) = 4 -> (b[1] - 240) * 262144 + low(2) * 4096 + low(3) * 64 + low(4)

IsScalar(b) ==
  LET cp == ScalarOf(b) IN cp \in 0 .. 1114111 /\ cp \notin High \cup Low /\ AppendUtf8(cp) = b

(* The lengths of the prefixes of s that are whole scalar values.          *)
WellFormedPrefixes(s) ==
  LET whole[k \in 0 .. Len(s)] ==
        k = 0 \/ \E n \in 1 .. 4 : n <= k /\ whole[k - n] /\ IsScalar(SubSeq(s, k - n + 1, k))
  IN  {k \in 0 .. Len(s) : whole[k]}

(* validate_utf8 accepts exactly the sequences of the encodings that       *)
(* append_utf8 gives to Unicode scalar values, and otherwise points behind *)
(* the longest prefix of that kind.                                        *)
Utf8Exact ==
  On("utf8") => out = IF Len(arg) \in WellFormedPrefixes(arg) THEN Npos ELSE Max(WellFormedPrefixes(arg))

Encodings == {"base64", "base64url", "hex"}

ByteInputs     == [bytes : Upto({0, 1, 63, 64, 128, 255}, 4), enc : Encodings]
ByteTextInputs == [text : Upto({48, 97, 98, 45, 47, 61}, 5), enc : Encodings]

SameBut(s, t, n) == Len(s) = Len(t) /\ \A i \in 1 .. Len(s) - n : s[i] = t[i]

(* What a byte string is written as, every reader of that encoding reads   *)
(* back; and a text that is accepted is the encoding of what was read,     *)
(* up to padding and, as the comment says, unused bits of the last digit.  *)
BytesRoundTrip ==
  /\ On("bytes") => out.back.code = "none" /\ out.back.text = arg.bytes
  /\ On("bytetext") =>
       LET written == EncodeBytes(out.text, arg.enc)
           digits(t) == SelectSeq(t, LAMBDA c : c # 61)
       IN  IF out.code = "none"
           THEN IF arg.enc = "hex" THEN SameBut(written, arg.text, 0) ELSE SameBut(digits(written), digits(arg.text), 1)
           ELSE out.code = "type_mismatch" /\ out.pos = 1

-----------------------------------------------------------------------------
(* binary16.                                                               *)

HalfInputs ==
  [sign : {0, 1}, n : 0 .. MaxHalf + X * 2 ^ (Exps - 2), class : {"finite"}]
  \cup [sign : {0, 1}, n : {0}, class : {"inf", "nan"}]

(* The value of a half, infinity being the next power of two.              *)
Magnitudes == [h \in 0 .. Inf |-> IF h = Inf THEN X * 2 * Frac * 2 ^ (Exps - 3) ELSE FromHalf(h).n]

Distance(h, n) == IF Magnitudes[h] > n THEN Magnitudes[h] - n ELSE n - Magnitudes[h]

(* to_half succeeds exactly on the values of halves, and to_half_rounded   *)
(* gives the nearest half, the even one of two, infinity from the midpoint *)
(* on; zeros keep their sign.                                              *)
HalfNearest ==
  On("half") =>
    IF arg.class # "finite"
    THEN out.exact = out.rounded /\ FromHalf(out.exact).class = arg.class
    ELSE LET h == out.rounded - arg.sign * SignBit
         IN  /\ h \in 0 .. Inf
             /\ \A g \in 0 .. Inf \ {h} :
                  \/ arg.n > Magnitudes[Inf] /\ h = Inf
                  \/ Distance(h, arg.n) < Distance(g, arg.n)
                  \/ Distance(h, arg.n) = Distance(g, arg.n) /\ h % 2 = 0
             /\ out.exact = IF \E g \in 0 .. Inf - 1 : FromHalf(g).n = arg.n THEN out.rounded ELSE Npos

-----------------------------------------------------------------------------
(* JSON strings.                                                           *)

StringInputs == Upto({1, 8, 31, 32, 34, 47, 92, 127, 169, 195, 255}, 3)

(* What a string is written as, borrowed again when nothing is escaped.    *)
ReadBack ==
  IF Len(arg) \notin WellFormedPrefixes(arg) THEN out.text = << Npos >>
  ELSE /\ out.back = Text(arg, Len(out.text) = Len(arg) + 2, Len(out.text) + 1)
       /\ out.key = Append(out.text, 58)

(* Pieces of a literal: their text, and what they stand for.               *)
Piece(t, k, m) == [text |-> t, kind |-> k, means |-> m]

Pieces ==
  { Piece(<< 120 >>, "text", << 120 >>),                             \* x
    Piece(<< 195, 169 >>, "text", << 195, 169 >>),                   \* U+00E9
    Piece(<< 92, 34 >>, "text", << 34 >>),                           \* \"
    Piece(<< 92, 116 >>, "text", << 9 >>),                           \* \t
    Piece(<< 92, 117, 48, 48, 52, 49 >>, "text", << 65 >>),          \* \u0041
    Piece(<< 92, 117, 50, 48, 97, 67 >>, "text", << 226, 130, 172 >>), \* \u20aC
    Piece(<< 92, 117, 100, 56, 51, 68 >>, "high", << 1 >>),          \* \ud83D
    Piece(<< 92, 117, 68, 66, 70, 70 >>, "high", << 2 >>),           \* \uDBFF
    Piece(<< 92, 117, 68, 69, 48, 48 >>, "low", << 1 >>),            \* \uDE00
    Piece(<< 92, 117, 68, 70, 70, 70 >>, "low", << 2 >>),            \* \uDFFF
    Piece(<< 92, 117, 49, 50 >>, "escape", << >>),                   \* \u12
    Piece(<< 92, 120 >>, "escape", << >>),                           \* \x
    Piece(<< 1 >>, "control", << >>),
    Piece(<< 128 >>, "byte", << >>) }

(* U+1F600, U+1F7FF, U+10FE00 and U+10FFFF, by their surrogates.           *)
Pairs == << << << 240, 159, 152, 128 >>, << 240, 159, 159, 191 >> >>, << << 244, 143, 184, 128 >>, << 244, 143, 191, 191 >> >> >>

LiteralInputs ==
  { [ pieces |-> ps, closed |-> c,
      text |-> << Quote >> \o FlattenSeq([i \in DOMAIN ps |-> ps[i].text]) \o IF c THEN << Quote >> ELSE << >> ] :
    ps \in Upto(Pieces, 3), c \in BOOLEAN }

Kind(ps, i) == IF i \in DOMAIN ps THEN ps[i].kind ELSE "none"

Wrong(ps, i) ==
  \/ Kind(ps, i) \in {"escape", "control"}
  \/ Kind(ps, i) = "high" /\ Kind(ps, i + 1) # "low"
  \/ Kind(ps, i) = "low" /\ Kind(ps, i - 1) # "high"

Means(ps, i) ==
  IF Kind(ps, i) = "high" THEN Pairs[ps[i].means[1]][ps[i + 1].means[1]]
  ELSE IF Kind(ps, i) = "low" THEN << >> ELSE ps[i].means

Decoded ==
  LET ps    == arg.pieces
      wrong == {i \in DOMAIN ps : Wrong(ps, i)}
  IN  IF wrong # {}
      THEN out.code = IF Kind(ps, Min(wrong)) = "control" THEN "unexpected_token" ELSE "invalid_escape"
      ELSE IF ~arg.closed THEN out.code = "unterminated_string"
      ELSE IF \E i \in DOMAIN ps : Kind(ps, i) = "byte" THEN out.code = "invalid_utf8"
      ELSE /\ out.code = "none" /\ out.pos = Len(arg.text) + 1
           /\ out.text = FlattenSeq([i \in DOMAIN ps |-> Means(ps, i)])

(* A string that is written is read back as it was, and the key prepared   *)
(* at compile time is the same literal; one that is not UTF-8 is not       *)
(* written.  Any other literal means what its pieces mean, a high and a    *)
(* low surrogate one scalar value together; the first piece that is wrong  *)
(* decides the error, then a missing quote, and invalid UTF-8 last.        *)
StringsRead == (On("string") => ReadBack) /\ (On("literal") => Decoded)

-----------------------------------------------------------------------------
(* Numbers.                                                                *)

(* The digits of a part, as numbers, and its text.                         *)
Chars(ds) == [i \in DOMAIN ds |-> 48 + ds[i]]

Ints  == {<< 0 >>, << 7 >>, << 8 >>, << 9 >>, << 1, 5 >>, << 1, 6 >>, << 9, 9 >>, << 1, 0, 0 >>, << 0, 8 >>, << >>}
Fracs == {<< >>, << 0 >>, << 5 >>, << 0, 5 >>, << 0, 0, 5 >>, << 2, 5 >>}
Exp(t, v) == [text |-> t, value |-> v]
Exponents == {Exp(<< >>, 0), Exp(<< 101, 48 >>, 0), Exp(<< 69, 49 >>, 1), Exp(<< 101, 43, 50 >>, 2), Exp(<< 101, 45, 49 >>, -1), Exp(<< 69, 45, 50 >>, -2)}
FarExponents == {Exp(<< 101, 50, 48 >>, 20), Exp(<< 101, 45, 48, 50, 48 >>, -20), Exp(<< 101, 45, 57 >>, -9)}
NoDigits  == {<< 101 >>, << 69, 45 >>, << 101, 43 >>}
Tails == {<< >>, << 44 >>, << 120 >>}

Spelled(g, i, f, e, t) ==
  [ neg |-> g, int |-> i, frac |-> f, exp |-> e.value, plain |-> f = << >> /\ e.text = << >>,
    whole |-> TRUE, tail |-> t,
    text |-> (IF g THEN << 45 >> ELSE << >>) \o Chars(i) \o (IF f = << >> THEN << >> ELSE << 46 >> \o Chars(f)) \o e.text \o t ]

(* Well-formed but for the integer digits, with an exponent past the limit *)
(* of the estimate, and with a part cut off.                               *)
NumeralInputs ==
  { Spelled(g, i, f, e, t) : g \in BOOLEAN, i \in Ints, f \in Fracs, e \in Exponents, t \in Tails }
  \cup
  { Spelled(g, i, f, e, << >>) :
    g \in BOOLEAN, i \in Ints \cup {<< 1, 0, 0, 0 >>}, f \in {<< >>, << 0, 5 >>}, e \in FarExponents }
  \cup
  { [ neg |-> FALSE, int |-> i, frac |-> << >>, exp |-> 0, plain |-> FALSE, whole |-> FALSE, tail |-> t,
      text |-> Chars(i) \o e \o t ] :
    i \in {<< 0 >>, << 7 >>, << 1, 5 >>}, e \in NoDigits \cup {<< 46 >>, << 46, 101, 49 >>}, t \in Tails }

WellFormedNumeral(a) == a.whole /\ a.int # << >> /\ (Len(a.int) > 1 => a.int[1] # 0)

Decimal(ds) == FoldLeft(LAMBDA v, d : v * 10 + d, 0, ds)

(* |a| * 10^5, exact for these numerals.                                   *)
Scaled(a) == Decimal(a.int \o a.frac) * 10 ^ (5 + a.exp - Len(a.frac))

FitsUint(a) == ~a.neg /\ Decimal(a.int) <= UMax
FitsSint(a) == a.neg /\ Decimal(a.int) <= IMax + 1

(* The digits of these numerals cannot make up for a far exponent.         *)
Far(a)      == a.exp \notin -5 .. 5
Nonzero(a)  == Decimal(a.int \o a.frac) > 0
Large(a)    == Nonzero(a) /\ IF Far(a) THEN a.exp > 0 ELSE Scaled(a) >= 10 ^ (5 + MaxExp10 + 1)
Tiny(a)     == Nonzero(a) /\ IF Far(a) THEN a.exp < 0 ELSE Scaled(a) < 10 ^ (5 + MinExp10)

(* The code decides between overflow and underflow without the fraction:   *)
(* it takes 0.005e2 for an overflow where doubles end between.  So it does *)
(* when the integer has more digits than the exponent may count up to:     *)
(* 1000e-20 where the limit is 2.                                          *)
Misjudged(a) ==
  \/ Tiny(a) /\ a.int = << 0 >> /\ a.exp > 1
  \/ Tiny(a) /\ a.exp <= -10 * ExpLimit /\ Len(a.int) - 1 > ExpLimit

(* A numeral is accepted when the grammar of RFC 8259 accepts it, up to    *)
(* where it ends; an integer that fits 64 bits is exact, the others are    *)
(* doubles, zero below their range and an error above it.  A quoted        *)
(* integer is the whole string and must fit its own type.                  *)
NumbersScanned ==
  On("numeral") =>
    LET a == arg
        n == Len(a.text) - Len(a.tail)
        exact == a.plain /\ (FitsUint(a) \/ FitsSint(a))
        value == IF a.neg THEN -Decimal(a.int) ELSE Decimal(a.int)
        quoted(r, fits) ==
          IF ~WellFormedNumeral(a) \/ ~exact \/ a.tail # << >> THEN r.code = "type_mismatch" /\ r.pos = 1
          ELSE IF fits THEN r = Text(<< value >>, FALSE, n + 3)
          ELSE r.code = "out_of_range" /\ r.pos = 1
    IN  /\ IF ~WellFormedNumeral(a) THEN out.scan.error = "invalid_number" /\ out.scan.kind = "undefined"
           ELSE IF exact THEN out.scan = Scan(IF a.neg THEN "sint" ELSE "uint", n, value, "none")
           ELSE IF Large(a) THEN out.scan.kind = "undefined" /\ out.scan.error = "out_of_range"
           ELSE Misjudged(a) \/ out.scan = Scan("real", n, IF Tiny(a) THEN << "zero" >> ELSE << "rounded" >>, "none")
        /\ quoted(out.unsigned, ~a.neg)
        /\ quoted(out.signed, value <= IMax)

-----------------------------------------------------------------------------
(* CBOR heads.                                                             *)

HeadValues   == 0 .. 40 \cup {254, 255, 256, 257, 65535}
HeadInputs   == [mt : 0 .. 7, value : HeadValues]
OrderInputs  == [1 .. 2 -> [mt : {0, 1, 3}, value : {0, 2, 3, 4, 15, 16, 18, 255, 256, 65535}]]

Arguments ==
  Upto({0, 1, 3}, 3) \cup [1 .. 4 -> {0, 3}]
  \cup {[i \in 1 .. 7 |-> 0] \o << 3 >>, [i \in 1 .. 8 |-> IF i = 5 THEN 1 ELSE 0], [i \in 1 .. 8 |-> IF i = 4 THEN 1 ELSE 0], [i \in 1 .. 8 |-> 3], [i \in 1 .. 7 |-> 1]}
HeadByteInputs == {<< >>} \cup {<< ib >> \o t : ib \in 0 .. BreakCode, t \in Arguments}

(* The least number of argument bytes for a value.                         *)
Least(v) == IF v < Inline THEN 0 ELSE Min({n \in {1, 2, 4, 8} : v < B ^ n})

Lexicographic(s, t) ==
  \/ IsStrictPrefix(s, t)
  \/ \E i \in DOMAIN s \cap DOMAIN t : s[i] < t[i] /\ \A j \in 1 .. i - 1 : s[j] = t[j]

(* A head that is made is the shortest for its value and is parsed as it   *)
(* was made; a head that is parsed is one of the shortest form exactly     *)
(* when making it again gives its bytes; one that is cut has no length.    *)
(* The bytewise order of two heads, on which the order of map keys rests,  *)
(* is the order of their major types and then of their values.             *)
HeadsCanonical ==
  /\ On("head") => /\ out.mt = arg.mt /\ out.value = arg.value /\ out.length = 1 + Least(arg.value)
                   /\ ~out.indefinite /\ ~out.reserved /\ ~out.is_break
  /\ On("integer") =>
       /\ out.json.kind = (IF arg < 0 THEN "sint" ELSE "uint") /\ out.json.value = arg
       /\ out.cbor.mt = (IF arg < 0 THEN 1 ELSE 0) /\ arg = IF arg < 0 THEN -1 - out.cbor.value ELSE out.cbor.value
  /\ On("headbytes") =>
       LET h == out.head
           n == IF arg # << >> /\ h.ai \in Inline .. Inline + 3 THEN 2 ^ (h.ai - Inline) ELSE 0
       IN  /\ h.length = IF arg = << >> \/ Len(arg) < 1 + n THEN 0 ELSE 1 + n
           /\ h.length > 0 /\ ~(h.mt = 7 /\ n > 1) =>
                out.shortest <=> ~h.indefinite /\ ~h.reserved /\ ~h.is_break /\ n = Least(h.value)
  /\ On("headpair") =>
       (Lexicographic(out[1], out[2]) <=>
          arg[1].mt < arg[2].mt \/ (arg[1].mt = arg[2].mt /\ arg[1].value < arg[2].value))

-----------------------------------------------------------------------------
(* Typed arrays.                                                           *)

Type(f, s, n) == [float |-> f, signed |-> s, size |-> n]
Types == {Type(FALSE, s, n) : s \in BOOLEAN, n \in {1, 2, 4}} \cup {Type(TRUE, TRUE, n) : n \in {4, 8}}

(* Doubles that a float holds, that are a tie and nearer to one side in a  *)
(* float, and that are past its range.                                     *)
Samples(e) ==
  IF e.float THEN {0, -6, 3 * B ^ 6} \cup IF e.size = 8 THEN {B ^ 2 + 2, -(B ^ 2) - 6, B ^ 5 + 1, B ^ 13 - B ^ 7} ELSE {}
  ELSE {MinOf(e), MaxOf(e), 1} \cup IF e.signed THEN {-1} ELSE {MaxOf(e) \div 2 + 2}

TypedInputs ==
  UNION { [ from : {e}, values : Upto(Samples(e), 2), writer : BOOLEAN, reader : BOOLEAN, to : Types,
            fixed : {NullSize, 1}, cut : {FALSE} ]
          \cup [ from : {e}, values : {<< v >> : v \in Samples(e)}, writer : {TRUE}, reader : {TRUE}, to : Types,
                 fixed : {NullSize}, cut : {TRUE} ] : e \in Types }

(* The numbers of the type float, the smaller of the two.                  *)
Singles == {s * m * B ^ x : s \in {-1, 1}, m \in 0 .. B ^ 2 - 1, x \in 0 .. B ^ 2 \div 2 - 1}

(* What v may be read as in an element type: a double holds every number   *)
(* here, a float those that are Singles; of a float the nearest one is     *)
(* read, of two that are as near the even one, and infinity beyond them.   *)
ReadAs(e, v, r) ==
  IF ~e.float \/ e.size = 8 \/ v \in Singles THEN r = v
  ELSE LET nearer == {y \in Singles : Abs(y - v) < Abs(r - v)}
           tied   == {y \in Singles : y # r /\ Abs(y - v) = Abs(r - v)}
           most   == Max(Singles)
       IN  IF 2 * (Abs(v) - most) >= B ^ (B ^ 2 \div 2 - 1) THEN r = IF v < 0 THEN -Infinite ELSE Infinite
           ELSE r \in Singles /\ nearer = {} /\ \A y \in tied : (r \div Abs(r - y)) % 2 = 0

(* What a host of either byte order writes as a typed array, a host of     *)
(* either order reads as the same numbers, in any element type that holds  *)
(* them.  An integer type refuses what it does not hold, and every float   *)
(* (only an empty array of floats is taken for one of integers); a float   *)
(* type refuses nothing and gives the nearest of its numbers instead.      *)
TypedArrayTravels ==
  On("typed") =>
    IF arg.cut /\ arg.from.size > 1 THEN out.code = "malformed_item"
    ELSE LET vs == IF arg.cut THEN << >> ELSE arg.values
         IN  IF arg.fixed # NullSize /\ arg.fixed # Len(vs) THEN out = Typed("type_mismatch", << >>)
             ELSE IF arg.from.float /\ ~arg.to.float /\ vs # << >> THEN out = Typed("type_mismatch", << >>)
             ELSE IF ~arg.to.float /\ \E i \in DOMAIN vs : vs[i] \notin MinOf(arg.to) .. MaxOf(arg.to)
                  THEN out = Typed("out_of_range", << >>)
             ELSE /\ out.code = "none" /\ Len(out.out) = Len(vs)
                  /\ \A i \in DOMAIN vs : ReadAs(arg.to, vs[i], out.out[i])

-----------------------------------------------------------------------------
(* Lookup.                                                                 *)

Entry(k, i) == [key |-> k, index |-> i]

(* "b" is an alias of the first member; "d" is no key.                     *)
MemberInputs ==
  [ entries : {<< Entry("a", 1), Entry("c", 2) >>, << Entry("a", 1), Entry("b", 1), Entry("c", 2) >>},
    hash : [1 .. Seeds -> [{"a", "b", "c", "d"} -> {0, 7, 9}]] ]

MemberFound ==
  \A k \in DOMAIN out :
    LET at == {i \in DOMAIN arg.entries : arg.entries[i].key = k}
    IN  out[k] = IF at = {} THEN NotFound ELSE arg.entries[Min(at)].index

KeySeqs   == {ks \in Upto({-5, -3, -1, 0, 2, 6}, 3) : \A i, j \in DOMAIN ks : ks[i] = ks[j] => i = j}
KeyInputs == [keys : KeySeqs, key : -KeyMax - 1 .. KeyMax]

(* For every key whose distance from the least key of a dense table fits   *)
(* 64 bits: the subtraction is undefined otherwise.                        *)
KeyFound ==
  LET at == {i \in DOMAIN arg.keys : arg.keys[i] = arg.key}
      exact == \A i \in DOMAIN arg.keys : arg.key - arg.keys[i] <= KeyMax
  IN  exact => out = IF at = {} THEN NotFound ELSE Max(at)

Words == Upto({1, 2}, 3)

SuggestInputs == [key : Words, names : Upto(Words, 2), skipped : {{}, {1}}, max : {2}]

(* The words one edit away from w.                                         *)
Edited(w) ==
  {SubSeq(w, 1, i) \o << c >> \o SubSeq(w, i + 1, Len(w)) : i \in 0 .. Len(w), c \in {1, 2}}
  \cup {RemoveAt(w, i) : i \in DOMAIN w} \cup {[w EXCEPT ![i] = c] : i \in DOMAIN w, c \in {1, 2}}

Near == [w \in Words |-> LET one == Edited(w) IN << {w}, one \cup {w}, UNION {Edited(v) : v \in one} \cup one \cup {w} >>]

NearestSuggested ==
  LET at(d) == {i \in DOMAIN arg.names \ arg.skipped : arg.names[i] \in Near[arg.key][d]}
  IN  out = IF at(3) = {} THEN NotFound ELSE Min(at(Min({d \in 1 .. 3 : at(d) # {}})))

(* Whatever the hash function and the seed chosen, each key and alias      *)
(* finds its member and no other name does; the dense and the sorted table *)
(* find exactly the members with an integer key; and an unknown name is    *)
(* answered with the first of the names the fewest edits away, at most     *)
(* two, among the members that are deserialized.                           *)
LookupFinds == (On("member") => MemberFound) /\ (On("key") => KeyFound) /\ (On("suggest") => NearestSuggested)

-----------------------------------------------------------------------------
InputTable ==
  [ utf8 |-> Utf8Inputs, bytes |-> ByteInputs, bytetext |-> ByteTextInputs, half |-> HalfInputs,
    string |-> StringInputs, literal |-> LiteralInputs, numeral |-> NumeralInputs, integer |-> -IMax - 1 .. UMax,
    head |-> HeadInputs, headbytes |-> HeadByteInputs, headpair |-> OrderInputs, typed |-> TypedInputs,
    member |-> MemberInputs, key |-> KeyInputs, suggest |-> SuggestInputs ]

CInputs == InputTable
CMinExp10 == -1

===============================================================================
