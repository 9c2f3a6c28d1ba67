----------------------------- MODULE Conversions ------------------------------
(***************************************************************************)
(* The pure conversions of the library, each applied once to one of the    *)
(* inputs: op names the conversion, arg is its input, out its result.      *)
(***************************************************************************)
EXTENDS JsonText, CborHeads, Lookup

CONSTANT Inputs     \* for every conversion, the inputs it is applied to

VARIABLES op, arg, out

vars == << op, arg, out >>

Init == op = "none" /\ arg = << >> /\ out = << >>

Apply(name, f(_)) ==
  /\ op = "none"
  /\ op' = name
  /\ \E a \in Inputs[name] : arg' = a /\ out' = f(a)

-----------------------------------------------------------------------------
(* core/lower.hpp.                                                         *)

Utf8 == Apply("utf8", ValidateUtf8)

(* Bytes written as a string of JSON and read again.                       *)
EncodeBytes(b, enc) == IF enc = "hex" THEN HexEncode(b) ELSE Base64Encode(b, enc = "base64url")

ByteString ==
  Apply("bytes", LAMBDA a :
    LET text == EncodeBytes(a.bytes, a.enc)
    IN  [text |-> text, back |-> DecodeBytes(<< Quote >> \o text \o << Quote >>, a.enc)])

ByteText == Apply("bytetext", LAMBDA a : DecodeBytes(<< Quote >> \o a.text \o << Quote >>, a.enc))

Half == Apply("half", LAMBDA d : [exact |-> ToHalf(d), rounded |-> ToHalfRounded(d)])

(* json/escape.hpp, json/read.hpp and json/number.hpp.                     *)

String ==
  Apply("string", LAMBDA s :
    [text |-> WriteString(s), key |-> PreparedKeyBlob(s, FALSE), back |-> ParseString(WriteString(s), 1)])

Literal == Apply("literal", LAMBDA a : ParseString(a.text, 1))

Numeral ==
  Apply("numeral", LAMBDA a :
    LET quoted == << Quote >> \o a.text \o << Quote >>
    IN  [scan |-> ScanNumber(a.text), unsigned |-> QuotedInteger(quoted, TRUE), signed |-> QuotedInteger(quoted, FALSE)])

Integer ==
  Apply("integer", LAMBDA i :
    [json |-> ScanNumber(WriteSint(i)), cbor |-> ParseHead(AppendInt(i), 1)])

(* cbor/head.hpp and the typed arrays.                                     *)

MadeHead == Apply("head", LAMBDA a : ParseHead(MakeHeadBytes(a.mt, a.value), 1))

HeadBytes == Apply("headbytes", LAMBDA b : [head |-> ParseHead(b, 1), shortest |-> Shortest(ParseHead(b, 1))])

HeadPair == Apply("headpair", LAMBDA p : [i \in 1 .. 2 |-> MakeHeadBytes(p[i].mt, p[i].value)])

TypedArray ==
  Apply("typed", LAMBDA a :
    LET bytes == WriteRange(a.from, a.values, a.writer)
    IN  TypedArrayInto(TypedArrayTag(a.from, a.writer), IF a.cut THEN Front(bytes) ELSE bytes, a.to, a.reader, a.fixed))

(* core/lookup.hpp and core/keys.hpp.                                      *)

Member ==
  Apply("member", LAMBDA a :
    LET t == BuildLookup(a.entries, a.hash) IN [k \in DOMAIN a.hash[1] |-> Find(t, a.hash, k)])

IntegerKey == Apply("key", LAMBDA a : FindKey(BuildKeyTable(a.keys), a.key))

Suggestion == Apply("suggest", LAMBDA a : Suggest(a.key, a.names, a.skipped, a.max))

Next ==
  \/ Utf8 \/ ByteString \/ ByteText \/ Half
  \/ String \/ Literal \/ Numeral \/ Integer
  \/ MadeHead \/ HeadBytes \/ HeadPair \/ TypedArray
  \/ Member \/ IntegerKey \/ Suggestion

Spec == Init /\ [][Next]_vars

===============================================================================
