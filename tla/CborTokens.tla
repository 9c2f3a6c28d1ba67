------------------------------ MODULE CborTokens ------------------------------
(***************************************************************************)
(* The bytes a cbor::reader walks over, one token per data item head.      *)
(*                                                                         *)
(* A token is what parse_head (cbor/head.hpp) returns for the head that    *)
(* starts at a position, together with the payload of a definite-length    *)
(* string.  Encodings of tokens are prefix-free, so the bytewise order of  *)
(* two encodings is the lexicographic order of the token sequences.        *)
(***************************************************************************)
EXTENDS Integers, Sequences

CONSTANT
  W     \* the number of values of the 64-bit argument of a head (2^64)

ASSUME WidthAssumption == W \in Nat /\ W > 2 /\ W % 2 = 0

(* Initial bytes 0xFF and the eight major types, in the order of their     *)
(* encoding.                                                               *)
MajorOrder ==
  << "uint", "nint", "bytes", "text", "array", "map", "tag", "simple" >>

Major     == {MajorOrder[i] : i \in 1 .. 8}
String    == {"bytes", "text"}
Container == {"array", "map"}

(***************************************************************************)
(* Fields of a token:                                                      *)
(*   mt          the major type, or "break" for the byte 0xFF              *)
(*   value       the argument: a count, a length, a number or a tag        *)
(*   data        stands for the payload of a string (its bytewise rank)    *)
(*   indefinite  additional information 31                                 *)
(*   reserved    additional information 28..30 (31 on uint, nint, tag)     *)
(*   shortest    the argument is in its shortest form; for a float, the    *)
(*               width is the one check_preferred_float asks for           *)
(*   valid       text: the payload is UTF-8.  simple: not a two-byte       *)
(*               simple value below 32                                     *)
(*   cut         "head" if the input ends inside the head (parse_head      *)
(*               returns length 0), "body" if it ends inside the payload   *)
(***************************************************************************)
Token ==
  [ mt         : Major \cup {"break"},
    value      : 0 .. W - 1,
    data       : Nat,
    indefinite : BOOLEAN,
    reserved   : BOOLEAN,
    shortest   : BOOLEAN,
    valid      : BOOLEAN,
    cut        : {"none", "head", "body"} ]

(* Nothing follows a head or a payload that the input cuts off.            *)
IsInput(s) ==
  /\ s \in Seq(Token)
  /\ \A i \in DOMAIN s : s[i].cut # "none" => i = Len(s)

(* The heads a writer makes: make_head, always in its shortest form,       *)
(* make_indefinite_head, and the break byte.                               *)
MakeHead(m, v) ==
  [ mt |-> m, value |-> v, data |-> 0, indefinite |-> FALSE, reserved |-> FALSE,
    shortest |-> TRUE, valid |-> TRUE, cut |-> "none" ]

IndefiniteHead(m) == [MakeHead(m, 0) EXCEPT !.indefinite = TRUE]
BreakByte         == MakeHead("break", 0)

-----------------------------------------------------------------------------
(* Bytewise order of encoded keys (key_order_error, cbor/read.hpp).        *)

MajorRank(t) == CHOOSE i \in 1 .. 8 : MajorOrder[i] = t.mt

TokenLess(a, b) ==
  \/ MajorRank(a) < MajorRank(b)
  \/ MajorRank(a) = MajorRank(b) /\ a.value < b.value
  \/ MajorRank(a) = MajorRank(b) /\ a.value = b.value /\ a.data < b.data

EncodedLess(s, t) ==
  \E n \in 0 .. Len(s) :
    /\ n < Len(t)
    /\ \A i \in 1 .. n : s[i] = t[i]
    /\ n = Len(s) \/ TokenLess(s[n + 1], t[n + 1])

===============================================================================
