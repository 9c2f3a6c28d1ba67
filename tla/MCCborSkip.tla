------------------------------ MODULE MCCborSkip ------------------------------
(* Small inputs for CborSkip, and its agreement with the grammar.          *)
EXTENDS CborSkip, CborGrammar, SequencesExt

CONSTANT MaxTokens    \* bound: tokens of an input

(* Heads of every kind the validator tells apart.                          *)
GeneralHeads ==
  { MakeHead("uint", 0), MakeHead("tag", 1), BreakByte,
    MakeHead("array", 0), MakeHead("array", 2), IndefiniteHead("array"),
    MakeHead("map", 1), IndefiniteHead("map"),
    MakeHead("text", 1), [MakeHead("text", 1) EXCEPT !.valid = FALSE],
    [MakeHead("text", 0) EXCEPT !.reserved = TRUE], IndefiniteHead("text"),
    [MakeHead("simple", 1) EXCEPT !.valid = FALSE] }

(* A head or a payload the input cuts off can only come last.              *)
LastOnly ==
  { [MakeHead("uint", 0) EXCEPT !.cut = "head"], [MakeHead("text", 2) EXCEPT !.cut = "body"] }

(* Containers alone, for longer inputs.                                    *)
NestHeads ==
  { MakeHead("uint", 0), BreakByte, MakeHead("array", 2), IndefiniteHead("array"), MakeHead("map", 1), IndefiniteHead("map") }

(* Heads that matter to deterministic mode: longer than necessary, keys in *)
(* and out of order, keys that are themselves containers.                  *)
StrictHeads ==
  { MakeHead("uint", 0), MakeHead("uint", 1), [MakeHead("uint", 0) EXCEPT !.shortest = FALSE],
    MakeHead("tag", 1), [MakeHead("tag", 1) EXCEPT !.shortest = FALSE],
    MakeHead("array", 1), MakeHead("map", 0), MakeHead("map", 1), MakeHead("map", 2), IndefiniteHead("array"),
    [MakeHead("simple", 0) EXCEPT !.shortest = FALSE] }

StrictKeys ==
  { MakeHead("uint", 0), MakeHead("uint", 1), MakeHead("tag", 1), MakeHead("array", 1), MakeHead("map", 1), MakeHead("map", 2) }

(* A count whose double exceeds the width (W is 8 here, 2^64 in the code). *)
WideHeads == { MakeHead("uint", 0), MakeHead("map", 4), MakeHead("map", 5), MakeHead("array", 7), IndefiniteHead("map"), BreakByte }

(* Inputs of at most max heads that do not go on once the first item is    *)
(* complete or can no longer be completed.                                 *)
InputsOver(heads, max) ==
  { s \in BoundedSeq(heads, max) :
      \A i \in 1 .. Len(s) - 1 :
        s[i].cut = "none" /\ ItemEnd(SubSeq(s, 1, i), 1, MaxDepth, FALSE) = More }

AllInputs ==
  UNION { InputsOver(GeneralHeads \cup LastOnly, MaxTokens),
          InputsOver(NestHeads, MaxTokens + 1),
          InputsOver(WideHeads, MaxTokens) }

DeterministicInputs ==
  UNION { InputsOver(StrictHeads, MaxTokens), InputsOver(StrictKeys, MaxTokens + 2) }

-----------------------------------------------------------------------------
End == ItemEnd(in, 1, MaxDepth - base, ValidateUtf8)

(* The two heads on which the validator and RFC 8949 part ways: a string   *)
(* head with reserved additional information (accepted as an empty chunk), *)
(* and a map of 2^63 or more pairs (its count doubles past 64 bits).       *)
Regular ==
  \A i \in DOMAIN in :
    /\ in[i].mt \in String => ~in[i].reserved
    /\ in[i].mt = "map" => 2 * in[i].value < W

(* skip_value accepts exactly the well-formed items nested at most         *)
(* max_depth deep and stops right after the item; it reports truncated     *)
(* exactly when the input ends before the item does.  What the explicit    *)
(* stack and the gotos compute is what the grammar defines by recursion.   *)
SkipsWellFormed ==
  Regular /\ ~strict =>
    /\ pc = "ok" => End = pos + 1
    /\ pc = "fail" => IF err = "truncated" THEN End = More ELSE End = Reject

(* Deterministic mode accepts an item exactly when it is well-formed and   *)
(* in core deterministic encoding: shortest heads everywhere (tags and     *)
(* counts included), no indefinite length, keys strictly increasing in     *)
(* every map, the maps inside keys included.                               *)
AcceptsDeterministic ==
  strict /\ pc \in {"ok", "fail"} =>
    (pc = "ok" <=> End > 0 /\ Deterministic(in, 1, End, ValidateUtf8))

===============================================================================
