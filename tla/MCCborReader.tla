----------------------------- MODULE MCCborReader -----------------------------
(* Small inputs for CborReader, and the failing heads of MCCborSkip.       *)
EXTENDS CborReader, MCCborSkip

(* A head of every kind that peek and the expect_* calls tell apart: null, *)
(* a boolean, a float, a simple value, integers beyond int64_t.            *)
KindHeads ==
  { MakeHead("simple", 21), MakeHead("simple", 22), MakeHead("simple", 25), MakeHead("simple", 32),
    [MakeHead("simple", 20) EXCEPT !.valid = FALSE], MakeHead("nint", IntMax + 1), MakeHead("array", 1) }

(* Strings, chunks, and the tags that take a byte string.                  *)
StringHeads ==
  { MakeHead("bytes", 1), IndefiniteHead("bytes"), MakeHead("text", 1), IndefiniteHead("text"), BreakByte,
    [MakeHead("text", 1) EXCEPT !.valid = FALSE], MakeHead("tag", 2), MakeHead("tag", SelfDescribe), MakeHead("uint", 0) }

ReadHeads ==
  { MakeHead("uint", 0), MakeHead("tag", 1), BreakByte, MakeHead("array", 0), MakeHead("array", 2),
    IndefiniteHead("array"), MakeHead("map", 1), IndefiniteHead("map"), MakeHead("map", W \div 2),
    [MakeHead("tag", 0) EXCEPT !.reserved = TRUE] }

ReadInputs ==
  UNION { InputsOver(KindHeads, 2), InputsOver(StringHeads \cup LastOnly, MaxTokens),
          InputsOver(ReadHeads \cup LastOnly, MaxTokens),
          { << MakeHead("array", 0), MakeHead("uint", 0) >> } }

ReadStrictHeads ==
  { MakeHead("uint", 0), MakeHead("uint", 1), [MakeHead("uint", 0) EXCEPT !.shortest = FALSE],
    MakeHead("tag", 1), [MakeHead("tag", 1) EXCEPT !.shortest = FALSE],
    MakeHead("array", 1), MakeHead("map", 1), MakeHead("map", 2), IndefiniteHead("text"),
    [MakeHead("simple", 26) EXCEPT !.shortest = FALSE] }

ReadStrictInputs ==
  UNION { InputsOver(ReadStrictHeads, MaxTokens), InputsOver(StrictKeys \ {MakeHead("tag", 1)}, MaxTokens + 2) }

===============================================================================
