-------------------------------- MODULE MCJson --------------------------------
(* Texts for Json, and the grammar of JSON as the reference for it.        *)
EXTENDS Json

CONSTANTS
  MaxShort,   \* bound: length of the texts that are enumerated
  MaxDoc      \* bound: length of the documents that are damaged

Number == Mark("number")
Text   == Mark("text")
Colon  == Mark(":")

Fits(ss, n) == {s \in ss : Len(s) <= n}

(* Comma-separated rows of at most w members of ss, n tokens in all.       *)
RECURSIVE Rows(_, _, _)
Rows(ss, w, n) ==
  IF w = 0 THEN {}
  ELSE Fits(ss, n) \cup UNION { {s \o << Mark(",") >> \o r : r \in Rows(ss, w - 1, n - Len(s) - 1)} : s \in Fits(ss, n) }

Bracketed(c, rows) == {<< Mark(c) >> \o r \o << Mark(Closing(c)) >> : r \in rows \cup {<< >>}}

(* Documents of at most n tokens.                                          *)
RECURSIVE Docs(_)
Docs(n) ==
  IF n <= 0 THEN {}
  ELSE {<< Number >>}
       \cup (IF n < 2 THEN {}
             ELSE LET inner == Docs(n - 2)
                  IN  Bracketed("[", Rows(inner, 2, n - 2))
                      \cup Bracketed("{", Rows({<< Text, Colon >> \o d : d \in Fits(inner, n - 4)}, 2, n - 2)))

(* A document with one token replaced, removed or cut off after.           *)
Damaged(s) ==
  {SubSeq(s, 1, i - 1) \o << t >> \o SubSeq(s, i + 1, Len(s)) : i \in DOMAIN s, t \in Token}
    \cup {SubSeq(s, 1, i - 1) \o SubSeq(s, i + 1, Len(s)) : i \in DOMAIN s}
    \cup {SubSeq(s, 1, i) \o << Mark("ws") >> \o SubSeq(s, i + 1, Len(s)) : i \in 0 .. Len(s)}
    \cup {SubSeq(s, 1, i) : i \in 0 .. Len(s)}

ShortTexts == UNION {[1 .. n -> Token] : n \in 0 .. MaxShort}

AllInputs == {s \in ShortTexts \cup UNION {Damaged(d) : d \in Docs(MaxDoc)} : IsText(s)}

-----------------------------------------------------------------------------
(* Where the value at index i of s ends, with at most d containers inside  *)
(* one another; Reject, or More when s ends first.                         *)
Reject == 0
More   == -1

RECURSIVE Ws(_, _), ValueEnd(_, _, _), RowEnd(_, _, _, _)

Ws(s, i) == IF i <= Len(s) /\ s[i].k = "ws" THEN Ws(s, i + 1) ELSE i

(* The value at i, after its key in an object.                             *)
ItemEnd(s, i, d, c) ==
  IF c = "[" THEN ValueEnd(s, i, d)
  ELSE LET k == ValueEnd(s, i, d)
           j == Ws(s, k)
       IN  IF i > Len(s) THEN More
           ELSE IF s[i].k # "text" THEN Reject
           ELSE IF k <= 0 THEN k
           ELSE IF j > Len(s) THEN More
           ELSE IF s[j].k # ":" THEN Reject
           ELSE ValueEnd(s, Ws(s, j + 1), d)

(* Items and commas up to the closing bracket.                             *)
RowEnd(s, i, d, c) ==
  LET e == ItemEnd(s, i, d, c)
      j == Ws(s, e)
  IN  IF e <= 0 THEN e
      ELSE IF j > Len(s) THEN More
      ELSE IF s[j].k = "," THEN RowEnd(s, Ws(s, j + 1), d, c)
      ELSE IF s[j].k = Closing(c) THEN j + 1
      ELSE Reject

ValueEnd(s, i, d) ==
  IF i > Len(s) THEN More
  ELSE IF s[i].k \in Scalar THEN (IF s[i].v = "ok" THEN i + 1 ELSE IF s[i].v = "truncated" THEN More ELSE Reject)
  ELSE IF s[i].k \notin Opening \/ d = 0 THEN Reject
  ELSE LET j == Ws(s, i + 1)
       IN  IF j <= Len(s) /\ s[j].k = Closing(s[i].k) THEN j + 1
           ELSE IF j > Len(s) THEN More
           ELSE RowEnd(s, j, d - 1, s[i].k)

(* skip_value accepts exactly the values of the grammar that do not nest   *)
(* beyond max_depth, stops right after them, and says "truncated" exactly  *)
(* when the text is the beginning of such a value and does not end inside  *)
(* a string, which has a code of its own.                                  *)
SkipsValues ==
  reading \in {"walk", "none"} =>
    LET e == ValueEnd(in, Ws(in, 1), MaxDepth - base)
    IN  IF e > 0 THEN skipped.code = "none" /\ skipped.pos = e
        ELSE skipped.code # "none" /\ (skipped.code = "truncated" <=> e = More)

===============================================================================
