----------------------------- MODULE CborGrammar ------------------------------
(***************************************************************************)
(* Well-formedness of a data item (RFC 8949, section 3 and appendix C), as *)
(* a recursive-descent definition over tokens, independent of the code's   *)
(* loop: the reference the validator is checked against.                   *)
(*                                                                         *)
(* Each operator returns the index after what it recognises at index i of  *)
(* s, Reject, or More when s ends first.  d is the number of container     *)
(* levels that may be opened; utf8 says whether text is validated.         *)
(***************************************************************************)
EXTENDS CborTokens

Reject == 0
More   == -1

RECURSIVE ItemEnd(_, _, _, _), ItemsEnd(_, _, _, _, _), BodyEnd(_, _, _, _, _), ChunksEnd(_, _, _, _)

(* A complete definite-length string.                                      *)
StringEnd(s, i, utf8) ==
  IF s[i].cut = "body" THEN More
  ELSE IF s[i].mt = "text" /\ utf8 /\ ~s[i].valid THEN Reject
  ELSE i + 1

(* Chunks of an indefinite-length string of major type mt, and the break.  *)
ChunksEnd(s, i, mt, utf8) ==
  IF i > Len(s) \/ s[i].cut = "head" THEN More
  ELSE IF s[i].mt = "break" THEN i + 1
  ELSE IF s[i].mt # mt \/ s[i].indefinite \/ s[i].reserved THEN Reject
  ELSE LET j == StringEnd(s, i, utf8)
       IN  IF j <= 0 THEN j ELSE ChunksEnd(s, j, mt, utf8)

(* Exactly n items.                                                        *)
ItemsEnd(s, i, d, n, utf8) ==
  IF n = 0 THEN i
  ELSE LET j == ItemEnd(s, i, d, utf8)
       IN  IF j <= 0 THEN j ELSE ItemsEnd(s, j, d, n - 1, utf8)

(* Groups of k items up to a break.                                        *)
BodyEnd(s, i, d, k, utf8) ==
  IF i <= Len(s) /\ s[i].mt = "break" THEN i + 1
  ELSE LET j == ItemsEnd(s, i, d, k, utf8)
       IN  IF j <= 0 THEN j ELSE BodyEnd(s, j, d, k, utf8)

ItemEnd(s, i, d, utf8) ==
  IF i > Len(s) \/ s[i].cut = "head" THEN More
  ELSE IF s[i].mt = "break" \/ s[i].reserved THEN Reject
  ELSE LET t == s[i]
           k == IF t.mt = "map" THEN 2 ELSE 1
       IN  CASE t.mt \in {"uint", "nint"} -> i + 1
             [] t.mt = "simple"           -> IF t.valid THEN i + 1 ELSE Reject
             [] t.mt = "tag"              -> ItemEnd(s, i + 1, d, utf8)
             [] t.mt \in String           -> IF t.indefinite THEN ChunksEnd(s, i + 1, t.mt, utf8)
                                             ELSE StringEnd(s, i, utf8)
             [] t.mt \in Container        -> IF d = 0 THEN Reject
                                             ELSE IF t.indefinite THEN BodyEnd(s, i + 1, d - 1, k, utf8)
                                             ELSE ItemsEnd(s, i + 1, d - 1, k * t.value, utf8)

-----------------------------------------------------------------------------
(* Core deterministic encoding (RFC 8949, section 4.2.1) of the well-      *)
(* formed item in s[i .. j - 1].                                           *)

(* Starts of the items that are direct children of the container at i.     *)
RECURSIVE ChildStarts(_, _, _, _)
ChildStarts(s, i, n, utf8) ==
  IF n = 0 THEN << >>
  ELSE << i >> \o ChildStarts(s, ItemEnd(s, i, Len(s), utf8), n - 1, utf8)

SortedKeys(s, i, utf8) ==
  LET n      == s[i].value
      starts == ChildStarts(s, i + 1, 2 * n, utf8)
      key(k) == SubSeq(s, starts[2 * k - 1], starts[2 * k] - 1)
  IN  \A k \in 1 .. n - 1 : EncodedLess(key(k), key(k + 1))

Deterministic(s, i, j, utf8) ==
  \A k \in i .. j - 1 :
    /\ s[k].shortest /\ ~s[k].indefinite
    /\ s[k].mt = "map" => SortedKeys(s, k, utf8)

(* The same, but for floats in a longer form than the preferred one.       *)
DeterministicButFloats(s, i, j, utf8) ==
  LET float(t) == t.mt = "simple" /\ t.value \in 25 .. 27
  IN  Deterministic([k \in DOMAIN s |-> [s[k] EXCEPT !.shortest = @ \/ float(s[k])]], i, j, utf8)

===============================================================================
