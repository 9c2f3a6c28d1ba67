----------------------------- MODULE MCSinkClient -----------------------------
(* Small strings and keys for SinkClient, and what its output is.          *)
EXTENDS SinkClient

G == INSTANCE CborGrammar

(* The options of a writer.                                                *)
Opts(d, i, u) == [deterministic |-> d, indefinite |-> i, validate_utf8 |-> u]

Sorting == Opts(TRUE, FALSE, TRUE)
Plain   == Opts(FALSE, FALSE, TRUE)
Both    == {Sorting, Plain}
JustOne == {Plain}

CallBounds == [o \in Both |-> IF o.deterministic THEN 8 ELSE 6]

Str(m, size, data, valid, bounds) ==
  [mt |-> m, size |-> size, data |-> data, valid |-> valid, bounds |-> bounds]

(* Text that is UTF-8, of a size that makes two chunks, and text that is   *)
(* not; bytes; a character of two bytes that straddles the end of a chunk. *)
SomeTexts ==
  { Str("text", 3, 0, TRUE, 0 .. 3), Str("text", 1, 1, FALSE, {0, 1}), Str("bytes", 1, 0, TRUE, {0, 1}) }
LongTexts == { Str("text", 3, 0, TRUE, {0, 1, 3}) }

(* 1.0, in the preferred width and as a double; 1e300, as a half.          *)
SomeReals ==
  { [data |-> 0, range |-> 1, least |-> << 1, 1, 1 >>, width |-> w] : w \in {Preferred, 3} }
    \cup { [data |-> 1, range |-> 3, least |-> << 1, 2, 3 >>, width |-> 1] }

TwoKeys == { MakeHead("uint", 0), MakeHead("uint", 1) }

Complete == calls > 0 /\ plan = << >> /\ ~tagged /\ err = "none"

(* What the writer has put out when the caller is done is one well-formed  *)
(* item that a reader with the same max_depth accepts, however maps and    *)
(* arrays of known and unknown size, keys that are containers and tags     *)
(* were nested, and nothing is left in a buffer.                           *)
OutputWellFormed ==
  Complete => frames = << >> /\ G!ItemEnd(out, 1, MaxDepth, opts.validate_utf8) = Len(out) + 1

(* A string the writer splits into chunks is one its reader accepts.       *)
ChunkedAccepted ==
  Complete /\ out[1].mt = "text" /\ out[1].indefinite =>
    G!ItemEnd(out, 1, MaxDepth, opts.validate_utf8) = Len(out) + 1

(* In deterministic mode that item is in core deterministic encoding,      *)
(* except where a float was asked for in a width of its own: real and      *)
(* write_real do not look at `deterministic', so such a float may be       *)
(* longer than the preferred form.                                         *)
OutputDeterministic ==
  Complete /\ opts.deterministic =>
    G!DeterministicButFloats(out, 1, Len(out) + 1, opts.validate_utf8)

(***************************************************************************)
(* The item at s[i] with every container and string in definite form and   *)
(* the entries of maps sorted: two items mean the same if this is the      *)
(* same.  A reference that shares nothing with the writer.                 *)
(***************************************************************************)
RECURSIVE Starts(_, _, _)
Starts(s, i, n) ==
  IF n = 0 \/ s[i].mt = "break" THEN << >>
  ELSE << i >> \o Starts(s, G!ItemEnd(s, i, Len(s), FALSE), n - 1)

RECURSIVE Canonical(_, _)
Canonical(s, i) ==
  LET t      == s[i]
      starts == Starts(s, i + 1, IF t.indefinite THEN -1 ELSE IF t.mt = "map" THEN 2 * t.value ELSE t.value)
      kids   == [k \in DOMAIN starts |-> Canonical(s, starts[k])]
      pairs  == [k \in 1 .. Len(kids) \div 2 |-> kids[2 * k - 1] \o kids[2 * k]]
      size   == FoldSeq(LAMBDA k, n : s[k].value + n, 0, starts)
  IN  CASE t.mt = "tag"   -> << t >> \o Canonical(s, i + 1)
        [] t.mt = "array" -> << MakeHead("array", Len(kids)) >> \o FlattenSeq(kids)
        [] t.mt = "map"   -> << MakeHead("map", Len(pairs)) >> \o FlattenSeq(SortSeq(pairs, EncodedLess))
        [] t.mt \in {"text", "bytes"} /\ t.indefinite ->
             << [MakeHead(t.mt, size) EXCEPT !.data = s[starts[1]].data] >>
        [] OTHER          -> << t >>

(* The item means what the calls said, whatever was buffered, moved and    *)
(* sorted on the way: no key, value, tag or chunk is lost, written twice   *)
(* or written into another container or behind another key.                *)
OutputMeansCalls == Complete => Canonical(out, 1) = Canonical(said, 1)

===============================================================================
