------------------------------- MODULE MCEncode -------------------------------
(* Small values for Encode, and what encoding them should give.            *)
EXTENDS Encode

G == INSTANCE CborGrammar

-----------------------------------------------------------------------------
(* Options and values.                                                     *)

Opts(d, i, u) == [deterministic |-> d, indefinite |-> i, validate_utf8 |-> u]

AllOptions == { Opts(TRUE, FALSE, TRUE), Opts(FALSE, TRUE, FALSE), Opts(FALSE, FALSE, TRUE) }
Plain      == { Opts(FALSE, FALSE, TRUE) }

Str(m, size, data, valid) == [mt |-> m, size |-> size, data |-> data, valid |-> valid, bounds |-> 0 .. size]

Num(n)         == [k |-> "leaf", t |-> MakeHead("uint", n)]
Name(d)        == Str("text", 1, d, TRUE)
Enumerator(ok) == [k |-> "enum", ok |-> ok, t |-> MakeHead("uint", 2)]
TypedArray     == [k |-> "range", tag |-> 7, s |-> Str("bytes", 2, 0, TRUE)]
Arr(s, is)     == [k |-> "array", sized |-> s, tuple |-> FALSE, items |-> is]
Tuple(is)      == [k |-> "array", sized |-> TRUE, tuple |-> TRUE, items |-> is]
Entry(key, v)  == [key |-> key, val |-> v]
MapOf(s, es)   == [k |-> "map", sized |-> s, entries |-> es]
Struct(ms)     == [k |-> "struct", members |-> ms, tags |-> << >>]
Wrap(m)        == [k |-> "wrap", members |-> << m >>, tags |-> << >>]
Ref(r)         == [k |-> "ref", to |-> r]
Var(n, v)      == [k |-> "variant", tag |-> Name(1), name |-> Name(n), alt |-> v]
NoAlternative  == Var(0, [k |-> "none"])

Member(n, key, v) ==
  [ name |-> n, key |-> key, val |-> v, default |-> Num(0), skip |-> FALSE,
    skip_if_null |-> FALSE, skip_if_default |-> FALSE, tags |-> << >>, indef |-> FALSE ]

(* Keys of one byte, in order: 1, "a", "b", "c".  A tag has the key "b".   *)
K1 == MakeHead("uint", 1)
Ka == StringToken(Name(0))
Kc == StringToken(Name(2))

(* 1.0 as a double and in the preferred width; 1e300 as a half.            *)
RealOf(d, r, l, w) == [k |-> "real", d |-> [data |-> d, range |-> r, least |-> l, width |-> w]]
Pinned  == RealOf(0, 1, << 1, 1, 1 >>, 3)
Short   == RealOf(0, 1, << 1, 1, 1 >>, Preferred)
TooFar  == RealOf(1, 3, << 1, 2, 3 >>, 1)

Leaves == { Pinned, Short, TooFar, Num(0), NullValue, Text(Str("text", 3, 0, TRUE)), Text(Str("text", 1, 0, FALSE)),
            Enumerator(TRUE), Enumerator(FALSE) }

Good == { Pinned, Num(0), NullValue, Text(Str("text", 3, 0, TRUE)) }

(* Members declared in an order that is not that of their keys, one of     *)
(* each kind of condition.                                                 *)
TwoMembers(vs) ==
  { Struct(<< [Member("c", Kc, v) EXCEPT !.skip_if_null = TRUE, !.tags = << 3 >>, !.indef = TRUE],
              [Member("h", K1, w) EXCEPT !.skip = h],
              [Member("a", Ka, w) EXCEPT !.skip_if_default = TRUE] >>) : v \in vs, w \in vs, h \in BOOLEAN }
  \cup { Struct(<< [Member("c", Kc, v) EXCEPT !.tags = << 3 >>], [Member("h", K1, v) EXCEPT !.skip = TRUE], Member("a", Ka, v) >>) : v \in vs }

Keys == { Name(2), [mt |-> "uint", n |-> 1], Name(0) }
BadKey == Str("text", 1, 0, FALSE)

Maps(vs) ==
  { MapOf(s, << Entry(k, v), Entry(l, w) >>) : s \in BOOLEAN, k \in Keys, l \in Keys, v \in vs, w \in vs }
  \cup { MapOf(s, << >>) : s \in BOOLEAN }
  \cup { MapOf(TRUE, << Entry(BadKey, v) >>) : v \in vs }

Arrays(vs) ==
  UNION { { Arr(s, << v, w >>) : s \in BOOLEAN, v \in vs, w \in vs },
          { Tuple(<< v, w >>) : v \in vs, w \in vs }, { Arr(FALSE, << >>) } }

(* A variant is a member, or an element of one.                            *)
Held(v) == Struct(<< Member("x", Ka, v) >>)

Variants(vs) == { Held(Var(0, v)) : v \in vs } \cup { Held(NoAlternative) }

Wraps(vs) == { Wrap(Member("w", Ka, v)) : v \in vs }

One == UNION { Leaves, TwoMembers(Good \cup {TypedArray}), Maps({Num(0), Enumerator(FALSE)}), Arrays(Good), Variants(Good), Wraps(Leaves) }

(* Containers of containers.                                               *)
Inner == UNION { { Struct(<< [Member("c", Kc, NullValue) EXCEPT !.skip_if_null = n], Member("a", Ka, Num(0)) >>) : n \in BOOLEAN },
                 { MapOf(s, << Entry(Name(2), Num(1)), Entry(Name(k), Num(2)) >>) : s \in BOOLEAN, k \in {0, 2} },
                 { Arr(TRUE, << Short, TooFar >>) },
                 { Arr(s, << Num(1), Enumerator(b) >>) : s \in BOOLEAN, b \in BOOLEAN },
                 { Arr(FALSE, << Text(Str("text", 3, 0, TRUE)) >>) } }

Two == UNION { TwoMembers(Inner), Maps(Inner), Arrays(Inner),
               Variants(Inner \cup TwoMembers({Num(0), NullValue})), Wraps(Inner) }

Three == UNION { { Arr(s, << v >>) : s \in BOOLEAN, v \in Arrays(Inner) },
                 { Held(MapOf(TRUE, << Entry(Name(2), Var(0, v)), Entry(Name(0), Var(0, v)) >>)) : v \in Inner } }

(* Lists that end and that do not, one of them through a transparent       *)
(* struct; the pointers are optional_like.                                 *)
Node(next) == Struct(<< [Member("v", Kc, Num(1)) EXCEPT !.skip_if_default = TRUE],
                        [Member("next", Ka, next) EXCEPT !.skip_if_null = TRUE, !.tags = << 5 >>] >>)
SomeHeap == [ last |-> Node(NullValue), first |-> Node(Ref("last")), cycle |-> Node(Ref("cycle")),
              loop |-> Wrap(Member("w", Ka, Held(Ref("loop")))),
              name |-> Wrap(Member("w", Ka, Num(2))) ]

Pointers ==
  UNION { {v, Arr(TRUE, << v, v >>), MapOf(TRUE, << Entry(Name(0), v) >>), Held(Var(0, v)), Held(v)}
          : v \in {Ref(r) : r \in DOMAIN SomeHeap} }

(* Types with a tag of their own, as in the tests of the encoder.          *)
TaggedRecords ==
  { [r EXCEPT !.tags = << 3 >>] : r \in {Wrap(Member("w", Ka, Num(5))), Struct(<< Member("a", Ka, Num(1)) >>)} }

AllValues == UNION { One, Two, Three, Pointers, TaggedRecords, {Held(r) : r \in TaggedRecords} }

(* A transparent struct whose member is tagged.                            *)
TaggedWraps == { Wrap([Member("w", Ka, v) EXCEPT !.tags = << 3 >>]) : v \in Good } \cup One

-----------------------------------------------------------------------------
(* The reference: the encoding of a value, by recursion.                   *)

RECURSIVE Enc(_, _)

Delimit(m, n, sized, body) ==
  IF opts.deterministic \/ (sized /\ ~opts.indefinite) THEN << MakeHead(m, n) >> \o body
  ELSE << IndefiniteHead(m) >> \o body \o << BreakByte >>

TokensOf(es) == FlattenSeq([i \in DOMAIN es |-> es[i].key \o es[i].val])

Canonical(es) == SortSeq(es, LAMBDA a, b : EncodedLess(a.key, b.key))

(* A tag on a type: written before its values, as the code and its tests   *)
(* have it (cbor/traits.hpp:118-124).  docs/cbor.md:405-406 and            *)
(* docs/annotations.md:608 say that it has no effect there, which would be *)
(* << >>.                                                                  *)
TypeTags(v) == IF v.k \in {"struct", "wrap"} THEN v.tags ELSE << >>

(* The tags before a member, its own or those of its type; an empty        *)
(* optional has none.                                                      *)
TagsOf(m) ==
  IF m.val = NullValue THEN << >>
  ELSE IF m.tags # << >> THEN m.tags ELSE TypeTags(Pointee(m.val))

EncField(m) == [i \in DOMAIN TagsOf(m) |-> MakeHead("tag", TagsOf(m)[i])] \o Enc(m.val, m.indef)

StructEntries(v) ==
  LET ms == SelectSeq(v.members, Emitted)
  IN  Canonical([i \in DOMAIN ms |-> [key |-> << ms[i].key >>, val |-> EncField(ms[i])]])

EncMap(es, sized) ==
  Delimit("map", Len(es), sized, TokensOf(IF opts.deterministic THEN Canonical(es) ELSE es))

KeyToken(key) == IF key.mt = "text" THEN StringToken(key) ELSE MakeHead(key.mt, key.n)

Enc(u, indef) ==
  LET v == Pointee(u)
  IN  CASE v.k \in {"leaf", "enum"} -> << v.t >>
    [] v.k = "real"    -> << RealToken(v.d) >>
    [] v.k = "text"    -> IF indef /\ ~opts.deterministic
                          THEN << IndefiniteHead(v.s.mt) >> \o Chunks(v.s) \o << BreakByte >>
                          ELSE << StringToken(v.s) >>
    [] v.k = "range"   -> << MakeHead("tag", v.tag), StringToken(v.s) >>
    [] v.k = "array"   -> Delimit("array", Len(v.items), v.tuple \/ (v.sized /\ ~indef),
                                     FlattenSeq([i \in DOMAIN v.items |-> Enc(v.items[i], indef)]))
    [] v.k = "map"     -> EncMap([i \in DOMAIN v.entries |->
                            [key |-> << KeyToken(v.entries[i].key) >>, val |-> Enc(v.entries[i].val, indef)]],
                            v.sized /\ ~indef)
    [] v.k = "struct"  -> Delimit("map", Len(StructEntries(v)), TRUE, TokensOf(StructEntries(v)))
    [] v.k = "wrap"    -> EncField(v.members[1])
    [] v.k = "variant" ->
         EncMap(<< [key |-> << StringToken(v.tag) >>, val |-> << StringToken(v.name) >>] >>
                \o (IF v.alt.k = "struct" THEN StructEntries(v.alt)
                    ELSE << [key |-> << StringToken(ValueKey) >>, val |-> Enc(v.alt, FALSE)] >>), TRUE)

(* The parts of a value that cannot be encoded: where, and why.  d is the  *)
(* number of containers around v.                                          *)
RECURSIVE Faults(_, _, _)

Here(p, e) == {[path |-> p, err |-> e]}

Inside(ms, p, d) ==
  UNION { Faults(m.val, Append(p, << "member", m.name >>), d) : m \in {m \in Range(ms) : Emitted(m)} }

Faults(u, p, d) ==
  LET v == Pointee(u) IN
  IF d >= MaxDepth /\ (v.k \in {"array", "map", "struct"} \/ (v.k = "variant" /\ v.alt.k # "none"))
  THEN Here(p, "depth_exceeded")
  ELSE CASE v.k = "real"    -> IF v.d.width \in 1 .. v.d.range - 1 THEN Here(p, "out_of_range") ELSE {}
         [] v.k = "text"    -> IF BadUtf8(v.s) THEN Here(p, "invalid_utf8") ELSE {}
         [] v.k = "enum"    -> IF v.ok THEN {} ELSE Here(p, "unknown_enumerator")
         [] v.k = "array"   -> UNION { Faults(v.items[i], Append(p, << "index", i - 1 >>), d + 1) : i \in DOMAIN v.items }
         [] v.k = "map"     ->
              UNION { Faults(e.val, Append(p, EntryStep(e.key)), d + 1) : e \in Range(v.entries) }
              \cup (IF \E e \in Range(v.entries) : e.key.mt = "text" /\ BadUtf8(e.key) THEN Here(p, "invalid_utf8") ELSE {})
              \cup (IF opts.deterministic /\ Cardinality({e.key : e \in Range(v.entries)}) < Len(v.entries)
                    THEN Here(p, "duplicate_key") ELSE {})
         [] v.k = "struct"  -> Inside(v.members, p, d + 1)
         [] v.k = "wrap"    -> Inside(v.members, p, d)
         [] v.k = "variant" ->
              IF v.alt.k = "none" THEN Here(p, "no_variant_alternative")
              ELSE IF v.alt.k = "struct" THEN Inside(v.alt.members, p, d + 1)
              ELSE Faults(v.alt, Append(p, << "member", "value" >>), d + 1)
         [] OTHER -> {}

-----------------------------------------------------------------------------
(* What the frames of the writer and the two passes over conditional       *)
(* members produce is the encoding of the value: the head of every struct  *)
(* counts the members that were emitted, every entry stays with its key    *)
(* when a map is sorted, and buffers inside buffers end up in place.  The  *)
(* encoding is the one the code defines: a tag on a type is part of it     *)
(* (TypeTags), against the documents.                                      *)
EncodesValue ==
  Finished /\ err = "none" =>
    out = EncField([val |-> value, tags |-> << >>, indef |-> FALSE]) /\ frames = << >>

(* In deterministic mode the output is in core deterministic encoding:     *)
(* struct members, which are not buffered, come in canonical order, and so *)
(* does a discriminator spliced in among them.  A float in the width its   *)
(* member asks for is excepted: write_real does not shorten it.            *)
EncodedDeterministic ==
  Finished /\ err = "none" /\ opts.deterministic =>
    G!DeterministicButFloats(out, 1, Len(out) + 1, opts.validate_utf8)

(* A transparent struct encodes as its member: with the tags the member's  *)
(* annotations ask for, which its decoder requires.                        *)
TransparentAsMember ==
  Finished /\ err = "none" /\ value.k = "wrap" => out = EncField(value.members[1])

Suffix(s, n) == IF Len(s) <= n THEN s ELSE SubSeq(s, Len(s) - n + 1, Len(s))

(* encode throws exactly when part of the value cannot be encoded, and the *)
(* path of the exception, built while it passes the calls, leads to such a *)
(* part; a long path keeps its end.                                        *)
ErrorsLocated ==
  Finished =>
    IF err = "none" THEN Faults(value, << >>, 0) = {}
    ELSE \E f \in Faults(value, << >>, 0) :
           /\ f.err = err
           /\ ErrorPath = Suffix(f.path, MaxPathSteps)
           /\ truncated <=> Len(f.path) > MaxPathSteps

(* However pointers lead back to what is being encoded, the calls that are *)
(* active at a time are bounded by max_depth: one for each container that  *)
(* is open, one for a transparent struct around each of them and around    *)
(* the value inside the last, and the first.  No type here nests           *)
(* transparent structs in each other without a container between them.     *)
StackBounded == Len(work) <= 2 * (MaxDepth + 1)

===============================================================================
