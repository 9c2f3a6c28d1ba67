-------------------------------- MODULE Encode --------------------------------
(***************************************************************************)
(* core/traverse.hpp over the CBOR writer: a value drives the sink.  The   *)
(* calls of the recursive functions are explicit frames; what a function   *)
(* has left to do is the sequence of parts of its frame.                   *)
(***************************************************************************)
EXTENDS CborWriter

CONSTANTS
  Values,        \* the values encoded
  Heap,          \* what smart pointers point to
  MaxPathSteps   \* max_path_steps of error.hpp

ASSUME PathAssumption == MaxPathSteps \in Nat

(***************************************************************************)
(* A value [k, ...]:                                                       *)
(*   "leaf"     t, the token of a null, a boolean or an integer            *)
(*   "real"     d, a float with the width that its member or the options   *)
(*              ask for                                                    *)
(*   "text"     s, a text or a byte string                                 *)
(*   "enum"     t, and ok unless it is skipped or no enumerator            *)
(*   "range"    tag and s, of a member that is a typed array               *)
(*   "array"    items; sized if the size is known beforehand; tuple        *)
(*   "map"      entries [key, val], a key being a text or [mt, n], an      *)
(*              integer; sized                                             *)
(*   "struct"   members; tags of the type                                  *)
(*   "wrap"     a transparent struct: members, of which it has one; tags   *)
(*   "ref"      to: a smart pointer, to Heap[to], which is no pointer      *)
(*   "variant"  tag and name of the alternative, alt                       *)
(*   "none"     the alternative of a variant without a value               *)
(* A member: its name, key, val, default; skip (skip_serializing), skip_   *)
(* if_null, skip_if_default; tags and indef, its annotations.              *)
(***************************************************************************)
NullValue == [k |-> "leaf", t |-> MakeHead("simple", 22)]

Pointee(v) == IF v.k = "ref" THEN Heap[v.to] ELSE v

VARIABLES
  value,      \* the value passed to encode
  work,       \* the active calls, innermost last
  path,       \* steps of the error, leaf first
  truncated   \* truncated_ of the error

vars == << writer, value, work, path, truncated >>

NoStep == << "none", "none" >>

-----------------------------------------------------------------------------
(* Parts of a call: calls of the sink, and values to encode.               *)

KeyPart(t)               == [op |-> "key", t |-> t]
TextKeyPart(s)           == [op |-> "textkey", s |-> s]
TagPart(n)               == [op |-> "tag", n |-> n]
EndPart                  == [op |-> "end"]
ValuePart(v, st, indef)  == [op |-> "value", v |-> Pointee(v), step |-> st, indef |-> indef]

(* The tags format_traits expects: the member's, else those of its type.   *)
ExpectedTags(m) ==
  IF m.tags # << >> THEN m.tags
  ELSE IF Pointee(m.val).k \in {"struct", "wrap"} THEN Pointee(m.val).tags
  ELSE << >>

(* encode_field_value: no tags before the null of an empty optional.       *)
FieldParts(m, st) ==
  (IF m.val = NullValue THEN << >> ELSE [i \in DOMAIN ExpectedTags(m) |-> TagPart(ExpectedTags(m)[i])])
    \o << ValuePart(m.val, st, m.indef) >>

Emitted(m) ==
  /\ ~m.skip
  /\ m.skip_if_null => m.val # NullValue
  /\ m.skip_if_default => m.val # m.default

(* Mutant: members in the order of their declaration.                      *)
DeclarationOrder(v) == [i \in DOMAIN v.members |-> i]

(* member_order: by encoded key, fixed by the type.                        *)
MemberOrder(v) ==
  SortSeq([i \in DOMAIN v.members |-> i],
          LAMBDA i, j : EncodedLess(<< v.members[i].key >>, << v.members[j].key >>))

(* encode_members.                                                         *)
MemberParts(v) ==
  FlattenSeq([i \in DOMAIN v.members |->
    LET m == v.members[MemberOrder(v)[i]]
    IN  IF Emitted(m) THEN << KeyPart(m.key) >> \o FieldParts(m, << "member", m.name >>) ELSE << >>])

(* The first pass of encode_struct over conditional members, or the number *)
(* of members that are serialized.                                         *)
Conditional(v) ==
  \E i \in DOMAIN v.members : v.members[i].skip_if_null \/ v.members[i].skip_if_default

(* Mutant: conditional members always count.                               *)
MemberCountAll(v) == Cardinality({i \in DOMAIN v.members : ~v.members[i].skip})

MemberCount(v) ==
  Cardinality({i \in DOMAIN v.members :
     IF Conditional(v) THEN Emitted(v.members[i]) ELSE ~v.members[i].skip})

Text(s) == [k |-> "text", s |-> s]

TagEntry(v) == << TextKeyPart(v.tag), ValuePart(Text(v.name), NoStep, FALSE) >>

ValueKey == [mt |-> "text", size |-> 5, data |-> 0, valid |-> TRUE, bounds |-> 0 .. 5]

(* The key of a map entry, and the step of its value.                      *)
EntryKey(key)  == IF key.mt = "text" THEN TextKeyPart(key) ELSE KeyPart(MakeHead(key.mt, key.n))
EntryStep(key) == IF key.mt = "text" THEN << "key", key >> ELSE << "index", key.n >>

(* What follows the begin_array or begin_map of a value, up to its end.    *)
Body(v, indef) ==
  CASE v.k = "array"   -> [i \in DOMAIN v.items |-> ValuePart(v.items[i], << "index", i - 1 >>, indef)]
    [] v.k = "map"     -> FlattenSeq([i \in DOMAIN v.entries |->
                            << EntryKey(v.entries[i].key),
                               ValuePart(v.entries[i].val, EntryStep(v.entries[i].key), indef) >>])
    [] v.k = "struct"  -> MemberParts(v)
    [] v.k = "variant" ->
         TagEntry(v) \o IF v.alt.k = "struct" THEN MemberParts(v.alt)
                        ELSE << KeyPart(StringToken(ValueKey)),
                                ValuePart(v.alt, << "member", "value" >>, FALSE) >>

-----------------------------------------------------------------------------
Frame(parts, st) == [parts |-> parts, step |-> st]

Calls == work[Len(work)]
Part  == Head(Calls.parts)
Rest  == [work EXCEPT ![Len(work)].parts = Tail(@)]

(* Mutant: one step too many.                                              *)
PushStepLate(s) ==
  IF s = NoStep THEN UNCHANGED << path, truncated >>
  ELSE IF Len(path) > MaxPathSteps THEN truncated' = TRUE /\ UNCHANGED path
  ELSE path' = Append(path, s) /\ UNCHANGED truncated

(* push, leaf first; steps beyond the limit are dropped.                   *)
PushStep(s) ==
  IF s = NoStep THEN UNCHANGED << path, truncated >>
  ELSE IF Len(path) >= MaxPathSteps THEN truncated' = TRUE /\ UNCHANGED path
  ELSE path' = Append(path, s) /\ UNCHANGED truncated

(* with_member_path, with_index_path and with_key_path around one value:   *)
(* only an exception leaves a step.                                        *)
Around(s) == IF err' = "none" THEN UNCHANGED << path, truncated >> ELSE PushStep(s)

Running(op) == err = "none" /\ work # << >> /\ Calls.parts # << >> /\ Part.op = op

Init ==
  /\ WriterInit
  /\ value \in Values
  /\ work = << Frame(FieldParts([val |-> value, tags |-> << >>, indef |-> FALSE], NoStep), NoStep) >>
  /\ path = << >>
  /\ truncated = FALSE

EmitKey ==
  /\ Running("key") \/ Running("textkey")
  /\ IF Part.op = "key" THEN Key(Part.t) ELSE StringKey(Part.s)
  /\ work' = Rest
  /\ UNCHANGED << value, path, truncated >>

EmitTag ==
  /\ Running("tag")
  /\ Tag(Part.n)
  /\ work' = Rest
  /\ UNCHANGED << value, path, truncated >>

EncodeEnum(v) == IF v.ok THEN Value(v.t) ELSE Throw("unknown_enumerator", frames)

(* encode_value of what is one call of the sink.                           *)
EncodeScalar ==
  /\ Running("value")
  /\ \/ Part.v.k = "leaf" /\ Value(Part.v.t)
     \/ Part.v.k = "real" /\ Real(Part.v.d)
     \/ Part.v.k = "text" /\ StringValue(Part.v.s, Part.indef)
     \/ Part.v.k = "range" /\ WriteRange(Part.v.tag, Part.v.s)
     \/ Part.v.k = "enum" /\ EncodeEnum(Part.v)
     \/ Part.v.k = "variant" /\ Part.v.alt.k = "none" /\ Throw("no_variant_alternative", frames)
  /\ work' = Rest
  /\ Around(Part.step)
  /\ UNCHANGED value

(* encode_sequence, encode_tuple, encode_map, encode_struct, encode_       *)
(* variant up to the call that begins the container.                       *)
Size(v, n) == IF v.sized THEN n ELSE Nullopt

EncodeContainer ==
  /\ Running("value")
  /\ LET v == Part.v
     IN  \/ v.k = "array" /\ BeginField("array", Size(v, Len(v.items)), Part.indef /\ ~v.tuple)
         \/ v.k = "map" /\ BeginField("map", Size(v, Len(v.entries)), Part.indef)
         \/ v.k = "struct" /\ BeginOrdered(MemberCount(v))
         \/ /\ v.k = "variant" /\ v.alt.k # "none"
            /\ Begin("map", IF v.alt.k = "struct" THEN MemberCount(v.alt) + 1 ELSE 2)
  /\ work' = IF err' = "none" THEN Append(Rest, Frame(Body(Part.v, Part.indef) \o << EndPart >>, Part.step))
             ELSE Rest
  /\ Around(Part.step)
  /\ UNCHANGED value

(* A transparent struct: encode_value of its member.                       *)
EncodeWrap ==
  /\ Running("value") /\ Part.v.k = "wrap"
  /\ LET m == Part.v.members[1]
     IN  work' = Append(Rest, Frame(<< ValuePart(m.val, << "member", m.name >>, m.indef) >>, Part.step))
  /\ UNCHANGED << writer, value, path, truncated >>

EmitEnd ==
  /\ Running("end")
  /\ End
  /\ work' = Rest
  /\ UNCHANGED << value, path, truncated >>

Return ==
  /\ err = "none" /\ work # << >> /\ Calls.parts = << >>
  /\ work' = Front(work)
  /\ UNCHANGED << writer, value, path, truncated >>

(* An exception on its way up.                                             *)
Unwind ==
  /\ err # "none" /\ work # << >>
  /\ PushStep(Calls.step)
  /\ work' = Front(work)
  /\ UNCHANGED << writer, value >>

Finished == work = << >>

(* encode has returned, or its exception has left it; a run that stops     *)
(* anywhere else is a deadlock.                                            *)
Done == Finished /\ UNCHANGED vars

Next ==
  \/ EmitKey \/ EmitTag \/ EncodeScalar \/ EncodeContainer \/ EncodeWrap
  \/ EmitEnd \/ Return \/ Unwind \/ Done

Spec == Init /\ [][Next]_vars

(* path() of the exception that reaches the caller.                        *)
ErrorPath == Reverse(path)

===============================================================================
