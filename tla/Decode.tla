-------------------------------- MODULE Decode --------------------------------
(***************************************************************************)
(* The decode side of core/build.hpp: the expected type drives a reader    *)
(* over the input and builds the value, or the errors.  The calls of the   *)
(* recursive functions are explicit frames; a reader of either format is   *)
(* seen through the operations build.hpp uses (peek, expect_*, cursors,    *)
(* skip_value, save and restore).                                          *)
(*                                                                         *)
(* A caller first calls decode on the input, then decode_all.              *)
(***************************************************************************)
EXTENDS Integers, Sequences, SequencesExt, FiniteSetsExt

CONSTANTS
  Types,         \* the reflected types, by name
  Roots,         \* the types decoded, each with the options of the call
  Inputs,        \* for each of them its inputs, sequences of tokens
  IntKeys,       \* map keys that are integers
  HugeKeys,      \* those above INT64_MAX
  MaxPathSteps   \* max_path_steps of error.hpp

Scalars    == {"int", "text"}
Containers == {"struct", "map", "seq", "tuple", "variant"}

(***************************************************************************)
(* A type: its kind; `sub', the types of elements, of the pointee or of    *)
(* the alternatives; for a struct its members and whether it denies        *)
(* unknown fields or has integer keys; for a variant the key of its tag.   *)
(* A member: its identifier, the keys it is found under, its type, and     *)
(* whether it is required, has a default value or is skip_deserializing.   *)
(*                                                                         *)
(* A token [k, v]: "map", "array", "end" (of the container, counted or     *)
(* marked), "key", or a scalar.  v is the key, the text, or how the        *)
(* scalar fares: "ok", "big" (does not fit the member's type), "strict"    *)
(* (the reader itself refuses it wherever it stands, with an error that    *)
(* is not a syntax error: non_deterministic, or a JSON number beyond       *)
(* double).  Running out of tokens stands for every syntax error.          *)
(***************************************************************************)
Opening == {"map", "array"}

ASSUME ConstantsAssumption ==
  /\ DOMAIN Roots \subseteq DOMAIN Types
  /\ HugeKeys \subseteq IntKeys
  /\ \A r \in DOMAIN Roots :
       Roots[r] \in [duplicates : {"last_wins", "first_wins", "error"}, max_depth : Nat]
  /\ MaxPathSteps \in Nat

VARIABLES
  root,       \* the type decoded
  in,         \* the input
  mode,       \* error_mode: "fail_fast" in decode, "collect" in decode_all
  pos,        \* index of the next token
  depth,      \* depth_ of the reader
  frames,     \* the active calls, innermost last
  ctl,        \* what happens next
  type,       \* ctl = "call": the type to decode
  st,         \* ctl = "return": the status returned
  collected,  \* collected_ of the reader
  out,        \* the value: the assigned scalars as <<path, token index>>,
              \* index 0 for the default value of a member
  decoded     \* what decode returned, and the value it built

vars == << root, in, mode, pos, depth, frames, ctl, type, st, collected, out, decoded >>

reader == << pos, depth >>
call   == << root, in, mode, decoded >>

Duplicates == Roots[root].duplicates   \* options::duplicates
MaxDepth   == Roots[root].max_depth    \* options::max_depth

-----------------------------------------------------------------------------
(* Errors (error.hpp).                                                     *)

Err(c, p) == [code |-> c, at |-> p, path |-> << >>, truncated |-> FALSE, detail |-> "none"]
OK        == Err("none", 0)

(* Mutant: a mismatch is taken for a syntax error.                         *)
SyntaxErrorsWide == {"truncated", "depth_exceeded", "trailing_content", "type_mismatch"}

(* is_syntax_error, over the codes that occur here.                        *)
SyntaxErrors == {"truncated", "depth_exceeded", "trailing_content"}

(* Steps are pushed leaf first; those beyond the limit are dropped.        *)
Push(e, s) ==
  IF Len(e.path) >= MaxPathSteps THEN [e EXCEPT !.truncated = TRUE]
  ELSE [e EXCEPT !.path = Append(@, s)]

Finalize(e) == [e EXCEPT !.path = Reverse(@)]

(* Mutant: the errors recorded before the mark are annotated too.          *)
AnnotatedAll(m, s) == [i \in DOMAIN collected |-> Push(collected[i], s)]

(* annotate_collected: the errors recorded since the mark get the step.    *)
Annotated(m, s) == [i \in DOMAIN collected |-> IF i > m THEN Push(collected[i], s) ELSE collected[i]]

-----------------------------------------------------------------------------
(* The reader.                                                             *)

AtEnd == pos > Len(in)
Ahead == in[pos]

(* Containers open before token i.                                         *)
Level(i) ==
  Cardinality({j \in 1 .. i - 1 : in[j].k \in Opening})
    - Cardinality({j \in 1 .. i - 1 : in[j].k = "end"})

(* Indices at which the item that starts at i may be complete.             *)
Ends(i) ==
  LET level == Level(i) IN {j \in i + 1 .. Len(in) + 1 : Level(j) = level}

AfterItem(i) == Min(Ends(i))
Inside(i)    == LET ends == Ends(i) IN i .. IF ends = {} THEN Len(in) ELSE Min(ends) - 1

(* skip_value from i, with d containers open.                              *)
TooDeep(i, d, j) == in[j].k \in Opening /\ d + Level(j) - Level(i) >= MaxDepth
Refused(i, d)    == {j \in Inside(i) : in[j].v = "strict" \/ TooDeep(i, d, j)}

SkipError(i, d) ==
  IF Refused(i, d) # {}
  THEN LET j == Min(Refused(i, d))
       IN  Err(IF in[j].v = "strict" THEN "non_deterministic" ELSE "depth_exceeded", j)
  ELSE IF Ends(i) = {} THEN Err("truncated", Len(in) + 1)
  ELSE OK

-----------------------------------------------------------------------------
(* Frames.                                                                 *)

NoStep == << "none", "none" >>

Frame(ty) ==
  [ type  |-> ty,
    start |-> pos,         \* position and depth at the call
    depth |-> depth,
    n     |-> 0,           \* elements so far
    seen  |-> {},          \* members (struct) or keys (map) present so far
    mark  |-> 0,           \* error_mark before the current child
    save  |-> << 0, 0 >>,  \* struct: save() before the current child
    step  |-> NoStep,      \* path step of the current child
    phase |-> "first",     \* variant: which pass
    alt   |-> "none" ]     \* variant: the value of the tag

Top  == frames[Len(frames)]
Kind == Types[Top.type].kind
T    == Types[type]

Returning(s) == ctl' = "return" /\ st' = s /\ UNCHANGED type
Leave(s)     == frames' = Front(frames) /\ Returning(s)
Update(f)    == frames' = [frames EXCEPT ![Len(frames)] = f]
Looping      == ctl' = "loop" /\ UNCHANGED << type, st >>
Calling(ty)  == ctl' = "call" /\ type' = ty /\ UNCHANGED st

(* Where the value being decoded belongs in the result.                    *)
CurPath ==
  LET real == SelectSeq(frames, LAMBDA f : f.step # NoStep)
  IN  [i \in DOMAIN real |-> real[i].step]

Without(p) == {c \in out : ~IsPrefix(p, c[1])}

(* r.skip_value() of the value at p, then on with the loop in frame f.     *)
SkipThenLoop(p, f) ==
  LET e == SkipError(p, depth)
  IN  IF e = OK
      THEN pos' = AfterItem(p) /\ Update(f) /\ Looping /\ UNCHANGED depth
      ELSE Leave(e) /\ UNCHANGED reader

(* A child of the innermost frame f is decoded at p.                       *)
Child(f, s, p, ty) ==
  /\ Update([f EXCEPT !.mark = Len(collected), !.save = << p, depth >>, !.step = s])
  /\ pos' = p
  /\ Calling(ty)
  /\ UNCHANGED depth

-----------------------------------------------------------------------------
(* decode_value: scalars, optionals, transparent structs, containers.      *)

Expected == IF T.kind \in Scalars THEN T.kind ELSE IF T.kind \in {"seq", "tuple"} THEN "array" ELSE "map"

(* reader::enter: no further container may be opened.                      *)
Full == depth >= MaxDepth

(* What an expect_* call, and the check of the value after it, find wrong. *)
ExpectError ==
  IF AtEnd THEN "truncated"
  ELSE IF Ahead.v = "strict" THEN "non_deterministic"
  ELSE IF Ahead.k # Expected THEN "type_mismatch"
  ELSE IF Ahead.k \in Opening /\ Full THEN "depth_exceeded"
  ELSE IF Ahead.v = "big" THEN "out_of_range"
  ELSE "none"

Unexpected ==
  /\ ctl = "call"
  /\ T.kind \in Scalars \cup Containers
  /\ ExpectError # "none"
  /\ Returning(Err(ExpectError, pos))
  /\ UNCHANGED << call, reader, frames, collected, out >>

Scalar ==
  /\ ctl = "call"
  /\ T.kind \in Scalars
  /\ ExpectError = "none"
  /\ out' = Without(CurPath) \cup {<< CurPath, pos >>}
  /\ pos' = pos + 1
  /\ Returning(OK)
  /\ UNCHANGED << call, depth, frames, collected >>

IsNull == ~AtEnd /\ Ahead.k = "null"

Null ==
  /\ ctl = "call"
  /\ T.kind = "optional"
  /\ IsNull
  /\ out' = Without(CurPath)
  /\ pos' = pos + 1
  /\ Returning(OK)
  /\ UNCHANGED << call, depth, frames, collected >>

Emplace ==
  /\ ctl = "call"
  /\ T.kind = "optional"
  /\ ~IsNull
  /\ out' = Without(CurPath)
  /\ Calling(T.sub[1])
  /\ UNCHANGED << call, reader, frames, collected >>

(* A transparent struct is its only member.                                *)
Transparent ==
  /\ ctl = "call"
  /\ T.kind = "transparent"
  /\ frames' = Append(frames, [Frame(type) EXCEPT
                  !.mark = Len(collected), !.step = << "member", T.members[1].name >>])
  /\ Calling(T.members[1].type)
  /\ UNCHANGED << call, reader, collected, out >>

(* Mutant: a map keeps its entries.                                        *)
ClearedSeq == {"seq"}

(* Kinds that are cleared before their first element; a struct is decoded  *)
(* over what it holds.                                                     *)
Cleared == {"seq", "map"}

(* expect_array or expect_map.                                             *)
Enter ==
  /\ ctl = "call"
  /\ T.kind \in Containers
  /\ ExpectError = "none"
  /\ frames' = Append(frames, Frame(type))
  /\ pos' = pos + 1
  /\ depth' = depth + 1
  /\ out' = IF T.kind \in Cleared THEN Without(CurPath) ELSE out
  /\ Looping
  /\ UNCHANGED << call, collected >>

-----------------------------------------------------------------------------
(* The loops over a cursor: c->next() fails, or tells whether there is     *)
(* another entry.                                                          *)

At(kind) == ctl = "loop" /\ Kind = kind
More     == ~AtEnd /\ Ahead.k # "end"
Done     == ~AtEnd /\ Ahead.k = "end"

Cut ==
  /\ ctl = "loop"
  /\ AtEnd
  /\ Leave(Err("truncated", pos))
  /\ UNCHANGED << call, reader, collected, out >>

(* next() returns false: the level is left.                                *)
Exit == pos' = pos + 1 /\ depth' = depth - 1

SeqElement ==
  /\ At("seq") /\ More
  /\ Child(Top, << "index", Top.n >>, pos, Types[Top.type].sub[1])
  /\ UNCHANGED << call, collected, out >>

SeqEnd ==
  /\ At("seq") /\ Done
  /\ Exit
  /\ Leave(OK)
  /\ UNCHANGED << call, collected, out >>

(* decode_tuple and decode_fixed_array: exactly as many as there are.      *)
Surplus == Top.n >= Len(Types[Top.type].sub)

TupleElement ==
  /\ At("tuple") /\ More
  /\ ~Surplus
  /\ Child(Top, << "index", Top.n >>, pos, Types[Top.type].sub[Top.n + 1])
  /\ UNCHANGED << call, collected, out >>

TupleExtra ==
  /\ At("tuple") /\ More
  /\ Surplus
  /\ SkipThenLoop(pos, [Top EXCEPT !.n = @ + 1])
  /\ UNCHANGED << call, collected, out >>

TupleEnd ==
  /\ At("tuple") /\ Done
  /\ Exit
  /\ Leave(IF Top.n = Len(Types[Top.type].sub) THEN OK ELSE Err("type_mismatch", Top.start))
  /\ UNCHANGED << call, collected, out >>

(* A key of the wrong kind fails the container: one that is no text, and   *)
(* no integer where those are keys too (a CBOR key may be any item).       *)
KeyMismatch(ints) == Ahead.k # "key" \/ (Ahead.v \in IntKeys /\ ~ints)

NonTextKey ==
  /\ ctl = "loop" /\ More
  /\ Kind \in {"map", "variant", "struct"}
  /\ KeyMismatch(Kind = "struct" /\ Types[Top.type].ikeys)
  /\ Leave(Err("type_mismatch", pos))
  /\ UNCHANGED << call, reader, collected, out >>

(* decode_map, for a container with unique keys.                           *)
KeyStep == << "key", Ahead.v >>

MapEntry ==
  /\ At("map") /\ More
  /\ ~KeyMismatch(FALSE)
  /\ Ahead.v \in Top.seen => Duplicates = "last_wins"
  /\ Child(Top, KeyStep, pos + 1, Types[Top.type].sub[1])
  /\ UNCHANGED << call, collected, out >>

MapDuplicate ==
  /\ At("map") /\ More
  /\ ~KeyMismatch(FALSE)
  /\ Ahead.v \in Top.seen
  /\ \/ Duplicates = "error" /\ Leave(Push(Err("duplicate_key", pos), KeyStep)) /\ UNCHANGED reader
     \/ Duplicates = "first_wins" /\ SkipThenLoop(pos + 1, Top)
  /\ UNCHANGED << call, collected, out >>

MapEnd ==
  /\ At("map") /\ Done
  /\ Exit
  /\ Leave(OK)
  /\ UNCHANGED << call, collected, out >>

-----------------------------------------------------------------------------
(* What a frame does with the status of its child: the errors recorded     *)
(* since the mark get the child's step, and so does the error returned.    *)

Wrapping == {"seq", "tuple", "map", "transparent", "variant"}

(* An element that failed is not appended; a new key that failed is not    *)
(* inserted.                                                               *)
Temporary == Kind = "seq" \/ (Kind = "map" /\ Top.step[2] \notin Top.seen)

(* Mutant: recorded errors never get the step.                             *)
AnnotateNot == collected

Annotate ==
  IF Top.step = NoStep THEN collected ELSE Annotated(Top.mark, Top.step)

ChildFailed ==
  /\ ctl = "return" /\ frames # << >>
  /\ Kind \in Wrapping
  /\ st # OK
  /\ collected' = Annotate
  /\ out' = IF Temporary THEN Without(CurPath) ELSE out
  /\ Leave(IF Top.step = NoStep THEN st ELSE Push(st, Top.step))
  /\ UNCHANGED << call, reader >>

(* A transparent struct, and a variant that delegated to decode_struct,    *)
(* return what they got; the others go on with their loop.                 *)
ChildDecoded ==
  /\ ctl = "return" /\ frames # << >>
  /\ Kind \in Wrapping
  /\ st = OK
  /\ collected' = Annotate
  /\ IF Kind = "transparent" \/ Top.step = NoStep THEN Leave(OK)
     ELSE /\ Update([Top EXCEPT !.n = @ + 1, !.seen = @ \cup {Top.step[2]}, !.step = NoStep])
          /\ Looping
  /\ UNCHANGED << call, reader, out >>

-----------------------------------------------------------------------------
(* decode_struct.                                                          *)

S       == Types[Top.type]
Members == DOMAIN S.members

(* The lookup of a key (lut.find, ikeys.find): the member it names, if     *)
(* any.  No two members of a struct share a key: check_duplicates of the   *)
(* schema refuses to compile them.                                         *)
Lookup(ty, k) ==
  LET named == {m \in DOMAIN Types[ty].members : k \in Types[ty].members[m].keys}
  IN  IF named = {} THEN {} ELSE {CHOOSE m \in named : TRUE}

Find == Lookup(Top.type, Ahead.v)

(* The tag of the variant that delegated to this struct.                   *)
IgnoreKey ==
  {Types[frames[i].type].tag : i \in {j \in DOMAIN frames :
     j = Len(frames) - 1 /\ Types[frames[j].type].kind = "variant"}}

(* seen[m]: the member was present before.                                 *)
Again(m) == m \in Top.seen

(* At a key that the struct may look up.                                   *)
AtKey == At("struct") /\ More /\ ~KeyMismatch(S.ikeys) /\ Ahead.v \notin HugeKeys

(* An integer key beyond INT64_MAX names no member; denied, it ends the    *)
(* struct even in collect mode.                                            *)
HugeKey ==
  /\ At("struct") /\ More /\ ~KeyMismatch(S.ikeys) /\ Ahead.v \in HugeKeys
  /\ IF S.deny /\ SkipError(pos + 1, depth) = OK
     THEN /\ Leave(Push(Err("unknown_field", pos), KeyStep))
          /\ pos' = AfterItem(pos + 1)
          /\ UNCHANGED depth
     ELSE SkipThenLoop(pos + 1, Top)
  /\ UNCHANGED << call, collected, out >>

(* Record e and skip the value, or return e.                               *)
Report(e) ==
  IF mode = "collect"
  THEN collected' = Append(collected, e) /\ SkipThenLoop(pos + 1, Top)
  ELSE Leave(e) /\ UNCHANGED << reader, collected >>

UnknownField ==
  /\ AtKey
  /\ Find = {}
  /\ S.deny /\ Ahead.v \notin IgnoreKey
  /\ Report(Push(Err("unknown_field", pos), KeyStep))
  /\ UNCHANGED << call, out >>

DuplicateField ==
  /\ AtKey
  /\ \E m \in Find : Again(m) /\ ~S.members[m].skip
  /\ Duplicates = "error"
  /\ Report(Push(Err("duplicate_key", pos), KeyStep))
  /\ UNCHANGED << call, out >>

(* Unknown keys that are allowed, the discriminator, members not           *)
(* deserialized, and later duplicates under first_wins.                    *)
SkipField ==
  /\ AtKey
  /\ \/ Find = {} /\ (S.deny => Ahead.v \in IgnoreKey)
     \/ \E m \in Find : S.members[m].skip
     \/ \E m \in Find : Again(m) /\ Duplicates = "first_wins"
  /\ SkipThenLoop(pos + 1, Top)
  /\ UNCHANGED << call, collected, out >>

Field ==
  /\ AtKey
  /\ \E m \in Find :
       /\ ~S.members[m].skip
       /\ Again(m) => Duplicates = "last_wins"
       /\ Child([Top EXCEPT !.seen = @ \cup {m}], << "member", S.members[m].name >>,
                pos + 1, S.members[m].type)
  /\ UNCHANGED << call, collected, out >>

FieldDecoded ==
  /\ ctl = "return" /\ frames # << >> /\ Kind = "struct"
  /\ st = OK
  /\ collected' = Annotate
  /\ Update([Top EXCEPT !.step = NoStep])
  /\ Looping
  /\ UNCHANGED << call, reader, out >>

(* Mutant: every error of a member is recovered from.                      *)
AlwaysRecoverable == mode = "collect"

Recoverable == mode = "collect" /\ st.code \notin SyntaxErrors

FieldFailed ==
  /\ ctl = "return" /\ frames # << >> /\ Kind = "struct"
  /\ st # OK /\ ~Recoverable
  /\ collected' = Annotate
  /\ Leave(Push(st, Top.step))
  /\ UNCHANGED << call, reader, out >>

(* Mutant: only the position is restored.                                  *)
DepthKept == depth

(* The depth that restore() brings back.                                   *)
SavedDepth == Top.save[2]

(* Collect mode: record the error, rewind to the value and skip it.        *)
FieldRecovered ==
  /\ ctl = "return" /\ frames # << >> /\ Kind = "struct"
  /\ st # OK /\ Recoverable
  /\ collected' = Append(Annotate, Push(st, Top.step))
  /\ depth' = SavedDepth
  /\ LET e == SkipError(Top.save[1], SavedDepth)
     IN  IF e = OK
         THEN /\ pos' = AfterItem(Top.save[1])
              /\ Update([Top EXCEPT !.step = NoStep])
              /\ Looping
         ELSE pos' = Top.save[1] /\ Leave(e)
  /\ UNCHANGED << call, out >>

(* Mutant: members that were present count too.                            *)
MissingPresent ==
  SelectSeq([m \in Members |-> m],
    LAMBDA m : ~S.members[m].skip /\ S.members[m].required)

(* Missing members, in declaration order.  describe_present_keys scans the *)
(* object again between a save and a restore and leaves no trace.          *)
Missing ==
  SelectSeq([m \in Members |-> m],
    LAMBDA m : ~S.members[m].skip /\ S.members[m].required /\ m \notin Top.seen)

MissingError(i) == [Err("missing_field", Top.start) EXCEPT !.detail = S.members[Missing[i]].name]

(* Members that get their default value.                                   *)
Defaulted ==
  {m \in Members : /\ ~S.members[m].skip /\ ~S.members[m].required
                   /\ S.members[m].default /\ m \notin Top.seen}

DefaultPaths == {Append(CurPath, << "member", S.members[m].name >>) : m \in Defaulted}

StructEnd ==
  /\ At("struct") /\ Done
  /\ Exit
  /\ IF mode = "collect"
     THEN collected' = collected \o [i \in DOMAIN Missing |-> MissingError(i)] /\ Leave(OK)
     ELSE UNCHANGED collected /\ Leave(IF Missing = << >> THEN OK ELSE MissingError(1))
  /\ out' = {c \in out : \A p \in DefaultPaths : ~IsPrefix(p, c[1])} \cup (DefaultPaths \X {0})
  /\ UNCHANGED call

-----------------------------------------------------------------------------
(* decode_variant.  First pass: find the tag, then skip the rest.          *)

VariantTag ==
  /\ At("variant") /\ More
  /\ ~KeyMismatch(FALSE)
  /\ Top.phase = "first" /\ Ahead.v = S.tag
  /\ IF pos = Len(in) \/ in[pos + 1].k # "text" \/ in[pos + 1].v = "strict"
     THEN /\ Leave(Err(IF pos = Len(in) THEN "truncated"
                       ELSE IF in[pos + 1].v = "strict" THEN "non_deterministic"
                       ELSE "type_mismatch", pos + 1))
          /\ UNCHANGED reader
     ELSE /\ Update([Top EXCEPT !.phase = "rest", !.alt = in[pos + 1].v, !.save = << pos + 1, 0 >>])
          /\ pos' = pos + 2
          /\ Looping
          /\ UNCHANGED depth
  /\ UNCHANGED << call, collected, out >>

VariantSkip ==
  /\ At("variant") /\ More
  /\ ~KeyMismatch(FALSE)
  /\ \/ Top.phase = "first" /\ Ahead.v # S.tag
     \/ Top.phase = "rest"
     \/ Top.phase = "value" /\ Ahead.v # "value"
  /\ SkipThenLoop(pos + 1, Top)
  /\ UNCHANGED << call, collected, out >>

(* No alternative can be chosen.                                           *)
VariantRefused ==
  /\ At("variant") /\ Done
  /\ \/ Top.phase = "first" /\ Leave(Err("missing_tag", Top.start))
     \/ /\ Top.phase = "rest" /\ Top.alt \notin Range(S.sub)
        /\ Leave(Push(Err("no_variant_alternative", Top.save[1]), << "key", S.tag >>))
  /\ Exit
  /\ UNCHANGED << call, collected, out >>

(* Mutant: the second pass starts the first one over.                      *)
FirstPassAgain == Top

(* The frame in its second pass.                                           *)
SecondPass == [Top EXCEPT !.phase = IF Types[Top.alt].kind = "struct" THEN "struct" ELSE "value"]

(* Second pass, from the start of the object: decode_struct with the tag   *)
(* ignored, or the entry "value" of the object.                            *)
VariantChosen ==
  /\ At("variant") /\ Done
  /\ Top.phase = "rest" /\ Top.alt \in Range(S.sub)
  /\ out' = Without(CurPath)
  /\ IF Types[Top.alt].kind = "struct"
     THEN /\ pos' = Top.start /\ depth' = Top.depth
          /\ Calling(Top.alt)
     ELSE /\ pos' = Top.start + 1 /\ depth' = Top.depth + 1
          /\ Looping
  /\ Update(SecondPass)
  /\ UNCHANGED << call, collected >>

VariantValue ==
  /\ At("variant") /\ More
  /\ ~KeyMismatch(FALSE)
  /\ Top.phase = "value" /\ Ahead.v = "value"
  /\ Child(Top, << "member", "value" >>, pos + 1, Top.alt)
  /\ UNCHANGED << call, collected, out >>

VariantEnd ==
  /\ At("variant") /\ Done
  /\ Top.phase = "value"
  /\ Exit
  /\ Leave(IF Top.n > 0 THEN OK ELSE [Err("missing_field", Top.start) EXCEPT !.detail = "value"])
  /\ UNCHANGED << call, collected, out >>

-----------------------------------------------------------------------------
(* The entry points of the two readers, detail::decode and decode_all.     *)

Init ==
  /\ root \in DOMAIN Roots
  /\ in \in Inputs[root]
  /\ mode = "fail_fast"
  /\ pos = 1 /\ depth = 0
  /\ frames = << >>
  /\ ctl = "call" /\ type = root /\ st = OK
  /\ collected = << >>
  /\ out = {}
  /\ decoded = [st |-> OK, out |-> {}]

(* The status of core::decode, then of finish().                           *)
Status == IF st # OK THEN Finalize(st) ELSE IF AtEnd THEN OK ELSE Err("trailing_content", pos)

(* decode returns; the caller goes on to call decode_all.                  *)
DecodeReturns ==
  /\ ctl = "return" /\ frames = << >>
  /\ mode = "fail_fast"
  /\ decoded' = [st |-> Status, out |-> out]
  /\ mode' = "collect"
  /\ pos' = 1 /\ depth' = 0 /\ ctl' = "call" /\ type' = root /\ st' = OK /\ out' = {}
  /\ UNCHANGED << root, in, frames, collected >>

(* decode_all: the errors collected, then the one that ended the run.      *)
DecodeAllReturns ==
  /\ ctl = "return" /\ frames = << >>
  /\ mode = "collect"
  /\ collected' = [i \in DOMAIN collected |-> Finalize(collected[i])]
                    \o IF Status = OK THEN << >> ELSE << Status >>
  /\ ctl' = "done"
  /\ UNCHANGED << call, reader, frames, type, st, out >>

Next ==
  \/ Unexpected \/ Scalar \/ Null \/ Emplace \/ Transparent \/ Enter
  \/ Cut \/ SeqElement \/ SeqEnd \/ TupleElement \/ TupleExtra \/ TupleEnd
  \/ NonTextKey \/ MapEntry \/ MapDuplicate \/ MapEnd
  \/ ChildFailed \/ ChildDecoded
  \/ HugeKey \/ UnknownField \/ DuplicateField \/ SkipField \/ Field
  \/ FieldDecoded \/ FieldFailed \/ FieldRecovered \/ StructEnd
  \/ VariantTag \/ VariantSkip \/ VariantRefused \/ VariantChosen
  \/ VariantValue \/ VariantEnd
  \/ DecodeReturns \/ DecodeAllReturns

(* Decoding is a sequential computation of its caller: it keeps running.   *)
Spec == Init /\ [][Next]_vars /\ WF_vars(Next)

-----------------------------------------------------------------------------
(* Properties.                                                             *)

(* Frames between whose cursor's first and last next() control is.         *)
Holds(f) ==
  LET k == Types[f.type].kind
  IN  k \in Containers /\ (k = "variant" => f.phase # "struct")

Open == {i \in DOMAIN frames : Holds(frames[i])}

(* The reader is in step with the calls: unless an error is on its way up, *)
(* depth_ counts the containers whose frames are still iterating, and the  *)
(* position is inside exactly as many containers of the input.  Skips,     *)
(* rewinds to a member that failed and the second pass over a variant all  *)
(* keep it so, although an error leaves both wherever it happened; and     *)
(* depth_ never passes max_depth.                                          *)
InStep ==
  /\ depth \in 0 .. MaxDepth
  /\ ctl \in {"call", "loop"} \/ (ctl = "return" /\ st = OK) =>
       depth = Cardinality(Open) /\ Level(pos) = depth

Finished == ctl = "done"

(* The first error of decode_all is the error of decode, its path          *)
(* included, although one was recorded and annotated in place and the      *)
(* other returned through every frame; without an error, both build the    *)
(* same value.                                                             *)
FirstErrorAgrees ==
  Finished =>
    IF decoded.st = OK THEN collected = << >> /\ out = decoded.out
    ELSE collected # << >> /\ collected[1] = decoded.st

(* Both calls return, on every input.                                      *)
Returns == <>(ctl = "done")

===============================================================================
