------------------------------- MODULE MCDecode -------------------------------
(* Small types and inputs for Decode, and what its results mean.           *)
EXTENDS Decode

CONSTANTS
  MaxTokens,   \* bound: tokens of a complete input
  Values       \* how integers of the inputs fare

-----------------------------------------------------------------------------
(* Types.                                                                  *)

Leaf(k)           == [kind |-> k]
Struct(ms, deny)  == [kind |-> "struct", members |-> ms, deny |-> deny, ikeys |-> FALSE]
Of(k, s)          == [kind |-> k, sub |-> s]
Member(n, ty)     == [name |-> n, keys |-> {n}, type |-> ty, required |-> TRUE,
                      default |-> FALSE, skip |-> FALSE]
Optional(n, ty)   == [Member(n, ty) EXCEPT !.required = FALSE]
Default(n, ty)    == [Optional(n, ty) EXCEPT !.default = TRUE]

(***************************************************************************)
(* Nested: a nested struct that denies unknown fields, a sequence of such  *)
(* structs, a map.  Kitchen: one member of every other kind.  Keyed: a     *)
(* struct with integer keys that denies unknown ones.                      *)
(***************************************************************************)
TypeTable ==
  [ int     |-> Leaf("int"),
    text    |-> Leaf("text"),
    Map     |-> Of("map", << "int" >>),
    P       |-> Struct(<< Member("x", "int"), [Optional("h", "int") EXCEPT !.skip = TRUE] >>, TRUE),
    Ps      |-> Of("seq", << "P" >>),
    Nested  |-> Struct(<< [Member("a", "int") EXCEPT !.keys = {"a", "alias"}],
                          Optional("p", "P"), Optional("v", "Ps"), Optional("m", "Map") >>, FALSE),
    Q       |-> Struct(<< Default("y", "int") >>, TRUE),
    Pair    |-> Of("tuple", << "int", "text" >>),
    Opt     |-> Of("optional", << "Q" >>),
    W       |-> [kind |-> "transparent", members |-> << Member("w", "Map") >>],
    Var     |-> [kind |-> "variant", sub |-> << "Q", "Map" >>, tag |-> "tag"],
    Kitchen |-> Struct(<< Optional("t", "Pair"), Optional("o", "Opt"), Optional("c", "W"),
                          Optional("z", "Var") >>, FALSE),
    I       |-> [Struct(<< [Member("n", "int") EXCEPT !.keys = {"1"}] >>, TRUE) EXCEPT !.ikeys = TRUE],
    Is      |-> Of("seq", << "I" >>),
    Keyed   |-> Struct(<< Default("d", "int"), Optional("i", "I"), Optional("s", "Is"),
                          Optional("m", "Map") >>, FALSE) ]

(* By its own name, so that TLC evaluates the table once.                  *)
AllTypes == TypeTable

Call(d, n) == [duplicates |-> d, max_depth |-> n]

AllRoots == [ Nested |-> Call("error", 3), Kitchen |-> Call("last_wins", 3), Keyed |-> Call("first_wins", 2) ]

(* Integer keys, the last of them above INT64_MAX, and keys of the inputs  *)
(* that name no member.                                                    *)
SomeIntKeys   == {"1", "2", "3"}
Strangers(ty) == IF ty \in {"I", "Keyed"} THEN {"2", "3", "u"} ELSE {"u"}

-----------------------------------------------------------------------------
(* Inputs: for each type, token sequences of at most n tokens that have    *)
(* its shape, or nearly.                                                   *)

Tk(k, v) == [k |-> k, v |-> v]
Close    == Tk("end", "")
Key(k)   == Tk("key", k)

Fits(ss, n) == {s \in ss : Len(s) <= n}

(* Concatenations of at most w members of ss, n tokens in all.             *)
RECURSIVE Rows(_, _, _)
Rows(ss, w, n) ==
  IF w = 0 \/ n <= 0 THEN {<< >>}
  ELSE {<< >>} \cup UNION { {s \o r : r \in Rows(ss, w - 1, n - Len(s))} : s \in Fits(ss, n) }

Wrap(k, rows) == {<< Tk(k, "") >> \o r \o << Close >> : r \in rows}

Wrong == {<< Tk("text", "ok") >>}

RECURSIVE Shapes(_, _)
Entries(ty, n) ==
  LET t == Types[ty]
  IN  UNION { {<< Key(k) >> \o v : k \in t.members[m].keys, v \in Shapes(t.members[m].type, n - 1)}
                : m \in DOMAIN t.members }
      \cup {<< Key(k), Tk("int", v) >> : k \in Strangers(ty), v \in {"ok"} \cup IF ty \in DOMAIN Roots THEN {"strict"} ELSE {}}

Shapes(ty, n) ==
  LET t == Types[ty]
  IN  CASE t.kind = "int"         -> {<< Tk("int", v) >> : v \in Values}
        [] t.kind = "text"        -> Wrong
        [] t.kind = "struct"      -> Wrong \cup Wrap("map", Rows(Entries(ty, n - 2), 3, n - 2))
        [] t.kind = "seq"         -> Wrap("array", Rows(Shapes(t.sub[1], n - 2), 2, n - 2))
        [] t.kind = "tuple"       -> Wrap("array", Rows(UNION {Shapes(t.sub[i], n - 2) : i \in DOMAIN t.sub}, 3, n - 2))
        [] t.kind = "map"         ->
             Wrap("map", Rows({<< Key(k) >> \o v : k \in {"k", "l"}, v \in Shapes(t.sub[1], n - 3)}
                              \cup {<< Tk("array", ""), Close, Tk("int", "ok") >>}, 3, n - 2))
        [] t.kind = "optional"    -> {<< Tk("null", "ok") >>} \cup Shapes(t.sub[1], n)
        [] t.kind = "transparent" -> Shapes(t.members[1].type, n)
        [] t.kind = "variant"     ->
             Wrap("map", Rows(
               {<< Key(t.tag), Tk("text", v) >> : v \in Range(t.sub) \cup {"none"}}
               \cup {<< Key(t.tag), Tk("int", "ok") >>}
               \cup UNION { IF Types[a].kind = "struct" THEN Entries(a, n - 2)
                            ELSE {<< Key("value") >> \o v : v \in Shapes(a, n - 3)} : a \in Range(t.sub) },
               3, n - 2))

(* Complete inputs, inputs cut off at any token, and trailing content.     *)
InputsOf(ty, n) ==
  LET complete == Fits(Shapes(ty, n), n)
  IN  UNION { {SubSeq(s, 1, m) : m \in 0 .. Len(s)} : s \in complete }
        \cup {s \o << Tk("int", "ok") >> : s \in Fits(complete, 6)}

AllInputs ==
  [ Nested  |-> InputsOf("Nested", MaxTokens),
    Kitchen |-> InputsOf("Kitchen", MaxTokens),
    Keyed   |-> InputsOf("Keyed", MaxTokens - 1) ]

-----------------------------------------------------------------------------
(* Following a path from the root of the input.                            *)

KeysOf(name) ==
  UNION { UNION {Types[ty].members[m].keys :
                   m \in {m \in DOMAIN Types[ty].members : Types[ty].members[m].name = name}}
            : ty \in {ty \in DOMAIN Types : Types[ty].kind = "struct"} }
    \cup (IF name = "value" THEN {"value"} ELSE {})

Transparents ==
  {Types[ty].members[1].name : ty \in {ty \in DOMAIN Types : Types[ty].kind = "transparent"}}

Children(i) ==
  LET level == Level(i) + 1
  IN  {j \in Inside(i) : j > i /\ Level(j) = level /\ in[j].k # "end"}
KeyAt(i, ks) == {j \in Children(i) : in[j].k = "key" /\ in[j].v \in ks}

Follow(i, s) ==
  CASE s[1] = "member" -> IF s[2] \in Transparents THEN {i} ELSE {j + 1 : j \in KeyAt(i, KeysOf(s[2]))}
    [] s[1] = "key"    -> {j + 1 : j \in KeyAt(i, {s[2]})}
    [] s[1] = "index"  -> LET c == Children(i) IN {j \in c : Cardinality({k \in c : k < j}) = s[2]}

RECURSIVE Resolve(_, _)
Resolve(is, path) ==
  IF path = << >> THEN is ELSE Resolve(UNION {Follow(i, Head(path)) : i \in is}, Tail(path))

(* Items in the place of a key that are none of the keys a type may have.  *)
OtherKeys(i) ==
  LET c == Children(i)
  IN  {j \in c : in[i].k = "map" /\ in[j].k # "key" /\ Cardinality({k \in c : k < j}) % 2 = 0}

(* Where an error of this kind lies, given the item its path names.  A     *)
(* mismatch may be in a key of the item, or in the tag of a variant (whose *)
(* path, unlike that of no_variant_alternative, stops at the variant).     *)
TagKeys == {Types[ty].tag : ty \in {ty \in DOMAIN Types : Types[ty].kind = "variant"}}

Lies(e, i) ==
  CASE e.code \in {"unknown_field", "duplicate_key"} -> e.at = i - 1
    [] e.code \in {"missing_field", "missing_tag", "out_of_range", "no_variant_alternative"} -> e.at = i
    [] e.code = "type_mismatch" -> e.at = i \/ e.at \in KeyAt(i, IntKeys) \cup OtherKeys(i) \/ e.at - 1 \in KeyAt(i, TagKeys)
    [] OTHER -> e.at \in Inside(i) \/ e.at = Len(in) + 1

Starts(e) == IF e.truncated THEN {i \in DOMAIN in : in[i].k # "end"} ELSE {1}

-----------------------------------------------------------------------------
(* Every error decode_all reports lies where its path says: the path, put  *)
(* together leaf first while frames return, some of it long after the      *)
(* error was recorded, leads from the root of the input to the item (or    *)
(* the key) at the offset of the error.                                    *)
PathsLocate ==
  Finished =>
    \A n \in DOMAIN collected :
      LET e == collected[n]
      IN  e.code # "trailing_content" => \E i \in Resolve(Starts(e), e.path) : Lies(e, i)

(* The run of decode_all was ended by a value that the reader itself       *)
(* refuses, wherever it stands.                                            *)
EndedByRefusal == st # OK /\ st.at \in DOMAIN in /\ in[st.at].v = "strict"

(* Recovery reports nothing twice, but for a value that the reader itself  *)
(* refuses: each struct around it records the error, rewinds and meets it  *)
(* again in the skip, and the last of them ends the run with it.           *)
NoRepeats ==
  Finished => \A i, j \in DOMAIN collected :
    i < j => \/ collected[i].code # collected[j].code
             \/ collected[i].at # collected[j].at
             \/ collected[i].detail # collected[j].detail
             \/ EndedByRefusal /\ collected[j].at = st.at

(* Each missing_field error is about a member whose key is absent from the *)
(* object at that offset, and unless the run was cut short every absent    *)
(* required member of the outermost struct is reported.                    *)
MissingExact ==
  Finished =>
    /\ \A n \in DOMAIN collected :
         collected[n].code = "missing_field" => KeyAt(collected[n].at, KeysOf(collected[n].detail)) = {}
    /\ st = OK =>
         \A m \in DOMAIN Types[root].members :
           Types[root].members[m].required /\ KeyAt(1, Types[root].members[m].keys) = {} =>
             \E n \in DOMAIN collected : collected[n].at = 1 /\ collected[n].detail = Types[root].members[m].name

(* The outermost item is an object, and none of its keys is an integer (a  *)
(* key of the wrong kind belongs to no member).                            *)
OfMembers == in # << >> /\ in[1].k = "map" /\ KeyAt(1, IntKeys) = {}

EndsRun == {"none", "truncated", "depth_exceeded", "trailing_content"}

(* A member that fails with an error that is not a syntax error ends the   *)
(* run of decode_all only where its value, or one inside it, is one that   *)
(* the reader itself refuses and so cannot skip either.                    *)
MemberErrorsRecover == Finished /\ OfMembers => st.code \in EndsRun \/ EndedByRefusal

(* The item a path leads to when every repeated key counts once, its first *)
(* or its last occurrence.                                                 *)
RECURSIVE Occurrence(_, _, _)
Occurrence(i, path, first) ==
  IF path = << >> THEN i
  ELSE LET c == Follow(i, Head(path))
       IN  IF c = {} THEN 0
           ELSE Occurrence(IF first THEN Min(c) ELSE Max(c), Tail(path), first)

(* Unless the last duplicate wins, every scalar of the value comes from    *)
(* the first occurrence of each key on the way to it, also where an        *)
(* earlier occurrence failed and was skipped.  When the last one wins, no  *)
(* scalar of an earlier occurrence is left in a decoded value.  (A member  *)
(* that is itself a struct is not cleared; Kitchen has none.)              *)
DuplicatesResolved ==
  Finished =>
    IF Duplicates # "last_wins"
    THEN \A c \in out \cup decoded.out : c[2] = Occurrence(1, c[1], TRUE)
    ELSE decoded.st = OK => \A c \in decoded.out : c[2] = Occurrence(1, c[1], FALSE)

===============================================================================
