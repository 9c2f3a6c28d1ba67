------------------------------ MODULE SinkClient ------------------------------
(***************************************************************************)
(* Any caller of the writer that keeps to what a sink expects: one value   *)
(* at the top; as many items in a container as it announced, if it did;    *)
(* keys and values in turn; between begin_key and end_key one value; after *)
(* a tag a value; and, after begin_map_ordered, keys in canonical order.   *)
(* core/traverse.hpp is such a caller, custom codecs are others.           *)
(***************************************************************************)
EXTENDS CborWriter

CONSTANTS
  MaxCalls,   \* bound: calls of the sink, by the options of the writer
  MaxOthers,  \* bound: values among them that are not the integer 0
  MaxSize,    \* bound: sizes of containers that are announced
  KeyHeads,   \* one-token keys
  Texts,      \* text and byte strings
  Reals       \* floats, with the width asked for

ASSUME ClientAssumption ==
  /\ MaxSize \in Nat
  /\ \A t \in KeyHeads : t \in Token /\ t.mt # "break"
  /\ \A t \in Texts :
       t \in [mt : String, size : Nat, data : Nat, valid : BOOLEAN, bounds : SUBSET Nat]
  /\ Reals \subseteq RealSet

VARIABLES
  plan,    \* the containers the caller has open, and where it is in each
  tagged,  \* a tag was written and its item was not
  calls,   \* calls so far
  said     \* history: what the calls say, in their order, with every container
           \* of unknown size

vars == << writer, plan, tagged, calls, said >>

NoHead == MakeHead("break", 0)

Opened(at, n, ordered) == [at |-> at, left |-> n, ordered |-> ordered, last |-> NoHead]

Cur  == plan[Len(plan)]
More == Cur.left # 0

(* A value may be written here, and where the caller is after it.          *)
ValueNext ==
  IF plan = << >> THEN calls = 0 \/ tagged
  ELSE \/ tagged
       \/ Cur.at = "item" /\ More
       \/ Cur.at \in {"value", "inkey"}

Less(n) == IF n = Nullopt THEN n ELSE n - 1

Filled ==
  IF plan = << >> THEN plan
  ELSE [plan EXCEPT ![Len(plan)] =
          CASE Cur.at = "item"  -> [Cur EXCEPT !.left = Less(@)]
            [] Cur.at = "inkey" -> [Cur EXCEPT !.at = "endkey"]
            [] Cur.at = "value" -> [Cur EXCEPT !.at = "key", !.left = Less(@)] ]

Call == err = "none" /\ calls < MaxCalls[opts] /\ calls' = calls + 1

Says(ts) == said' = said \o ts

Others == Len(SelectSeq(said, LAMBDA t : t.mt \in {"simple", "text", "bytes"}))

WriteInt ==
  /\ Call /\ ValueNext
  /\ Value(MakeHead("uint", 0)) /\ Says(<< MakeHead("uint", 0) >>)
  /\ plan' = Filled
  /\ tagged' = FALSE

Write ==
  /\ Call /\ ValueNext /\ Others < MaxOthers
  /\ \/ \E d \in Reals : Real(d) /\ Says(<< RealToken(d) >>)
     \/ \E r \in BOOLEAN : Simple(0, r) /\ Says(<< MakeHead("simple", 0) >>)
     \/ \E t \in Texts, indef \in BOOLEAN : StringValue(t, indef) /\ Says(<< StringToken(t) >>)
     \/ \E t \in Texts :
          /\ t.mt = "bytes"
          /\ WriteRange(1, t)
          /\ Says(<< MakeHead("tag", 1), StringToken(t) >>)
  /\ plan' = Filled
  /\ tagged' = FALSE

WriteTag ==
  /\ Call /\ ValueNext
  /\ Tag(1) /\ Says(<< MakeHead("tag", 1) >>)
  /\ tagged' = TRUE
  /\ UNCHANGED plan

Sizes == {Nullopt} \cup 0 .. MaxSize

BeginContainer ==
  /\ Call /\ ValueNext
  /\ \E n \in Sizes, indef \in BOOLEAN :
       \/ /\ BeginField("array", n, indef) /\ Says(<< IndefiniteHead("array") >>)
          /\ plan' = Append(Filled, Opened("item", n, FALSE))
       \/ /\ BeginField("map", n, indef) /\ Says(<< IndefiniteHead("map") >>)
          /\ plan' = Append(Filled, Opened("key", n, FALSE))
       \/ /\ ~indef /\ BeginOrdered(n) /\ Says(<< IndefiniteHead("map") >>)
          /\ plan' = Append(Filled, Opened("key", n, TRUE))
  /\ tagged' = FALSE

KeyNext == plan # << >> /\ Cur.at = "key" /\ More /\ ~tagged

WriteKey ==
  /\ Call /\ KeyNext
  /\ \E t \in KeyHeads :
       /\ Cur.ordered /\ Cur.last # NoHead => EncodedLess(<< Cur.last >>, << t >>)
       /\ Key(t) /\ Says(<< t >>)
       /\ plan' = [plan EXCEPT ![Len(plan)] = [Cur EXCEPT !.at = "value", !.last = t]]
  /\ UNCHANGED tagged

WriteTextKey ==
  /\ Call /\ KeyNext /\ ~Cur.ordered
  /\ \E t \in Texts : t.mt = "text" /\ StringKey(t) /\ Says(<< StringToken(t) >>)
  /\ plan' = [plan EXCEPT ![Len(plan)].at = "value"]
  /\ UNCHANGED tagged

BeginKey ==
  /\ Call /\ KeyNext /\ ~Cur.ordered
  /\ KeyStart
  /\ plan' = [plan EXCEPT ![Len(plan)].at = "inkey"]
  /\ UNCHANGED << tagged, said >>

EndKey ==
  /\ Call /\ plan # << >> /\ Cur.at = "endkey"
  /\ KeyEnd
  /\ plan' = [plan EXCEPT ![Len(plan)].at = "value"]
  /\ UNCHANGED << tagged, said >>

EndContainer ==
  /\ Call /\ plan # << >> /\ Cur.at \in {"item", "key"} /\ ~tagged
  /\ Cur.left \in {0, Nullopt}
  /\ End /\ Says(<< BreakByte >>)
  /\ plan' = Front(plan)
  /\ UNCHANGED tagged

Init == WriterInit /\ plan = << >> /\ tagged = FALSE /\ calls = 0 /\ said = << >>

Next ==
  \/ WriteInt \/ Write \/ WriteTag \/ BeginContainer \/ WriteKey \/ WriteTextKey
  \/ BeginKey \/ EndKey \/ EndContainer

Spec == Init /\ [][Next]_vars

-----------------------------------------------------------------------------
(* Properties.                                                             *)

(* The entries of f tile its body, and each key is closed unless it is the *)
(* last one and still being written.                                       *)
Delimited(f, open) ==
  /\ f.entries # << >> => f.entries[1].start = 0
  /\ \A i \in DOMAIN f.entries :
       \/ f.entries[i].start < f.entries[i].key_end /\ f.entries[i].key_end <= Len(f.body)
       \/ open /\ i = Len(f.entries) /\ f.entries[i].key_end = 0
  /\ \A i \in 1 .. Len(f.entries) - 1 : f.entries[i].key_end < f.entries[i + 1].start

(* Bytes go to the innermost container only: what a frame has collected is *)
(* tiled by its entries, the keys of which are closed except the one being *)
(* written, and frames that are not buffered collect nothing.  So what     *)
(* close() sorts is whole entries, and what it compares is whole keys.     *)
EntriesDelimited ==
  err = "none" =>
    /\ Len(frames) = Len(plan)
    /\ \A i \in DOMAIN frames :
         IF ~frames[i].buffered THEN frames[i].body = << >> /\ frames[i].entries = << >>
         ELSE frames[i].is_map => Delimited(frames[i], plan[i].at \in {"inkey", "endkey"})

===============================================================================
