------------------------------- MODULE ErrorPath -------------------------------
(***************************************************************************)
(* vcodec::error and encode_error (error.hpp): a handle owns a heap block; *)
(* the block has the steps of the path, leaf-first until finalize()        *)
(* reverses them, and a deque with the text of keys, which steps refer to  *)
(* by address.                                                             *)
(***************************************************************************)
EXTENDS Integers, Sequences, FiniteSets, SequencesExt

CONSTANTS
  Handles,        \* variables of the class
  Plain,          \* steps without text of their own: members, indexes, integer keys
  Keys,           \* texts of keys
  MaxPathSteps,   \* max_path_steps
  Blocks,         \* bound: heap blocks
  MaxCalls,       \* bound: calls
  Uses            \* what callers do: <<class, "copy" | "copy_final" | "late_push">>

ASSUME PathAssumption == MaxPathSteps \in Nat \ {0}
ASSUME NamesAssumption == Plain \cap Keys = {}
ASSUME BlocksAssumption == 0 \notin Blocks

VARIABLES
  class,   \* "error" or "encode_error"
  at,      \* the block of each handle, 0 when it holds none
  live,    \* the blocks that are allocated
  heap,    \* their contents
  calls,   \* calls made so far
  call     \* the last one

vars == << class, at, live, heap, calls, call >>

Step  == [kind : {"plain", "key_text"}, name : Plain \cup {<< >>}, blk : {0} \cup Blocks, idx : Nat]

PlainStep(n)  == [kind |-> "plain", name |-> n, blk |-> 0, idx |-> 0]
KeyStep(b, i) == [kind |-> "key_text", name |-> << >>, blk |-> b, idx |-> i]

Block == [steps : Seq(Step), owned : Seq(Keys), truncated : BOOLEAN, finalized : BOOLEAN]

NewBlock == [steps |-> << >>, owned |-> << >>, truncated |-> FALSE, finalized |-> FALSE]

Init ==
  /\ class \in {"error", "encode_error"}
  /\ at = [h \in Handles |-> 0]
  /\ live = {}
  /\ heap = [b \in Blocks |-> NewBlock]
  /\ calls = 0 /\ call = << "none" >>

-----------------------------------------------------------------------------
Called(c) == calls < MaxCalls /\ calls' = calls + 1 /\ call' = c /\ UNCHANGED class

Holds(h) == at[h] # 0

Free == Blocks \ live

(* The heap without block b (0 is none).                                   *)
Freed(b) == [i \in Blocks |-> IF i = b THEN NewBlock ELSE heap[i]]

(* unique_ptr: g takes a new block and frees the one it had.               *)
Takes(g, contents(_)) ==
  /\ Free # {}
  /\ LET b == CHOOSE b \in Free : TRUE
     IN  /\ at' = [at EXCEPT ![g] = b]
         /\ live' = (live \ {at[g]}) \cup {b}
         /\ heap' = [Freed(at[g]) EXCEPT ![b] = contents(b)]

Make(h) ==
  /\ ~Holds(h)
  /\ Called(<< "make", h >>)
  /\ Takes(h, LAMBDA b : NewBlock)

(* Mutant: the limit is checked after the step is added.                   *)
FullLate(b) == Len(b.steps) > MaxPathSteps

Full(b) == Len(b.steps) >= MaxPathSteps

(* push: after finalize() an error keeps root-first order, by taking out   *)
(* the step nearest the root if need be; encode_error has no such case.    *)
Pushed(b, s) ==
  LET late == << s >> \o IF Full(b) THEN Tail(b.steps) ELSE b.steps
  IN  [steps     |-> IF b.finalized /\ class = "error" THEN late
                     ELSE IF Full(b) THEN b.steps ELSE Append(b.steps, s),
       owned     |-> b.owned,
       truncated |-> IF Full(b) THEN TRUE ELSE b.truncated,
       finalized |-> b.finalized]

MayPush(h) == Holds(h) /\ (heap[at[h]].finalized => << class, "late_push" >> \in Uses)

(* push_member, push_index, push_key(uint64_t).                            *)
PushPlain(h, n) ==
  /\ MayPush(h)
  /\ Called(<< "push", h, n >>)
  /\ heap' = [heap EXCEPT ![at[h]] = Pushed(@, PlainStep(n))]
  /\ UNCHANGED << at, live >>

Owning(b, k) == [b EXCEPT !.owned = Append(@, k)]

(* push_key(string_view): the text is owned even if the step is dropped.   *)
PushKey(h, k) ==
  /\ MayPush(h)
  /\ Called(<< "push", h, k >>)
  /\ LET b == at[h]
         s == KeyStep(b, Len(heap[b].owned) + 1)
     IN  heap' = [heap EXCEPT ![b] = Pushed(Owning(@, k), s)]
  /\ UNCHANGED << at, live >>

Reversed(b) ==
  IF b.finalized THEN b
  ELSE [steps |-> Reverse(b.steps), owned |-> b.owned, truncated |-> b.truncated, finalized |-> TRUE]

Finalize(h) ==
  /\ Holds(h)
  /\ Called(<< "finalize", h >>)
  /\ heap' = [heap EXCEPT ![at[h]] = Reversed(@)]
  /\ UNCHANGED << at, live >>

(* Mutant: the copy's steps go on referring to the text of the original.   *)
NotRebound(c, b) == c

(* The place of the iterator over owned at step i.                         *)
KeysTo(c, i) == Cardinality({j \in 1 .. i : c.steps[j].kind = "key_text"})

(* rebind: the steps that are keys, in the order of the path, are given    *)
(* the texts in the order they were pushed.                                *)
Rebound(c, b) ==
  [c EXCEPT !.steps = [i \in DOMAIN @ |->
     IF @[i].kind = "key_text" /\ KeysTo(c, i) <= Len(c.owned)
     THEN KeyStep(b, KeysTo(c, i))
     ELSE @[i]]]

(* Copy construction (g holds nothing yet) and copy assignment; the copy   *)
(* of an encode_error is member by member.                                 *)
Copy(h, g) ==
  /\ Holds(h)
  /\ << class, IF heap[at[h]].finalized THEN "copy_final" ELSE "copy" >> \in Uses
  /\ Called(<< "copy", h, g >>)
  /\ Takes(g, LAMBDA b : IF class = "error" THEN Rebound(heap[at[h]], b) ELSE heap[at[h]])

Move(h, g) ==
  /\ Holds(h) /\ h # g
  /\ Called(<< "move", h, g >>)
  /\ at' = [at EXCEPT ![g] = at[h], ![h] = 0]
  /\ live' = live \ {at[g]}
  /\ heap' = Freed(at[g])

Drop(h) ==
  /\ Holds(h)
  /\ Called(<< "drop", h >>)
  /\ at' = [at EXCEPT ![h] = 0]
  /\ live' = live \ {at[h]}
  /\ heap' = Freed(at[h])

Next ==
  \E h \in Handles :
    \/ Make(h) \/ Finalize(h) \/ Drop(h)
    \/ \E n \in Plain : PushPlain(h, n)
    \/ \E k \in Keys : PushKey(h, k)
    \/ \E g \in Handles : Copy(h, g) \/ Move(h, g)

Spec == Init /\ [][Next]_vars

-----------------------------------------------------------------------------
(* Properties.                                                             *)

(* Paths never exceed max_path_steps, and each block that is allocated has *)
(* one handle: nothing is shared, lost or freed twice.                     *)
TypeOK ==
  /\ class \in {"error", "encode_error"}
  /\ at \in [Handles -> {0} \cup Blocks]
  /\ live = {at[h] : h \in Handles} \ {0}
  /\ \A h, g \in Handles : at[h] = at[g] /\ h # g => at[h] = 0
  /\ heap \in [Blocks -> Block]
  /\ \A b \in live : Len(heap[b].steps) <= MaxPathSteps

(* What a step reads through its string_view; text that is gone reads as   *)
(* no name.                                                                *)
NameOf(s) ==
  IF s.kind = "plain" THEN s.name
  ELSE IF s.blk \in live /\ s.idx \in DOMAIN heap[s.blk].owned THEN heap[s.blk].owned[s.idx]
  ELSE << >>

Shown(b) ==
  LET names == [i \in DOMAIN b.steps |-> NameOf(b.steps[i])]
  IN  [path |-> IF b.finalized THEN names ELSE Reverse(names),
       truncated |-> b.truncated, sealed |-> b.finalized]

(* What each handle shows.                                                 *)
View == [h \in Handles |-> IF Holds(h) THEN {Shown(heap[at[h]])} ELSE {}]

Promise == INSTANCE ErrorPromise WITH Names <- Plain \cup Keys, value <- View

(* The blocks, their owned texts and the order of steps implement errors   *)
(* that are plain values: whatever was copied, moved, finalized or freed   *)
(* in between, each path shows the names it was given, root first, and a   *)
(* full one keeps those nearest the leaf unless it was finalized before.   *)
ImplementsPromise == Promise!Spec

(* Copies are deep, of errors that a decode has returned (and finalized)   *)
(* too: right after a copy, both show the same path.                       *)
CopiesAreDeep ==
  call[1] = "copy" => Shown(heap[at[call[2]]]) = Shown(heap[at[call[3]]])

===============================================================================
