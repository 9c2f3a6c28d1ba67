--------------------------- MODULE ErrorPathProofs ----------------------------
(***************************************************************************)
(* Proofs about ErrorPath, for any handles, names, blocks and number of    *)
(* steps: a path never grows past its limit, and the blocks with their     *)
(* strings implement ErrorPromise as long as no finalized error is copied. *)
(***************************************************************************)
EXTENDS ErrorPath, FiniteSetTheorems, SequenceTheorems, TLAPS

(* A block within the limit.                                               *)
Bounded == {b \in Block : Len(b.steps) <= MaxPathSteps}

-----------------------------------------------------------------------------
(* Both kinds of steps are steps.                                          *)
LEMMA PlainStepType ==
  ASSUME NEW n \in Plain
  PROVE  PlainStep(n) \in Step
BY DEF PlainStep, Step

(* See PlainStepType.                                                      *)
LEMMA KeyStepType ==
  ASSUME NEW b \in Blocks, NEW i \in Nat
  PROVE  /\ KeyStep(b, i) \in Step /\ KeyStep(b, i).kind = "key_text"
         /\ KeyStep(b, i).blk = b /\ KeyStep(b, i).idx = i
BY DEF KeyStep, Step

(* The operations on a block.                                              *)

(* std::reverse keeps length and type, and is its own inverse.             *)
LEMMA ReverseSeq ==
  ASSUME NEW S, NEW s \in Seq(S)
  PROVE  /\ Reverse(s) \in Seq(S)
         /\ Len(Reverse(s)) = Len(s)
         /\ DOMAIN Reverse(s) = 1 .. Len(s)
         /\ \A i \in 1 .. Len(s) : Len(s) - i + 1 \in 1 .. Len(s) /\ Reverse(s)[i] = s[Len(s) - i + 1]
<1>1. Len(s) \in Nat
  OBVIOUS
<1>2. \A i \in 1 .. Len(s) : Len(s) - i + 1 \in 1 .. Len(s)
  BY <1>1
<1>3. Reverse(s) = [i \in 1 .. Len(s) |-> s[Len(s) - i + 1]]
  BY DEF Reverse
<1>4. \A i \in 1 .. Len(s) : s[Len(s) - i + 1] \in S
  BY <1>2, ElementOfSeq
<1>5. Reverse(s) \in Seq(S) /\ Len(Reverse(s)) = Len(s)
  BY <1>1, <1>3, <1>4, IsASeq
<1> QED
  BY <1>2, <1>3, <1>5

(* A step put before a sequence.                                           *)
LEMMA PrependSeq ==
  ASSUME NEW S, NEW s \in Seq(S), NEW e \in S
  PROVE  /\ << e >> \o s \in Seq(S)
         /\ Len(<< e >> \o s) = Len(s) + 1
         /\ (<< e >> \o s)[1] = e
         /\ \A i \in 2 .. Len(s) + 1 : (<< e >> \o s)[i] = s[i - 1]
  OBVIOUS

(* push keeps a block within the limit, before and after finalize.         *)
LEMMA PushedBounded ==
  ASSUME NEW b \in Bounded, NEW s \in Step
  PROVE  Pushed(b, s) \in Bounded
<1>1. /\ b \in Block /\ b.steps \in Seq(Step) /\ Len(b.steps) \in Nat
      /\ Len(b.steps) <= MaxPathSteps /\ MaxPathSteps \in Nat \ {0}
  BY PathAssumption DEF Bounded, Block
<1>2. Pushed(b, s).steps \in Seq(Step) /\ Len(Pushed(b, s).steps) <= MaxPathSteps
  <2>1. CASE Full(b)
    <3>1. b.steps # << >> /\ Len(b.steps) = MaxPathSteps
      BY <1>1, <2>1 DEF Full
    <3>2. Tail(b.steps) \in Seq(Step) /\ Len(Tail(b.steps)) = Len(b.steps) - 1
      BY <1>1, <3>1, HeadTailProperties
    <3>3. << s >> \o Tail(b.steps) \in Seq(Step) /\ Len(<< s >> \o Tail(b.steps)) = MaxPathSteps
      BY <1>1, <3>1, <3>2, PrependSeq
    <3> QED
      BY <1>1, <2>1, <3>3 DEF Pushed
  <2>2. CASE ~Full(b)
    <3>1. Len(b.steps) + 1 <= MaxPathSteps
      BY <1>1, <2>2 DEF Full
    <3>2. << s >> \o b.steps \in Seq(Step) /\ Len(<< s >> \o b.steps) = Len(b.steps) + 1
      BY <1>1, PrependSeq
    <3>3. Append(b.steps, s) \in Seq(Step) /\ Len(Append(b.steps, s)) = Len(b.steps) + 1
      BY <1>1
    <3> QED
      BY <2>2, <3>1, <3>2, <3>3 DEF Pushed
  <2> QED
    BY <2>1, <2>2
<1>3. Pushed(b, s).truncated \in BOOLEAN
  BY <1>1 DEF Pushed, Block
<1>4. Pushed(b, s) = [steps |-> Pushed(b, s).steps, owned |-> b.owned,
                      truncated |-> Pushed(b, s).truncated, finalized |-> b.finalized]
  BY DEF Pushed
<1> HIDE DEF Pushed
<1> QED
  BY <1>1, <1>2, <1>3, <1>4 DEF Bounded, Block

(* The keys among the first i steps are finitely many.                     *)
LEMMA KeySetFinite ==
  ASSUME NEW c, NEW i \in Nat
  PROVE  IsFiniteSet({j \in 1 .. i : c.steps[j].kind = "key_text"})
<1>1. IsFiniteSet(1 .. i)
  BY FS_Interval
<1> QED
  BY <1>1, FS_Subset

(* How many they are is a number.                                          *)
LEMMA KeysToNat ==
  ASSUME NEW c, NEW i \in Nat
  PROVE  KeysTo(c, i) \in Nat
BY KeySetFinite, FS_CardinalityType DEF KeysTo

(* rebind changes neither the number of steps nor their kinds.             *)
LEMMA ReboundBounded ==
  ASSUME NEW c \in Bounded, NEW b \in Blocks
  PROVE  Rebound(c, b) \in Bounded
<1>1. c \in Block /\ c.steps \in Seq(Step) /\ Len(c.steps) \in Nat /\ Len(c.steps) <= MaxPathSteps
  BY DEF Bounded, Block
<1> DEFINE new(i) == IF c.steps[i].kind = "key_text" /\ KeysTo(c, i) <= Len(c.owned)
                     THEN KeyStep(b, KeysTo(c, i))
                     ELSE c.steps[i]
<1>2. DOMAIN c.steps = 1 .. Len(c.steps)
  BY <1>1
<1>3. \A i \in 1 .. Len(c.steps) : new(i) \in Step
  <2> TAKE i \in 1 .. Len(c.steps)
  <2>1. c.steps[i] \in Step
    BY <1>1, ElementOfSeq
  <2>2. i \in Nat
    BY <1>1
  <2>3. KeysTo(c, i) \in Nat
    BY <2>2, KeysToNat
  <2>4. KeyStep(b, KeysTo(c, i)) \in Step
    BY <2>3, KeyStepType
  <2> QED
    BY <2>1, <2>4
<1>4. Rebound(c, b) = [c EXCEPT !.steps = [i \in 1 .. Len(c.steps) |-> new(i)]]
  BY <1>2 DEF Rebound
<1> HIDE DEF new
<1>5. /\ [i \in 1 .. Len(c.steps) |-> new(i)] \in Seq(Step)
      /\ Len([i \in 1 .. Len(c.steps) |-> new(i)]) = Len(c.steps)
  BY <1>1, <1>3, IsASeq
<1> QED
  BY <1>1, <1>4, <1>5 DEF Bounded, Block

(* A block that was just allocated.                                        *)
LEMMA NewBounded == NewBlock \in Bounded
<1>1. << >> \in Seq(Step) /\ << >> \in Seq(Keys) /\ Len(<< >>) = 0
  BY EmptySeq
<1> QED
  BY <1>1, PathAssumption DEF NewBlock, Bounded, Block

(* finalize keeps a block within the limit.                                *)
LEMMA ReversedBounded ==
  ASSUME NEW b \in Bounded
  PROVE  Reversed(b) \in Bounded
<1>1. b \in Block /\ b.steps \in Seq(Step) /\ Len(b.steps) <= MaxPathSteps
  BY DEF Bounded, Block
<1>2. Reverse(b.steps) \in Seq(Step) /\ Len(Reverse(b.steps)) = Len(b.steps)
  BY <1>1, ReverseSeq
<1> QED
  BY <1>1, <1>2 DEF Reversed, Bounded, Block

(* push_key stores the text first.                                         *)
LEMMA OwnedBounded ==
  ASSUME NEW b \in Bounded, NEW k \in Keys
  PROVE  Owning(b, k) \in Bounded
<1>1. b \in Block /\ b.owned \in Seq(Keys) /\ Len(b.steps) <= MaxPathSteps
  BY DEF Bounded, Block
<1>2. Append(b.owned, k) \in Seq(Keys)
  BY <1>1
<1> QED
  BY <1>1, <1>2 DEF Owning, Bounded, Block

-----------------------------------------------------------------------------
(* The type invariant is inductive.                                        *)

(* Each handle with a block has one of its own, within the limit.          *)
LEMMA HeldBlock ==
  ASSUME TypeOK, NEW h \in Handles, Holds(h)
  PROVE  at[h] \in live /\ at[h] \in Blocks /\ heap[at[h]] \in Bounded
BY DEF TypeOK, Holds, Bounded

(* A step that changes the contents of a block of a handle in place.       *)
LEMMA InPlace ==
  ASSUME TypeOK, NEW h \in Handles, Holds(h), NEW c \in Bounded,
         heap' = [heap EXCEPT ![at[h]] = c], UNCHANGED << class, at, live >>
  PROVE  TypeOK'
BY HeldBlock DEF TypeOK, Bounded

(* A step in which g gets block b, which no handle has, with contents c.   *)
LEMMA NewOwner ==
  ASSUME TypeOK, NEW g \in Handles, NEW b \in Free, NEW c \in Bounded,
         at' = [at EXCEPT ![g] = b], live' = (live \ {at[g]}) \cup {b},
         heap' = [Freed(at[g]) EXCEPT ![b] = c], UNCHANGED class
  PROVE  TypeOK'
<1>1. b \in Blocks /\ b \notin live /\ b # 0 /\ c \in Block /\ Len(c.steps) <= MaxPathSteps
  BY BlocksAssumption DEF Free, Bounded
<1>2. \A h \in Handles : at[h] # b
  BY <1>1 DEF TypeOK
<1>3. NewBlock \in Block
  BY NewBounded DEF Bounded
<1>4. at' \in [Handles -> {0} \cup Blocks]
  BY <1>1 DEF TypeOK
<1>5. live' = {at'[h] : h \in Handles} \ {0}
  BY <1>1, <1>2 DEF TypeOK
<1>6. \A h, f \in Handles : at'[h] = at'[f] /\ h # f => at'[h] = 0
  BY <1>2 DEF TypeOK
<1>7. heap' \in [Blocks -> Block] /\ \A i \in Blocks : heap'[i] = IF i = b THEN c ELSE IF i = at[g] THEN NewBlock ELSE heap[i]
  BY <1>1, <1>3 DEF TypeOK, Freed
<1>8. \A i \in live' : Len(heap'[i].steps) <= MaxPathSteps
  BY <1>1, <1>7 DEF TypeOK
<1> QED
  BY <1>4, <1>5, <1>6, <1>7, <1>8 DEF TypeOK

(* unique_ptr's choice of a block is a free one.                           *)
LEMMA Chosen == ASSUME Free # {} PROVE (CHOOSE b \in Free : TRUE) \in Free
OBVIOUS

(* Every step of every operation keeps the type invariant.                 *)
LEMMA TypeStep == TypeOK /\ [Next]_vars => TypeOK'
<1> SUFFICES ASSUME TypeOK, [Next]_vars PROVE TypeOK'
  OBVIOUS
<1>1. CASE UNCHANGED vars
  BY <1>1 DEF TypeOK, vars
<1>2. CASE Next
  <2>1. PICK h \in Handles :
          \/ Make(h) \/ Finalize(h) \/ Drop(h)
          \/ \E n \in Plain : PushPlain(h, n)
          \/ \E k \in Keys : PushKey(h, k)
          \/ \E g \in Handles : Copy(h, g) \/ Move(h, g)
    BY <1>2 DEF Next
  <2> DEFINE b == CHOOSE b \in Free : TRUE
  <2>2. CASE Make(h)
    <3>1. b \in Free
      BY <2>2, Chosen DEF Make, Takes
    <3>2. /\ at' = [at EXCEPT ![h] = b] /\ live' = (live \ {at[h]}) \cup {b}
          /\ heap' = [Freed(at[h]) EXCEPT ![b] = NewBlock] /\ UNCHANGED class
      BY <2>2 DEF Make, Takes, Called
    <3> QED
      BY <3>1, <3>2, NewBounded, NewOwner
  <2>3. CASE Finalize(h)
    <3>1. Holds(h) /\ heap[at[h]] \in Bounded /\ Reversed(heap[at[h]]) \in Bounded
      BY <2>3, HeldBlock, ReversedBounded DEF Finalize
    <3>2. heap' = [heap EXCEPT ![at[h]] = Reversed(heap[at[h]])] /\ UNCHANGED << class, at, live >>
      BY <2>3 DEF Finalize, Called
    <3> QED
      BY <3>1, <3>2, InPlace
  <2>4. CASE Drop(h)
    <3>1. NewBlock \in Block
      BY NewBounded DEF Bounded
    <3> QED
      BY <2>4, <3>1 DEF Drop, Called, Freed, Holds, TypeOK
  <2>5. ASSUME NEW n \in Plain, PushPlain(h, n) PROVE TypeOK'
    <3>1. Holds(h) /\ heap[at[h]] \in Bounded /\ Pushed(heap[at[h]], PlainStep(n)) \in Bounded
      BY <2>5, HeldBlock, PlainStepType, PushedBounded DEF PushPlain, MayPush
    <3>2. heap' = [heap EXCEPT ![at[h]] = Pushed(heap[at[h]], PlainStep(n))] /\ UNCHANGED << class, at, live >>
      BY <2>5 DEF PushPlain, Called
    <3> QED
      BY <3>1, <3>2, InPlace
  <2>6. ASSUME NEW k \in Keys, PushKey(h, k) PROVE TypeOK'
    <3> DEFINE c == Owning(heap[at[h]], k)
               s == KeyStep(at[h], Len(heap[at[h]].owned) + 1)
    <3>1. Holds(h) /\ at[h] \in Blocks /\ heap[at[h]] \in Bounded
      BY <2>6, HeldBlock DEF PushKey, MayPush
    <3>2. Len(heap[at[h]].owned) + 1 \in Nat
      BY <3>1 DEF Bounded, Block
    <3>3. c \in Bounded /\ s \in Step
      BY <3>1, <3>2, OwnedBounded, KeyStepType
    <3>4. heap' = [heap EXCEPT ![at[h]] = Pushed(c, s)] /\ UNCHANGED << class, at, live >>
      BY <2>6 DEF PushKey, Called
    <3> HIDE DEF c, s
    <3>5. Pushed(c, s) \in Bounded
      BY <3>3, PushedBounded
    <3> QED
      BY <3>1, <3>4, <3>5, InPlace
  <2>7. ASSUME NEW g \in Handles, Copy(h, g) PROVE TypeOK'
    <3> DEFINE c == IF class = "error" THEN Rebound(heap[at[h]], b) ELSE heap[at[h]]
    <3>1. b \in Free
      BY <2>7, Chosen DEF Copy, Takes
    <3>2. heap[at[h]] \in Bounded /\ b \in Blocks
      BY <2>7, <3>1, HeldBlock DEF Copy, Free
    <3>3. c \in Bounded
      BY <3>2, ReboundBounded
    <3>4. /\ at' = [at EXCEPT ![g] = b] /\ live' = (live \ {at[g]}) \cup {b}
          /\ heap' = [Freed(at[g]) EXCEPT ![b] = c] /\ UNCHANGED class
      BY <2>7 DEF Copy, Takes, Called
    <3> HIDE DEF b, c
    <3> QED
      BY <3>1, <3>3, <3>4, NewOwner
  <2>8. ASSUME NEW g \in Handles, Move(h, g) PROVE TypeOK'
    <3>1. NewBlock \in Block
      BY NewBounded DEF Bounded
    <3> QED
      BY <2>8, <3>1 DEF Move, Called, Freed, Holds, TypeOK
  <2> QED
    BY <2>1, <2>2, <2>3, <2>4, <2>5, <2>6, <2>7, <2>8
<1> QED
  BY <1>1, <1>2

(* No path has more than max_path_steps steps, and every block that is     *)
(* allocated belongs to exactly one error, whatever is pushed, finalized,  *)
(* copied, moved and destroyed.                                            *)
THEOREM PathsBounded == Spec => []TypeOK
<1>1. Init => TypeOK
  BY NewBounded DEF Init, TypeOK, Bounded
<1> QED
  BY <1>1, TypeStep, PTL DEF Spec

-----------------------------------------------------------------------------
(* The refinement.                                                         *)

(* Every key step of block c, which is at address b, refers to a text of   *)
(* this block.                                                             *)
Own(b, c) ==
  \A i \in 1 .. Len(c.steps) :
    c.steps[i].kind = "key_text" => c.steps[i].blk = b /\ c.steps[i].idx \in 1 .. Len(c.owned)

(* And while steps are leaf-first, to the text in its place.               *)
Good(b, c) ==
  /\ Own(b, c)
  /\ ~c.finalized => \A i \in 1 .. Len(c.steps) :
       c.steps[i].kind = "key_text" => c.steps[i].idx = KeysTo(c, i)
  /\ ~c.finalized /\ ~Full(c) => Len(c.owned) = KeysTo(c, Len(c.steps))

(* The inductive invariant of the refinement.                              *)
RInv == TypeOK /\ \A b \in live : Good(b, heap[b])

(* What a block shows, read off the block alone.                           *)
Name(c, s) == IF s.kind = "plain" THEN s.name ELSE c.owned[s.idx]
Mapped(c, u) == [i \in 1 .. Len(u) |-> Name(c, u[i])]
NamesOf(c) == Mapped(c, c.steps)
Text(c)    == [path |-> IF c.finalized THEN NamesOf(c) ELSE Reverse(NamesOf(c)),
               truncated |-> c.truncated, sealed |-> c.finalized]

AnyName == Plain \cup Keys \cup {<< >>}

(* A step of a block that refers to its own texts has a name.              *)
LEMMA NameType ==
  ASSUME NEW c \in Bounded, NEW s \in Step, s.kind = "key_text" => s.idx \in 1 .. Len(c.owned)
  PROVE  Name(c, s) \in AnyName
<1>1. c.owned \in Seq(Keys) /\ s.kind \in {"plain", "key_text"} /\ s.name \in Plain \cup {<< >>}
  BY DEF Bounded, Block, Step
<1>2. CASE s.kind = "plain"
  BY <1>1, <1>2 DEF Name, AnyName
<1>3. CASE s.kind = "key_text"
  <2>1. c.owned[s.idx] \in Keys
    BY <1>1, <1>3, ElementOfSeq
  <2> QED
    BY <1>3, <2>1 DEF Name, AnyName
<1> QED
  BY <1>1, <1>2, <1>3

(* The names of the steps, in their order.                                 *)
LEMMA NamesSeq ==
  ASSUME NEW b, NEW c \in Bounded, Own(b, c)
  PROVE  /\ c.steps \in Seq(Step) /\ Len(c.steps) \in Nat /\ Len(c.steps) <= MaxPathSteps
         /\ NamesOf(c) \in Seq(AnyName) /\ Len(NamesOf(c)) = Len(c.steps)
         /\ \A i \in 1 .. Len(c.steps) : NamesOf(c)[i] = Name(c, c.steps[i])
<1>1. c.steps \in Seq(Step) /\ Len(c.steps) \in Nat /\ Len(c.steps) <= MaxPathSteps
  BY DEF Bounded, Block
<1>2. \A i \in 1 .. Len(c.steps) : Name(c, c.steps[i]) \in AnyName
  <2> TAKE i \in 1 .. Len(c.steps)
  <2>1. c.steps[i] \in Step
    BY <1>1, ElementOfSeq
  <2>2. c.steps[i].kind = "key_text" => c.steps[i].idx \in 1 .. Len(c.owned)
    BY DEF Own
  <2> QED
    BY <2>1, <2>2, NameType
<1> DEFINE f(i) == Name(c, c.steps[i])
<1>3. \A i \in 1 .. Len(c.steps) : f(i) \in AnyName
  BY <1>2
<1>4. NamesOf(c) = [i \in 1 .. Len(c.steps) |-> f(i)]
  BY DEF NamesOf, Mapped
<1>5. \A i \in 1 .. Len(c.steps) : NamesOf(c)[i] = Name(c, c.steps[i])
  BY DEF NamesOf, Mapped
<1> HIDE DEF f
<1>6. NamesOf(c) \in Seq(AnyName) /\ Len(NamesOf(c)) = Len(c.steps)
  BY <1>1, <1>3, <1>4, IsASeq
<1> QED
  BY <1>1, <1>5, <1>6

(* Reading through views is reading the block itself.                      *)
LEMMA ShownText ==
  ASSUME TypeOK, NEW b \in live, Good(b, heap[b])
  PROVE  Shown(heap[b]) = Text(heap[b])
<1>1. heap[b] \in Block /\ heap[b].steps \in Seq(Step) /\ heap[b].owned \in Seq(Keys)
  BY DEF TypeOK, Block
<1>2. DOMAIN heap[b].steps = 1 .. Len(heap[b].steps) /\ DOMAIN heap[b].owned = 1 .. Len(heap[b].owned)
  BY <1>1
<1>3. \A i \in 1 .. Len(heap[b].steps) : NameOf(heap[b].steps[i]) = Name(heap[b], heap[b].steps[i])
  <2> TAKE i \in 1 .. Len(heap[b].steps)
  <2>1. heap[b].steps[i].kind \in {"plain", "key_text"}
    BY <1>1, ElementOfSeq DEF Step
  <2>2. heap[b].steps[i].kind = "key_text" =>
          heap[b].steps[i].blk = b /\ heap[b].steps[i].idx \in DOMAIN heap[b].owned
    BY <1>2 DEF Own, Good
  <2> QED
    BY <2>1, <2>2 DEF NameOf, Name
<1>4. [i \in DOMAIN heap[b].steps |-> NameOf(heap[b].steps[i])] = NamesOf(heap[b])
  BY <1>2, <1>3 DEF NamesOf, Mapped
<1> QED
  BY <1>4 DEF Shown, Text

(* Reversing after adding at the end is adding in front.                   *)
LEMMA ReverseAppend ==
  ASSUME NEW S, NEW s \in Seq(S), NEW e \in S
  PROVE  Reverse(Append(s, e)) = << e >> \o Reverse(s)
<1>1. Len(s) \in Nat /\ Append(s, e) \in Seq(S) /\ Len(Append(s, e)) = Len(s) + 1
  OBVIOUS
<1>2. /\ Reverse(Append(s, e)) \in Seq(S) /\ Len(Reverse(Append(s, e))) = Len(s) + 1
      /\ \A i \in 1 .. Len(s) + 1 : Reverse(Append(s, e))[i] = Append(s, e)[Len(s) + 1 - i + 1]
  <2> DEFINE t == Append(s, e)
  <2>1. t \in Seq(S) /\ Len(t) = Len(s) + 1
    BY <1>1
  <2> HIDE DEF t
  <2>2. /\ Reverse(t) \in Seq(S) /\ Len(Reverse(t)) = Len(t)
        /\ \A i \in 1 .. Len(t) : Reverse(t)[i] = t[Len(t) - i + 1]
    BY <2>1, ReverseSeq
  <2> QED
    BY <2>1, <2>2 DEF t
<1>3. /\ Reverse(s) \in Seq(S) /\ Len(Reverse(s)) = Len(s)
      /\ \A i \in 1 .. Len(s) : Reverse(s)[i] = s[Len(s) - i + 1]
  BY ReverseSeq
<1>4. /\ << e >> \o Reverse(s) \in Seq(S) /\ Len(<< e >> \o Reverse(s)) = Len(s) + 1
      /\ (<< e >> \o Reverse(s))[1] = e
      /\ \A i \in 2 .. Len(s) + 1 : (<< e >> \o Reverse(s))[i] = Reverse(s)[i - 1]
  BY <1>3, PrependSeq
<1>5. \A i \in 1 .. Len(s) + 1 : Reverse(Append(s, e))[i] = (<< e >> \o Reverse(s))[i]
  <2> TAKE i \in 1 .. Len(s) + 1
  <2>1. CASE i = 1
    <3>1. Len(s) + 1 - i + 1 = Len(s) + 1
      BY <1>1, <2>1
    <3>2. Append(s, e)[Len(s) + 1] = e
      OBVIOUS
    <3> QED
      BY <1>2, <1>4, <2>1, <3>1, <3>2
  <2>2. CASE i # 1
    <3>1. i \in 2 .. Len(s) + 1 /\ i - 1 \in 1 .. Len(s) /\ Len(s) + 1 - i + 1 \in 1 .. Len(s)
      BY <1>1, <2>2
    <3>2. Len(s) - (i - 1) + 1 = Len(s) + 1 - i + 1
      BY <1>1
    <3>3. Append(s, e)[Len(s) + 1 - i + 1] = s[Len(s) + 1 - i + 1]
      BY <3>1
    <3> QED
      BY <1>2, <1>3, <1>4, <3>1, <3>2, <3>3
  <2> QED
    BY <2>1, <2>2
<1> QED
  BY <1>2, <1>4, <1>5, SeqEqual

(* Mapped is a map.                                                        *)
LEMMA MappedLen ==
  ASSUME NEW c, NEW u \in Seq(Step), Mapped(c, u) \in Seq(AnyName)
  PROVE  Len(Mapped(c, u)) = Len(u) /\ \A i \in 1 .. Len(u) : Mapped(c, u)[i] = Name(c, u[i])
<1>1. Len(u) \in Nat /\ DOMAIN Mapped(c, u) = 1 .. Len(u)
  BY DEF Mapped
<1>2. DOMAIN Mapped(c, u) = 1 .. Len(Mapped(c, u)) /\ Len(Mapped(c, u)) \in Nat
  BY LenProperties
<1>3. Len(Mapped(c, u)) = Len(u)
  BY <1>1, <1>2
<1>4. \A i \in 1 .. Len(u) : Mapped(c, u)[i] = Name(c, u[i])
  BY DEF Mapped
<1> QED
  BY <1>3, <1>4

(* The names of a sequence of steps with a step added or the first taken   *)
(* out.                                                                    *)
LEMMA PrependNames ==
  ASSUME NEW c, NEW u \in Seq(Step), NEW s \in Step, Name(c, s) \in AnyName, Mapped(c, u) \in Seq(AnyName)
  PROVE  Mapped(c, << s >> \o u) = << Name(c, s) >> \o Mapped(c, u)
<1> DEFINE t == << s >> \o u
           ns == Mapped(c, u)
           r == << Name(c, s) >> \o ns
<1>1. Len(u) \in Nat /\ t \in Seq(Step) /\ Len(t) = Len(u) + 1 /\ t[1] = s /\ \A i \in 2 .. Len(u) + 1 : t[i] = u[i - 1]
  BY PrependSeq
<1>2. Len(ns) = Len(u) /\ \A i \in 1 .. Len(u) : ns[i] = Name(c, u[i])
  BY <1>1, MappedLen
<1>3. r \in Seq(AnyName) /\ Len(r) = Len(ns) + 1 /\ r[1] = Name(c, s) /\ \A i \in 2 .. Len(ns) + 1 : r[i] = ns[i - 1]
  BY PrependSeq
<1> HIDE DEF t, r, ns
<1>4. \A i \in 1 .. Len(t) : r[i] = Name(c, t[i])
  <2> TAKE i \in 1 .. Len(t)
  <2>1. CASE i = 1
    BY <1>1, <1>3, <2>1
  <2>2. CASE i # 1
    <3>1. i \in 2 .. Len(u) + 1 /\ i - 1 \in 1 .. Len(u)
      BY <1>1, <2>2
    <3> QED
      BY <1>1, <1>2, <1>3, <3>1
  <2> QED
    BY <2>1, <2>2
<1>5. r = [i \in 1 .. Len(t) |-> r[i]]
  BY <1>1, <1>2, <1>3
<1>6. r = Mapped(c, t)
  BY <1>4, <1>5 DEF Mapped
<1> QED
  BY <1>6 DEF t, r, ns

(* See PrependNames.                                                       *)
LEMMA TailNames ==
  ASSUME NEW c, NEW u \in Seq(Step), u # << >>, Mapped(c, u) \in Seq(AnyName)
  PROVE  Tail(u) \in Seq(Step) /\ Mapped(c, Tail(u)) = Tail(Mapped(c, u)) /\ Mapped(c, Tail(u)) \in Seq(AnyName)
<1> DEFINE ns == Mapped(c, u)
<1>1. Len(u) \in Nat \ {0} /\ Len(ns) = Len(u) /\ \A i \in 1 .. Len(u) : ns[i] = Name(c, u[i])
  BY MappedLen, EmptySeq
<1> HIDE DEF ns
<1>2. ns \in Seq(AnyName) /\ ns # << >>
  BY <1>1 DEF ns
<1>3. /\ Tail(u) \in Seq(Step) /\ Len(Tail(u)) = Len(u) - 1
      /\ \A i \in 1 .. Len(Tail(u)) : Tail(u)[i] = u[i + 1]
  BY <1>1, HeadTailProperties
<1>4. /\ Tail(ns) \in Seq(AnyName) /\ Len(Tail(ns)) = Len(u) - 1
      /\ \A i \in 1 .. Len(Tail(ns)) : Tail(ns)[i] = ns[i + 1]
  BY <1>1, <1>2, HeadTailProperties
<1>5. \A i \in 1 .. Len(Tail(u)) : Tail(ns)[i] = Name(c, Tail(u)[i])
  BY <1>1, <1>3, <1>4
<1>6. Tail(ns) = [i \in 1 .. Len(Tail(u)) |-> Tail(ns)[i]]
  <2> DEFINE tn == Tail(ns)
  <2>1. tn \in Seq(AnyName) /\ Len(tn) = Len(Tail(u))
    BY <1>3, <1>4
  <2> HIDE DEF tn
  <2>2. tn = [i \in 1 .. Len(tn) |-> tn[i]]
    BY <2>1
  <2> QED
    BY <2>1, <2>2 DEF tn
<1>7. Tail(ns) = Mapped(c, Tail(u))
  BY <1>5, <1>6 DEF Mapped
<1> QED
  BY <1>3, <1>4, <1>7 DEF ns

(* See PrependNames.                                                       *)
LEMMA AppendNames ==
  ASSUME NEW c, NEW u \in Seq(Step), NEW s \in Step, Name(c, s) \in AnyName, Mapped(c, u) \in Seq(AnyName)
  PROVE  Mapped(c, Append(u, s)) = Append(Mapped(c, u), Name(c, s))
<1> DEFINE t == Append(u, s)
           ns == Mapped(c, u)
           r == Append(ns, Name(c, s))
<1>1. Len(u) \in Nat /\ Len(t) = Len(u) + 1 /\ t[Len(u) + 1] = s /\ \A i \in 1 .. Len(u) : t[i] = u[i]
  OBVIOUS
<1>2. Len(ns) = Len(u) /\ \A i \in 1 .. Len(u) : ns[i] = Name(c, u[i])
  BY <1>1, MappedLen
<1>3. ns \in Seq(AnyName)
  OBVIOUS
<1> HIDE DEF ns
<1>4. r \in Seq(AnyName) /\ Len(r) = Len(ns) + 1 /\ r[Len(ns) + 1] = Name(c, s) /\ \A i \in 1 .. Len(ns) : r[i] = ns[i]
  BY <1>3
<1> HIDE DEF t, r
<1>5. \A i \in 1 .. Len(t) : r[i] = Name(c, t[i])
  BY <1>1, <1>2, <1>4
<1>6. r = [i \in 1 .. Len(t) |-> r[i]]
  BY <1>1, <1>2, <1>4
<1>7. r = Mapped(c, t)
  BY <1>5, <1>6 DEF Mapped
<1> QED
  BY <1>7 DEF t, r, ns

(* push, seen from outside: the name goes in front of the path; a full     *)
(* path keeps the steps it has or, if finalized, loses the first.          *)
LEMMA PushedText ==
  ASSUME NEW b, NEW c \in Bounded, Own(b, c), NEW s \in Step,
         s.kind = "key_text" => s.idx \in 1 .. Len(c.owned),
         c.finalized => class = "error"
  PROVE  /\ Len(Text(c).path) = Len(c.steps)
         /\ Text(c).sealed = c.finalized /\ Text(Pushed(c, s)).sealed = c.finalized
         /\ ~Full(c) => /\ Text(Pushed(c, s)).path = << Name(c, s) >> \o Text(c).path
                        /\ Text(Pushed(c, s)).truncated = Text(c).truncated
         /\ Full(c)  => /\ Text(Pushed(c, s)).path = IF c.finalized THEN << Name(c, s) >> \o Tail(Text(c).path)
                                                     ELSE Text(c).path
                        /\ Text(Pushed(c, s)).truncated = TRUE
<1> DEFINE x  == Name(c, s)
           q  == Pushed(c, s)
           ns == NamesOf(c)
<1>1. /\ c.steps \in Seq(Step) /\ Len(c.steps) \in Nat /\ Len(c.steps) <= MaxPathSteps
      /\ ns \in Seq(AnyName) /\ Len(ns) = Len(c.steps) /\ ns = Mapped(c, c.steps)
  BY NamesSeq DEF NamesOf
<1>2. x \in AnyName
  BY NameType
<1>3. /\ q.owned = c.owned /\ q.finalized = c.finalized
      /\ q.truncated = IF Full(c) THEN TRUE ELSE c.truncated
      /\ q.steps = IF c.finalized THEN << s >> \o IF Full(c) THEN Tail(c.steps) ELSE c.steps
                   ELSE IF Full(c) THEN c.steps ELSE Append(c.steps, s)
  BY DEF Pushed
<1>4. Len(Text(c).path) = Len(c.steps)
  BY <1>1, ReverseSeq DEF Text
<1>5. NamesOf(q) = Mapped(c, q.steps)
  BY <1>3 DEF NamesOf, Mapped, Name
<1>6. /\ Text(q).truncated = IF Full(c) THEN TRUE ELSE Text(c).truncated
      /\ Text(c).sealed = c.finalized /\ Text(q).sealed = c.finalized
  BY <1>3 DEF Text
<1>7. Text(c).path = IF c.finalized THEN ns ELSE Reverse(ns)
  BY DEF Text
<1>8. Text(q).path = IF c.finalized THEN NamesOf(q) ELSE Reverse(NamesOf(q))
  BY <1>3 DEF Text
<1> HIDE DEF x, q, ns
<1>9. ASSUME ~Full(c) PROVE Text(q).path = << x >> \o Text(c).path
  <2>1. CASE c.finalized
    <3>1. q.steps = << s >> \o c.steps
      BY <1>3, <1>9, <2>1
    <3>2. Mapped(c, << s >> \o c.steps) = << x >> \o ns
      BY <1>1, <1>2, PrependNames DEF x
    <3> QED
      BY <1>5, <1>7, <1>8, <2>1, <3>1, <3>2
  <2>2. CASE ~c.finalized
    <3>1. q.steps = Append(c.steps, s)
      BY <1>3, <1>9, <2>2
    <3>2. Mapped(c, Append(c.steps, s)) = Append(ns, x)
      BY <1>1, <1>2, AppendNames DEF x
    <3>3. Reverse(Append(ns, x)) = << x >> \o Reverse(ns)
      BY <1>1, <1>2, ReverseAppend
    <3> QED
      BY <1>5, <1>7, <1>8, <2>2, <3>1, <3>2, <3>3
  <2> QED
    BY <2>1, <2>2
<1>10. ASSUME Full(c) PROVE Text(q).path = IF c.finalized THEN << x >> \o Tail(Text(c).path) ELSE Text(c).path
  <2>1. CASE c.finalized
    <3>1. q.steps = << s >> \o Tail(c.steps)
      BY <1>3, <1>10, <2>1
    <3>2. c.steps # << >>
      BY <1>1, <1>10, PathAssumption DEF Full
    <3>3. /\ Tail(c.steps) \in Seq(Step) /\ Mapped(c, Tail(c.steps)) = Tail(ns)
          /\ Mapped(c, Tail(c.steps)) \in Seq(AnyName)
      BY <1>1, <3>2, TailNames
    <3>4. Mapped(c, << s >> \o Tail(c.steps)) = << x >> \o Tail(ns)
      BY <1>2, <3>3, PrependNames DEF x
    <3> QED
      BY <1>5, <1>7, <1>8, <2>1, <3>1, <3>4
  <2>2. CASE ~c.finalized
    <3>1. q.steps = c.steps
      BY <1>3, <1>10, <2>2
    <3> QED
      BY <1>1, <1>5, <1>7, <1>8, <2>2, <3>1
  <2> QED
    BY <2>1, <2>2
<1> QED
  BY <1>4, <1>6, <1>9, <1>10 DEF x, q

(* The count of keys depends on the first i steps alone.                   *)
LEMMA KeysToSame ==
  ASSUME NEW c, NEW d, NEW i, \A j \in 1 .. i : c.steps[j].kind = d.steps[j].kind
  PROVE  KeysTo(c, i) = KeysTo(d, i)
<1>1. {j \in 1 .. i : c.steps[j].kind = "key_text"} = {j \in 1 .. i : d.steps[j].kind = "key_text"}
  OBVIOUS
<1> QED
  BY <1>1 DEF KeysTo

(* One step more counts if it is a key.                                    *)
LEMMA KeysToNext ==
  ASSUME NEW c, NEW n \in Nat
  PROVE  KeysTo(c, n + 1) = KeysTo(c, n) + (IF c.steps[n + 1].kind = "key_text" THEN 1 ELSE 0)
<1> DEFINE K(m) == {j \in 1 .. m : c.steps[j].kind = "key_text"}
<1>1. IsFiniteSet(K(n)) /\ n + 1 \notin K(n) /\ KeysTo(c, n) \in Nat
  BY KeySetFinite, KeysToNat
<1>2. CASE c.steps[n + 1].kind = "key_text"
  <2>1. K(n + 1) = K(n) \cup {n + 1}
    BY <1>2
  <2>2. Cardinality(K(n) \cup {n + 1}) = Cardinality(K(n)) + 1
    BY <1>1, FS_AddElement
  <2> QED
    BY <1>2, <2>1, <2>2 DEF KeysTo
<1>3. CASE c.steps[n + 1].kind # "key_text"
  <2>1. K(n + 1) = K(n)
    BY <1>3
  <2>2. KeysTo(c, n + 1) = KeysTo(c, n)
    BY <2>1 DEF KeysTo
  <2> QED
    BY <1>1, <1>3, <2>2
<1> QED
  BY <1>2, <1>3

(* push keeps every key step on its own text.  The block has the text of   *)
(* a key already, and it is the last one.                                  *)
LEMMA PushedGood ==
  ASSUME NEW b, NEW c \in Bounded, NEW s \in Step, c.finalized => class = "error",
         Own(b, c),
         ~c.finalized => \A i \in 1 .. Len(c.steps) :
           c.steps[i].kind = "key_text" => c.steps[i].idx = KeysTo(c, i),
         s.kind = "key_text" => s.blk = b /\ s.idx = Len(c.owned) /\ Len(c.owned) \in Nat \ {0},
         ~c.finalized /\ ~Full(c) =>
           Len(c.owned) = KeysTo(c, Len(c.steps)) + (IF s.kind = "key_text" THEN 1 ELSE 0)
  PROVE  Good(b, Pushed(c, s))
<1> DEFINE q == Pushed(c, s)
           n == Len(c.steps)
           Mine(u) == \A i \in 1 .. Len(u) : u[i].kind = "key_text" => u[i].blk = b /\ u[i].idx \in 1 .. Len(c.owned)
<1>1. c.steps \in Seq(Step) /\ n \in Nat /\ n <= MaxPathSteps /\ Len(c.owned) \in Nat
  BY DEF Bounded, Block
<1>2. /\ q.owned = c.owned /\ q.finalized = c.finalized
      /\ q.steps = IF c.finalized THEN << s >> \o IF Full(c) THEN Tail(c.steps) ELSE c.steps
                   ELSE IF Full(c) THEN c.steps ELSE Append(c.steps, s)
  BY DEF Pushed
<1>3. s.kind = "key_text" => s.blk = b /\ s.idx \in 1 .. Len(c.owned)
  BY <1>1
<1> HIDE DEF q
<1>4. CASE c.finalized
  <2>1. ASSUME NEW u \in Seq(Step), Mine(u) PROVE Mine(<< s >> \o u)
    <3>1. /\ Len(u) \in Nat /\ Len(<< s >> \o u) = Len(u) + 1 /\ (<< s >> \o u)[1] = s
          /\ \A i \in 2 .. Len(u) + 1 : (<< s >> \o u)[i] = u[i - 1]
      BY PrependSeq
    <3> DEFINE t == << s >> \o u
    <3> SUFFICES ASSUME NEW i \in 1 .. Len(t), t[i].kind = "key_text"
                 PROVE  t[i].blk = b /\ t[i].idx \in 1 .. Len(c.owned)
      OBVIOUS
    <3>2. CASE i = 1
      BY <1>3, <3>1, <3>2
    <3>3. CASE i # 1
      <4>1. i - 1 \in 1 .. Len(u) /\ t[i] = u[i - 1]
        BY <3>1, <3>3
      <4> QED
        BY <2>1, <4>1
    <3> QED
      BY <3>2, <3>3
  <2>2. Mine(c.steps)
    BY DEF Own
  <2>3. Full(c) => Tail(c.steps) \in Seq(Step) /\ Mine(Tail(c.steps))
    <3> SUFFICES ASSUME Full(c) PROVE Tail(c.steps) \in Seq(Step) /\ Mine(Tail(c.steps))
      OBVIOUS
    <3>1. c.steps # << >>
      BY <1>1, PathAssumption DEF Full
    <3>2. /\ Tail(c.steps) \in Seq(Step) /\ Len(Tail(c.steps)) = n - 1
          /\ \A i \in 1 .. Len(Tail(c.steps)) : Tail(c.steps)[i] = c.steps[i + 1]
      BY <1>1, <3>1, HeadTailProperties
    <3>3. \A i \in 1 .. Len(Tail(c.steps)) : i + 1 \in 1 .. n
      BY <1>1, <3>2
    <3> QED
      BY <2>2, <3>2, <3>3
  <2> HIDE DEF Mine
  <2>4. Mine(q.steps)
    BY <1>1, <1>2, <1>4, <2>1, <2>2, <2>3
  <2> QED
    BY <1>2, <1>4, <2>4 DEF Mine, Own, Good, q
<1>5. CASE ~c.finalized /\ Full(c)
  <2>1. q.steps = c.steps
    BY <1>2, <1>5
  <2>2. \A i \in 1 .. n : KeysTo(q, i) = KeysTo(c, i)
    BY <2>1 DEF KeysTo
  <2>3. Full(q)
    BY <1>5, <2>1 DEF Full
  <2> QED
    BY <1>2, <1>5, <2>1, <2>2, <2>3 DEF Own, Good, q
<1>6. CASE ~c.finalized /\ ~Full(c)
  <2>1. q.steps = Append(c.steps, s)
    BY <1>2, <1>6
  <2>2. Len(q.steps) = n + 1 /\ q.steps[n + 1] = s /\ \A i \in 1 .. n : q.steps[i] = c.steps[i]
    BY <1>1, <2>1
  <2>3. \A i \in 0 .. n : KeysTo(q, i) = KeysTo(c, i)
    <3> TAKE i \in 0 .. n
    <3>1. \A j \in 1 .. i : q.steps[j].kind = c.steps[j].kind
      BY <1>1, <2>2
    <3> QED
      BY <3>1, KeysToSame
  <2>4. KeysTo(q, n + 1) = KeysTo(q, n) + (IF q.steps[n + 1].kind = "key_text" THEN 1 ELSE 0)
    BY <1>1, KeysToNext
  <2>5. KeysTo(q, n + 1) = Len(c.owned)
    BY <1>1, <1>6, <2>2, <2>3, <2>4
  <2>6. \A i \in 1 .. n + 1 : q.steps[i].kind = "key_text" =>
          /\ q.steps[i].blk = b /\ q.steps[i].idx \in 1 .. Len(c.owned)
          /\ q.steps[i].idx = KeysTo(q, i)
    <3> TAKE i \in 1 .. n + 1
    <3>1. CASE i = n + 1
      BY <1>3, <2>2, <2>5, <3>1
    <3>2. CASE i # n + 1
      <4>1. i \in 1 .. n /\ i \in 0 .. n
        BY <1>1, <3>2
      <4> QED
        BY <1>6, <2>2, <2>3, <4>1 DEF Own
    <3> QED
      BY <3>1, <3>2
  <2> QED
    BY <1>2, <1>6, <2>2, <2>5, <2>6 DEF Own, Good, q
<1> QED
  BY <1>4, <1>5, <1>6

(* What an error shows, and the same one sealed.                           *)
LEMMA SealedText ==
  ASSUME NEW v, NEW w, w.path = v.path, w.truncated = v.truncated, w.sealed = TRUE,
         v = [path |-> v.path, truncated |-> v.truncated, sealed |-> v.sealed],
         w = [path |-> w.path, truncated |-> w.truncated, sealed |-> w.sealed]
  PROVE  w = [v EXCEPT !.sealed = TRUE]
OBVIOUS

(* finalize moves the steps and keeps the path that the error shows.       *)
LEMMA ReversedGood ==
  ASSUME NEW b, NEW c \in Bounded, Good(b, c)
  PROVE  Good(b, Reversed(c)) /\ Text(Reversed(c)) = [Text(c) EXCEPT !.sealed = TRUE]
<1>0. \A d : Text(d) = [path |-> Text(d).path, truncated |-> Text(d).truncated, sealed |-> Text(d).sealed]
  BY DEF Text
<1>1. CASE c.finalized
  <2>1. c.finalized = TRUE /\ Reversed(c) = c
    BY <1>1 DEF Bounded, Block, Reversed
  <2>2. Text(c).sealed = TRUE
    BY <2>1 DEF Text
  <2>3. Text(c) = [Text(c) EXCEPT !.sealed = TRUE]
    BY <1>0, <2>2, SealedText
  <2> QED
    BY <2>1, <2>3
<1>2. CASE ~c.finalized
  <2> DEFINE q == Reversed(c)
             n == Len(c.steps)
  <2>1. /\ q.steps = Reverse(c.steps) /\ q.owned = c.owned
        /\ q.truncated = c.truncated /\ q.finalized = TRUE
    BY <1>2 DEF Reversed
  <2>2. /\ c.steps \in Seq(Step) /\ n \in Nat /\ NamesOf(c) \in Seq(AnyName) /\ Len(NamesOf(c)) = n
        /\ \A i \in 1 .. n : NamesOf(c)[i] = Name(c, c.steps[i])
    BY NamesSeq DEF Good
  <2>3. /\ Len(q.steps) = n
        /\ \A i \in 1 .. n : n - i + 1 \in 1 .. n /\ q.steps[i] = c.steps[n - i + 1]
    BY <2>1, <2>2, ReverseSeq
  <2> HIDE DEF q
  <2>4. Good(b, q)
    BY <2>1, <2>3 DEF Own, Good
  <2>5. \A i \in 1 .. n : Name(q, q.steps[i]) = NamesOf(c)[n - i + 1]
    BY <2>1, <2>2, <2>3 DEF Name
  <2>6. NamesOf(q) = [i \in 1 .. n |-> NamesOf(c)[n - i + 1]]
    BY <2>3, <2>5 DEF NamesOf, Mapped
  <2>7. NamesOf(q) = Reverse(NamesOf(c))
    BY <2>2, <2>6 DEF Reverse
  <2>8. Text(q).path = Text(c).path /\ Text(q).truncated = Text(c).truncated /\ Text(q).sealed = TRUE
    BY <1>2, <2>1, <2>7 DEF Text
  <2>9. Text(q) = [Text(c) EXCEPT !.sealed = TRUE]
    BY <1>0, <2>8, SealedText
  <2> QED
    BY <2>4, <2>9 DEF q
<1> QED
  BY <1>1, <1>2

(* The copy of an error that is not finalized refers to its own texts and  *)
(* shows the same.  This is what fails for a finalized one.                *)
LEMMA ReboundGood ==
  ASSUME NEW a, NEW b, NEW c \in Bounded, Good(a, c), ~c.finalized
  PROVE  Good(b, Rebound(c, b)) /\ Text(Rebound(c, b)) = Text(c)
<1> DEFINE q == Rebound(c, b)
           n == Len(c.steps)
<1>1. /\ c.steps \in Seq(Step) /\ n \in Nat /\ DOMAIN c.steps = 1 .. n
      /\ Len(c.owned) \in Nat /\ c \in Block
  BY DEF Bounded, Block
<1>2. /\ q.owned = c.owned /\ q.truncated = c.truncated /\ q.finalized = c.finalized
      /\ q.steps = [i \in 1 .. n |-> IF c.steps[i].kind = "key_text" /\ KeysTo(c, i) <= Len(c.owned)
                                     THEN KeyStep(b, KeysTo(c, i)) ELSE c.steps[i]]
  BY <1>1 DEF Rebound, Block
<1>4. Len(q.steps) = n
  BY <1>1, <1>2
<1>5. \A i \in 1 .. n :
        /\ c.steps[i].kind = "key_text" => q.steps[i] = KeyStep(b, c.steps[i].idx)
        /\ c.steps[i].kind # "key_text" => q.steps[i] = c.steps[i]
  <2> TAKE i \in 1 .. n
  <2>1. c.steps[i].kind = "key_text" => KeysTo(c, i) <= Len(c.owned) /\ KeysTo(c, i) = c.steps[i].idx
    BY <1>1 DEF Own, Good
  <2> QED
    BY <1>2, <2>1
<1> HIDE DEF q
<1>6. \A i \in 1 .. n :
        /\ q.steps[i].kind = c.steps[i].kind
        /\ q.steps[i].kind = "key_text" => q.steps[i].blk = b /\ q.steps[i].idx = c.steps[i].idx
        /\ Name(q, q.steps[i]) = Name(c, c.steps[i])
  <2> TAKE i \in 1 .. n
  <2>1. CASE c.steps[i].kind = "key_text"
    <3>1. q.steps[i] = KeyStep(b, c.steps[i].idx)
      BY <1>5, <2>1
    <3>2. /\ q.steps[i].kind = "key_text" /\ q.steps[i].blk = b /\ q.steps[i].idx = c.steps[i].idx
      BY <3>1 DEF KeyStep
    <3> QED
      BY <1>2, <2>1, <3>2 DEF Name
  <2>2. CASE c.steps[i].kind # "key_text"
    <3>1. q.steps[i] = c.steps[i]
      BY <1>5, <2>2
    <3>2. c.steps[i] \in Step
      BY <1>1, ElementOfSeq
    <3>3. c.steps[i].kind = "plain"
      BY <2>2, <3>2 DEF Step
    <3> QED
      BY <3>1, <3>3 DEF Name
  <2> QED
    BY <2>1, <2>2
<1>7. \A i \in 0 .. n : KeysTo(q, i) = KeysTo(c, i)
  <2> TAKE i \in 0 .. n
  <2>1. \A j \in 1 .. i : q.steps[j].kind = c.steps[j].kind
    BY <1>1, <1>6
  <2> QED
    BY <2>1, KeysToSame
<1>8. Full(q) = Full(c)
  BY <1>4 DEF Full
<1>9. Good(b, q)
  <2>1. \A i \in 1 .. n : q.steps[i].kind = "key_text" =>
          q.steps[i].blk = b /\ q.steps[i].idx \in 1 .. Len(q.owned) /\ q.steps[i].idx = KeysTo(q, i)
    <3> TAKE i \in 1 .. n
    <3>1. c.steps[i].kind = "key_text" => c.steps[i].idx \in 1 .. Len(c.owned) /\ c.steps[i].idx = KeysTo(c, i)
      BY DEF Own, Good
    <3>2. i \in 0 .. n
      BY <1>1
    <3>3. KeysTo(q, i) = KeysTo(c, i)
      BY <1>7, <3>2
    <3> QED
      BY <1>2, <1>6, <3>1, <3>3
  <2>2. ~Full(q) => Len(q.owned) = KeysTo(q, n)
    BY <1>1, <1>2, <1>7, <1>8 DEF Own, Good
  <2> QED
    BY <1>4, <2>1, <2>2 DEF Own, Good
<1>10. NamesOf(q) = NamesOf(c)
  BY <1>4, <1>6 DEF NamesOf, Mapped
<1>11. Text(q) = Text(c)
  BY <1>2, <1>10 DEF Text
<1> QED
  BY <1>9, <1>11 DEF q

(* A new error has no steps.                                               *)
LEMMA NewGood ==
  ASSUME NEW b
  PROVE  Good(b, NewBlock) /\ Text(NewBlock) = [path |-> << >>, truncated |-> FALSE, sealed |-> FALSE]
<1>1. /\ NewBlock.steps = << >> /\ NewBlock.owned = << >>
      /\ NewBlock.truncated = FALSE /\ NewBlock.finalized = FALSE
  BY DEF NewBlock
<1>2. Len(<< >>) = 0 /\ 1 .. 0 = {}
  OBVIOUS
<1>3. {j \in 1 .. 0 : NewBlock.steps[j].kind = "key_text"} = {}
  BY <1>2
<1>4. KeysTo(NewBlock, 0) = 0
  BY <1>3, FS_EmptySet DEF KeysTo
<1>5. Good(b, NewBlock)
  BY <1>1, <1>2, <1>4 DEF Own, Good
<1>6. NamesOf(NewBlock) = << >>
  BY <1>1, <1>2 DEF NamesOf, Mapped
<1>7. Reverse(<< >>) = << >>
  BY <1>2 DEF Reverse
<1> QED
  BY <1>1, <1>5, <1>6, <1>7 DEF Text

(* push_key stores the text before the step: no step refers to it yet.     *)
LEMMA OwningText ==
  ASSUME NEW b, NEW c \in Bounded, Own(b, c), NEW k \in Keys
  PROVE  /\ Owning(c, k).steps = c.steps /\ Owning(c, k).finalized = c.finalized
         /\ Owning(c, k).owned = Append(c.owned, k)
         /\ Len(c.owned) \in Nat /\ Len(Owning(c, k).owned) = Len(c.owned) + 1
         /\ Owning(c, k).owned[Len(c.owned) + 1] = k
         /\ Full(Owning(c, k)) = Full(c)
         /\ \A i \in Nat : KeysTo(Owning(c, k), i) = KeysTo(c, i)
         /\ Text(Owning(c, k)) = Text(c)
<1> DEFINE q == Owning(c, k)
<1>1. c \in Block /\ c.owned \in Seq(Keys) /\ Len(c.owned) \in Nat /\ c.steps \in Seq(Step)
  BY DEF Bounded, Block
<1>2. /\ q.steps = c.steps /\ q.finalized = c.finalized /\ q.truncated = c.truncated
      /\ q.owned = Append(c.owned, k)
  BY <1>1 DEF Owning, Block
<1>3. Len(q.owned) = Len(c.owned) + 1 /\ q.owned[Len(c.owned) + 1] = k /\ \A i \in 1 .. Len(c.owned) : q.owned[i] = c.owned[i]
  BY <1>1, <1>2
<1> HIDE DEF q
<1>4. \A i \in 1 .. Len(c.steps) : Name(q, c.steps[i]) = Name(c, c.steps[i])
  <2> TAKE i \in 1 .. Len(c.steps)
  <2>1. c.steps[i] \in Step
    BY <1>1, ElementOfSeq
  <2>2. c.steps[i].kind \in {"plain", "key_text"}
    BY <2>1 DEF Step
  <2> QED
    BY <1>3, <2>2 DEF Own, Name, Good
<1>5. NamesOf(q) = NamesOf(c)
  BY <1>2, <1>4 DEF NamesOf, Mapped
<1>6. Text(q) = Text(c)
  BY <1>2, <1>5 DEF Text
<1>7. Full(q) = Full(c)
  BY <1>2 DEF Full
<1>8. \A i \in Nat : KeysTo(q, i) = KeysTo(c, i)
  BY <1>2 DEF KeysTo
<1> QED
  BY <1>1, <1>2, <1>3, <1>6, <1>7, <1>8 DEF q

-----------------------------------------------------------------------------
(* What each handle holds, read off the blocks alone.                      *)
Abs == [h \in Handles |-> IF at[h] # 0 THEN {Text(heap[at[h]])} ELSE {}]

(* Callers copy errors only before they are finalized, and push late only  *)
(* to a vcodec::error.                                                     *)
ValueUsesOnly == Uses \subseteq {<< "error", "copy" >>, << "error", "late_push" >>}

(* What the handles show is what their blocks hold.                        *)
LEMMA ViewIsAbs == RInv => View = Abs
<1> SUFFICES ASSUME RInv PROVE View = Abs
  OBVIOUS
<1>1. ASSUME NEW h \in Handles, at[h] # 0 PROVE Shown(heap[at[h]]) = Text(heap[at[h]])
  <2>1. at[h] \in live /\ Good(at[h], heap[at[h]]) /\ TypeOK
    BY <1>1 DEF RInv, TypeOK
  <2> QED
    BY <2>1, ShownText
<1> QED
  BY <1>1 DEF View, Abs, Holds

(* See InPlace.                                                            *)
LEMMA InPlaceShows ==
  ASSUME RInv, NEW h \in Handles, Holds(h), NEW c \in Bounded, Good(at[h], c),
         heap' = [heap EXCEPT ![at[h]] = c], UNCHANGED << class, at, live >>
  PROVE  RInv' /\ Abs' = [Abs EXCEPT ![h] = {Text(c)}]
<1>1. TypeOK /\ TypeOK'
  BY InPlace DEF RInv
<1>2. /\ heap \in [Blocks -> Block] /\ at[h] \in Blocks /\ at[h] # 0
      /\ \A b \in Blocks : heap'[b] = IF b = at[h] THEN c ELSE heap[b]
  BY <1>1, HeldBlock DEF TypeOK, Holds
<1>3. live \subseteq Blocks /\ \A f \in Handles : at[f] # 0 => at[f] \in Blocks
  BY <1>1 DEF TypeOK
<1>4. \A b \in live' : Good(b, heap'[b])
  BY <1>2, <1>3 DEF RInv
<1>5. \A f \in Handles : f # h /\ at[f] # 0 => at[f] # at[h]
  BY <1>1 DEF TypeOK
<1>6. \A f \in Handles : Abs'[f] = IF f = h THEN {Text(c)} ELSE Abs[f]
  BY <1>2, <1>3, <1>5 DEF Abs
<1>7. Abs' = [Abs EXCEPT ![h] = {Text(c)}]
  BY <1>6 DEF Abs
<1> QED
  BY <1>1, <1>4, <1>7 DEF RInv

(* See NewOwner.                                                           *)
LEMMA NewOwnerShows ==
  ASSUME RInv, NEW g \in Handles, NEW b \in Free, NEW c \in Bounded, Good(b, c),
         at' = [at EXCEPT ![g] = b], live' = (live \ {at[g]}) \cup {b},
         heap' = [Freed(at[g]) EXCEPT ![b] = c], UNCHANGED class
  PROVE  RInv' /\ Abs' = [Abs EXCEPT ![g] = {Text(c)}]
<1>1. TypeOK /\ TypeOK'
  BY NewOwner DEF RInv
<1>2. /\ b \in Blocks /\ b \notin live /\ b # 0 /\ live \subseteq Blocks
      /\ \A i \in Blocks : heap'[i] = IF i = b THEN c ELSE IF i = at[g] THEN NewBlock ELSE heap[i]
  BY <1>1, BlocksAssumption DEF TypeOK, Free, Freed
<1>3. \A i \in live' : Good(i, heap'[i])
  BY <1>2 DEF RInv
<1>4. \A f \in Handles : f # g /\ at[f] # 0 => at[f] \in live /\ at[f] # b /\ at[f] # at[g]
  BY <1>1, <1>2 DEF TypeOK
<1>5. \A f \in Handles : at'[f] = IF f = g THEN b ELSE at[f]
  BY <1>1 DEF TypeOK
<1>6. \A f \in Handles : Abs'[f] = IF f = g THEN {Text(c)} ELSE Abs[f]
  BY <1>2, <1>4, <1>5 DEF Abs
<1>7. Abs' = [Abs EXCEPT ![g] = {Text(c)}]
  BY <1>6 DEF Abs
<1> QED
  BY <1>1, <1>3, <1>7 DEF RInv

(* Destroying and moving errors free one block at most, and no other error *)
(* refers to it.                                                           *)
LEMMA FreeShows ==
  ASSUME RInv, TypeOK', NEW b, heap' = Freed(b), live' = live \ {b}
  PROVE  RInv' /\ \A i \in live' : heap'[i] = heap[i]
<1>1. live \subseteq Blocks /\ \A i \in Blocks : heap'[i] = IF i = b THEN NewBlock ELSE heap[i]
  BY DEF RInv, TypeOK, Freed
<1>2. \A i \in live' : i \in live /\ heap'[i] = heap[i]
  BY <1>1
<1>3. \A i \in live' : Good(i, heap'[i])
  BY <1>2 DEF RInv
<1> QED
  BY <1>2, <1>3 DEF RInv

(* A push to the block of h is an Add of the abstract error, or, if it is  *)
(* finalized and full, a Displace.                                         *)
LEMMA PushIsAdd ==
  ASSUME NEW b, NEW c \in Bounded, Own(b, c), NEW s \in Step,
         s.kind = "key_text" => s.idx \in 1 .. Len(c.owned), c.finalized => class = "error",
         NEW h \in Handles, NEW n, n = Name(c, s), View[h] = {Text(c)},
         View' = [View EXCEPT ![h] = {Text(Pushed(c, s))}], call' = << "push", h, n >>
  PROVE  Promise!Add(h, n) \/ Promise!Displace(h, n)
<1> DEFINE v == Text(c)
           w == Text(Pushed(c, s))
<1>1. /\ Len(v.path) = Len(c.steps) /\ v.sealed = c.finalized /\ w.sealed = c.finalized
      /\ ~Full(c) => w.path = << n >> \o v.path /\ w.truncated = v.truncated
      /\ Full(c)  => /\ w.path = IF c.finalized THEN << n >> \o Tail(v.path) ELSE v.path
                     /\ w.truncated = TRUE
  BY PushedText
<1>2. /\ v = [path |-> v.path, truncated |-> v.truncated, sealed |-> v.sealed]
      /\ w = [path |-> w.path, truncated |-> w.truncated, sealed |-> w.sealed]
  BY DEF Text
<1>3. Len(c.steps) \in Nat /\ MaxPathSteps \in Nat
  BY PathAssumption DEF Bounded, Block
<1>4. v \in View[h] /\ View' = [View EXCEPT ![h] = {w}]
  OBVIOUS
<1> HIDE DEF v, w
<1>5. Promise!Room(v) <=> ~Full(c)
  BY <1>1, <1>3 DEF Full, Promise!Room
<1>6. CASE ~Full(c)
  <2>1. w = Promise!Kept(v, n)
    BY <1>1, <1>2, <1>5, <1>6 DEF Promise!Kept
  <2> QED
    BY <1>4, <1>5, <1>6, <2>1 DEF Promise!Add, Promise!Put
<1>7. CASE Full(c) /\ ~c.finalized
  <2>1. w = Promise!Kept(v, n)
    BY <1>1, <1>2, <1>5, <1>7 DEF Promise!Kept
  <2>2. ~v.sealed
    BY <1>1, <1>7
  <2> QED
    BY <1>4, <2>1, <2>2 DEF Promise!Add, Promise!Put
<1>8. CASE Full(c) /\ c.finalized
  <2>1. w = [v EXCEPT !.path = << n >> \o Tail(@), !.truncated = TRUE]
    BY <1>1, <1>2, <1>8
  <2>2. ~Promise!Room(v) /\ v.sealed
    BY <1>1, <1>5, <1>8
  <2> QED
    BY <1>4, <2>1, <2>2 DEF Promise!Displace, Promise!Put
<1> QED
  BY <1>6, <1>7, <1>8

(* Each operation keeps the invariant and is a step of ErrorPromise.       *)
LEMMA Simulation ==
  ASSUME ValueUsesOnly, RInv, Next, RInv' => View' = Abs'
  PROVE  RInv' /\ Promise!Next
<1>1. PICK h \in Handles :
        \/ Make(h) \/ Finalize(h) \/ Drop(h)
        \/ \E n \in Plain : PushPlain(h, n)
        \/ \E k \in Keys : PushKey(h, k)
        \/ \E g \in Handles : Copy(h, g) \/ Move(h, g)
  BY DEF Next
<1>2. TypeOK /\ View = Abs /\ TypeOK'
  BY ViewIsAbs, TypeStep DEF RInv
<1> DEFINE c == heap[at[h]]
<1>3. Holds(h) => /\ at[h] \in live /\ at[h] \in Blocks /\ c \in Bounded /\ Good(at[h], c)
                  /\ View[h] = {Text(c)} /\ View[h] # {}
  BY <1>2, HeldBlock DEF RInv, Abs, Holds
<1>4. \A x : << class, x >> \in Uses => class = "error" /\ x \in {"copy", "late_push"}
  BY DEF ValueUsesOnly
<1> DEFINE b == CHOOSE b \in Free : TRUE
<1>5. CASE Make(h)
  <2>1. b \in Free /\ Good(b, NewBlock) /\ NewBlock \in Bounded
    BY <1>5, Chosen, NewGood, NewBounded DEF Make, Takes
  <2>2. /\ at' = [at EXCEPT ![h] = b] /\ live' = (live \ {at[h]}) \cup {b}
        /\ heap' = [Freed(at[h]) EXCEPT ![b] = NewBlock] /\ UNCHANGED class /\ call' = << "make", h >>
    BY <1>5 DEF Make, Takes, Called
  <2>3. View[h] = {}
    BY <1>2, <1>5 DEF Make, Holds, Abs
  <2> HIDE DEF b
  <2>4. RInv' /\ Abs' = [Abs EXCEPT ![h] = {Text(NewBlock)}]
    BY <2>1, <2>2, NewOwnerShows
  <2>5. View' = [View EXCEPT ![h] = {[path |-> << >>, truncated |-> FALSE, sealed |-> FALSE]}]
    BY <1>2, <2>4, NewGood
  <2>6. Promise!Make(h)
    BY <2>2, <2>3, <2>5 DEF Promise!Make, Promise!Put, Promise!Fresh
  <2> QED
    BY <2>4, <2>6 DEF Promise!Next
<1>6. CASE Finalize(h)
  <2>1. Holds(h) /\ call' = << "finalize", h >>
        /\ heap' = [heap EXCEPT ![at[h]] = Reversed(c)] /\ UNCHANGED << class, at, live >>
    BY <1>6 DEF Finalize, Called
  <2>2. /\ Reversed(c) \in Bounded /\ Good(at[h], Reversed(c))
        /\ Text(Reversed(c)) = [Text(c) EXCEPT !.sealed = TRUE]
    BY <1>3, <2>1, ReversedBounded, ReversedGood
  <2>3. RInv' /\ Abs' = [Abs EXCEPT ![h] = {Text(Reversed(c))}]
    BY <2>1, <2>2, InPlaceShows
  <2>4. Text(c) \in View[h] /\ View' = [View EXCEPT ![h] = {[Text(c) EXCEPT !.sealed = TRUE]}]
    BY <1>2, <1>3, <2>1, <2>2, <2>3
  <2>5. Promise!Seal(h)
    BY <2>1, <2>4 DEF Promise!Seal, Promise!Put
  <2> QED
    BY <2>3, <2>5 DEF Promise!Next
<1>7. CASE Drop(h)
  <2>1. /\ Holds(h) /\ call' = << "drop", h >> /\ at' = [at EXCEPT ![h] = 0]
        /\ live' = live \ {at[h]} /\ heap' = Freed(at[h])
    BY <1>7 DEF Drop, Called
  <2>2. RInv' /\ \A i \in live' : heap'[i] = heap[i]
    BY <1>2, <2>1, FreeShows
  <2>3. \A f \in Handles : at'[f] = (IF f = h THEN 0 ELSE at[f]) /\ (at'[f] # 0 => at'[f] \in live')
    BY <1>2, <2>1 DEF TypeOK
  <2>4. \A f \in Handles : Abs'[f] = IF f = h THEN {} ELSE Abs[f]
    BY <2>2, <2>3 DEF Abs
  <2>5. View' = [View EXCEPT ![h] = {}]
    BY <1>2, <2>2, <2>4 DEF Abs
  <2>6. Promise!Drop(h)
    BY <1>3, <2>1, <2>5 DEF Promise!Drop, Promise!Put
  <2> QED
    BY <2>2, <2>6 DEF Promise!Next
<1>8. ASSUME NEW n \in Plain, PushPlain(h, n) PROVE RInv' /\ Promise!Next
  <2> DEFINE s == PlainStep(n)
  <2>1. /\ Holds(h) /\ call' = << "push", h, n >>
        /\ heap' = [heap EXCEPT ![at[h]] = Pushed(c, s)] /\ UNCHANGED << class, at, live >>
    BY <1>8 DEF PushPlain, Called, MayPush
  <2>2. c.finalized => class = "error"
    BY <1>4, <1>8 DEF PushPlain, MayPush
  <2>3. s \in Step /\ s.kind = "plain" /\ s.name = n
    BY PlainStepType DEF PlainStep
  <2> HIDE DEF s, c
  <2>4. Good(at[h], Pushed(c, s))
    <3>1. s.kind # "key_text"
      BY <2>3
    <3>2. Len(c.steps) \in Nat
      BY <1>3, <2>1 DEF Bounded, Block
    <3>3. KeysTo(c, Len(c.steps)) \in Nat
      BY <3>2, KeysToNat
    <3>4. /\ Own(at[h], c)
          /\ ~c.finalized => \A i \in 1 .. Len(c.steps) :
               c.steps[i].kind = "key_text" => c.steps[i].idx = KeysTo(c, i)
          /\ ~c.finalized /\ ~Full(c) => Len(c.owned) = KeysTo(c, Len(c.steps))
      BY <1>3, <2>1 DEF Good
    <3>5. ~c.finalized /\ ~Full(c) =>
            Len(c.owned) = KeysTo(c, Len(c.steps)) + (IF s.kind = "key_text" THEN 1 ELSE 0)
      BY <3>1, <3>3, <3>4
    <3> QED
      BY <1>3, <2>1, <2>2, <2>3, <3>1, <3>4, <3>5, PushedGood
  <2>5. Pushed(c, s) \in Bounded
    BY <1>3, <2>1, <2>3, PushedBounded
  <2>6. RInv' /\ Abs' = [Abs EXCEPT ![h] = {Text(Pushed(c, s))}]
    BY <2>1, <2>4, <2>5, InPlaceShows
  <2>7. Name(c, s) = n
    BY <2>3 DEF Name
  <2>8. Promise!Add(h, n) \/ Promise!Displace(h, n)
    <3>1. Own(at[h], c) /\ s.kind # "key_text"
      BY <1>3, <2>1, <2>3 DEF Good
    <3>2. View[h] = {Text(c)} /\ View' = [View EXCEPT ![h] = {Text(Pushed(c, s))}]
      BY <1>2, <1>3, <2>1, <2>6
    <3> QED
      BY <1>3, <2>1, <2>2, <2>3, <2>7, <3>1, <3>2, PushIsAdd
  <2> QED
    BY <2>6, <2>8 DEF Promise!Next
<1>9. ASSUME NEW k \in Keys, PushKey(h, k) PROVE RInv' /\ Promise!Next
  <2> DEFINE o == Owning(c, k)
             s == KeyStep(at[h], Len(c.owned) + 1)
  <2>1. /\ Holds(h) /\ call' = << "push", h, k >>
        /\ heap' = [heap EXCEPT ![at[h]] = Pushed(o, s)] /\ UNCHANGED << class, at, live >>
    BY <1>9 DEF PushKey, Called, MayPush
  <2>2. c.finalized => class = "error"
    BY <1>4, <1>9 DEF PushKey, MayPush
  <2>3. /\ o.steps = c.steps /\ o.finalized = c.finalized /\ o.owned = Append(c.owned, k)
        /\ Len(c.owned) \in Nat /\ Len(o.owned) = Len(c.owned) + 1 /\ o.owned[Len(c.owned) + 1] = k
        /\ Full(o) = Full(c) /\ Text(o) = Text(c) /\ \A i \in Nat : KeysTo(o, i) = KeysTo(c, i)
    BY <1>3, <2>1, OwningText DEF Good
  <2>4. o \in Bounded
    BY <1>3, <2>1, OwnedBounded
  <2>5. s \in Step /\ s.kind = "key_text" /\ s.blk = at[h] /\ s.idx = Len(c.owned) + 1
    <3>1. at[h] \in Blocks /\ Len(c.owned) + 1 \in Nat
      BY <1>3, <2>1, <2>3
    <3> QED
      BY <3>1, KeyStepType
  <2> HIDE DEF o, s, c
  <2>6. Own(at[h], o)
    BY <1>3, <2>1, <2>3 DEF Own, Good
  <2>7. Len(c.steps) \in Nat
    BY <1>3, <2>1 DEF Bounded, Block
  <2>8. ~c.finalized => \A i \in 1 .. Len(c.steps) : c.steps[i].kind = "key_text" => c.steps[i].idx = KeysTo(o, i)
    BY <1>3, <2>1, <2>3, <2>7 DEF Own, Good
  <2>9. ~c.finalized /\ ~Full(c) => Len(o.owned) = KeysTo(o, Len(o.steps)) + 1
    BY <1>3, <2>1, <2>3, <2>7 DEF Own, Good
  <2>10. Good(at[h], Pushed(o, s))
    BY <2>2, <2>3, <2>4, <2>5, <2>6, <2>8, <2>9, PushedGood
  <2>11. Pushed(o, s) \in Bounded
    BY <2>4, <2>5, PushedBounded
  <2>12. RInv' /\ Abs' = [Abs EXCEPT ![h] = {Text(Pushed(o, s))}]
    BY <2>1, <2>10, <2>11, InPlaceShows
  <2>13. Name(o, s) = k
    BY <2>3, <2>5 DEF Name
  <2>14. Promise!Add(h, k) \/ Promise!Displace(h, k)
    <3>1. s.idx \in 1 .. Len(o.owned)
      BY <2>3, <2>5
    <3>2. View[h] = {Text(o)} /\ View' = [View EXCEPT ![h] = {Text(Pushed(o, s))}]
      BY <1>2, <1>3, <2>1, <2>3, <2>12
    <3> QED
      BY <2>1, <2>2, <2>3, <2>4, <2>5, <2>6, <2>13, <3>1, <3>2, PushIsAdd
  <2> QED
    BY <2>12, <2>14 DEF Promise!Next
<1>10. ASSUME NEW g \in Handles, Copy(h, g) PROVE RInv' /\ Promise!Next
  <2>1. b \in Free /\ b \in Blocks
    BY <1>10, Chosen DEF Copy, Takes, Free
  <2>2. Holds(h) /\ class = "error" /\ ~c.finalized /\ call' = << "copy", h, g >>
    BY <1>4, <1>10 DEF Copy, Called
  <2>3. /\ at' = [at EXCEPT ![g] = b] /\ live' = (live \ {at[g]}) \cup {b}
        /\ heap' = [Freed(at[g]) EXCEPT ![b] = Rebound(c, b)] /\ UNCHANGED class
    BY <1>10, <2>2 DEF Copy, Takes, Called
  <2> HIDE DEF b, c
  <2>4. Rebound(c, b) \in Bounded /\ Good(b, Rebound(c, b)) /\ Text(Rebound(c, b)) = Text(c)
    BY <1>3, <2>1, <2>2, ReboundBounded, ReboundGood
  <2>5. RInv' /\ Abs' = [Abs EXCEPT ![g] = {Text(Rebound(c, b))}]
    BY <2>1, <2>3, <2>4, NewOwnerShows
  <2>6. View' = [View EXCEPT ![g] = View[h]]
    BY <1>2, <1>3, <2>2, <2>4, <2>5
  <2>7. Promise!Copy(h, g)
    BY <1>3, <2>2, <2>6 DEF Promise!Copy, Promise!Put
  <2> QED
    BY <2>5, <2>7 DEF Promise!Next
<1>11. ASSUME NEW g \in Handles, Move(h, g) PROVE RInv' /\ Promise!Next
  <2>1. /\ Holds(h) /\ h # g /\ call' = << "move", h, g >> /\ at' = [at EXCEPT ![g] = at[h], ![h] = 0]
        /\ live' = live \ {at[g]} /\ heap' = Freed(at[g])
    BY <1>11 DEF Move, Called
  <2>2. RInv' /\ \A i \in live' : heap'[i] = heap[i]
    BY <1>2, <2>1, FreeShows
  <2>3. \A f \in Handles : /\ at'[f] = IF f = h THEN 0 ELSE IF f = g THEN at[h] ELSE at[f]
                           /\ at'[f] # 0 => at'[f] \in live'
    BY <1>2, <2>1 DEF TypeOK
  <2>4. \A f \in Handles : Abs'[f] = IF f = h THEN {} ELSE IF f = g THEN Abs[h] ELSE Abs[f]
    BY <2>2, <2>3 DEF Abs
  <2>5. View' = [View EXCEPT ![g] = View[h], ![h] = {}]
    <3>1. View = [f \in Handles |-> View[f]] /\ View' = [f \in Handles |-> View'[f]]
      BY <1>2, <2>2 DEF Abs
    <3>2. \A f \in Handles : View'[f] = IF f = h THEN {} ELSE IF f = g THEN View[h] ELSE View[f]
      BY <1>2, <2>2, <2>4
    <3> QED
      BY <2>1, <3>1, <3>2
  <2>6. Promise!Move(h, g)
    BY <1>3, <2>1, <2>5 DEF Promise!Move
  <2> QED
    BY <2>2, <2>6 DEF Promise!Next
<1> QED
  BY <1>1, <1>5, <1>6, <1>7, <1>8, <1>9, <1>10, <1>11

(* The blocks, their texts and the two orders of steps implement errors    *)
(* that are plain values: copies, moves, late pushes and destruction of    *)
(* others never change what an error shows, for any number of errors,      *)
(* names and steps, if no finalized error is copied.                       *)
THEOREM ErrorsAreValues ==
  ASSUME ValueUsesOnly
  PROVE  Spec => ImplementsPromise
<1>1. Init => RInv /\ Promise!Init
  <2> SUFFICES ASSUME Init PROVE RInv /\ Promise!Init
    OBVIOUS
  <2>1. TypeOK
    BY NewBounded DEF Init, TypeOK, Bounded
  <2>2. live = {} /\ call = << "none" >> /\ at = [h \in Handles |-> 0]
    BY DEF Init
  <2>3. View = [h \in Handles |-> {}]
    BY <2>2 DEF View, Holds
  <2> QED
    BY <2>1, <2>2, <2>3 DEF RInv, Promise!Init
<1>2. RInv /\ [Next]_vars /\ (RInv' => (View = Abs)') => RInv' /\ [Promise!Next]_<< View, call >>
  <2> SUFFICES ASSUME RInv, [Next]_vars, RInv' => (View = Abs)'
               PROVE  RInv' /\ [Promise!Next]_<< View, call >>
    OBVIOUS
  <2>1. CASE UNCHANGED vars
    <3>1. UNCHANGED << class, heap, live, at, call >>
      BY <2>1 DEF vars
    <3>2. View' = View
      <4>1. \A s : (NameOf(s))' = NameOf(s)
        BY <3>1 DEF NameOf
      <4>2. \A b : (Shown(b))' = Shown(b)
        BY <4>1 DEF Shown
      <4> QED
        BY <3>1, <4>2 DEF View, Holds
    <3>3. TypeOK'
      BY <3>1 DEF RInv, TypeOK
    <3>4. (\A b \in live : Good(b, heap[b]))'
      BY <3>1 DEF RInv
    <3> QED
      BY <3>1, <3>2, <3>3, <3>4 DEF RInv
  <2>2. CASE Next
    BY <2>2, Simulation
  <2> QED
    BY <2>1, <2>2
<1> QED
  BY <1>1, <1>2, ViewIsAbs, PTL DEF Spec, ImplementsPromise, Promise!Spec

===============================================================================
