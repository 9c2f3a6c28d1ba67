---------------------------- MODULE CborSkipProofs ----------------------------
(***************************************************************************)
(* Proofs about CborSkip, for every input, every depth limit, every option *)
(* and every (even) argument width.                                        *)
(***************************************************************************)
EXTENDS CborSkip, CommonLemmas

(* What holds of every level on the stack when the position is p.          *)
GoodLevel(p) == {l \in Level : Paired(l) /\ Extent(l, p)}

(* The keys of the first n levels have their starts recorded.              *)
StartedTo(s, n) == \A i \in 1 .. n : Started(s[i])

(* The inductive invariant.  The type invariant alone is not inductive:    *)
(* that depth_ stays a natural number when a container closes follows from *)
(* DepthAccounting (a container on the stack has been counted), and that   *)
(* the extent of a completed key is one follows from StartedTo.            *)
IInv ==
  /\ TypeOK
  /\ DepthAccounting
  /\ stack \in Seq(GoodLevel(pos))
  /\ StartedTo(stack, Len(stack) - 1)
  /\ pc \in {"chunk", "item_done"} => StartedTo(stack, Len(stack))

-----------------------------------------------------------------------------
(* The stack.                                                              *)

(* An assignment to back().                                                *)
LEMMA ReplaceSeq ==
  ASSUME NEW S, NEW s \in Seq(S), s # << >>, NEW l \in S
  PROVE  /\ Replace(s, l) \in Seq(S)
         /\ Len(Replace(s, l)) = Len(s)
         /\ \A i \in 1 .. Len(s) : Replace(s, l)[i] = IF i = Len(s) THEN l ELSE s[i]
  BY EmptySeq, ExceptSeq DEF Replace

(* The position only grows, and what holds of a level goes on holding.     *)
LEMMA GoodLater ==
  ASSUME NEW p \in Nat, NEW q \in Nat, p <= q, NEW s \in Seq(GoodLevel(p))
  PROVE  s \in Seq(GoodLevel(q))
<1>1. GoodLevel(p) \subseteq GoodLevel(q)
  BY DEF GoodLevel, Level, Extent, NoKey
<1> QED
  BY <1>1, SeqMonotonic

-----------------------------------------------------------------------------
(* The updates of a level.                                                 *)

(* Recording the start of a key in the innermost level.                    *)
LEMMA MarkedLevel ==
  ASSUME NEW p \in Nat, NEW l \in GoodLevel(p)
  PROVE  /\ [l EXCEPT !.key_start = p] \in GoodLevel(p)
         /\ Started([l EXCEPT !.key_start = p])
  BY DEF GoodLevel, Level, Paired, Extent, Started, NoKey

(* The mark at the top of the loop changes at most the innermost level.    *)
LEMMA MarkedStack ==
  ASSUME pos \in Nat, stack \in Seq(GoodLevel(pos)), StartedTo(stack, Len(stack) - 1)
  PROVE  /\ Marked \in Seq(GoodLevel(pos))
         /\ Len(Marked) = Len(stack)
         /\ StartedTo(Marked, Len(Marked))
<1>0. Len(stack) \in Nat
  BY LenProperties
<1>1. CASE stack = << >>
  BY <1>1, EmptySeq DEF Marked, StartedTo
<1>2. CASE stack # << >> /\ Started(Top)
  <2>1. Marked = stack
    BY <1>2 DEF Marked, Started
  <2> QED
    BY <2>1, <1>0, <1>2 DEF StartedTo, Top
<1>3. CASE stack # << >> /\ ~Started(Top)
  <2> DEFINE l == [Top EXCEPT !.key_start = pos]
  <2>1. Marked = Replace(stack, l)
    BY <1>3 DEF Marked, Started
  <2>2. l \in GoodLevel(pos) /\ Started(l)
    BY <1>3, PopSeq, MarkedLevel DEF Top
  <2> HIDE DEF l
  <2>3. /\ Marked \in Seq(GoodLevel(pos))
        /\ Len(Marked) = Len(stack)
        /\ \A i \in 1 .. Len(stack) : Marked[i] = IF i = Len(stack) THEN l ELSE stack[i]
    <3> DEFINE S == GoodLevel(pos)
    <3>1. stack \in Seq(S) /\ stack # << >> /\ l \in S
      BY <1>3, <2>2
    <3> HIDE DEF S
    <3>2. /\ Replace(stack, l) \in Seq(S)
          /\ Len(Replace(stack, l)) = Len(stack)
          /\ \A i \in 1 .. Len(stack) : Replace(stack, l)[i] = IF i = Len(stack) THEN l ELSE stack[i]
      BY <3>1, ReplaceSeq
    <3> QED
      BY <2>1, <3>2 DEF S
  <2> QED
    BY <2>2, <2>3, <1>0 DEF StartedTo
<1> QED
  BY <1>1, <1>2, <1>3

(* Doubling and decrementing modulo an even width keep the parity facts.   *)
LEMMA WidthArithmetic ==
  ASSUME NEW n \in 0 .. W - 1
  PROVE  /\ Doubled(n) \in 0 .. W - 1 /\ Doubled(n) % 2 = 0
         /\ Decrement(n) \in 0 .. W - 1
         /\ Decrement(n) % 2 = 0 <=> n % 2 # 0
  BY WidthAssumption DEF Doubled, Decrement

(* A container that was just opened.                                       *)
LEMMA NewLevelGood ==
  ASSUME Tok \in Token, Tok.mt \in Container, ~Empty, NEW p \in Nat
  PROVE  NewLevel \in GoodLevel(p)
<1>1. Tok.value \in 0 .. W - 1 /\ Tok.indefinite \in BOOLEAN
  BY DEF Token
<1>2. LevelCount \in {Nullopt} \cup 0 .. W - 1
  BY <1>1, WidthArithmetic DEF LevelCount
<1>3. /\ NewLevel.is_map = (Tok.mt = "map")
      /\ NewLevel.remaining = LevelCount
      /\ NewLevel.key_next = TRUE
      /\ NewLevel.key_start = NoKey
      /\ NewLevel.prev = << 0, 0 >>
  BY DEF NewLevel
<1>4. NewLevel \in Level
  BY <1>2 DEF NewLevel, Level
<1>5. Tok.mt = "map" => LevelCount = Nullopt \/ LevelCount % 2 = 0
  BY <1>1, WidthArithmetic DEF LevelCount
<1>6. Tok.mt # "map" => LevelCount # 0
  BY <1>1 DEF LevelCount, Empty, Nullopt
<1>7. Paired(NewLevel)
  BY <1>3, <1>5, <1>6 DEF Paired
<1>8. Extent(NewLevel, p)
  BY <1>3 DEF Extent
<1> QED
  BY <1>4, <1>7, <1>8 DEF GoodLevel

(* Counting one more item, unless it completes the container.              *)
LEMMA CountedGood ==
  ASSUME pos \in Nat, Top \in GoodLevel(pos), Started(Top), Counted.remaining # 0
  PROVE  Counted \in GoodLevel(pos)
<1>0. Top \in Level /\ Paired(Top) /\ Extent(Top, pos)
  BY DEF GoodLevel
<1>1. /\ Counted.is_map = Top.is_map
      /\ Counted.key_next = IF Top.is_map THEN ~Top.key_next ELSE Top.key_next
      /\ Counted.remaining = IF Top.remaining = Nullopt THEN Nullopt ELSE Decrement(Top.remaining)
      /\ Counted.prev = IF KeyDone THEN << Top.key_start, pos >> ELSE Top.prev
      /\ Counted.key_start = IF KeyDone THEN NoKey ELSE Top.key_start
  BY <1>0 DEF Counted, Level
<1>2. KeyDone => Top.key_start \in Nat /\ Top.key_start <= pos
  BY <1>0 DEF KeyDone, Started, Level, Extent
<1>3. Counted.remaining \in {Nullopt} \cup 0 .. W - 1
  BY <1>0, <1>1, WidthArithmetic DEF Level
<1>4. Counted \in Level
  BY <1>0, <1>1, <1>2, <1>3 DEF Counted, Level
<1>5. Paired(Counted)
  BY <1>0, <1>1, WidthArithmetic DEF Paired, Level, Nullopt
<1>6. Extent(Counted, pos)
  BY <1>0, <1>1, <1>2 DEF Extent, Level
<1> QED
  BY <1>4, <1>5, <1>6 DEF GoodLevel

-----------------------------------------------------------------------------
(* Steps of the same kind.                                                 *)

(* The head in front of the reader when there is one.                      *)
LEMMA TokenAhead ==
  ASSUME TypeOK, ~AtEnd
  PROVE  Tok \in Token /\ pos + 1 \in 0 .. Len(in) /\ pos \in Nat
<1>1. in \in Seq(Token) /\ pos \in 0 .. Len(in)
  BY DEF TypeOK, IsInput
<1>2. Len(in) \in Nat
  BY <1>1, LenProperties
<1>3. pos + 1 \in 1 .. Len(in)
  BY <1>1, <1>2 DEF AtEnd
<1>4. in[pos + 1] \in Token
  BY <1>1, <1>3, ElementOfSeq
<1> QED
  BY <1>1, <1>2, <1>3, <1>4 DEF Tok

(* Every early return with an error.                                       *)
LEMMA FailStep ==
  ASSUME IInv, NEW e \in Errors, NEW p \in 0 .. Len(in), pos <= p, Fail(e, p)
  PROVE  IInv'
<1>1. Len(in) \in Nat /\ pos \in Nat /\ p \in Nat
  BY LenProperties DEF IInv, TypeOK, IsInput
<1>2. stack \in Seq(GoodLevel(p))
  BY <1>1, GoodLater DEF IInv
<1>3. stack' \in Seq(GoodLevel(pos'))
  BY <1>2 DEF Fail
<1>4. TypeOK'
  BY DEF IInv, TypeOK, Fail, Controls
<1>5. DepthAccounting'
  BY DEF IInv, DepthAccounting, Fail
<1> QED
  BY <1>3, <1>4, <1>5 DEF IInv, StartedTo, Started, Fail

(* Every head, or tag, that opens no container.                            *)
LEMMA ConsumeStep ==
  ASSUME IInv, ~AtEnd, NEW c \in {"item", "chunk", "item_done"}, Advance(1, c),
         stack' = Marked, depth' = depth, chunkOf' \in String
  PROVE  IInv'
<1>1. TypeOK /\ Tok \in Token /\ pos + 1 \in 0 .. Len(in) /\ pos \in Nat
  BY TokenAhead DEF IInv
<1>2. /\ Marked \in Seq(GoodLevel(pos))
      /\ Len(Marked) = Len(stack)
      /\ StartedTo(Marked, Len(Marked))
  BY <1>1, MarkedStack DEF IInv
<1>3. pos' = pos + 1 /\ pos + 1 \in Nat
  BY <1>1 DEF Advance
<1>4. Marked \in Seq(GoodLevel(pos + 1))
  BY <1>1, <1>2, <1>3, GoodLater
<1>5. stack' \in Seq(GoodLevel(pos'))
  BY <1>3, <1>4
<1>6. stack' \in Seq(Level)
  BY <1>5, SeqMonotonic DEF GoodLevel
<1>7. TypeOK'
  BY <1>1, <1>6 DEF TypeOK, Advance, Controls
<1>8. Len(stack') \in Nat
  BY <1>6, LenProperties
<1>9. DepthAccounting'
  BY <1>2 DEF IInv, DepthAccounting, Advance
<1>10. StartedTo(stack', Len(stack')) /\ StartedTo(stack', Len(stack') - 1)
  BY <1>2, <1>8 DEF StartedTo
<1> QED
  BY <1>5, <1>7, <1>9, <1>10 DEF IInv, StartedTo, Started, Advance

(* Leaving a container, with or without a break.                           *)
LEMMA PopStep ==
  ASSUME IInv, NEW n \in {0, 1}, pos + n \in 0 .. Len(in), Advance(n, "item_done"),
         stack # << >>, stack' = Pop, depth' = depth - 1, chunkOf' = chunkOf
  PROVE  IInv'
<1>1. stack \in Seq(GoodLevel(pos)) /\ pos \in Nat /\ Len(in) \in Nat
  BY LenProperties DEF IInv, TypeOK, IsInput
<1>2. /\ Len(stack) \in Nat \ {0}
      /\ Pop \in Seq(GoodLevel(pos))
      /\ Len(Pop) = Len(stack) - 1
      /\ \A i \in 1 .. Len(stack) - 1 : Pop[i] = stack[i]
  <2> DEFINE S == GoodLevel(pos)
  <2>1. stack \in Seq(S)
    BY <1>1
  <2> HIDE DEF S
  <2>2. /\ Len(stack) \in Nat \ {0}
        /\ SubSeq(stack, 1, Len(stack) - 1) \in Seq(S)
        /\ Len(SubSeq(stack, 1, Len(stack) - 1)) = Len(stack) - 1
        /\ \A i \in 1 .. Len(stack) - 1 : SubSeq(stack, 1, Len(stack) - 1)[i] = stack[i]
    BY <2>1, PopSeq
  <2> QED
    BY <2>2 DEF Pop, S
<1>3. pos' = pos + n /\ pos + n \in Nat
  BY <1>1 DEF Advance
<1>4. stack' \in Seq(GoodLevel(pos'))
  BY <1>1, <1>2, <1>3, GoodLater
<1>5. stack' \in Seq(Level)
  BY <1>4, SeqMonotonic DEF GoodLevel
<1>6. depth - 1 \in 0 .. MaxDepth
  BY <1>2, DepthAssumption DEF IInv, TypeOK, DepthAccounting
<1>7. TypeOK'
  BY <1>3, <1>5, <1>6 DEF IInv, TypeOK, Advance, Controls
<1>8. DepthAccounting'
  <2>1. depth' = base' + Len(stack')
    BY <1>2 DEF IInv, TypeOK, DepthAccounting, Advance
  <2> QED
    BY <2>1 DEF DepthAccounting, Advance
<1>9. StartedTo(stack', Len(stack'))
  BY <1>2 DEF IInv, StartedTo
<1>10. StartedTo(stack', Len(stack') - 1)
  BY <1>2, <1>9 DEF StartedTo
<1> QED
  BY <1>4, <1>7, <1>8, <1>9, <1>10 DEF IInv, StartedTo, Started, Advance

-----------------------------------------------------------------------------
(* The inductive invariant.                                                *)

(* A call of skip_value starts in the invariant.                           *)
LEMMA InitInv == Init => IInv
<1> SUFFICES ASSUME Init PROVE IInv
  OBVIOUS
<1>1. in \in Seq(Token) /\ IsInput(in)
  BY InputsAssumption DEF Init, IsInput
<1>2. Len(in) \in Nat
  BY <1>1, LenProperties
<1>3. stack \in Seq(GoodLevel(pos)) /\ stack \in Seq(Level) /\ Len(stack) = 0
  BY EmptySeq DEF Init
<1>4. strict \in BOOLEAN
  BY Zenon DEF Init
<1>5. TypeOK
  BY <1>1, <1>2, <1>3, <1>4, DepthAssumption DEF Init, TypeOK, Controls, Errors, String
<1> QED
  BY <1>3, <1>5 DEF Init, IInv, DepthAccounting, StartedTo, TypeOK

(* A head was accepted, so there is one.                                   *)
LEMMA AcceptsAhead ==
  ASSUME NEW mts, Accepts(mts)
  PROVE  ~AtEnd /\ Tok.mt \in mts
  BY DEF Accepts, HeadError

(* The checks of the loop and of read_string return known errors.          *)
LEMMA HeadErrors == HeadError \in Errors /\ ChunkError \in Errors
  BY DEF HeadError, ChunkError, Errors

(* Opening a container keeps the invariant.                                *)
LEMMA OpenStep == ASSUME IInv, Open PROVE IInv'
<1>0. ~AtEnd /\ Tok.mt \in Container /\ ~Empty
  BY AcceptsAhead DEF Open
<1>1. TypeOK /\ Tok \in Token /\ pos + 1 \in 0 .. Len(in) /\ pos \in Nat
  BY <1>0, TokenAhead DEF IInv
<1>2. /\ Marked \in Seq(GoodLevel(pos))
      /\ Len(Marked) = Len(stack)
      /\ StartedTo(Marked, Len(Marked))
  BY <1>1, MarkedStack DEF IInv
<1>3. pos' = pos + 1 /\ pos + 1 \in Nat
  BY <1>1 DEF Open, Advance
<1>4. Marked \in Seq(GoodLevel(pos + 1))
  BY <1>1, <1>2, <1>3, GoodLater
<1>5. NewLevel \in GoodLevel(pos + 1)
  BY <1>0, <1>1, <1>3, NewLevelGood
<1>6. /\ stack' \in Seq(GoodLevel(pos + 1))
      /\ Len(stack') = Len(stack) + 1
      /\ \A i \in 1 .. Len(stack) : stack'[i] = Marked[i]
  <2> DEFINE S == GoodLevel(pos + 1)
  <2>1. Marked \in Seq(S) /\ NewLevel \in S
    BY <1>4, <1>5
  <2> HIDE DEF S
  <2>2. /\ Append(Marked, NewLevel) \in Seq(S)
        /\ Len(Append(Marked, NewLevel)) = Len(Marked) + 1
        /\ \A i \in 1 .. Len(Marked) : Append(Marked, NewLevel)[i] = Marked[i]
    BY <2>1, AppendProperties
  <2> QED
    BY <1>2, <2>2 DEF Open, S
<1>7. stack' \in Seq(Level) /\ Len(stack) \in Nat
  BY <1>1, <1>6, SeqMonotonic, LenProperties DEF GoodLevel, TypeOK
<1>8. depth < MaxDepth
  BY <1>0, <1>1, DepthAssumption DEF Open, Accepts, HeadError, Full, TypeOK, Container, String
<1>9. TypeOK'
  BY <1>1, <1>7, <1>8, DepthAssumption DEF TypeOK, Open, Advance, Controls
<1>10. DepthAccounting'
  <2>1. depth' = base' + Len(stack')
    BY <1>6, <1>7 DEF IInv, TypeOK, DepthAccounting, Open, Advance
  <2> QED
    BY <2>1 DEF DepthAccounting, Open, Advance
<1>11. StartedTo(stack', Len(stack') - 1)
  BY <1>2, <1>6, <1>7 DEF StartedTo
<1> QED
  BY <1>3, <1>6, <1>9, <1>10, <1>11 DEF IInv, Open, Advance, StartedTo, Started

(* So does counting an item of a container that has more to come.          *)
LEMMA ItemDoneStep == ASSUME IInv, ItemDone PROVE IInv'
<1>1. /\ stack \in Seq(GoodLevel(pos)) /\ stack # << >> /\ pos \in Nat
      /\ StartedTo(stack, Len(stack)) /\ Counted.remaining # 0
  BY DEF IInv, TypeOK, IsInput, ItemDone
<1>2. Len(stack) \in Nat \ {0} /\ Top \in GoodLevel(pos)
  BY <1>1, PopSeq DEF Top
<1>3. Started(Top)
  BY <1>1, <1>2 DEF StartedTo, Top
<1>4. Counted \in GoodLevel(pos)
  BY <1>1, <1>2, <1>3, CountedGood
<1>5. /\ stack' \in Seq(GoodLevel(pos))
      /\ Len(stack') = Len(stack)
      /\ \A i \in 1 .. Len(stack) : i # Len(stack) => stack'[i] = stack[i]
  <2> DEFINE S == GoodLevel(pos)
  <2>1. stack \in Seq(S) /\ stack # << >> /\ Counted \in S
    BY <1>1, <1>4
  <2> HIDE DEF S
  <2>2. /\ Replace(stack, Counted) \in Seq(S)
        /\ Len(Replace(stack, Counted)) = Len(stack)
        /\ \A i \in 1 .. Len(stack) :
             Replace(stack, Counted)[i] = IF i = Len(stack) THEN Counted ELSE stack[i]
    BY <2>1, ReplaceSeq
  <2> QED
    BY <2>2 DEF ItemDone, S
<1>6. stack' \in Seq(Level)
  BY <1>5, SeqMonotonic DEF GoodLevel
<1>7. pos' = pos
  BY <1>1 DEF ItemDone, Advance
<1>8. TypeOK'
  BY <1>6, <1>7 DEF IInv, TypeOK, ItemDone, Advance, Controls
<1>9. DepthAccounting'
  BY <1>5 DEF IInv, DepthAccounting, ItemDone, Advance
<1>10. StartedTo(stack', Len(stack') - 1)
  BY <1>1, <1>2, <1>5 DEF StartedTo
<1> QED
  BY <1>5, <1>7, <1>8, <1>9, <1>10 DEF IInv, ItemDone, Advance, StartedTo, Started

(* Every step of the loop keeps the invariant.                             *)
LEMMA StepInv == IInv /\ [Next]_vars => IInv'
<1> SUFFICES ASSUME IInv, [Next]_vars PROVE IInv'
  OBVIOUS
<1>0. TypeOK /\ pos \in 0 .. Len(in) /\ Len(in) \in Nat
  BY LenProperties DEF IInv, TypeOK, IsInput
<1>1. CASE BadHead
  BY <1>0, <1>1, HeadErrors, FailStep DEF BadHead
<1>2. CASE Break
  <2>1. pos + 1 \in 0 .. Len(in)
    BY <1>0, <1>2, AcceptsAhead, TokenAhead DEF Break
  <2>2. stack # << >>
    BY <1>2 DEF Break, Accepts, HeadError, MayBreak
  <2> QED
    BY <1>2, <2>1, <2>2, PopStep DEF Break, Lowered
<1>3. CASE Scalar
  BY <1>0, <1>3, AcceptsAhead, ConsumeStep DEF Scalar, IInv, TypeOK
<1>4. CASE Tag
  BY <1>0, <1>4, AcceptsAhead, ConsumeStep DEF Tag, IInv, TypeOK
<1>5. CASE BadTag
  <2>1. pos + 1 \in 0 .. Len(in)
    BY <1>0, <1>5, AcceptsAhead, TokenAhead DEF BadTag
  <2> QED
    BY <1>0, <1>5, <2>1, FailStep DEF BadTag, Errors
<1>6. CASE DefiniteString
  BY <1>0, <1>6, AcceptsAhead, ConsumeStep DEF DefiniteString, IInv, TypeOK
<1>7. CASE BadText
  <2>1. pos + 1 \in 0 .. Len(in)
    BY <1>0, <1>7, AcceptsAhead, TokenAhead DEF BadText
  <2> QED
    BY <1>0, <1>7, <2>1, FailStep DEF BadText, Errors
<1>8. CASE IndefiniteString
  BY <1>0, <1>8, AcceptsAhead, ConsumeStep DEF IndefiniteString
<1>9. CASE Chunk
  <2>1. ~AtEnd
    BY <1>9 DEF Chunk, ChunkError
  <2>2. pos + 1 \in 0 .. Len(in)
    BY <1>0, <2>1, TokenAhead
  <2>3. stack' \in Seq(GoodLevel(pos'))
    BY <1>0, <1>9, <2>2, GoodLater DEF IInv, Chunk, Advance
  <2>4. TypeOK'
    BY <1>9, <2>2 DEF IInv, TypeOK, Chunk, Advance, Controls
  <2>5. DepthAccounting'
    BY <1>9 DEF IInv, DepthAccounting, Chunk, Advance
  <2>6. StartedTo(stack', Len(stack')) /\ StartedTo(stack', Len(stack') - 1)
    BY <1>9 DEF IInv, Chunk, StartedTo
  <2> QED
    BY <1>9, <2>3, <2>4, <2>5, <2>6 DEF IInv, StartedTo, Started, Chunk, Advance
<1>10. CASE BadChunk
  BY <1>0, <1>10, HeadErrors, FailStep DEF BadChunk
<1>11. CASE Open
  BY <1>11, OpenStep
<1>12. CASE OpenEmpty
  BY <1>0, <1>12, AcceptsAhead, ConsumeStep DEF OpenEmpty, IInv, TypeOK
<1>13. CASE Return
  <2>1. pos' = pos /\ UNCHANGED << in, strict, base, depth, stack, chunkOf, err >> /\ pc' = "ok" /\ stack = << >>
    BY <1>0, <1>13 DEF Return, Advance
  <2> QED
    BY <2>1 DEF IInv, TypeOK, DepthAccounting, StartedTo, Controls
<1>14. CASE ItemDone
  BY <1>14, ItemDoneStep
<1>15. CASE Close
  <2>1. pos + 0 \in 0 .. Len(in)
    BY <1>0
  <2> QED
    BY <1>15, <2>1, PopStep DEF Close, Lowered
<1>16. CASE BadKeyOrder
  BY <1>0, <1>16, FailStep DEF BadKeyOrder, Errors
<1>17. CASE UNCHANGED vars
  BY <1>17 DEF vars, IInv, TypeOK, DepthAccounting, StartedTo, Started
<1> QED
  BY <1>1, <1>2, <1>3, <1>4, <1>5, <1>6, <1>7, <1>8, <1>9, <1>10, <1>11, <1>12,
     <1>13, <1>14, <1>15, <1>16, <1>17 DEF Next

-----------------------------------------------------------------------------
(* Theorems.                                                               *)

(* The invariant holds throughout a call.                                  *)
LEMMA Invariance == Spec => []IInv
  BY InitInv, StepInv, PTL DEF Spec

(* skip_value keeps its state well typed: above all, it never reads past   *)
(* the end of the input, and depth_ stays between 0 and max_depth.         *)
THEOREM TypeCorrect == Spec => []TypeOK
<1>1. IInv => TypeOK
  BY DEF IInv
<1> QED
  BY <1>1, Invariance, PTL

(* depth_ is what it was at the call plus the open containers, on every    *)
(* path through skip_value, for any input and any max_depth.               *)
THEOREM DepthCounts == Spec => []DepthAccounting
<1>1. IInv => DepthAccounting
  BY DEF IInv
<1> QED
  BY <1>1, Invariance, PTL

(* No definite-length map completes between a key and its value.           *)
THEOREM MapsPaired == Spec => []MapPairing
<1>1. IInv => MapPairing
  <2> SUFFICES ASSUME IInv, NEW i \in DOMAIN stack PROVE Paired(stack[i])
    BY DEF MapPairing
  <2>1. stack[i] \in GoodLevel(pos)
    BY ElementOfSeq, LenProperties DEF IInv
  <2> QED
    BY <2>1 DEF GoodLevel
<1> QED
  BY <1>1, Invariance, PTL

(* The byte ranges check of the key order compares whole keys.             *)
THEOREM KeysDelimited == Spec => []KeyExtents
<1>1. IInv => KeyExtents
  <2> SUFFICES ASSUME IInv PROVE KeyExtents
    OBVIOUS
  <2>1. \A i \in DOMAIN stack : stack[i] \in GoodLevel(pos) /\ i \in 1 .. Len(stack)
    BY ElementOfSeq, LenProperties DEF IInv
  <2>2. Len(stack) \in Nat
    BY LenProperties DEF IInv
  <2>3. \A i \in DOMAIN stack : Extent(stack[i], pos)
    BY <2>1 DEF GoodLevel
  <2>4. ASSUME NEW i \in DOMAIN stack, i < Len(stack) \/ pc \in {"chunk", "item_done"}
        PROVE  Started(stack[i])
    BY <2>1, <2>2, <2>4 DEF IInv, StartedTo
  <2> QED
    BY <2>3, <2>4 DEF KeyExtents
<1> QED
  BY <1>1, Invariance, PTL

(* The position never moves back: each step of the loop consumes the head  *)
(* in front of it exactly once.                                            *)
THEOREM MovesForward == Spec => NeverRewinds
<1>1. IInv /\ [Next]_vars => [pos' >= pos /\ (pc = "item" /\ pc' # "fail" => pos' = pos + 1)]_vars
  <2> SUFFICES ASSUME IInv, Next
               PROVE  pos' >= pos /\ (pc = "item" /\ pc' # "fail" => pos' = pos + 1)
    OBVIOUS
  <2>1. pos \in Nat
    BY DEF IInv, TypeOK
  <2> QED
    BY <2>1 DEF Next, BadHead, Break, Scalar, Tag, BadTag, DefiniteString, BadText,
       IndefiniteString, Chunk, BadChunk, Open, OpenEmpty, Return, ItemDone, Close,
       BadKeyOrder, Fail, Advance, Accepts
<1> QED
  BY <1>1, Invariance, PTL DEF Spec, NeverRewinds

===============================================================================
