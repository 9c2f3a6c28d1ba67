------------------------------ MODULE DecodeProofs ------------------------------
(***************************************************************************)
(* Proofs about Decode, for every table of types, every input (any         *)
(* sequence of tokens, complete or not), every max_depth, every limit on   *)
(* the steps of a path and both error modes.                               *)
(***************************************************************************)
EXTENDS Decode, CommonLemmas

KindOf(f) == Types[f.type].kind

(* Levels of the input that the first n of the frames fs hold open.        *)
Below(fs, n) == Cardinality({j \in 1 .. n : Holds(fs[j])})
One(f)       == IF Holds(f) THEN 1 ELSE 0

FrameFields == {"type", "start", "depth", "n", "seen", "mark", "save", "step", "phase", "alt"}

(* What holds of a frame f called with d levels open: the call was made at *)
(* that level of the input, before a container unless f is transparent.    *)
FrameOK(f, d) ==
  /\ FrameFields \subseteq DOMAIN f
  /\ f.start \in Nat \ {0}
  /\ f.depth = d /\ Level(f.start) = d
  /\ KindOf(f) \in Containers \cup {"transparent"}
  /\ KindOf(f) \in Containers => in[f.start].k \in Opening /\ d < MaxDepth
  /\ KindOf(f) = "variant" /\ f.phase = "struct" => f.step = NoStep

(* What holds of a frame with a child in progress, b levels open below the *)
(* child: a struct has saved a position at that level; the other loops     *)
(* have the child's step.                                                  *)
ChildOK(f, b) ==
  /\ KindOf(f) = "struct" =>
       f.save[1] \in Nat \ {0} /\ f.save[2] = b /\ Level(f.save[1]) = b
  /\ Holds(f) /\ KindOf(f) # "struct" => f.step # NoStep

(* All frames, when control is at c: in its loop, the innermost has no     *)
(* child in progress.                                                      *)
FramesOK(fs, c) ==
  /\ IsSeq(fs)
  /\ \A i \in 1 .. Len(fs) : FrameOK(fs[i], Below(fs, i - 1))
  /\ \A i \in 1 .. Len(fs) : i < Len(fs) \/ c # "loop" => ChildOK(fs[i], Below(fs, i))

(* An error that is on its way up.                                         *)
Failed(e) == {"code", "path", "truncated"} \subseteq DOMAIN e /\ e.code # "none"

(* The inductive invariant.  InStep alone is not inductive: to leave a     *)
(* level, to rewind to a member and to start the second pass over a        *)
(* variant, the frames must have recorded positions at their own level.    *)
DecodeInv ==
  /\ root \in DOMAIN Roots
  /\ pos \in Nat \ {0}
  /\ depth \in 0 .. MaxDepth
  /\ ctl \in {"call", "loop", "return", "done"}
  /\ FramesOK(frames, ctl)
  /\ ctl = "loop" => frames # << >> /\ Holds(Top) /\ Top.step = NoStep
  /\ st = OK \/ Failed(st)
  /\ ctl \in {"call", "loop"} \/ (ctl = "return" /\ st = OK) =>
       depth = Below(frames, Len(frames)) /\ Level(pos) = depth

-----------------------------------------------------------------------------
(* Levels of the input.                                                    *)

(* One token further: a container opens, or ends, or the level stays.      *)
LEMMA LevelNext ==
  ASSUME NEW i \in Nat \ {0}
  PROVE  /\ Level(i) \in Int
         /\ in[i].k \in Opening => Level(i + 1) = Level(i) + 1
         /\ in[i].k = "end" => Level(i + 1) = Level(i) - 1
         /\ in[i].k \notin Opening \cup {"end"} => Level(i + 1) = Level(i)
<1>1. PICK n \in Nat : i = n + 1
  <2>1. i - 1 \in Nat /\ i = (i - 1) + 1
    OBVIOUS
  <2> QED
    BY <2>1
<1> DEFINE A == {j \in Nat : in[j].k \in Opening}
           B == {j \in Nat : in[j].k = "end"}
<1>2. \A m \in Nat : Level(m + 1) = Cardinality((1 .. m) \cap A) - Cardinality((1 .. m) \cap B)
  <2> TAKE m \in Nat
  <2>1. {j \in 1 .. (m + 1) - 1 : in[j].k \in Opening} = (1 .. m) \cap A
    OBVIOUS
  <2>2. {j \in 1 .. (m + 1) - 1 : in[j].k = "end"} = (1 .. m) \cap B
    OBVIOUS
  <2> HIDE DEF A, B
  <2> QED
    BY <2>1, <2>2 DEF Level
<1>3. i \in A <=> in[i].k \in Opening
  OBVIOUS
<1>4. i \in B <=> in[i].k = "end"
  OBVIOUS
<1>5. ~(i \in A /\ i \in B)
  BY DEF Opening
<1> HIDE DEF A, B
<1>6. /\ Cardinality((1 .. n) \cap A) \in Nat
      /\ Cardinality((1 .. n + 1) \cap A) = Cardinality((1 .. n) \cap A) + (IF n + 1 \in A THEN 1 ELSE 0)
  BY CountNext
<1>7. /\ Cardinality((1 .. n) \cap B) \in Nat
      /\ Cardinality((1 .. n + 1) \cap B) = Cardinality((1 .. n) \cap B) + (IF n + 1 \in B THEN 1 ELSE 0)
  BY CountNext
<1>8. Level(i) = Cardinality((1 .. n) \cap A) - Cardinality((1 .. n) \cap B)
  BY <1>1, <1>2
<1>9. Level(i + 1) = Cardinality((1 .. n + 1) \cap A) - Cardinality((1 .. n + 1) \cap B)
  BY <1>1, <1>2
<1> QED
  BY <1>1, <1>3, <1>4, <1>5, <1>6, <1>7, <1>8, <1>9

(* Nothing is open at the start of the input.                              *)
LEMMA LevelStart == Level(1) = 0
<1>1. {j \in 1 .. 1 - 1 : in[j].k \in Opening} = {} /\ {j \in 1 .. 1 - 1 : in[j].k = "end"} = {}
  OBVIOUS
<1> QED
  BY <1>1, FS_EmptySet DEF Level

(* skip_value that succeeds ends at the level where it began.              *)
LEMMA SkipLevel ==
  ASSUME NEW p \in Nat \ {0}, Ends(p) # {}
  PROVE  AfterItem(p) \in Nat \ {0} /\ Level(AfterItem(p)) = Level(p)
<1>1. Ends(p) \in SUBSET Nat
  BY DEF Ends
<1>2. Min(Ends(p)) \in Ends(p)
  BY <1>1, MinOf
<1> QED
  BY <1>2 DEF AfterItem, Ends

(* Every error is one: a code that is not "none".                          *)
LEMMA ErrFailed ==
  ASSUME NEW c, c # "none", NEW p
  PROVE  Failed(Err(c, p)) /\ Err(c, p) # OK
  BY DEF Failed, Err, OK

(* A step in the path, or a detail, leaves it one.                         *)
LEMMA PushFailed ==
  ASSUME NEW e, Failed(e), NEW s
  PROVE  Failed(Push(e, s)) /\ Push(e, s) # OK
  BY DEF Failed, Push, OK, Err

(* What skip_value returns is OK or an error.                              *)
LEMMA SkipFails ==
  ASSUME NEW p, NEW d, SkipError(p, d) # OK
  PROVE  Failed(SkipError(p, d))
  BY ErrFailed DEF SkipError

(* skip_value succeeds only over an item that is complete.                 *)
LEMMA SkipEnds ==
  ASSUME NEW p, NEW d, SkipError(p, d) = OK
  PROVE  Ends(p) # {}
  BY ErrFailed DEF SkipError

-----------------------------------------------------------------------------
(* The frames.                                                             *)

(* One frame more.                                                         *)
LEMMA BelowNext ==
  ASSUME NEW fs, NEW n \in Nat
  PROVE  /\ Below(fs, n) \in Nat
         /\ Below(fs, n + 1) = Below(fs, n) + One(fs[n + 1])
<1> DEFINE A == {j \in Nat : Holds(fs[j])}
<1>1. \A m \in Nat : {j \in 1 .. m : Holds(fs[j])} = (1 .. m) \cap A
  OBVIOUS
<1>2. n + 1 \in A <=> Holds(fs[n + 1])
  OBVIOUS
<1> HIDE DEF A
<1>3. /\ Cardinality((1 .. n) \cap A) \in Nat
      /\ Cardinality((1 .. n + 1) \cap A) = Cardinality((1 .. n) \cap A) + (IF n + 1 \in A THEN 1 ELSE 0)
  BY CountNext
<1>4. \A m \in Nat : Below(fs, m) = Cardinality((1 .. m) \cap A)
  BY <1>1 DEF Below
<1> QED
  BY <1>2, <1>3, <1>4 DEF One

(* Only the frames up to n matter.                                         *)
LEMMA BelowSame ==
  ASSUME NEW fs, NEW gs, NEW n \in Nat, \A i \in 1 .. n : fs[i] = gs[i]
  PROVE  \A m \in 0 .. n : Below(fs, m) = Below(gs, m)
<1> TAKE m \in 0 .. n
<1>1. {j \in 1 .. m : Holds(fs[j])} = {j \in 1 .. m : Holds(gs[j])}
  OBVIOUS
<1> QED
  BY <1>1 DEF Below

(* The frames up to n are the same in both, and good.                      *)
LEMMA FramesSame ==
  ASSUME NEW fs, NEW gs, NEW c, FramesOK(fs, c), NEW n \in Nat, n <= Len(fs), Len(fs) \in Nat,
         n < Len(fs) \/ c # "loop", \A i \in 1 .. n : gs[i] = fs[i]
  PROVE  /\ \A i \in 1 .. n : FrameOK(gs[i], Below(gs, i - 1)) /\ ChildOK(gs[i], Below(gs, i))
         /\ Below(gs, n) = Below(fs, n)
<1>1. \A m \in 0 .. n : Below(fs, m) = Below(gs, m)
  BY BelowSame
<1>2. ASSUME NEW i \in 1 .. n
      PROVE  FrameOK(gs[i], Below(gs, i - 1)) /\ ChildOK(gs[i], Below(gs, i))
  <2>1. i \in 1 .. Len(fs) /\ (i < Len(fs) \/ c # "loop") /\ i - 1 \in 0 .. n /\ i \in 0 .. n
    OBVIOUS
  <2>2. FrameOK(fs[i], Below(fs, i - 1)) /\ ChildOK(fs[i], Below(fs, i))
    BY <2>1 DEF FramesOK
  <2> QED
    BY <1>1, <2>1, <2>2
<1>3. n \in 0 .. n
  OBVIOUS
<1> QED
  BY <1>1, <1>2, <1>3

(* A call.                                                                 *)
LEMMA PushFrame ==
  ASSUME NEW fs, NEW b, b # "loop", FramesOK(fs, b), NEW f, FrameOK(f, Below(fs, Len(fs))), NEW c,
         c # "loop" => ChildOK(f, Below(fs, Len(fs)) + One(f))
  PROVE  /\ FramesOK(Append(fs, f), c)
         /\ Append(fs, f) # << >> /\ Append(fs, f)[Len(Append(fs, f))] = f
         /\ Below(Append(fs, f), Len(Append(fs, f))) = Below(fs, Len(fs)) + One(f)
<1> DEFINE gs == Append(fs, f)
           n  == Len(fs)
<1>1. /\ n \in Nat /\ IsSeq(gs) /\ gs # << >> /\ Len(gs) = n + 1 /\ gs[n + 1] = f
      /\ \A i \in 1 .. n : gs[i] = fs[i]
  BY AppendIsSeq DEF FramesOK
<1> HIDE DEF gs
<1>2. /\ \A i \in 1 .. n : FrameOK(gs[i], Below(gs, i - 1)) /\ ChildOK(gs[i], Below(gs, i))
      /\ Below(gs, n) = Below(fs, n)
  <2>1. n <= Len(fs)
    BY <1>1
  <2> QED
    BY <1>1, <2>1, FramesSame
<1>3. Below(gs, n + 1) = Below(gs, n) + One(gs[n + 1])
  BY <1>1, BelowNext
<1>4. FrameOK(gs[n + 1], Below(gs, (n + 1) - 1))
  BY <1>1, <1>2
<1>5. c # "loop" => ChildOK(gs[n + 1], Below(gs, n + 1))
  BY <1>1, <1>2, <1>3
<1>6. \A i \in 1 .. Len(gs) : i \in 1 .. n \/ i = n + 1
  BY <1>1
<1>7. FramesOK(gs, c)
  BY <1>1, <1>2, <1>4, <1>5, <1>6 DEF FramesOK
<1> QED
  BY <1>1, <1>2, <1>3, <1>7 DEF gs

(* A return.                                                               *)
LEMMA PopFrame ==
  ASSUME NEW fs, NEW b, FramesOK(fs, b), fs # << >>, NEW c
  PROVE  /\ FramesOK(Front(fs), c)
         /\ Below(Front(fs), Len(Front(fs))) = Below(fs, Len(fs) - 1)
         /\ Len(fs) \in Nat \ {0}
         /\ Below(fs, Len(fs) - 1) \in Nat
         /\ Below(fs, Len(fs)) = Below(fs, Len(fs) - 1) + One(fs[Len(fs)])
         /\ FrameOK(fs[Len(fs)], Below(fs, Len(fs) - 1))
<1> DEFINE gs == Front(fs)
           n  == Len(fs) - 1
<1>1. /\ Len(fs) \in Nat \ {0} /\ IsSeq(gs) /\ Len(gs) = n
      /\ \A i \in 1 .. n : gs[i] = fs[i]
  BY FrontIsSeq DEF FramesOK
<1> HIDE DEF gs
<1>2. n \in Nat /\ n <= Len(fs) /\ n < Len(fs) /\ n + 1 = Len(fs)
  BY <1>1
<1>3. /\ \A i \in 1 .. n : FrameOK(gs[i], Below(gs, i - 1)) /\ ChildOK(gs[i], Below(gs, i))
      /\ Below(gs, n) = Below(fs, n)
  BY <1>1, <1>2, FramesSame
<1>4. Below(fs, n) \in Nat /\ Below(fs, Len(fs)) = Below(fs, n) + One(fs[Len(fs)])
  BY <1>2, BelowNext
<1>5. FrameOK(fs[Len(fs)], Below(fs, n))
  BY <1>1 DEF FramesOK
<1>6. FramesOK(gs, c)
  BY <1>1, <1>3 DEF FramesOK
<1> QED
  BY <1>1, <1>3, <1>4, <1>5, <1>6 DEF gs

Replaced(fs, f) == [fs EXCEPT ![Len(fs)] = f]

(* A change of the innermost frame.                                        *)
LEMMA ReplaceFrame ==
  ASSUME NEW fs, NEW b, FramesOK(fs, b), fs # << >>,
         NEW f, FrameOK(f, Below(fs, Len(fs) - 1)), NEW c,
         c # "loop" => ChildOK(f, Below(fs, Len(fs) - 1) + One(f))
  PROVE  /\ FramesOK(Replaced(fs, f), c)
         /\ Replaced(fs, f) # << >> /\ Replaced(fs, f)[Len(Replaced(fs, f))] = f
         /\ Below(Replaced(fs, f), Len(Replaced(fs, f))) = Below(fs, Len(fs) - 1) + One(f)
<1> DEFINE gs == Replaced(fs, f)
           n  == Len(fs) - 1
<1>1. /\ Len(fs) \in Nat \ {0} /\ IsSeq(gs) /\ gs # << >> /\ Len(gs) = Len(fs) /\ gs[Len(fs)] = f
      /\ \A i \in 1 .. n : gs[i] = fs[i]
  BY ReplaceIsSeq DEF FramesOK, Replaced
<1> HIDE DEF gs
<1>2. n \in Nat /\ n <= Len(fs) /\ n < Len(fs) /\ n + 1 = Len(fs)
  BY <1>1
<1>3. /\ \A i \in 1 .. n : FrameOK(gs[i], Below(gs, i - 1)) /\ ChildOK(gs[i], Below(gs, i))
      /\ Below(gs, n) = Below(fs, n)
  BY <1>1, <1>2, FramesSame
<1>4. Below(gs, Len(fs)) = Below(gs, n) + One(gs[Len(fs)])
  BY <1>2, BelowNext
<1>5. FrameOK(gs[Len(fs)], Below(gs, Len(fs) - 1))
  BY <1>1, <1>3
<1>6. c # "loop" => ChildOK(gs[Len(fs)], Below(gs, Len(fs)))
  BY <1>1, <1>3, <1>4
<1>7. \A i \in 1 .. Len(gs) : i \in 1 .. n \/ i = Len(fs)
  BY <1>1
<1>8. FramesOK(gs, c)
  BY <1>1, <1>3, <1>5, <1>6, <1>7 DEF FramesOK
<1> QED
  BY <1>1, <1>3, <1>4, <1>8 DEF gs

-----------------------------------------------------------------------------
(* Steps of the same kind.                                                 *)

(* The invariant after a step, said of the new values: the input and the   *)
(* options are those of the call.                                          *)
LEMMA Kept ==
  ASSUME UNCHANGED << root, in >>, root \in DOMAIN Roots,
         pos' \in Nat \ {0}, depth' \in 0 .. MaxDepth,
         ctl' \in {"call", "loop", "return", "done"},
         FramesOK(frames', ctl'),
         ctl' = "loop" => /\ frames' # << >> /\ Holds(frames'[Len(frames')])
                          /\ frames'[Len(frames')].step = NoStep,
         st' = OK \/ Failed(st'),
         ctl' \in {"call", "loop"} \/ (ctl' = "return" /\ st' = OK) =>
           depth' = Below(frames', Len(frames')) /\ Level(pos') = depth'
  PROVE  DecodeInv'
<1>1. Level(pos)' = Level(pos')
  BY DEF Level
<1>2. MaxDepth' = MaxDepth
  BY DEF MaxDepth
<1>3. FramesOK(frames, ctl)'
  BY <1>2 DEF FramesOK, FrameOK, ChildOK, Level
<1>4. (ctl \in {"call", "loop"} \/ (ctl = "return" /\ st = OK) =>
           depth = Below(frames, Len(frames)) /\ Level(pos) = depth)'
  BY <1>1 DEF Below, OK, Err
<1>5. (ctl = "loop" => frames # << >> /\ Holds(Top) /\ Top.step = NoStep)'
  BY DEF Top
<1>6. (st = OK \/ Failed(st))'
  BY DEF OK, Err, Failed
<1> QED
  BY <1>2, <1>3, <1>4, <1>5, <1>6 DEF DecodeInv

(* max_depth is a number.                                                  *)
LEMMA MaxDepthNat == ASSUME root \in DOMAIN Roots PROVE MaxDepth \in Nat
<1>1. Roots[root] \in [duplicates : {"last_wins", "first_wins", "error"}, max_depth : Nat]
  BY ConstantsAssumption
<1> QED
  BY <1>1 DEF MaxDepth

(* A function returns an error: only depth_ must still be in range.        *)
LEMMA LeaveError ==
  ASSUME DecodeInv, frames # << >>, UNCHANGED << root, in >>, NEW e, Failed(e), e # OK, Leave(e),
         pos' \in Nat \ {0}, depth' \in 0 .. MaxDepth
  PROVE  DecodeInv'
<1>1. frames' = Front(frames) /\ ctl' = "return" /\ st' = e
  BY DEF Leave, Returning
<1>2. FramesOK(frames', ctl')
  BY <1>1, PopFrame DEF DecodeInv
<1> QED
  BY <1>1, <1>2, Kept DEF DecodeInv

(* A function returns and its level, if it has one, is left.               *)
LEMMA LeaveOK ==
  ASSUME DecodeInv, frames # << >>, UNCHANGED << root, in >>, Leave(OK),
         pos' \in Nat \ {0}, depth' \in 0 .. MaxDepth, depth' = Top.depth, Level(pos') = depth'
  PROVE  DecodeInv'
<1>1. frames' = Front(frames) /\ ctl' = "return" /\ st' = OK
  BY DEF Leave, Returning
<1>2. /\ FramesOK(frames', ctl')
      /\ Below(frames', Len(frames')) = Below(frames, Len(frames) - 1)
      /\ FrameOK(Top, Below(frames, Len(frames) - 1))
  BY <1>1, PopFrame DEF DecodeInv, Top
<1>3. depth' = Below(frames', Len(frames'))
  BY <1>2 DEF FrameOK
<1> QED
  BY <1>1, <1>2, <1>3, Kept DEF DecodeInv

(* On with the loop of the innermost frame, now f.                         *)
LEMMA LoopStep ==
  ASSUME DecodeInv, frames # << >>, UNCHANGED << root, in >>,
         NEW f, Update(f), Looping, Holds(f), f.step = NoStep, FrameOK(f, Top.depth),
         pos' \in Nat \ {0}, depth' \in 0 .. MaxDepth, depth' = Top.depth + 1, Level(pos') = depth'
  PROVE  DecodeInv'
<1>1. frames' = Replaced(frames, f) /\ ctl' = "loop" /\ st' = st
  BY DEF Update, Looping, Replaced
<1>2. Top.depth = Below(frames, Len(frames) - 1)
  BY PopFrame DEF DecodeInv, FrameOK, Top
<1>3. /\ FramesOK(frames', ctl')
      /\ frames' # << >> /\ frames'[Len(frames')] = f
      /\ Below(frames', Len(frames')) = Below(frames, Len(frames) - 1) + One(f)
  <2>1. FramesOK(frames, ctl) /\ FrameOK(f, Below(frames, Len(frames) - 1))
    BY <1>2 DEF DecodeInv
  <2> QED
    BY <1>1, <2>1, ReplaceFrame
<1>4. One(f) = 1
  BY DEF One
<1> QED
  BY <1>1, <1>2, <1>3, <1>4, Kept DEF DecodeInv

(* The innermost frame, now f, calls decode_value.                         *)
LEMMA CallStep ==
  ASSUME DecodeInv, frames # << >>, UNCHANGED << root, in >>,
         NEW f, Update(f), NEW ty, Calling(ty), FrameOK(f, Top.depth), ChildOK(f, depth'),
         pos' \in Nat \ {0}, depth' \in 0 .. MaxDepth, depth' = Top.depth + One(f), Level(pos') = depth'
  PROVE  DecodeInv'
<1>1. frames' = Replaced(frames, f) /\ ctl' = "call" /\ st' = st
  BY DEF Update, Calling, Replaced
<1>2. Top.depth = Below(frames, Len(frames) - 1)
  BY PopFrame DEF DecodeInv, FrameOK, Top
<1>3. /\ FramesOK(frames', ctl')
      /\ frames' # << >> /\ frames'[Len(frames')] = f
      /\ Below(frames', Len(frames')) = Below(frames, Len(frames) - 1) + One(f)
  <2>1. FramesOK(frames, ctl) /\ FrameOK(f, Below(frames, Len(frames) - 1))
    BY <1>2 DEF DecodeInv
  <2>2. ChildOK(f, Below(frames, Len(frames) - 1) + One(f))
    BY <1>2
  <2> QED
    BY <1>1, <2>1, <2>2, ReplaceFrame
<1> QED
  BY <1>1, <1>2, <1>3, Kept DEF DecodeInv

(* In a loop, the level of the innermost frame is the reader's.            *)
LEMMA InLoop ==
  ASSUME DecodeInv, ctl = "loop"
  PROVE  /\ frames # << >> /\ Holds(Top) /\ Top.step = NoStep
         /\ depth = Top.depth + 1 /\ Top.depth \in 0 .. MaxDepth /\ depth \in 0 .. MaxDepth
         /\ Level(pos) = depth /\ pos \in Nat \ {0} /\ MaxDepth \in Nat
         /\ FrameOK(Top, Top.depth)
<1>1. /\ frames # << >> /\ Holds(Top) /\ Top.step = NoStep
      /\ root \in DOMAIN Roots /\ depth \in 0 .. MaxDepth
  BY DEF DecodeInv
<1>2. MaxDepth \in Nat
  BY <1>1, MaxDepthNat
<1>3. /\ Below(frames, Len(frames) - 1) \in Nat
      /\ Below(frames, Len(frames)) = Below(frames, Len(frames) - 1) + One(Top)
      /\ FrameOK(Top, Below(frames, Len(frames) - 1))
  BY <1>1, PopFrame DEF DecodeInv, Top
<1>4. Top.depth = Below(frames, Len(frames) - 1)
  BY <1>3 DEF FrameOK
<1>5. depth = Below(frames, Len(frames)) /\ Level(pos) = depth /\ pos \in Nat \ {0}
  BY DEF DecodeInv
<1> QED
  BY <1>1, <1>2, <1>3, <1>4, <1>5 DEF One

(* skip_value, then on with the loop in a frame that is as good.           *)
LEMMA SkipStep ==
  ASSUME DecodeInv, ctl = "loop", UNCHANGED << root, in >>, NEW p \in Nat \ {0}, Level(p) = depth,
         NEW f, Holds(f), f.step = NoStep, FrameOK(f, Top.depth), SkipThenLoop(p, f)
  PROVE  DecodeInv'
<1>1. /\ frames # << >> /\ depth = Top.depth + 1 /\ depth \in 0 .. MaxDepth /\ pos \in Nat \ {0}
  BY InLoop
<1>2. CASE SkipError(p, depth) = OK
  <2>1. AfterItem(p) \in Nat \ {0} /\ Level(AfterItem(p)) = Level(p)
    BY <1>2, SkipEnds, SkipLevel
  <2>2. pos' = AfterItem(p) /\ Update(f) /\ Looping /\ depth' = depth
    BY <1>2 DEF SkipThenLoop
  <2> QED
    BY <1>1, <2>1, <2>2, LoopStep
<1>3. CASE SkipError(p, depth) # OK
  <2>1. Leave(SkipError(p, depth)) /\ UNCHANGED reader /\ Failed(SkipError(p, depth))
    BY <1>3, SkipFails DEF SkipThenLoop
  <2> QED
    BY <1>1, <1>3, <2>1, LeaveError DEF reader
<1> QED
  BY <1>2, <1>3

(* A child of the loop's frame, at a position of the same level.           *)
LEMMA ChildStep ==
  ASSUME DecodeInv, ctl = "loop", UNCHANGED << root, in >>, NEW p \in Nat \ {0}, Level(p) = depth,
         NEW f, Holds(f), FrameOK(f, Top.depth), NEW s, s # NoStep, NEW ty, Child(f, s, p, ty)
  PROVE  DecodeInv'
<1> DEFINE g == [f EXCEPT !.mark = Len(collected), !.save = << p, depth >>, !.step = s]
<1>1. /\ frames # << >> /\ depth = Top.depth + 1 /\ depth \in 0 .. MaxDepth
  BY InLoop
<1>2. Update(g) /\ Calling(ty) /\ pos' = p /\ depth' = depth
  BY DEF Child
<1>3. /\ FrameFields \subseteq DOMAIN g
      /\ g.type = f.type /\ g.start = f.start /\ g.depth = f.depth /\ g.phase = f.phase
      /\ g.save = << p, depth >> /\ g.step = s
  BY DEF FrameOK, FrameFields
<1> HIDE DEF g
<1>4. KindOf(g) = KindOf(f) /\ Holds(g)
  BY <1>3 DEF KindOf, Holds
<1>5. FrameOK(g, Top.depth)
  BY <1>3, <1>4 DEF FrameOK, Holds, KindOf
<1>6. ChildOK(g, depth)
  BY <1>3, <1>4 DEF ChildOK
<1>7. One(g) = 1
  BY <1>4 DEF One
<1> QED
  BY <1>1, <1>2, <1>5, <1>6, <1>7, CallStep

(* A frame that iterates stays good when other fields change.              *)
LEMMA SameFrame ==
  ASSUME NEW f, NEW d, Holds(f), FrameOK(f, d),
         NEW g, FrameFields \subseteq DOMAIN g,
         g.type = f.type, g.start = f.start, g.depth = f.depth, g.phase \in {f.phase, "rest", "value"}
  PROVE  Holds(g) /\ FrameOK(g, d) /\ KindOf(g) = KindOf(f)
<1>1. KindOf(g) = KindOf(f) /\ Holds(g)
  BY DEF KindOf, Holds
<1> QED
  BY <1>1 DEF FrameOK, Holds, KindOf

(* next() returns false: the function returns, its level left.             *)
LEMMA EndStep ==
  ASSUME DecodeInv, ctl = "loop", UNCHANGED << root, in >>, Done, Exit,
         NEW e, e = OK \/ (Failed(e) /\ e # OK), Leave(e)
  PROVE  DecodeInv'
<1>1. /\ frames # << >> /\ depth = Top.depth + 1 /\ Top.depth \in 0 .. MaxDepth
      /\ depth \in 0 .. MaxDepth /\ Level(pos) = depth /\ pos \in Nat \ {0} /\ MaxDepth \in Nat
  BY InLoop
<1>2. pos' = pos + 1 /\ depth' = depth - 1 /\ in[pos].k = "end"
  BY DEF Exit, Done, Ahead
<1>3. Level(pos + 1) = Level(pos) - 1
  BY <1>1, <1>2, LevelNext
<1>4. pos' \in Nat \ {0} /\ depth' = Top.depth /\ depth' \in 0 .. MaxDepth /\ Level(pos') = depth'
  BY <1>1, <1>2, <1>3
<1>5. CASE e = OK
  BY <1>1, <1>4, <1>5, LeaveOK
<1>6. CASE Failed(e) /\ e # OK
  BY <1>1, <1>4, <1>6, LeaveError
<1> QED
  BY <1>5, <1>6

(* A key does not change the level.                                        *)
LEMMA AfterKey ==
  ASSUME DecodeInv, ctl = "loop", NEW b, ~KeyMismatch(b)
  PROVE  pos + 1 \in Nat \ {0} /\ Level(pos + 1) = depth
<1>1. Level(pos) = depth /\ pos \in Nat \ {0}
  BY InLoop
<1>2. in[pos].k \notin Opening \cup {"end"}
  BY DEF KeyMismatch, Ahead, Opening
<1> QED
  BY <1>1, <1>2, LevelNext

(* An error that leaves the reader where it is.                            *)
LEMMA LeaveHere ==
  ASSUME DecodeInv, frames # << >>, UNCHANGED << root, in, pos, depth >>,
         NEW e, Failed(e), e # OK, Leave(e)
  PROVE  DecodeInv'
<1>1. pos' \in Nat \ {0} /\ depth' \in 0 .. MaxDepth
  BY DEF DecodeInv
<1> QED
  BY <1>1, LeaveError

-----------------------------------------------------------------------------
(* decode_value.                                                           *)

(* Frames with a child in progress, whether control is in the child's call *)
(* or at its return.                                                       *)
LEMMA StillActive ==
  ASSUME NEW fs, NEW b, b # "loop", FramesOK(fs, b), NEW c
  PROVE  FramesOK(fs, c)
  BY DEF FramesOK

(* A mismatch, a scalar, an empty optional and one that has a value.       *)
LEMMA ValueStep ==
  ASSUME DecodeInv, Unexpected \/ Scalar \/ Null \/ Emplace
  PROVE  DecodeInv'
<1>1. /\ ctl = "call" /\ pos \in Nat \ {0} /\ depth \in 0 .. MaxDepth /\ root \in DOMAIN Roots
      /\ FramesOK(frames, ctl) /\ depth = Below(frames, Len(frames)) /\ Level(pos) = depth
      /\ st = OK \/ Failed(st)
  BY DEF DecodeInv, Unexpected, Scalar, Null, Emplace
<1>2. frames' = frames /\ UNCHANGED << root, in >>
  BY DEF Unexpected, Scalar, Null, Emplace, call
<1>3. ctl' # "loop" => FramesOK(frames', ctl')
  BY <1>1, <1>2, StillActive
<1>4. CASE Unexpected
  <2>1. Failed(Err(ExpectError, pos)) /\ Err(ExpectError, pos) # OK
    BY <1>4, ErrFailed DEF Unexpected
  <2>2. ctl' = "return" /\ st' = Err(ExpectError, pos) /\ pos' = pos /\ depth' = depth
    BY <1>4 DEF Unexpected, Returning, reader
  <2> QED
    BY <1>1, <1>2, <1>3, <2>1, <2>2, Kept
<1>5. CASE Scalar \/ Null
  <2>1. in[pos].k \notin Opening \cup {"end"}
    BY <1>5 DEF Scalar, Null, IsNull, ExpectError, Expected, Scalars, Opening, Ahead
  <2>2. Level(pos + 1) = Level(pos)
    BY <1>1, <2>1, LevelNext
  <2>3. ctl' = "return" /\ st' = OK /\ pos' = pos + 1 /\ depth' = depth
    BY <1>5 DEF Scalar, Null, Returning
  <2> QED
    BY <1>1, <1>2, <1>3, <2>2, <2>3, Kept
<1>6. CASE Emplace
  <2>1. ctl' = "call" /\ st' = st /\ pos' = pos /\ depth' = depth
    BY <1>6 DEF Emplace, Calling, reader
  <2> QED
    BY <1>1, <1>2, <1>3, <2>1, Kept
<1> QED
  BY <1>4, <1>5, <1>6

(* A transparent struct opens no level.                                    *)
LEMMA TransparentStep == ASSUME DecodeInv, Transparent PROVE DecodeInv'
<1>1. /\ ctl = "call" /\ pos \in Nat \ {0} /\ depth \in 0 .. MaxDepth /\ root \in DOMAIN Roots
      /\ FramesOK(frames, ctl) /\ depth = Below(frames, Len(frames)) /\ Level(pos) = depth
      /\ st = OK \/ Failed(st)
  BY DEF DecodeInv, Transparent
<1> DEFINE f == [Frame(type) EXCEPT
                  !.mark = Len(collected), !.step = << "member", T.members[1].name >>]
<1>2. /\ FrameFields \subseteq DOMAIN f
      /\ f.type = type /\ f.start = pos /\ f.depth = depth
  BY DEF Frame, FrameFields
<1>3. /\ frames' = Append(frames, f) /\ ctl' = "call" /\ st' = st
      /\ UNCHANGED << root, in, pos, depth >> /\ Types[type].kind = "transparent"
  BY DEF Transparent, Calling, call, reader, T
<1> HIDE DEF f
<1>4. KindOf(f) = "transparent" /\ ~Holds(f)
  BY <1>2, <1>3 DEF KindOf, Holds, Containers
<1>5. FrameOK(f, depth) /\ ChildOK(f, depth + One(f)) /\ One(f) = 0
  BY <1>1, <1>2, <1>4 DEF FrameOK, ChildOK, Containers, One
<1>6. /\ FramesOK(frames', ctl')
      /\ Below(frames', Len(frames')) = Below(frames, Len(frames)) + One(f)
  <2>1. FrameOK(f, Below(frames, Len(frames))) /\ ChildOK(f, Below(frames, Len(frames)) + One(f))
    BY <1>1, <1>5
  <2> QED
    BY <1>1, <1>3, <2>1, PushFrame
<1> QED
  BY <1>1, <1>3, <1>5, <1>6, Kept

(* expect_array and expect_map open one, before max_depth is reached.      *)
LEMMA EnterStep == ASSUME DecodeInv, Enter PROVE DecodeInv'
<1>1. /\ ctl = "call" /\ pos \in Nat \ {0} /\ depth \in 0 .. MaxDepth /\ root \in DOMAIN Roots
      /\ FramesOK(frames, ctl) /\ depth = Below(frames, Len(frames)) /\ Level(pos) = depth
      /\ st = OK \/ Failed(st)
  BY DEF DecodeInv, Enter
<1> DEFINE f == Frame(type)
<1>2. /\ FrameFields \subseteq DOMAIN f
      /\ f.type = type /\ f.start = pos /\ f.depth = depth /\ f.phase = "first" /\ f.step = NoStep
  BY DEF Frame, FrameFields
<1>3. /\ frames' = Append(frames, f) /\ ctl' = "loop" /\ st' = st
      /\ UNCHANGED << root, in >> /\ pos' = pos + 1 /\ depth' = depth + 1
      /\ Types[type].kind \in Containers
  BY DEF Enter, Looping, call, T
<1>4. in[pos].k \in Opening
  BY <1>3 DEF Enter, ExpectError, Expected, T, Containers, Scalars, Opening, Ahead
<1>5. depth < MaxDepth
  BY <1>1, <1>4, MaxDepthNat DEF Enter, ExpectError, Full, Ahead
<1> HIDE DEF f
<1>6. KindOf(f) \in Containers /\ Holds(f)
  BY <1>2, <1>3 DEF KindOf, Holds
<1>7. FrameOK(f, depth) /\ One(f) = 1
  BY <1>1, <1>2, <1>4, <1>5, <1>6 DEF FrameOK, One
<1>8. /\ FramesOK(frames', ctl')
      /\ frames' # << >> /\ frames'[Len(frames')] = f
      /\ Below(frames', Len(frames')) = Below(frames, Len(frames)) + One(f)
  <2>1. FrameOK(f, Below(frames, Len(frames))) /\ ctl' = "loop"
    BY <1>1, <1>3, <1>7
  <2> QED
    BY <1>1, <1>3, <2>1, PushFrame
<1>9. Level(pos + 1) = Level(pos) + 1
  BY <1>1, <1>4, LevelNext
<1>10. pos' \in Nat \ {0} /\ depth' \in 0 .. MaxDepth
  BY <1>1, <1>3, <1>5, MaxDepthNat
<1>11. depth' = Below(frames', Len(frames')) /\ Level(pos') = depth'
  BY <1>1, <1>3, <1>7, <1>8, <1>9
<1> QED
  BY <1>1, <1>2, <1>3, <1>6, <1>8, <1>10, <1>11, Kept

-----------------------------------------------------------------------------
(* The loops.                                                              *)

(* Steps that end the function.                                            *)
LEMMA LoopEndStep ==
  ASSUME DecodeInv, Cut \/ SeqEnd \/ TupleEnd \/ NonTextKey \/ MapEnd \/ StructEnd \/ VariantRefused \/ VariantEnd
  PROVE  DecodeInv'
<1>1. ctl = "loop" /\ UNCHANGED << root, in >>
  BY DEF Cut, SeqEnd, TupleEnd, NonTextKey, MapEnd, StructEnd, VariantRefused, VariantEnd, At, call
<1>2. frames # << >>
  BY <1>1, InLoop
<1>3. CASE Cut
  <2>1. Failed(Err("truncated", pos)) /\ Err("truncated", pos) # OK
    BY ErrFailed
  <2> QED
    BY <1>1, <1>2, <1>3, <2>1, LeaveHere DEF Cut, reader
<1>4. CASE NonTextKey
  <2>1. Failed(Err("type_mismatch", pos)) /\ Err("type_mismatch", pos) # OK
    BY ErrFailed
  <2> QED
    BY <1>1, <1>2, <1>4, <2>1, LeaveHere DEF NonTextKey, reader
<1>5. CASE SeqEnd \/ MapEnd
  BY <1>1, <1>5, EndStep DEF SeqEnd, MapEnd
<1>6. CASE TupleEnd
  <2>1. Failed(Err("type_mismatch", Top.start)) /\ Err("type_mismatch", Top.start) # OK
    BY ErrFailed
  <2>2. PICK e : (e = OK \/ (Failed(e) /\ e # OK)) /\ Leave(e)
    BY <1>6, <2>1 DEF TupleEnd
  <2> QED
    BY <1>1, <1>6, <2>2, EndStep DEF TupleEnd
<1>7. CASE StructEnd
  <2>1. Failed(MissingError(1)) /\ MissingError(1) # OK
    BY DEF MissingError, Failed, Err, OK
  <2>2. PICK e : (e = OK \/ (Failed(e) /\ e # OK)) /\ Leave(e)
    BY <1>7, <2>1 DEF StructEnd
  <2> QED
    BY <1>1, <1>7, <2>2, EndStep DEF StructEnd
<1>8. CASE VariantRefused
  <2>1. Failed(Err("missing_tag", Top.start)) /\ Err("missing_tag", Top.start) # OK
    BY ErrFailed
  <2>2. Failed(Err("no_variant_alternative", Top.save[1]))
    BY ErrFailed
  <2>3. PICK e : Failed(e) /\ e # OK /\ Leave(e)
    BY <1>8, <2>1, <2>2, PushFailed DEF VariantRefused
  <2> QED
    BY <1>1, <1>8, <2>3, EndStep DEF VariantRefused
<1>9. CASE VariantEnd
  <2> DEFINE m == [Err("missing_field", Top.start) EXCEPT !.detail = "value"]
  <2>1. Failed(m) /\ m # OK
    BY DEF Failed, Err, OK
  <2> HIDE DEF m
  <2>2. PICK e : (e = OK \/ (Failed(e) /\ e # OK)) /\ Leave(e)
    BY <1>9, <2>1 DEF VariantEnd, m
  <2> QED
    BY <1>1, <1>9, <2>2, EndStep DEF VariantEnd
<1> QED
  BY <1>3, <1>4, <1>5, <1>6, <1>7, <1>8, <1>9

(* Elements of a sequence or a tuple: at the position of the loop.         *)
LEMMA ElementStep ==
  ASSUME DecodeInv, SeqElement \/ TupleElement \/ TupleExtra
  PROVE  DecodeInv'
<1>1. ctl = "loop" /\ UNCHANGED << root, in >>
  BY DEF SeqElement, TupleElement, TupleExtra, At, call
<1>2. /\ Holds(Top) /\ Top.step = NoStep /\ FrameOK(Top, Top.depth)
      /\ pos \in Nat \ {0} /\ Level(pos) = depth
  BY <1>1, InLoop
<1>3. << "index", Top.n >> # NoStep
  BY DEF NoStep
<1>4. CASE SeqElement
  BY <1>1, <1>2, <1>3, <1>4, ChildStep DEF SeqElement
<1>5. CASE TupleElement
  BY <1>1, <1>2, <1>3, <1>5, ChildStep DEF TupleElement
<1>6. CASE TupleExtra
  <2> DEFINE g == [Top EXCEPT !.n = @ + 1]
  <2>1. /\ FrameFields \subseteq DOMAIN g
        /\ g.type = Top.type /\ g.start = Top.start /\ g.depth = Top.depth /\ g.phase = Top.phase
        /\ g.step = NoStep
    BY <1>2 DEF FrameOK, FrameFields
  <2>2. SkipThenLoop(pos, g)
    BY <1>6 DEF TupleExtra
  <2> HIDE DEF g
  <2>3. Holds(g) /\ FrameOK(g, Top.depth)
    BY <1>2, <2>1, SameFrame
  <2> QED
    BY <1>1, <1>2, <2>1, <2>2, <2>3, SkipStep
<1> QED
  BY <1>4, <1>5, <1>6

(* Entries of a map.                                                       *)
LEMMA MapStep ==
  ASSUME DecodeInv, MapEntry \/ MapDuplicate
  PROVE  DecodeInv'
<1>1. ctl = "loop" /\ UNCHANGED << root, in >>
  BY DEF MapEntry, MapDuplicate, At, call
<1>2. frames # << >> /\ Holds(Top) /\ Top.step = NoStep /\ FrameOK(Top, Top.depth)
  BY <1>1, InLoop
<1>3. pos + 1 \in Nat \ {0} /\ Level(pos + 1) = depth
  BY <1>1, AfterKey DEF MapEntry, MapDuplicate
<1>4. KeyStep # NoStep
  BY DEF NoStep, KeyStep
<1>5. CASE MapEntry
  BY <1>1, <1>2, <1>3, <1>4, <1>5, ChildStep DEF MapEntry
<1>6. CASE MapDuplicate
  <2> DEFINE e == Push(Err("duplicate_key", pos), KeyStep)
  <2>1. Failed(e) /\ e # OK
    BY ErrFailed, PushFailed
  <2>2. (Leave(e) /\ UNCHANGED reader) \/ SkipThenLoop(pos + 1, Top)
    BY <1>6 DEF MapDuplicate
  <2> HIDE DEF e
  <2> QED
    BY <1>1, <1>2, <1>3, <2>1, <2>2, LeaveHere, SkipStep DEF reader
<1> QED
  BY <1>5, <1>6

(* Keys of a struct.                                                       *)
LEMMA FieldStep ==
  ASSUME DecodeInv, HugeKey \/ UnknownField \/ DuplicateField \/ SkipField \/ Field
  PROVE  DecodeInv'
<1>1. ctl = "loop" /\ UNCHANGED << root, in >>
  BY DEF HugeKey, UnknownField, DuplicateField, SkipField, Field, AtKey, At, call
<1>2. /\ frames # << >> /\ Holds(Top) /\ Top.step = NoStep /\ FrameOK(Top, Top.depth)
      /\ depth \in 0 .. MaxDepth
  BY <1>1, InLoop
<1>3. pos + 1 \in Nat \ {0} /\ Level(pos + 1) = depth
  BY <1>1, AfterKey DEF HugeKey, UnknownField, DuplicateField, SkipField, Field, AtKey
<1> DEFINE u == Push(Err("unknown_field", pos), KeyStep)
           d == Push(Err("duplicate_key", pos), KeyStep)
<1>4. Failed(u) /\ u # OK /\ Failed(d) /\ d # OK
  BY ErrFailed, PushFailed
<1>5. CASE HugeKey
  <2>1. CASE S.deny /\ SkipError(pos + 1, depth) = OK
    <3>1. AfterItem(pos + 1) \in Nat \ {0}
      BY <1>3, <2>1, SkipEnds, SkipLevel
    <3>2. Leave(u) /\ pos' = AfterItem(pos + 1) /\ depth' = depth
      BY <1>5, <2>1 DEF HugeKey
    <3> HIDE DEF u
    <3> QED
      BY <1>1, <1>2, <1>4, <3>1, <3>2, LeaveError
  <2>2. CASE ~(S.deny /\ SkipError(pos + 1, depth) = OK)
    BY <1>1, <1>2, <1>3, <1>5, <2>2, SkipStep DEF HugeKey
  <2> QED
    BY <2>1, <2>2
<1>6. CASE UnknownField \/ DuplicateField
  <2>1. PICK e \in {u, d} : Report(e)
    BY <1>6 DEF UnknownField, DuplicateField
  <2>2. Failed(e) /\ e # OK
    BY <1>4
  <2>3. SkipThenLoop(pos + 1, Top) \/ (Leave(e) /\ UNCHANGED << pos, depth >>)
    BY <2>1 DEF Report, reader
  <2> QED
    BY <1>1, <1>2, <1>3, <2>2, <2>3, SkipStep, LeaveHere
<1>7. CASE SkipField
  BY <1>1, <1>2, <1>3, <1>7, SkipStep DEF SkipField
<1>8. CASE Field
  <2>1. PICK m \in Find : Child([Top EXCEPT !.seen = @ \cup {m}], << "member", S.members[m].name >>,
                               pos + 1, S.members[m].type)
    BY <1>8 DEF Field
  <2> DEFINE g == [Top EXCEPT !.seen = @ \cup {m}]
             s == << "member", S.members[m].name >>
             ty == S.members[m].type
  <2>2. /\ FrameFields \subseteq DOMAIN g
        /\ g.type = Top.type /\ g.start = Top.start /\ g.depth = Top.depth /\ g.phase = Top.phase
    BY <1>2 DEF FrameOK, FrameFields
  <2>3. Child(g, s, pos + 1, ty)
    BY <2>1
  <2>4. s # NoStep
    BY DEF NoStep
  <2> HIDE DEF g, s, ty
  <2>5. Holds(g) /\ FrameOK(g, Top.depth)
    BY <1>2, <2>2, SameFrame
  <2> QED
    BY <1>1, <1>3, <2>3, <2>4, <2>5, ChildStep
<1> QED
  BY <1>5, <1>6, <1>7, <1>8

-----------------------------------------------------------------------------
(* decode_variant.                                                         *)

(* Steps of the passes over the object.                                    *)
LEMMA VariantStep ==
  ASSUME DecodeInv, VariantTag \/ VariantSkip \/ VariantValue
  PROVE  DecodeInv'
<1>1. ctl = "loop" /\ UNCHANGED << root, in >>
  BY DEF VariantTag, VariantSkip, VariantValue, At, call
<1>2. /\ frames # << >> /\ Holds(Top) /\ Top.step = NoStep /\ FrameOK(Top, Top.depth)
      /\ depth \in 0 .. MaxDepth /\ depth = Top.depth + 1 /\ pos \in Nat \ {0}
  BY <1>1, InLoop
<1>3. pos + 1 \in Nat \ {0} /\ Level(pos + 1) = depth
  BY <1>1, AfterKey DEF VariantTag, VariantSkip, VariantValue
<1>4. CASE VariantSkip
  BY <1>1, <1>2, <1>3, <1>4, SkipStep DEF VariantSkip
<1>5. CASE VariantValue
  <2>1. << "member", "value" >> # NoStep
    BY DEF NoStep
  <2> QED
    BY <1>1, <1>2, <1>3, <1>5, <2>1, ChildStep DEF VariantValue
<1>6. CASE VariantTag
  <2>1. CASE pos = Len(in) \/ in[pos + 1].k # "text" \/ in[pos + 1].v = "strict"
    <3> DEFINE c == IF pos = Len(in) THEN "truncated"
                    ELSE IF in[pos + 1].v = "strict" THEN "non_deterministic"
                    ELSE "type_mismatch"
    <3>1. c # "none"
      OBVIOUS
    <3>2. Leave(Err(c, pos + 1)) /\ UNCHANGED << pos, depth >>
      BY <1>6, <2>1 DEF VariantTag, reader
    <3> HIDE DEF c
    <3>3. Failed(Err(c, pos + 1)) /\ Err(c, pos + 1) # OK
      BY <3>1, ErrFailed
    <3> QED
      BY <1>1, <1>2, <3>2, <3>3, LeaveHere
  <2>2. CASE ~(pos = Len(in) \/ in[pos + 1].k # "text" \/ in[pos + 1].v = "strict")
    <3> DEFINE g == [Top EXCEPT !.phase = "rest", !.alt = in[pos + 1].v, !.save = << pos + 1, 0 >>]
    <3>1. /\ FrameFields \subseteq DOMAIN g
          /\ g.type = Top.type /\ g.start = Top.start /\ g.depth = Top.depth /\ g.phase = "rest"
          /\ g.step = NoStep
      BY <1>2 DEF FrameOK, FrameFields
    <3>2. Update(g) /\ pos' = pos + 2 /\ Looping /\ depth' = depth
      BY <1>6, <2>2 DEF VariantTag
    <3> HIDE DEF g
    <3>3. Holds(g) /\ FrameOK(g, Top.depth)
      BY <1>2, <3>1, SameFrame
    <3>4. in[pos + 1].k \notin Opening \cup {"end"}
      BY <2>2 DEF Opening
    <3>5. Level((pos + 1) + 1) = depth
      BY <1>3, <3>4, LevelNext
    <3>6. (pos + 1) + 1 = pos + 2 /\ pos + 2 \in Nat \ {0}
      BY <1>2
    <3>7. Level(pos + 2) = depth
      BY <3>5, <3>6
    <3> QED
      BY <1>1, <1>2, <3>1, <3>2, <3>3, <3>6, <3>7, LoopStep
  <2> QED
    BY <2>1, <2>2
<1> QED
  BY <1>4, <1>5, <1>6

(* The second pass: back to the start of the object, or just inside it.    *)
LEMMA SecondPassStep == ASSUME DecodeInv, VariantChosen PROVE DecodeInv'
<1>1. ctl = "loop" /\ UNCHANGED << root, in >> /\ KindOf(Top) = "variant"
  BY DEF VariantChosen, At, Kind, KindOf, call
<1>2. /\ frames # << >> /\ Holds(Top) /\ Top.step = NoStep /\ FrameOK(Top, Top.depth)
      /\ depth \in 0 .. MaxDepth /\ depth = Top.depth + 1 /\ Top.depth \in 0 .. MaxDepth
  BY <1>1, InLoop
<1>3. /\ Top.start \in Nat \ {0} /\ Level(Top.start) = Top.depth
      /\ in[Top.start].k \in Opening
  BY <1>1, <1>2 DEF FrameOK, Containers
<1> DEFINE g == SecondPass
<1>4. /\ FrameFields \subseteq DOMAIN g
      /\ g.type = Top.type /\ g.start = Top.start /\ g.depth = Top.depth
      /\ g.phase = IF Types[Top.alt].kind = "struct" THEN "struct" ELSE "value"
      /\ g.step = NoStep
  BY <1>2 DEF SecondPass, FrameOK, FrameFields
<1>5. Update(g)
  BY DEF VariantChosen
<1>6. CASE Types[Top.alt].kind = "struct"
  <2>1. pos' = Top.start /\ depth' = Top.depth /\ Calling(Top.alt)
    BY <1>6 DEF VariantChosen
  <2> HIDE DEF g
  <2>2. KindOf(g) = "variant" /\ ~Holds(g)
    BY <1>1, <1>4, <1>6 DEF KindOf, Holds
  <2>3. FrameOK(g, Top.depth) /\ ChildOK(g, depth') /\ One(g) = 0
    BY <1>1, <1>2, <1>4, <2>2 DEF FrameOK, ChildOK, One, Containers
  <2> QED
    BY <1>1, <1>2, <1>3, <1>5, <2>1, <2>3, CallStep
<1>7. CASE Types[Top.alt].kind # "struct"
  <2>1. pos' = Top.start + 1 /\ depth' = Top.depth + 1 /\ Looping
    BY <1>7 DEF VariantChosen
  <2> HIDE DEF g
  <2>2. Holds(g) /\ FrameOK(g, Top.depth)
    BY <1>2, <1>4, <1>7, SameFrame
  <2>3. Level(Top.start + 1) = Top.depth + 1
    BY <1>3, LevelNext
  <2> QED
    BY <1>1, <1>2, <1>3, <1>4, <1>5, <2>1, <2>2, <2>3, LoopStep
<1> QED
  BY <1>6, <1>7

-----------------------------------------------------------------------------
(* What a frame does with the status of its child.                         *)

(* When a child returns, its frame knows the level it was called at.       *)
LEMMA AtReturn ==
  ASSUME DecodeInv, ctl = "return", frames # << >>
  PROVE  /\ FrameOK(Top, Top.depth) /\ Top.depth \in Nat
         /\ ChildOK(Top, Top.depth + One(Top))
         /\ st = OK => depth = Top.depth + One(Top) /\ Level(pos) = depth
         /\ st # OK => Failed(st)
         /\ pos \in Nat \ {0} /\ depth \in 0 .. MaxDepth
<1>1. /\ Len(frames) \in Nat \ {0}
      /\ Below(frames, Len(frames) - 1) \in Nat
      /\ Below(frames, Len(frames)) = Below(frames, Len(frames) - 1) + One(Top)
      /\ FrameOK(Top, Below(frames, Len(frames) - 1))
  BY PopFrame DEF DecodeInv, Top
<1>2. Top.depth = Below(frames, Len(frames) - 1)
  BY <1>1 DEF FrameOK
<1>3. ChildOK(Top, Below(frames, Len(frames)))
  BY <1>1 DEF DecodeInv, FramesOK, Top
<1> QED
  BY <1>1, <1>2, <1>3 DEF DecodeInv

(* An error goes up through the frames.                                    *)
LEMMA FailedStep ==
  ASSUME DecodeInv, ChildFailed \/ FieldFailed
  PROVE  DecodeInv'
<1>1. ctl = "return" /\ frames # << >> /\ st # OK /\ UNCHANGED << root, in, pos, depth >>
  BY DEF ChildFailed, FieldFailed, call, reader
<1>2. Failed(st) /\ Failed(Push(st, Top.step)) /\ Push(st, Top.step) # OK
  BY <1>1, AtReturn, PushFailed
<1>3. Leave(st) \/ Leave(Push(st, Top.step))
  BY DEF ChildFailed, FieldFailed
<1> QED
  BY <1>1, <1>2, <1>3, LeaveHere

(* A child that was decoded: the loop goes on, or the function returns.    *)
LEMMA DecodedStep ==
  ASSUME DecodeInv, ChildDecoded \/ FieldDecoded
  PROVE  DecodeInv'
<1>1. ctl = "return" /\ frames # << >> /\ st = OK /\ UNCHANGED << root, in, pos, depth >>
  BY DEF ChildDecoded, FieldDecoded, call, reader
<1>2. /\ FrameOK(Top, Top.depth) /\ Top.depth \in Nat
      /\ ChildOK(Top, Top.depth + One(Top))
      /\ depth = Top.depth + One(Top) /\ Level(pos) = depth
      /\ pos \in Nat \ {0} /\ depth \in 0 .. MaxDepth
  BY <1>1, AtReturn
<1>3. Level(pos') = depth' /\ pos' \in Nat \ {0} /\ depth' \in 0 .. MaxDepth
  BY <1>1, <1>2
<1>4. CASE ChildDecoded /\ (Kind = "transparent" \/ Top.step = NoStep)
  <2>1. Kind \in Wrapping /\ Leave(OK)
    BY <1>4 DEF ChildDecoded
  <2>2. ~Holds(Top)
    BY <1>2, <1>4, <2>1 DEF ChildOK, Wrapping, KindOf, Kind, Holds, Containers
  <2>3. depth' = Top.depth
    BY <1>1, <1>2, <2>2 DEF One
  <2> QED
    BY <1>1, <1>3, <2>1, <2>3, LeaveOK
<1>5. CASE FieldDecoded \/ ~(Kind = "transparent" \/ Top.step = NoStep)
  <2>1. Holds(Top)
    BY <1>2, <1>5 DEF FieldDecoded, FrameOK, KindOf, Kind, Holds, Containers
  <2>2. PICK g : /\ Update(g) /\ Looping
                 /\ FrameFields \subseteq DOMAIN g /\ g.step = NoStep
                 /\ g.type = Top.type /\ g.start = Top.start /\ g.depth = Top.depth /\ g.phase = Top.phase
    <3>1. CASE FieldDecoded
      <4> DEFINE g == [Top EXCEPT !.step = NoStep]
      <4>1. Update(g) /\ Looping
        BY <3>1 DEF FieldDecoded
      <4>2. /\ FrameFields \subseteq DOMAIN g /\ g.step = NoStep
            /\ g.type = Top.type /\ g.start = Top.start /\ g.depth = Top.depth /\ g.phase = Top.phase
        BY <1>2 DEF FrameOK, FrameFields
      <4> HIDE DEF g
      <4> QED
        BY <4>1, <4>2
    <3>2. CASE ChildDecoded /\ ~(Kind = "transparent" \/ Top.step = NoStep)
      <4> DEFINE g == [Top EXCEPT !.n = @ + 1, !.seen = @ \cup {Top.step[2]}, !.step = NoStep]
      <4>1. Update(g) /\ Looping
        BY <3>2 DEF ChildDecoded
      <4>2. /\ FrameFields \subseteq DOMAIN g /\ g.step = NoStep
            /\ g.type = Top.type /\ g.start = Top.start /\ g.depth = Top.depth /\ g.phase = Top.phase
        BY <1>2 DEF FrameOK, FrameFields
      <4> HIDE DEF g
      <4> QED
        BY <4>1, <4>2
    <3> QED
      BY <1>5, <3>1, <3>2
  <2>3. Holds(g) /\ FrameOK(g, Top.depth)
    BY <1>2, <2>1, <2>2, SameFrame
  <2>4. depth' = Top.depth + 1
    BY <1>1, <1>2, <2>1 DEF One
  <2> QED
    BY <1>1, <1>3, <2>2, <2>3, <2>4, LoopStep
<1> QED
  BY <1>4, <1>5

(* Recovery: back to the value of the member, at the level of its struct,  *)
(* wherever the error left the reader, and over it.                        *)
LEMMA RecoveredStep == ASSUME DecodeInv, FieldRecovered PROVE DecodeInv'
<1>1. /\ ctl = "return" /\ frames # << >> /\ Kind = "struct" /\ UNCHANGED << root, in >>
      /\ depth' = SavedDepth
  BY DEF FieldRecovered, call
<1>2. /\ FrameOK(Top, Top.depth) /\ Top.depth \in Nat
      /\ ChildOK(Top, Top.depth + One(Top))
  BY <1>1, AtReturn
<1>3. Holds(Top) /\ One(Top) = 1 /\ KindOf(Top) = "struct"
  BY <1>1 DEF Kind, KindOf, Holds, Containers, One
<1>4. /\ Top.save[1] \in Nat \ {0} /\ Top.save[2] = Top.depth + 1
      /\ Level(Top.save[1]) = Top.depth + 1
  BY <1>2, <1>3 DEF ChildOK
<1>5. MaxDepth \in Nat /\ Top.depth < MaxDepth
  BY <1>2, <1>3, MaxDepthNat DEF FrameOK, Containers, DecodeInv
<1>6. depth' = Top.depth + 1 /\ depth' \in 0 .. MaxDepth
  BY <1>1, <1>2, <1>4, <1>5 DEF SavedDepth
<1> DEFINE p == Top.save[1]
           e == SkipError(p, SavedDepth)
<1>7. CASE e = OK
  <2> DEFINE g == [Top EXCEPT !.step = NoStep]
  <2>1. pos' = AfterItem(p) /\ Update(g) /\ Looping
    BY <1>7 DEF FieldRecovered
  <2>2. /\ FrameFields \subseteq DOMAIN g /\ g.step = NoStep
        /\ g.type = Top.type /\ g.start = Top.start /\ g.depth = Top.depth /\ g.phase = Top.phase
    BY <1>2 DEF FrameOK, FrameFields
  <2>3. AfterItem(p) \in Nat \ {0} /\ Level(AfterItem(p)) = Level(p)
    BY <1>4, <1>7, SkipEnds, SkipLevel
  <2> HIDE DEF g
  <2>4. Holds(g) /\ FrameOK(g, Top.depth)
    BY <1>2, <1>3, <2>2, SameFrame
  <2> QED
    BY <1>1, <1>4, <1>6, <2>1, <2>2, <2>3, <2>4, LoopStep
<1>8. CASE e # OK
  <2>1. pos' = p /\ Leave(e)
    BY <1>8 DEF FieldRecovered
  <2>2. Failed(e)
    BY <1>8, SkipFails
  <2> QED
    BY <1>1, <1>4, <1>6, <1>8, <2>1, <2>2, LeaveError
<1> QED
  BY <1>7, <1>8

-----------------------------------------------------------------------------
(* The entry points, and the theorem.                                      *)

(* decode starts in the invariant.                                         *)
LEMMA DecodeInit == Init => DecodeInv
<1> SUFFICES ASSUME Init PROVE DecodeInv
  OBVIOUS
<1>1. /\ root \in DOMAIN Roots /\ pos = 1 /\ depth = 0 /\ frames = << >> /\ ctl = "call" /\ st = OK
  BY DEF Init
<1>2. MaxDepth \in Nat
  BY <1>1, MaxDepthNat
<1>3. IsSeq(frames) /\ Len(frames) = 0
  BY <1>1, EmptySeq, SeqIsSeq
<1>4. FramesOK(frames, ctl)
  BY <1>3 DEF FramesOK
<1>5. Below(frames, Len(frames)) = 0
  <2>1. {j \in 1 .. 0 : Holds(frames[j])} = {}
    OBVIOUS
  <2> QED
    BY <1>3, <2>1, FS_EmptySet DEF Below
<1> QED
  BY <1>1, <1>2, <1>4, <1>5, LevelStart DEF DecodeInv

(* decode returns and decode_all is called; decode_all returns.            *)
LEMMA ReturnsStep ==
  ASSUME DecodeInv, DecodeReturns \/ DecodeAllReturns
  PROVE  DecodeInv'
<1>1. /\ root \in DOMAIN Roots /\ frames = << >> /\ frames' = << >> /\ UNCHANGED << root, in >>
      /\ pos \in Nat \ {0} /\ depth \in 0 .. MaxDepth /\ (st = OK \/ Failed(st))
  BY DEF DecodeInv, DecodeReturns, DecodeAllReturns, call
<1>2. IsSeq(frames') /\ Len(frames') = 0
  BY <1>1, EmptySeq, SeqIsSeq
<1>3. FramesOK(frames', ctl')
  BY <1>2 DEF FramesOK
<1>4. CASE DecodeReturns
  <2>1. pos' = 1 /\ depth' = 0 /\ ctl' = "call" /\ st' = OK
    BY <1>4 DEF DecodeReturns
  <2>2. Below(frames', Len(frames')) = 0
    <3>1. {j \in 1 .. 0 : Holds(frames'[j])} = {}
      OBVIOUS
    <3> QED
      BY <1>2, <3>1, FS_EmptySet DEF Below
  <2>3. depth' \in 0 .. MaxDepth
    BY <1>1, <2>1, MaxDepthNat
  <2> QED
    BY <1>1, <1>3, <2>1, <2>2, <2>3, LevelStart, Kept
<1>5. CASE DecodeAllReturns
  <2>1. ctl' = "done" /\ UNCHANGED << pos, depth, st >>
    BY <1>5 DEF DecodeAllReturns, reader
  <2>2. pos' \in Nat \ {0} /\ depth' \in 0 .. MaxDepth /\ (st' = OK \/ Failed(st'))
    BY <1>1, <2>1
  <2> QED
    BY <1>1, <1>3, <2>1, <2>2, Kept
<1> QED
  BY <1>4, <1>5

(* Every step keeps the invariant.                                         *)
LEMMA DecodeStep == DecodeInv /\ [Next]_vars => DecodeInv'
<1> SUFFICES ASSUME DecodeInv, [Next]_vars PROVE DecodeInv'
  OBVIOUS
<1>1. CASE Unexpected \/ Scalar \/ Null \/ Emplace
  BY <1>1, ValueStep
<1>2. CASE Transparent
  BY <1>2, TransparentStep
<1>3. CASE Enter
  BY <1>3, EnterStep
<1>4. CASE Cut \/ SeqEnd \/ TupleEnd \/ NonTextKey \/ MapEnd \/ StructEnd \/ VariantRefused \/ VariantEnd
  BY <1>4, LoopEndStep
<1>5. CASE SeqElement \/ TupleElement \/ TupleExtra
  BY <1>5, ElementStep
<1>6. CASE MapEntry \/ MapDuplicate
  BY <1>6, MapStep
<1>7. CASE ChildFailed \/ FieldFailed
  BY <1>7, FailedStep
<1>8. CASE ChildDecoded \/ FieldDecoded
  BY <1>8, DecodedStep
<1>9. CASE HugeKey \/ UnknownField \/ DuplicateField \/ SkipField \/ Field
  BY <1>9, FieldStep
<1>10. CASE FieldRecovered
  BY <1>10, RecoveredStep
<1>11. CASE VariantTag \/ VariantSkip \/ VariantValue
  BY <1>11, VariantStep
<1>12. CASE VariantChosen
  BY <1>12, SecondPassStep
<1>13. CASE DecodeReturns \/ DecodeAllReturns
  BY <1>13, ReturnsStep
<1>14. CASE UNCHANGED vars
  <2>1. UNCHANGED << root, in, pos, depth, frames, ctl, st >>
    BY <1>14 DEF vars
  <2> QED
    BY <2>1, Kept DEF DecodeInv, Top
<1> QED
  BY <1>1, <1>2, <1>3, <1>4, <1>5, <1>6, <1>7, <1>8, <1>9, <1>10, <1>11, <1>12, <1>13, <1>14 DEF Next

(* The reader stays in step with the calls of decode and decode_all, for   *)
(* any types, any input and any max_depth: after every skip, every rewind  *)
(* to a member that failed and every second pass over a variant, depth_    *)
(* counts the containers that are being iterated, and the position is      *)
(* inside exactly as many.                                                 *)
THEOREM ReaderInStep == Spec => []InStep
<1>1. DecodeInv => InStep
  <2> SUFFICES ASSUME DecodeInv PROVE InStep
    OBVIOUS
  <2>1. DOMAIN frames = 1 .. Len(frames)
    BY SeqIsSeq DEF DecodeInv, FramesOK, IsSeq
  <2>2. Cardinality(Open) = Below(frames, Len(frames))
    BY <2>1 DEF Open, Below
  <2> QED
    BY <2>2 DEF DecodeInv, InStep
<1>2. Spec => []DecodeInv
  BY DecodeInit, DecodeStep, PTL DEF Spec
<1> QED
  BY <1>1, <1>2, PTL

-----------------------------------------------------------------------------
(***************************************************************************)
(* decode and decode_all.  Decoding is a computation: what happens next is *)
(* a function of the state.  After(c) is the state after c in fail_fast    *)
(* mode, where nothing is collected; it is said of any state c, so that a  *)
(* state of decode_all can be compared with what decode did, and would     *)
(* have done, from it.                                                     *)
(***************************************************************************)

State(p, d, fs, x, ty, s, o) ==
  [pos |-> p, depth |-> d, frames |-> fs, ctl |-> x, type |-> ty, st |-> s, out |-> o]

Now == State(pos, depth, frames, ctl, type, st, out)

(* The innermost frame of fs, and where a value decoded under it belongs.  *)
TopOf(fs)   == fs[Len(fs)]
KindAt(fs)  == Types[TopOf(fs).type].kind
PathOf(fs)  ==
  LET real == SelectSeq(fs, LAMBDA f : f.step # NoStep)
  IN  [i \in DOMAIN real |-> real[i].step]
Rest(o, fs) == {x \in o : ~IsPrefix(PathOf(fs), x[1])}

(* The frame returns s, or goes on with its loop as f, or calls a child.   *)
Quit(c, p, d, s, o) == State(p, d, Front(c.frames), "return", c.type, s, o)
Stay(c, p, d, f, o) == State(p, d, Replaced(c.frames, f), "loop", c.type, c.st, o)
Into(c, f, s, p, ty) ==
  State(p, c.depth, Replaced(c.frames, [f EXCEPT !.mark = 0, !.save = << p, c.depth >>, !.step = s]),
        "call", ty, c.st, c.out)
Fail(c, e) == Quit(c, c.pos, c.depth, e, c.out)
End(c, s)  == Quit(c, c.pos + 1, c.depth - 1, s, c.out)
Past(c, p, f) ==
  IF SkipError(p, c.depth) = OK THEN Stay(c, AfterItem(p), c.depth, f, c.out)
  ELSE Fail(c, SkipError(p, c.depth))

(* decode_value.                                                           *)
ExpectedOf(k) == IF k \in Scalars THEN k ELSE IF k \in {"seq", "tuple"} THEN "array" ELSE "map"

WrongAt(p, d, k) ==
  IF p > Len(in) THEN "truncated"
  ELSE IF in[p].v = "strict" THEN "non_deterministic"
  ELSE IF in[p].k # ExpectedOf(k) THEN "type_mismatch"
  ELSE IF in[p].k \in Opening /\ d >= MaxDepth THEN "depth_exceeded"
  ELSE IF in[p].v = "big" THEN "out_of_range"
  ELSE "none"

FrameAt(ty, p, d) ==
  [ type |-> ty, start |-> p, depth |-> d, n |-> 0, seen |-> {}, mark |-> 0,
    save |-> << 0, 0 >>, step |-> NoStep, phase |-> "first", alt |-> "none" ]

AfterOptional(c, t) ==
  IF ~(c.pos > Len(in)) /\ in[c.pos].k = "null"
  THEN State(c.pos + 1, c.depth, c.frames, "return", c.type, OK, Rest(c.out, c.frames))
  ELSE State(c.pos, c.depth, c.frames, "call", t.sub[1], c.st, Rest(c.out, c.frames))

AfterTransparent(c, t) ==
  State(c.pos, c.depth,
        Append(c.frames, [FrameAt(c.type, c.pos, c.depth) EXCEPT
                            !.mark = 0, !.step = << "member", t.members[1].name >>]),
        "call", t.members[1].type, c.st, c.out)

AfterScalar(c) ==
  State(c.pos + 1, c.depth, c.frames, "return", c.type, OK,
        Rest(c.out, c.frames) \cup {<< PathOf(c.frames), c.pos >>})

AfterEnter(c, k) ==
  State(c.pos + 1, c.depth + 1, Append(c.frames, FrameAt(c.type, c.pos, c.depth)), "loop", c.type, c.st,
        IF k \in Cleared THEN Rest(c.out, c.frames) ELSE c.out)

AfterCall(c, t) ==
  IF t.kind = "optional" THEN AfterOptional(c, t)
  ELSE IF t.kind = "transparent" THEN AfterTransparent(c, t)
  ELSE IF WrongAt(c.pos, c.depth, t.kind) # "none"
  THEN State(c.pos, c.depth, c.frames, "return", c.type, Err(WrongAt(c.pos, c.depth, t.kind), c.pos), c.out)
  ELSE IF t.kind \in Scalars THEN AfterScalar(c)
  ELSE AfterEnter(c, t.kind)

(* The loops: another entry.                                               *)
WrongKey(p, ints) == in[p].k # "key" \/ (in[p].v \in IntKeys /\ ~ints)
KeyAhead(p)       == << "key", in[p].v >>

AfterTuple(c, f, t) ==
  IF f.n >= Len(t.sub) THEN Past(c, c.pos, [f EXCEPT !.n = @ + 1])
  ELSE Into(c, f, << "index", f.n >>, c.pos, t.sub[f.n + 1])

AfterMap(c, f, t) ==
  IF in[c.pos].v \notin f.seen \/ Duplicates = "last_wins"
  THEN Into(c, f, KeyAhead(c.pos), c.pos + 1, t.sub[1])
  ELSE IF Duplicates = "error" THEN Fail(c, Push(Err("duplicate_key", c.pos), KeyAhead(c.pos)))
  ELSE Past(c, c.pos + 1, f)

AfterHuge(c, f, t) ==
  IF t.deny /\ SkipError(c.pos + 1, c.depth) = OK
  THEN Quit(c, AfterItem(c.pos + 1), c.depth, Push(Err("unknown_field", c.pos), KeyAhead(c.pos)), c.out)
  ELSE Past(c, c.pos + 1, f)

IgnoredBy(fs) ==
  {Types[fs[i].type].tag : i \in {j \in DOMAIN fs :
     j = Len(fs) - 1 /\ Types[fs[j].type].kind = "variant"}}

AfterUnknown(c, f, t) ==
  IF t.deny /\ in[c.pos].v \notin IgnoredBy(c.frames)
  THEN Fail(c, Push(Err("unknown_field", c.pos), KeyAhead(c.pos)))
  ELSE Past(c, c.pos + 1, f)

AfterMember(c, f, t, m) ==
  IF t.members[m].skip THEN Past(c, c.pos + 1, f)
  ELSE IF m \in f.seen /\ Duplicates = "error"
  THEN Fail(c, Push(Err("duplicate_key", c.pos), KeyAhead(c.pos)))
  ELSE IF m \in f.seen /\ Duplicates = "first_wins" THEN Past(c, c.pos + 1, f)
  ELSE Into(c, [f EXCEPT !.seen = @ \cup {m}], << "member", t.members[m].name >>,
            c.pos + 1, t.members[m].type)

TheMember(ty, k) == CHOOSE m \in Lookup(ty, k) : TRUE

AfterStruct(c, f, t) ==
  IF in[c.pos].v \in HugeKeys THEN AfterHuge(c, f, t)
  ELSE IF Lookup(f.type, in[c.pos].v) = {} THEN AfterUnknown(c, f, t)
  ELSE AfterMember(c, f, t, TheMember(f.type, in[c.pos].v))

WrongTag(p) ==
  IF p = Len(in) THEN "truncated"
  ELSE IF in[p + 1].v = "strict" THEN "non_deterministic" ELSE "type_mismatch"

AfterTag(c, f) ==
  IF c.pos = Len(in) \/ in[c.pos + 1].k # "text" \/ in[c.pos + 1].v = "strict"
  THEN Fail(c, Err(WrongTag(c.pos), c.pos + 1))
  ELSE Stay(c, c.pos + 2, c.depth,
            [f EXCEPT !.phase = "rest", !.alt = in[c.pos + 1].v, !.save = << c.pos + 1, 0 >>], c.out)

AfterVariant(c, f, t) ==
  IF f.phase = "first" /\ in[c.pos].v = t.tag THEN AfterTag(c, f)
  ELSE IF f.phase = "value" /\ in[c.pos].v = "value"
  THEN Into(c, f, << "member", "value" >>, c.pos + 1, f.alt)
  ELSE Past(c, c.pos + 1, f)

AfterMore(c, f, t) ==
  IF t.kind = "seq" THEN Into(c, f, << "index", f.n >>, c.pos, t.sub[1])
  ELSE IF t.kind = "tuple" THEN AfterTuple(c, f, t)
  ELSE IF WrongKey(c.pos, t.kind = "struct" /\ t.ikeys) THEN Fail(c, Err("type_mismatch", c.pos))
  ELSE IF t.kind = "map" THEN AfterMap(c, f, t)
  ELSE IF t.kind = "struct" THEN AfterStruct(c, f, t)
  ELSE AfterVariant(c, f, t)

(* The loops: the end of the container.                                    *)
MissedBy(ty, seen) ==
  SelectSeq([m \in DOMAIN Types[ty].members |-> m],
    LAMBDA m : ~Types[ty].members[m].skip /\ Types[ty].members[m].required /\ m \notin seen)

FirstMissed(f) ==
  [Err("missing_field", f.start) EXCEPT
     !.detail = Types[f.type].members[MissedBy(f.type, f.seen)[1]].name]

DefaultsOf(ty, seen, p) ==
  {Append(p, << "member", Types[ty].members[m].name >>) : m \in
     {m \in DOMAIN Types[ty].members :
        /\ ~Types[ty].members[m].skip /\ ~Types[ty].members[m].required
        /\ Types[ty].members[m].default /\ m \notin seen}}

WithDefaults(o, ps) == {x \in o : \A p \in ps : ~IsPrefix(p, x[1])} \cup (ps \X {0})

AfterStructEnd(c, f) ==
  Quit(c, c.pos + 1, c.depth - 1,
       IF MissedBy(f.type, f.seen) = << >> THEN OK ELSE FirstMissed(f),
       WithDefaults(c.out, DefaultsOf(f.type, f.seen, PathOf(c.frames))))

SecondPassOf(f) == [f EXCEPT !.phase = IF Types[f.alt].kind = "struct" THEN "struct" ELSE "value"]

AfterChoice(c, f) ==
  IF Types[f.alt].kind = "struct"
  THEN State(f.start, f.depth, Replaced(c.frames, SecondPassOf(f)), "call", f.alt, c.st, Rest(c.out, c.frames))
  ELSE Stay(c, f.start + 1, f.depth + 1, SecondPassOf(f), Rest(c.out, c.frames))

AfterVariantEnd(c, f, t) ==
  IF f.phase = "first" THEN End(c, Err("missing_tag", f.start))
  ELSE IF f.phase = "rest"
  THEN IF f.alt \in Range(t.sub) THEN AfterChoice(c, f)
       ELSE End(c, Push(Err("no_variant_alternative", f.save[1]), << "key", t.tag >>))
  ELSE End(c, IF f.n > 0 THEN OK ELSE [Err("missing_field", f.start) EXCEPT !.detail = "value"])

AfterEnd(c, f, t) ==
  IF t.kind = "tuple" THEN End(c, IF f.n = Len(t.sub) THEN OK ELSE Err("type_mismatch", f.start))
  ELSE IF t.kind = "struct" THEN AfterStructEnd(c, f)
  ELSE IF t.kind = "variant" THEN AfterVariantEnd(c, f, t)
  ELSE End(c, OK)

AfterLoop(c, f, t) ==
  IF c.pos > Len(in) THEN Fail(c, Err("truncated", c.pos))
  ELSE IF in[c.pos].k = "end" THEN AfterEnd(c, f, t)
  ELSE AfterMore(c, f, t)

(* What the frame does with the status of its child.                       *)
StepAdded(f, s) == IF f.step = NoStep /\ KindOf(f) # "struct" THEN s ELSE Push(s, f.step)

AfterFailed(c, f, t) ==
  Quit(c, c.pos, c.depth, StepAdded(f, c.st),
       IF t.kind = "seq" \/ (t.kind = "map" /\ f.step[2] \notin f.seen) THEN Rest(c.out, c.frames) ELSE c.out)

AfterDecoded(c, f, t) ==
  IF t.kind = "struct" THEN Stay(c, c.pos, c.depth, [f EXCEPT !.step = NoStep], c.out)
  ELSE IF t.kind = "transparent" \/ f.step = NoStep THEN Quit(c, c.pos, c.depth, OK, c.out)
  ELSE Stay(c, c.pos, c.depth, [f EXCEPT !.n = @ + 1, !.seen = @ \cup {f.step[2]}, !.step = NoStep], c.out)

AfterReturn(c, f, t) == IF c.st = OK THEN AfterDecoded(c, f, t) ELSE AfterFailed(c, f, t)

After(c) ==
  IF c.ctl = "call" THEN AfterCall(c, Types[c.type])
  ELSE IF c.ctl = "loop" THEN AfterLoop(c, TopOf(c.frames), Types[TopOf(c.frames).type])
  ELSE AfterReturn(c, TopOf(c.frames), Types[TopOf(c.frames).type])

-----------------------------------------------------------------------------
(* A step of Decode is After, as long as nothing is collected.             *)

(* The state, field by field.                                              *)
LEMMA NowIs ==
  /\ Now.pos = pos /\ Now.depth = depth /\ Now.frames = frames /\ Now.ctl = ctl
  /\ Now.type = type /\ Now.st = st /\ Now.out = out
  BY DEF Now, State

(* What After looks at is what the actions look at.                        *)
LEMMA HereIs ==
  /\ TopOf(frames) = Top /\ KindAt(frames) = Kind /\ PathOf(frames) = CurPath
  /\ Rest(out, frames) = Without(CurPath)
  /\ IgnoredBy(frames) = IgnoreKey
  /\ KeyAhead(pos) = KeyStep
  /\ WrongAt(pos, depth, T.kind) = ExpectError
  /\ FrameAt(type, pos, depth) = Frame(type)
  /\ MissedBy(Top.type, Top.seen) = Missing
  /\ SecondPassOf(Top) = SecondPass
<1>1. TopOf(frames) = Top /\ KindAt(frames) = Kind
  BY DEF TopOf, KindAt, Top, Kind
<1>2. PathOf(frames) = CurPath
  BY DEF PathOf, CurPath
<1>3. Rest(out, frames) = Without(CurPath)
  BY <1>2 DEF Rest, Without
<1>4. IgnoredBy(frames) = IgnoreKey
  BY DEF IgnoredBy, IgnoreKey
<1>5. KeyAhead(pos) = KeyStep
  BY DEF KeyAhead, KeyStep, Ahead
<1>6. WrongAt(pos, depth, T.kind) = ExpectError
  BY DEF WrongAt, ExpectError, ExpectedOf, Expected, AtEnd, Ahead, Full
<1>7. FrameAt(type, pos, depth) = Frame(type)
  BY DEF FrameAt, Frame
<1>8. MissedBy(Top.type, Top.seen) = Missing
  BY DEF MissedBy, Missing, Members, S
<1>9. SecondPassOf(Top) = SecondPass
  BY DEF SecondPassOf, SecondPass
<1> QED
  BY <1>1, <1>2, <1>3, <1>4, <1>5, <1>6, <1>7, <1>8, <1>9

(* The first missing member, and the defaults.                             *)
LEMMA MissedIs ==
  /\ FirstMissed(Top) = MissingError(1)
  /\ DefaultsOf(Top.type, Top.seen, CurPath) = DefaultPaths
<1>1. FirstMissed(Top) = MissingError(1)
  BY HereIs DEF FirstMissed, MissingError, S
<1>2. DefaultsOf(Top.type, Top.seen, CurPath) = DefaultPaths
  BY DEF DefaultsOf, DefaultPaths, Defaulted, Members, S
<1> QED
  BY <1>1, <1>2

(* The frame returns.                                                      *)
LEMMA QuitNow ==
  ASSUME NEW s, Leave(s)
  PROVE  Now' = Quit(Now, pos', depth', s, out')
  BY DEF Leave, Returning, Quit, Now, State

(* The frame loops on.                                                     *)
LEMMA StayNow ==
  ASSUME NEW f, Update(f), Looping
  PROVE  Now' = Stay(Now, pos', depth', f, out')
  BY DEF Update, Looping, Stay, Now, State, Replaced

(* A child is called: its mark is 0, because nothing is collected.         *)
LEMMA IntoNow ==
  ASSUME NEW f, NEW s, NEW p, NEW ty, collected = << >>, Child(f, s, p, ty), UNCHANGED out
  PROVE  Now' = Into(Now, f, s, p, ty)
<1>1. Len(collected) = 0
  BY EmptySeq
<1>2. frames' = Replaced(frames, [f EXCEPT !.mark = 0, !.save = << p, depth >>, !.step = s])
  BY <1>1 DEF Child, Update, Replaced
<1> QED
  BY <1>2 DEF Child, Calling, Into, Now, State

(* A value is skipped, or the skip fails.                                  *)
LEMMA PastNow ==
  ASSUME NEW p, NEW f, SkipThenLoop(p, f), UNCHANGED out
  PROVE  Now' = Past(Now, p, f)
<1>1. CASE SkipError(p, depth) = OK
  <2>1. pos' = AfterItem(p) /\ Update(f) /\ Looping /\ UNCHANGED depth
    BY <1>1 DEF SkipThenLoop
  <2> QED
    BY <1>1, <2>1, StayNow, NowIs DEF Past
<1>2. CASE SkipError(p, depth) # OK
  <2>1. Leave(SkipError(p, depth)) /\ UNCHANGED << pos, depth >>
    BY <1>2 DEF SkipThenLoop, reader
  <2> QED
    BY <1>2, <2>1, QuitNow, NowIs DEF Past, Fail
<1> QED
  BY <1>1, <1>2

(* The three things control can be at.                                     *)
LEMMA AfterNow ==
  /\ ctl = "call" => After(Now) = AfterCall(Now, T)
  /\ ctl = "loop" => After(Now) = AfterLoop(Now, Top, S)
  /\ ctl = "return" => After(Now) = AfterReturn(Now, Top, S)
  BY NowIs, HereIs DEF After, T, S

(* decode_value.                                                           *)
LEMMA CallNow ==
  ASSUME collected = << >>,
         Unexpected \/ Scalar \/ Null \/ Emplace \/ Transparent \/ Enter
  PROVE  Now' = After(Now)
<1>0. ctl = "call" /\ After(Now) = AfterCall(Now, T)
  BY AfterNow DEF Unexpected, Scalar, Null, Emplace, Transparent, Enter
<1>1. CASE Unexpected
  <2>1. T.kind # "optional" /\ T.kind # "transparent" /\ ExpectError # "none"
    BY <1>1 DEF Unexpected, Scalars, Containers
  <2>2. AfterCall(Now, T) = State(pos, depth, frames, "return", type, Err(ExpectError, pos), out)
    BY <2>1, NowIs, HereIs DEF AfterCall
  <2>3. Now' = State(pos, depth, frames, "return", type, Err(ExpectError, pos), out)
    BY <1>1 DEF Unexpected, Returning, reader, Now, State
  <2> QED
    BY <1>0, <2>2, <2>3
<1>2. CASE Scalar
  <2>1. T.kind # "optional" /\ T.kind # "transparent" /\ ExpectError = "none" /\ T.kind \in Scalars
    BY <1>2 DEF Scalar, Scalars
  <2>2. AfterCall(Now, T) = AfterScalar(Now)
    BY <2>1, NowIs, HereIs DEF AfterCall
  <2>3. AfterScalar(Now) = State(pos + 1, depth, frames, "return", type, OK, Without(CurPath) \cup {<< CurPath, pos >>})
    BY NowIs, HereIs DEF AfterScalar
  <2>4. Now' = State(pos + 1, depth, frames, "return", type, OK, Without(CurPath) \cup {<< CurPath, pos >>})
    BY <1>2 DEF Scalar, Returning, Now, State
  <2> QED
    BY <1>0, <2>2, <2>3, <2>4
<1>3. CASE Null
  <2>1. T.kind = "optional" /\ IsNull
    BY <1>3 DEF Null
  <2>2. AfterCall(Now, T) = State(pos + 1, depth, frames, "return", type, OK, Without(CurPath))
    BY <2>1, NowIs, HereIs DEF AfterCall, AfterOptional, IsNull, AtEnd, Ahead
  <2>3. Now' = State(pos + 1, depth, frames, "return", type, OK, Without(CurPath))
    BY <1>3 DEF Null, Returning, Now, State
  <2> QED
    BY <1>0, <2>2, <2>3
<1>4. CASE Emplace
  <2>1. T.kind = "optional" /\ ~IsNull
    BY <1>4 DEF Emplace
  <2>2. AfterCall(Now, T) = State(pos, depth, frames, "call", T.sub[1], st, Without(CurPath))
    BY <2>1, NowIs, HereIs DEF AfterCall, AfterOptional, IsNull, AtEnd, Ahead
  <2>3. Now' = State(pos, depth, frames, "call", T.sub[1], st, Without(CurPath))
    BY <1>4 DEF Emplace, Calling, reader, Now, State
  <2> QED
    BY <1>0, <2>2, <2>3
<1>5. CASE Transparent
  <2> DEFINE f == [Frame(type) EXCEPT !.mark = 0, !.step = << "member", T.members[1].name >>]
  <2>1. T.kind = "transparent" /\ Len(collected) = 0
    BY <1>5, EmptySeq DEF Transparent
  <2>2. AfterCall(Now, T) = State(pos, depth, Append(frames, f), "call", T.members[1].type, st, out)
    BY <2>1, NowIs, HereIs DEF AfterCall, AfterTransparent
  <2>3. frames' = Append(frames, f) /\ Calling(T.members[1].type) /\ UNCHANGED << pos, depth, out >>
    BY <1>5, <2>1 DEF Transparent, reader
  <2> HIDE DEF f
  <2>4. Now' = State(pos, depth, Append(frames, f), "call", T.members[1].type, st, out)
    BY <2>3 DEF Calling, Now, State
  <2> QED
    BY <1>0, <2>2, <2>4
<1>6. CASE Enter
  <2>1. T.kind # "optional" /\ T.kind # "transparent" /\ ExpectError = "none" /\ T.kind \notin Scalars
    BY <1>6 DEF Enter, Scalars, Containers
  <2>2. AfterCall(Now, T) = AfterEnter(Now, T.kind)
    BY <2>1, NowIs, HereIs DEF AfterCall
  <2>3. AfterEnter(Now, T.kind) = State(pos + 1, depth + 1, Append(frames, Frame(type)), "loop", type, st,
                                        IF T.kind \in Cleared THEN Without(CurPath) ELSE out)
    BY NowIs, HereIs DEF AfterEnter
  <2>4. Now' = State(pos + 1, depth + 1, Append(frames, Frame(type)), "loop", type, st,
                     IF T.kind \in Cleared THEN Without(CurPath) ELSE out)
    BY <1>6 DEF Enter, Looping, Now, State
  <2> QED
    BY <1>0, <2>2, <2>3, <2>4
<1> QED
  BY <1>1, <1>2, <1>3, <1>4, <1>5, <1>6

(* In a loop: the input ends, the container ends, or there is an entry.    *)
LEMMA LoopNow ==
  ASSUME ctl = "loop"
  PROVE  /\ AtEnd => After(Now) = Fail(Now, Err("truncated", pos))
         /\ Done => After(Now) = AfterEnd(Now, Top, S)
         /\ More => After(Now) = AfterMore(Now, Top, S)
         /\ S.kind = Kind
<1>1. After(Now) = AfterLoop(Now, Top, S)
  BY AfterNow
<1>2. S.kind = Kind
  BY DEF S, Kind
<1> QED
  BY <1>1, <1>2, NowIs DEF AfterLoop, AtEnd, Done, More, Ahead

(* Entries of sequences and tuples, and the end of both.                   *)
LEMMA SeqNow ==
  ASSUME collected = << >>,
         Cut \/ SeqElement \/ SeqEnd \/ TupleElement \/ TupleExtra \/ TupleEnd \/ MapEnd
  PROVE  Now' = After(Now)
<1>1. CASE Cut
  <2>1. ctl = "loop" /\ AtEnd /\ Leave(Err("truncated", pos)) /\ UNCHANGED << pos, depth, out >>
    BY <1>1 DEF Cut, reader
  <2> QED
    BY <2>1, LoopNow, QuitNow, NowIs DEF Fail
<1>2. CASE SeqElement
  <2>1. ctl = "loop" /\ More /\ Kind = "seq" /\ Child(Top, << "index", Top.n >>, pos, S.sub[1]) /\ UNCHANGED out
    BY <1>2 DEF SeqElement, At, S
  <2>2. AfterMore(Now, Top, S) = Into(Now, Top, << "index", Top.n >>, pos, S.sub[1])
    BY <2>1, LoopNow, NowIs DEF AfterMore
  <2> QED
    BY <2>1, <2>2, LoopNow, IntoNow
<1>3. CASE SeqEnd \/ MapEnd
  <2>1. ctl = "loop" /\ Done /\ Kind \in {"seq", "map"} /\ Leave(OK) /\ UNCHANGED out
        /\ pos' = pos + 1 /\ depth' = depth - 1
    BY <1>3 DEF SeqEnd, MapEnd, At, Exit
  <2>2. AfterEnd(Now, Top, S) = End(Now, OK)
    BY <2>1, LoopNow DEF AfterEnd
  <2> QED
    BY <2>1, <2>2, LoopNow, QuitNow, NowIs DEF End
<1>4. CASE TupleElement
  <2>1. ctl = "loop" /\ More /\ Kind = "tuple" /\ ~(Top.n >= Len(S.sub))
        /\ Child(Top, << "index", Top.n >>, pos, S.sub[Top.n + 1]) /\ UNCHANGED out
    BY <1>4 DEF TupleElement, At, S, Surplus
  <2>2. AfterMore(Now, Top, S) = Into(Now, Top, << "index", Top.n >>, pos, S.sub[Top.n + 1])
    BY <2>1, LoopNow, NowIs DEF AfterMore, AfterTuple
  <2> QED
    BY <2>1, <2>2, LoopNow, IntoNow
<1>5. CASE TupleExtra
  <2> DEFINE g == [Top EXCEPT !.n = @ + 1]
  <2>1. ctl = "loop" /\ More /\ Kind = "tuple" /\ Top.n >= Len(S.sub)
        /\ SkipThenLoop(pos, g) /\ UNCHANGED out
    BY <1>5 DEF TupleExtra, At, S, Surplus
  <2>2. AfterMore(Now, Top, S) = Past(Now, pos, g)
    BY <2>1, LoopNow, NowIs DEF AfterMore, AfterTuple
  <2> HIDE DEF g
  <2> QED
    BY <2>1, <2>2, LoopNow, PastNow
<1>6. CASE TupleEnd
  <2> DEFINE s == IF Top.n = Len(S.sub) THEN OK ELSE Err("type_mismatch", Top.start)
  <2>1. ctl = "loop" /\ Done /\ Kind = "tuple" /\ Leave(s) /\ UNCHANGED out
        /\ pos' = pos + 1 /\ depth' = depth - 1
    BY <1>6 DEF TupleEnd, At, Exit, S
  <2>2. AfterEnd(Now, Top, S) = End(Now, s)
    BY <2>1, LoopNow DEF AfterEnd
  <2> HIDE DEF s
  <2> QED
    BY <2>1, <2>2, LoopNow, QuitNow, NowIs DEF End
<1> QED
  BY <1>1, <1>2, <1>3, <1>4, <1>5, <1>6

(* A key of the wrong kind fails the container.                            *)
LEMMA KeyNow ==
  ASSUME ctl = "loop", More, Kind \in {"map", "variant", "struct"},
         NEW b \in BOOLEAN, b = (Kind = "struct" /\ S.ikeys)
  PROVE  /\ KeyMismatch(b) => After(Now) = Fail(Now, Err("type_mismatch", pos))
         /\ ~KeyMismatch(b) /\ Kind = "map" => After(Now) = AfterMap(Now, Top, S)
         /\ ~KeyMismatch(b) /\ Kind = "struct" => After(Now) = AfterStruct(Now, Top, S)
         /\ ~KeyMismatch(b) /\ Kind = "variant" => After(Now) = AfterVariant(Now, Top, S)
<1>1. After(Now) = AfterMore(Now, Top, S) /\ S.kind = Kind
  BY LoopNow
<1>2. WrongKey(pos, b) <=> KeyMismatch(b)
  BY DEF WrongKey, KeyMismatch, Ahead
<1>3. Kind # "seq" /\ Kind # "tuple"
  OBVIOUS
<1> QED
  BY <1>1, <1>2, <1>3, NowIs DEF AfterMore

(* decode_map.                                                             *)
LEMMA MapNow ==
  ASSUME collected = << >>, NonTextKey \/ MapEntry \/ MapDuplicate
  PROVE  Now' = After(Now)
<1>1. CASE NonTextKey
  <2>1. /\ ctl = "loop" /\ More /\ Kind \in {"map", "variant", "struct"}
        /\ KeyMismatch(Kind = "struct" /\ S.ikeys)
        /\ Leave(Err("type_mismatch", pos)) /\ UNCHANGED << pos, depth, out >>
    BY <1>1 DEF NonTextKey, reader, S
  <2>2. After(Now) = Fail(Now, Err("type_mismatch", pos))
    <3>1. PICK b \in BOOLEAN : b = (Kind = "struct" /\ S.ikeys)
      OBVIOUS
    <3> QED
      BY <2>1, <3>1, KeyNow
  <2> QED
    BY <2>1, <2>2, QuitNow, NowIs DEF Fail
<1>2. CASE MapEntry \/ MapDuplicate
  <2>1. /\ ctl = "loop" /\ More /\ Kind = "map" /\ ~KeyMismatch(FALSE) /\ UNCHANGED out
    BY <1>2 DEF MapEntry, MapDuplicate, At
  <2>2. After(Now) = AfterMap(Now, Top, S)
    <3>1. FALSE = (Kind = "struct" /\ S.ikeys)
      BY <2>1
    <3> QED
      BY <2>1, <3>1, KeyNow
  <2>3. CASE MapEntry
    <3>1. /\ Ahead.v \in Top.seen => Duplicates = "last_wins"
          /\ Child(Top, KeyStep, pos + 1, S.sub[1])
      BY <2>3 DEF MapEntry, S
    <3>2. AfterMap(Now, Top, S) = Into(Now, Top, KeyStep, pos + 1, S.sub[1])
      BY <3>1, NowIs, HereIs DEF AfterMap, Ahead
    <3> QED
      BY <2>1, <2>2, <3>1, <3>2, IntoNow
  <2>4. CASE MapDuplicate
    <3>1. /\ Ahead.v \in Top.seen
          /\ \/ Duplicates = "error" /\ Leave(Push(Err("duplicate_key", pos), KeyStep)) /\ UNCHANGED reader
             \/ Duplicates = "first_wins" /\ SkipThenLoop(pos + 1, Top)
      BY <2>4 DEF MapDuplicate
    <3>2. CASE Duplicates = "error"
      <4>1. Leave(Push(Err("duplicate_key", pos), KeyStep)) /\ UNCHANGED << pos, depth >>
        BY <3>1, <3>2 DEF reader
      <4>2. AfterMap(Now, Top, S) = Fail(Now, Push(Err("duplicate_key", pos), KeyStep))
        BY <3>1, <3>2, NowIs, HereIs DEF AfterMap, Ahead
      <4> QED
        BY <2>1, <2>2, <4>1, <4>2, QuitNow, NowIs DEF Fail
    <3>3. CASE Duplicates # "error"
      <4>1. SkipThenLoop(pos + 1, Top) /\ Duplicates = "first_wins"
        BY <3>1, <3>3
      <4>2. AfterMap(Now, Top, S) = Past(Now, pos + 1, Top)
        BY <3>1, <4>1, NowIs, HereIs DEF AfterMap, Ahead
      <4> QED
        BY <2>1, <2>2, <4>1, <4>2, PastNow
    <3> QED
      BY <3>2, <3>3
  <2> QED
    BY <1>2, <2>3, <2>4
<1> QED
  BY <1>1, <1>2

(* At a key of a struct.                                                   *)
LEMMA StructNow ==
  ASSUME At("struct"), More, ~KeyMismatch(S.ikeys)
  PROVE  ctl = "loop" /\ After(Now) = AfterStruct(Now, Top, S)
<1>1. ctl = "loop" /\ Kind = "struct"
  BY DEF At
<1>2. PICK b \in BOOLEAN : b = (Kind = "struct" /\ S.ikeys)
  OBVIOUS
<1>3. ~KeyMismatch(b)
  BY <1>1, <1>2 DEF KeyMismatch
<1> QED
  BY <1>1, <1>2, <1>3, KeyNow

(* The member a key names is the only one.                                 *)
LEMMA FindIs ==
  /\ Find = {} <=> Lookup(Top.type, in[pos].v) = {}
  /\ \A m \in Find : m = TheMember(Top.type, in[pos].v)
<1>1. Find = Lookup(Top.type, in[pos].v)
  BY DEF Find, Ahead
<1>2. \A m, n \in Lookup(Top.type, in[pos].v) : m = n
  BY DEF Lookup
<1>3. ASSUME NEW m \in Find PROVE TheMember(Top.type, in[pos].v) \in Find
  <2>1. \E n : n \in Lookup(Top.type, in[pos].v)
    BY <1>1
  <2> QED
    BY <1>1, <2>1, Zenon DEF TheMember
<1> QED
  BY <1>1, <1>2, <1>3

(* A struct at a key it may look up.                                       *)
LEMMA AtKeyNow ==
  ASSUME AtKey
  PROVE  /\ ctl = "loop" /\ Kind = "struct"
         /\ Find = {} => After(Now) = AfterUnknown(Now, Top, S)
         /\ \A m \in Find : After(Now) = AfterMember(Now, Top, S, m)
<1>1. /\ ctl = "loop" /\ Kind = "struct" /\ After(Now) = AfterStruct(Now, Top, S)
      /\ in[pos].v \notin HugeKeys
  BY StructNow DEF AtKey, At, Ahead
<1>2. Find = {} => AfterStruct(Now, Top, S) = AfterUnknown(Now, Top, S)
  BY <1>1, FindIs, NowIs DEF AfterStruct
<1>3. ASSUME NEW m \in Find PROVE AfterStruct(Now, Top, S) = AfterMember(Now, Top, S, m)
  <2>1. m = TheMember(Top.type, in[pos].v) /\ Lookup(Top.type, in[pos].v) # {}
    BY FindIs
  <2> QED
    BY <1>1, <2>1, NowIs DEF AfterStruct
<1> QED
  BY <1>1, <1>2, <1>3

(* decode_struct, where no error is reported.                              *)
LEMMA FieldNow ==
  ASSUME collected = << >>, HugeKey \/ SkipField \/ Field
  PROVE  Now' = After(Now)
<1>1. CASE HugeKey
  <2>1. /\ After(Now) = AfterStruct(Now, Top, S) /\ in[pos].v \in HugeKeys /\ UNCHANGED out
    BY <1>1, StructNow DEF HugeKey, Ahead
  <2>2. After(Now) = AfterHuge(Now, Top, S)
    BY <2>1, NowIs DEF AfterStruct
  <2> DEFINE e == Push(Err("unknown_field", pos), KeyStep)
  <2>3. CASE S.deny /\ SkipError(pos + 1, depth) = OK
    <3>1. Leave(e) /\ pos' = AfterItem(pos + 1) /\ UNCHANGED depth
      BY <1>1, <2>3 DEF HugeKey
    <3>2. After(Now) = Quit(Now, AfterItem(pos + 1), depth, e, out)
      BY <2>2, <2>3, NowIs, HereIs DEF AfterHuge
    <3> HIDE DEF e
    <3> QED
      BY <2>1, <3>1, <3>2, QuitNow
  <2>4. CASE ~(S.deny /\ SkipError(pos + 1, depth) = OK)
    <3>1. SkipThenLoop(pos + 1, Top)
      BY <1>1, <2>4 DEF HugeKey
    <3>2. After(Now) = Past(Now, pos + 1, Top)
      BY <2>2, <2>4, NowIs DEF AfterHuge
    <3> QED
      BY <2>1, <3>1, <3>2, PastNow
  <2> QED
    BY <2>3, <2>4
<1>2. CASE SkipField
  <2>1. AtKey /\ SkipThenLoop(pos + 1, Top) /\ UNCHANGED out
    BY <1>2 DEF SkipField
  <2>2. After(Now) = Past(Now, pos + 1, Top)
    <3>1. CASE Find = {} /\ (S.deny => Ahead.v \in IgnoreKey)
      BY <2>1, <3>1, AtKeyNow, NowIs, HereIs DEF AfterUnknown, Ahead
    <3>2. ASSUME NEW m \in Find, S.members[m].skip \/ (Again(m) /\ Duplicates = "first_wins")
          PROVE  After(Now) = Past(Now, pos + 1, Top)
      <4>1. After(Now) = AfterMember(Now, Top, S, m)
        BY <2>1, AtKeyNow
      <4> QED
        BY <3>2, <4>1, NowIs DEF AfterMember, Again
    <3> QED
      BY <1>2, <3>1, <3>2 DEF SkipField
  <2> QED
    BY <2>1, <2>2, PastNow
<1>3. CASE Field
  <2>1. AtKey /\ UNCHANGED out
    BY <1>3 DEF Field
  <2>2. PICK m \in Find : /\ ~S.members[m].skip
                          /\ Again(m) => Duplicates = "last_wins"
                          /\ Child([Top EXCEPT !.seen = @ \cup {m}], << "member", S.members[m].name >>,
                                   pos + 1, S.members[m].type)
    BY <1>3 DEF Field
  <2>3. After(Now) = AfterMember(Now, Top, S, m)
    BY <2>1, AtKeyNow
  <2>4. AfterMember(Now, Top, S, m)
          = Into(Now, [Top EXCEPT !.seen = @ \cup {m}], << "member", S.members[m].name >>,
                 pos + 1, S.members[m].type)
    BY <2>2, NowIs DEF AfterMember, Again
  <2> QED
    BY <2>1, <2>2, <2>3, <2>4, IntoNow
<1> QED
  BY <1>1, <1>2, <1>3

(* Where a struct reports an error, decode returns it.                     *)
LEMMA ReportNow ==
  ASSUME UnknownField \/ DuplicateField
  PROVE  \E e : /\ Failed(e) /\ Report(e) /\ After(Now) = Fail(Now, e)
                /\ ctl = "loop" /\ UNCHANGED << call, out >>
<1>1. CASE UnknownField
  <2> DEFINE e == Push(Err("unknown_field", pos), KeyStep)
  <2>1. AtKey /\ Find = {} /\ S.deny /\ Ahead.v \notin IgnoreKey /\ Report(e) /\ UNCHANGED << call, out >>
    BY <1>1 DEF UnknownField
  <2>2. ctl = "loop" /\ After(Now) = AfterUnknown(Now, Top, S)
    BY <2>1, AtKeyNow
  <2>3. After(Now) = Fail(Now, e)
    BY <2>1, <2>2, NowIs, HereIs DEF AfterUnknown, Ahead
  <2>4. Failed(e)
    BY ErrFailed, PushFailed
  <2> HIDE DEF e
  <2> QED
    BY <2>1, <2>2, <2>3, <2>4
<1>2. CASE DuplicateField
  <2> DEFINE e == Push(Err("duplicate_key", pos), KeyStep)
  <2>1. AtKey /\ Duplicates = "error" /\ Report(e) /\ UNCHANGED << call, out >>
    BY <1>2 DEF DuplicateField
  <2>2. PICK m \in Find : Again(m) /\ ~S.members[m].skip
    BY <1>2 DEF DuplicateField
  <2>3. ctl = "loop" /\ After(Now) = AfterMember(Now, Top, S, m)
    BY <2>1, AtKeyNow
  <2>4. After(Now) = Fail(Now, e)
    BY <2>1, <2>2, <2>3, NowIs, HereIs DEF AfterMember, Again
  <2>5. Failed(e)
    BY ErrFailed, PushFailed
  <2> HIDE DEF e
  <2> QED
    BY <2>1, <2>3, <2>4, <2>5
<1> QED
  BY <1>1, <1>2

(* The end of a struct.                                                    *)
LEMMA StructEndNow ==
  ASSUME StructEnd
  PROVE  /\ ctl = "loop" /\ Kind = "struct"
         /\ After(Now) = Quit(Now, pos', depth', IF Missing = << >> THEN OK ELSE MissingError(1), out')
<1>1. ctl = "loop" /\ Done /\ Kind = "struct" /\ pos' = pos + 1 /\ depth' = depth - 1
      /\ out' = WithDefaults(out, DefaultPaths)
  BY DEF StructEnd, At, Exit, WithDefaults
<1>2. After(Now) = AfterStructEnd(Now, Top)
  BY <1>1, LoopNow DEF AfterEnd
<1> QED
  BY <1>1, <1>2, NowIs, HereIs, MissedIs DEF AfterStructEnd

(* decode_variant.                                                         *)
LEMMA VariantNow ==
  ASSUME collected = << >>,
         VariantTag \/ VariantSkip \/ VariantRefused \/ VariantChosen \/ VariantValue \/ VariantEnd
  PROVE  Now' = After(Now)
<1>0. ctl = "loop" /\ Kind = "variant"
  BY DEF VariantTag, VariantSkip, VariantRefused, VariantChosen, VariantValue, VariantEnd, At
<1>1. More /\ ~KeyMismatch(FALSE) => After(Now) = AfterVariant(Now, Top, S)
  <2>1. FALSE = (Kind = "struct" /\ S.ikeys)
    BY <1>0
  <2> QED
    BY <1>0, <2>1, KeyNow
<1>2. Done => After(Now) = AfterVariantEnd(Now, Top, S)
  BY <1>0, LoopNow DEF AfterEnd
<1>3. CASE VariantTag
  <2>1. More /\ ~KeyMismatch(FALSE) /\ Top.phase = "first" /\ in[pos].v = S.tag /\ UNCHANGED out
    BY <1>3 DEF VariantTag, Ahead
  <2>2. After(Now) = AfterTag(Now, Top)
    BY <1>1, <2>1, NowIs DEF AfterVariant
  <2>3. CASE pos = Len(in) \/ in[pos + 1].k # "text" \/ in[pos + 1].v = "strict"
    <3>1. Leave(Err(WrongTag(pos), pos + 1)) /\ UNCHANGED << pos, depth >>
      BY <1>3, <2>3 DEF VariantTag, reader, WrongTag
    <3>2. After(Now) = Fail(Now, Err(WrongTag(pos), pos + 1))
      BY <2>2, <2>3, NowIs DEF AfterTag
    <3> QED
      BY <2>1, <3>1, <3>2, QuitNow, NowIs DEF Fail
  <2>4. CASE ~(pos = Len(in) \/ in[pos + 1].k # "text" \/ in[pos + 1].v = "strict")
    <3> DEFINE g == [Top EXCEPT !.phase = "rest", !.alt = in[pos + 1].v, !.save = << pos + 1, 0 >>]
    <3>1. Update(g) /\ pos' = pos + 2 /\ Looping /\ UNCHANGED depth
      BY <1>3, <2>4 DEF VariantTag
    <3>2. After(Now) = Stay(Now, pos + 2, depth, g, out)
      BY <2>2, <2>4, NowIs DEF AfterTag
    <3> HIDE DEF g
    <3> QED
      BY <2>1, <3>1, <3>2, StayNow
  <2> QED
    BY <2>3, <2>4
<1>4. CASE VariantSkip
  <2>1. /\ More /\ ~KeyMismatch(FALSE) /\ SkipThenLoop(pos + 1, Top) /\ UNCHANGED out
        /\ ~(Top.phase = "first" /\ in[pos].v = S.tag)
        /\ ~(Top.phase = "value" /\ in[pos].v = "value")
    BY <1>4 DEF VariantSkip, Ahead
  <2>2. After(Now) = Past(Now, pos + 1, Top)
    BY <1>1, <2>1, NowIs DEF AfterVariant
  <2> QED
    BY <2>1, <2>2, PastNow
<1>5. CASE VariantValue
  <2>1. /\ More /\ ~KeyMismatch(FALSE) /\ Top.phase = "value" /\ in[pos].v = "value"
        /\ Child(Top, << "member", "value" >>, pos + 1, Top.alt) /\ UNCHANGED out
    BY <1>5 DEF VariantValue, Ahead
  <2>2. After(Now) = Into(Now, Top, << "member", "value" >>, pos + 1, Top.alt)
    BY <1>1, <2>1, NowIs DEF AfterVariant
  <2> QED
    BY <2>1, <2>2, IntoNow
<1>6. CASE VariantRefused
  <2>1. Done /\ pos' = pos + 1 /\ depth' = depth - 1 /\ UNCHANGED out
    BY <1>6 DEF VariantRefused, Exit
  <2> DEFINE e == Push(Err("no_variant_alternative", Top.save[1]), << "key", S.tag >>)
  <2>2. CASE Top.phase = "first"
    <3>1. Leave(Err("missing_tag", Top.start))
      BY <1>6, <2>2 DEF VariantRefused
    <3>2. After(Now) = End(Now, Err("missing_tag", Top.start))
      BY <1>2, <2>1, <2>2 DEF AfterVariantEnd
    <3> QED
      BY <2>1, <3>1, <3>2, QuitNow, NowIs DEF End
  <2>3. CASE Top.phase # "first"
    <3>1. Top.phase = "rest" /\ Top.alt \notin Range(S.sub) /\ Leave(e)
      BY <1>6, <2>3 DEF VariantRefused
    <3>2. After(Now) = End(Now, e)
      BY <1>2, <2>1, <2>3, <3>1 DEF AfterVariantEnd
    <3> HIDE DEF e
    <3> QED
      BY <2>1, <3>1, <3>2, QuitNow, NowIs DEF End
  <2> QED
    BY <2>2, <2>3
<1>7. CASE VariantChosen
  <2>1. Done /\ Top.phase = "rest" /\ Top.alt \in Range(S.sub) /\ out' = Without(CurPath) /\ Update(SecondPass)
    BY <1>7 DEF VariantChosen
  <2>2. After(Now) = AfterChoice(Now, Top)
    BY <1>2, <2>1 DEF AfterVariantEnd
  <2>3. CASE Types[Top.alt].kind = "struct"
    <3>1. pos' = Top.start /\ depth' = Top.depth /\ Calling(Top.alt)
      BY <1>7, <2>3 DEF VariantChosen
    <3>2. After(Now) = State(Top.start, Top.depth, Replaced(frames, SecondPass), "call", Top.alt, st, Without(CurPath))
      BY <2>2, <2>3, NowIs, HereIs DEF AfterChoice
    <3>3. Now' = State(Top.start, Top.depth, Replaced(frames, SecondPass), "call", Top.alt, st, Without(CurPath))
      BY <2>1, <3>1 DEF Calling, Update, Replaced, Now, State
    <3> QED
      BY <3>2, <3>3
  <2>4. CASE Types[Top.alt].kind # "struct"
    <3>1. pos' = Top.start + 1 /\ depth' = Top.depth + 1 /\ Looping
      BY <1>7, <2>4 DEF VariantChosen
    <3>2. After(Now) = Stay(Now, Top.start + 1, Top.depth + 1, SecondPass, Without(CurPath))
      BY <2>2, <2>4, NowIs, HereIs DEF AfterChoice
    <3> QED
      BY <2>1, <3>1, <3>2, StayNow
  <2> QED
    BY <2>3, <2>4
<1>8. CASE VariantEnd
  <2> DEFINE s == IF Top.n > 0 THEN OK ELSE [Err("missing_field", Top.start) EXCEPT !.detail = "value"]
  <2>1. Done /\ Top.phase = "value" /\ pos' = pos + 1 /\ depth' = depth - 1 /\ Leave(s) /\ UNCHANGED out
    BY <1>8 DEF VariantEnd, Exit
  <2>2. After(Now) = End(Now, s)
    BY <1>2, <2>1 DEF AfterVariantEnd
  <2> HIDE DEF s
  <2> QED
    BY <2>1, <2>2, QuitNow, NowIs DEF End
<1> QED
  BY <1>3, <1>4, <1>5, <1>6, <1>7, <1>8

(* A child returns: a frame is a struct or one of the others.              *)
LEMMA FailedNow ==
  ASSUME ChildFailed \/ FieldFailed \/ FieldRecovered
  PROVE  /\ ctl = "return" /\ frames # << >> /\ st # OK
         /\ \E o : After(Now) = Quit(Now, pos, depth, StepAdded(Top, st), o) /\ (~FieldRecovered => o = out')
<1>1. ctl = "return" /\ frames # << >> /\ st # OK
  BY DEF ChildFailed, FieldFailed, FieldRecovered
<1>2. After(Now) = AfterFailed(Now, Top, S) /\ S.kind = Kind
  BY <1>1, AfterNow, NowIs DEF AfterReturn, S, Kind
<1> DEFINE o == IF S.kind = "seq" \/ (S.kind = "map" /\ Top.step[2] \notin Top.seen) THEN Without(CurPath) ELSE out
<1>3. After(Now) = Quit(Now, pos, depth, StepAdded(Top, st), o)
  BY <1>2, NowIs, HereIs DEF AfterFailed
<1>4. ~FieldRecovered => o = out'
  <2>1. CASE ChildFailed
    BY <1>2, <2>1 DEF ChildFailed, Temporary
  <2>2. CASE FieldFailed
    BY <1>2, <2>2 DEF FieldFailed
  <2> QED
    BY <2>1, <2>2
<1> HIDE DEF o
<1> QED
  BY <1>1, <1>3, <1>4

(* An error goes up, or a decoded child is taken in.                       *)
LEMMA ReturnNow ==
  ASSUME ChildFailed \/ FieldFailed \/ ChildDecoded \/ FieldDecoded
  PROVE  Now' = After(Now)
<1>1. CASE ChildFailed
  <2>1. PICK o : After(Now) = Quit(Now, pos, depth, StepAdded(Top, st), o) /\ (~FieldRecovered => o = out')
    BY <1>1, FailedNow
  <2>2. Kind # "struct" /\ Leave(IF Top.step = NoStep THEN st ELSE Push(st, Top.step)) /\ UNCHANGED << pos, depth >>
    BY <1>1 DEF ChildFailed, Wrapping, reader
  <2>3. Leave(StepAdded(Top, st)) /\ ~FieldRecovered
    BY <2>2 DEF StepAdded, Kind, KindOf, FieldRecovered
  <2> QED
    BY <2>1, <2>2, <2>3, QuitNow
<1>2. CASE FieldFailed
  <2>1. PICK o : After(Now) = Quit(Now, pos, depth, StepAdded(Top, st), o) /\ (~FieldRecovered => o = out')
    BY <1>2, FailedNow
  <2>2. Kind = "struct" /\ Leave(Push(st, Top.step)) /\ UNCHANGED << pos, depth >> /\ ~Recoverable
    BY <1>2 DEF FieldFailed, reader
  <2>3. Leave(StepAdded(Top, st)) /\ ~FieldRecovered
    BY <2>2 DEF StepAdded, Kind, KindOf, FieldRecovered
  <2> QED
    BY <2>1, <2>2, <2>3, QuitNow
<1>3. CASE ChildDecoded \/ FieldDecoded
  <2>1. ctl = "return" /\ st = OK /\ UNCHANGED << pos, depth, out >>
    BY <1>3 DEF ChildDecoded, FieldDecoded, reader
  <2>2. After(Now) = AfterDecoded(Now, Top, S) /\ S.kind = Kind
    BY <2>1, AfterNow, NowIs DEF AfterReturn, S, Kind
  <2>3. CASE FieldDecoded
    <3> DEFINE g == [Top EXCEPT !.step = NoStep]
    <3>1. Kind = "struct" /\ Update(g) /\ Looping
      BY <2>3 DEF FieldDecoded
    <3>2. After(Now) = Stay(Now, pos, depth, g, out)
      BY <2>2, <3>1, NowIs DEF AfterDecoded
    <3> HIDE DEF g
    <3> QED
      BY <2>1, <3>1, <3>2, StayNow
  <2>4. CASE ChildDecoded /\ (Kind = "transparent" \/ Top.step = NoStep)
    <3>1. Kind # "struct" /\ Leave(OK)
      BY <2>4 DEF ChildDecoded, Wrapping
    <3>2. After(Now) = Quit(Now, pos, depth, OK, out)
      BY <2>2, <2>4, <3>1, NowIs DEF AfterDecoded
    <3> QED
      BY <2>1, <3>1, <3>2, QuitNow
  <2>5. CASE ChildDecoded /\ ~(Kind = "transparent" \/ Top.step = NoStep)
    <3> DEFINE g == [Top EXCEPT !.n = @ + 1, !.seen = @ \cup {Top.step[2]}, !.step = NoStep]
    <3>1. Kind # "struct" /\ Update(g) /\ Looping
      BY <2>5 DEF ChildDecoded, Wrapping
    <3>2. After(Now) = Stay(Now, pos, depth, g, out)
      BY <2>2, <2>5, <3>1, NowIs DEF AfterDecoded
    <3> HIDE DEF g
    <3> QED
      BY <2>1, <3>1, <3>2, StayNow
  <2> QED
    BY <1>3, <2>3, <2>4, <2>5
<1> QED
  BY <1>1, <1>2, <1>3

-----------------------------------------------------------------------------
(* From a state c the computation leads to the outcome v: a set of states  *)
(* is closed under After, and whatever state of it is the last one has     *)
(* this outcome.                                                           *)

Ended(c) == c.ctl = "return" /\ c.frames = << >>

OutcomeOf(c) ==
  [ st  |-> IF c.st # OK THEN Finalize(c.st)
            ELSE IF c.pos > Len(in) THEN OK ELSE Err("trailing_content", c.pos),
    out |-> c.out ]

Leads(c, v) ==
  \E Q : c \in Q /\ \A x \in Q : IF Ended(x) THEN v = OutcomeOf(x) ELSE After(x) \in Q

(* The outcome of c is the outcome of b.                                   *)
Brings(b, c) == \A v : Leads(c, v) => Leads(b, v)

(* One step changes nothing about the outcome.                             *)
LEMMA LeadsOn ==
  ASSUME NEW c, ~Ended(c), NEW v
  PROVE  Leads(c, v) <=> Leads(After(c), v)
<1>1. ASSUME Leads(c, v) PROVE Leads(After(c), v)
  <2>1. PICK Q : c \in Q /\ \A x \in Q : IF Ended(x) THEN v = OutcomeOf(x) ELSE After(x) \in Q
    BY <1>1 DEF Leads
  <2>2. After(c) \in Q
    BY <2>1
  <2> QED
    BY <2>1, <2>2, Zenon DEF Leads
<1>2. ASSUME Leads(After(c), v) PROVE Leads(c, v)
  <2>1. PICK Q : After(c) \in Q /\ \A x \in Q : IF Ended(x) THEN v = OutcomeOf(x) ELSE After(x) \in Q
    BY <1>2 DEF Leads
  <2>2. \A x \in Q \cup {c} : IF Ended(x) THEN v = OutcomeOf(x) ELSE After(x) \in Q \cup {c}
    BY <2>1
  <2>3. c \in Q \cup {c}
    OBVIOUS
  <2> QED
    BY <2>2, <2>3, Zenon DEF Leads
<1> QED
  BY <1>1, <1>2

(* A last state has its own outcome.                                       *)
LEMMA LeadsEnd ==
  ASSUME NEW c, Ended(c), NEW v
  PROVE  Leads(c, v) <=> v = OutcomeOf(c)
<1>1. ASSUME Leads(c, v) PROVE v = OutcomeOf(c)
  BY <1>1 DEF Leads
<1>2. ASSUME v = OutcomeOf(c) PROVE Leads(c, v)
  <2>1. \A x \in {c} : IF Ended(x) THEN v = OutcomeOf(x) ELSE After(x) \in {c}
    BY <1>2
  <2>2. c \in {c}
    OBVIOUS
  <2> QED
    BY <2>1, <2>2, Zenon DEF Leads
<1> QED
  BY <1>1, <1>2

(* The outcome is fixed by the input and the options, which stay.          *)
LEMMA ReaderFixed ==
  ASSUME UNCHANGED << root, in >>, NEW CONSTANT p, NEW CONSTANT d
  PROVE  /\ SkipError(p, d)' = SkipError(p, d) /\ AfterItem(p)' = AfterItem(p)
         /\ MaxDepth' = MaxDepth /\ Duplicates' = Duplicates
<1>1. MaxDepth' = MaxDepth /\ Duplicates' = Duplicates
  BY DEF MaxDepth, Duplicates
<1>2. \A i : (Level(i))' = Level(i)
  BY DEF Level
<1>3. \A i : (Ends(i))' = Ends(i)
  BY <1>2 DEF Ends
<1>4. \A i : (AfterItem(i))' = AfterItem(i) /\ (Inside(i))' = Inside(i)
  BY <1>3 DEF AfterItem, Inside
<1>5. \A i, n, j : (TooDeep(i, n, j))' <=> TooDeep(i, n, j)
  BY <1>1, <1>2 DEF TooDeep
<1>6. \A i, n : (Refused(i, n))' = Refused(i, n)
  BY <1>4, <1>5 DEF Refused
<1>7. (SkipError(p, d))' = SkipError(p, d)
  BY <1>3, <1>6 DEF SkipError, Err, OK
<1> QED
  BY <1>1, <1>4, <1>7

(* What follows a state stays what it is.                                  *)
LEMMA AfterFixed ==
  ASSUME UNCHANGED << root, in >>, NEW CONSTANT c
  PROVE  After(c)' = After(c)
<1>0. /\ MaxDepth' = MaxDepth /\ Duplicates' = Duplicates
      /\ \A p, d : (SkipError(p, d))' = SkipError(p, d)
      /\ \A p : (AfterItem(p))' = AfterItem(p)
  BY ReaderFixed
<1>1. \A p, f : (Past(c, p, f))' = Past(c, p, f)
  BY <1>0 DEF Past
<1>2. \A p, d, k : (WrongAt(p, d, k))' = WrongAt(p, d, k)
  BY <1>0 DEF WrongAt
<1>3. \A t : (AfterCall(c, t))' = AfterCall(c, t)
  BY <1>2 DEF AfterCall, AfterOptional
<1>4. \A p : (KeyAhead(p))' = KeyAhead(p) /\ (\A b : (WrongKey(p, b))' <=> WrongKey(p, b)) /\ (WrongTag(p))' = WrongTag(p)
  BY DEF KeyAhead, WrongKey, WrongTag
<1>5. \A f, t : (AfterTuple(c, f, t))' = AfterTuple(c, f, t)
  BY <1>1 DEF AfterTuple
<1>6. \A f, t : (AfterMap(c, f, t))' = AfterMap(c, f, t)
  BY <1>0, <1>1, <1>4 DEF AfterMap
<1>7. \A f, t : (AfterHuge(c, f, t))' = AfterHuge(c, f, t) /\ (AfterUnknown(c, f, t))' = AfterUnknown(c, f, t)
  BY <1>0, <1>1, <1>4 DEF AfterHuge, AfterUnknown
<1>8. \A f, t, m : (AfterMember(c, f, t, m))' = AfterMember(c, f, t, m)
  BY <1>0, <1>1, <1>4 DEF AfterMember
<1>9. \A f, t : (AfterStruct(c, f, t))' = AfterStruct(c, f, t)
  BY <1>7, <1>8 DEF AfterStruct
<1>10. \A f : (AfterTag(c, f))' = AfterTag(c, f)
  BY <1>4 DEF AfterTag
<1>11. \A f, t : (AfterVariant(c, f, t))' = AfterVariant(c, f, t)
  BY <1>1, <1>10 DEF AfterVariant
<1>12. \A f, t : (AfterMore(c, f, t))' = AfterMore(c, f, t)
  BY <1>4, <1>5, <1>6, <1>9, <1>11 DEF AfterMore
<1>13. \A f, t : (AfterLoop(c, f, t))' = AfterLoop(c, f, t)
  BY <1>12 DEF AfterLoop
<1> QED
  BY <1>3, <1>13 DEF After

(* So do the outcomes.                                                     *)
LEMMA LeadsFixed ==
  ASSUME UNCHANGED << root, in >>, NEW CONSTANT c, NEW CONSTANT v
  PROVE  Leads(c, v)' <=> Leads(c, v)
<1>1. \A x : (After(x))' = After(x)
  BY AfterFixed
<1>2. \A x : (OutcomeOf(x))' = OutcomeOf(x)
  BY DEF OutcomeOf
<1> QED
  BY <1>1, <1>2, Zenon DEF Leads

-----------------------------------------------------------------------------
(* decode_all behind decode.  Up to its first error decode_all is in the   *)
(* state of decode.  From then on it is ahead: decode, in the state c,     *)
(* returns that error through the k frames that were active around the     *)
(* place where decode_all went on, and which have not changed since.  What *)
(* c returns is the first error recorded.                                  *)

Begin == State(1, 0, << >>, "call", root, OK, {})

(* Nothing is recorded: every mark is 0, and a struct with a child in      *)
(* progress has its step.                                                  *)
Clean ==
  \A i \in 1 .. Len(frames) :
    /\ frames[i].mark = 0
    /\ KindOf(frames[i]) = "struct" /\ (i < Len(frames) \/ ctl # "loop") => frames[i].step # NoStep

(* Annotating in f leaves the first error alone.                           *)
Spares(f) == f.step = NoStep \/ f.mark \in Nat \ {0}

Behind(c, k) ==
  /\ k \in 0 .. Len(frames) /\ (ctl = "loop" => k < Len(frames))
  /\ \A i \in 1 .. k : frames[i].mark = 0 /\ (KindOf(frames[i]) = "struct" => frames[i].step # NoStep)
  /\ \A i \in k + 1 .. Len(frames) : Spares(frames[i])
  /\ c.ctl = "return" /\ c.st = collected[1] /\ Failed(c.st)
  /\ IsSeq(c.frames) /\ Len(c.frames) = k /\ \A i \in 1 .. k : c.frames[i] = frames[i]
  /\ Leads(c, decoded)

(* The inductive invariant.                                                *)
AgreeInv ==
  /\ mode \in {"fail_fast", "collect"}
  /\ mode = "fail_fast" => collected = << >> /\ ctl # "done" /\ Brings(Begin, Now)
  /\ ctl # "done" =>
       /\ IsSeq(collected)
       /\ collected = << >> => Clean
       /\ mode = "collect" /\ collected = << >> => Leads(Now, decoded)
       /\ collected # << >> => \E c, k : Behind(c, k)
  /\ FirstErrorAgrees

(* Where the run is after a step, and what it leads to.                    *)
LEMMA LeadsNow ==
  ASSUME UNCHANGED << root, in >>, NEW CONSTANT c, c = Now', NEW CONSTANT v
  PROVE  /\ v = decoded' => (Leads(Now, decoded)' <=> Leads(c, v))
         /\ Leads(Now, v)' <=> Leads(c, v)
<1>1. Leads(c, v)' <=> Leads(c, v)
  BY LeadsFixed
<1>2. Leads(Now, v)' <=> Leads(c, v)'
  BY Zenon DEF Leads
<1>3. ASSUME v = decoded' PROVE Leads(Now, decoded)' <=> Leads(c, v)'
  BY <1>3, Zenon DEF Leads
<1> QED
  BY <1>1, <1>2, <1>3

(* The same of a given state.                                              *)
LEMMA LeadsStays ==
  ASSUME UNCHANGED << root, in, decoded >>, NEW CONSTANT c
  PROVE  Leads(c, decoded)' <=> Leads(c, decoded)
<1>1. PICK v : v = decoded
  OBVIOUS
<1>2. Leads(c, v)' <=> Leads(c, v)
  BY LeadsFixed
<1>3. Leads(c, decoded)' <=> Leads(c, v)'
  BY <1>1, Zenon DEF Leads
<1>4. Leads(c, decoded) <=> Leads(c, v)
  BY <1>1, Zenon DEF Leads
<1> QED
  BY <1>2, <1>3, <1>4

(* Decoding starts the same in both modes.                                 *)
LEMMA BeginFixed ==
  ASSUME UNCHANGED << root, in >>, NEW CONSTANT v
  PROVE  Leads(Begin, v)' <=> Leads(Begin, v)
<1>1. PICK b : b = Begin
  OBVIOUS
<1>2. b = Begin'
  BY <1>1 DEF Begin
<1>3. Leads(b, v)' <=> Leads(b, v)
  BY LeadsFixed
<1>4. Leads(Begin, v)' <=> Leads(b, v)'
  BY <1>2, Zenon DEF Leads
<1>5. Leads(Begin, v) <=> Leads(b, v)
  BY <1>1, Zenon DEF Leads
<1> QED
  BY <1>3, <1>4, <1>5

(* A step of the computation, in decode and in decode_all.                 *)
LEMMA FollowStep ==
  ASSUME UNCHANGED << root, in, decoded >>, Now' = After(Now), ~Ended(Now)
  PROVE  /\ Leads(Now, decoded) => Leads(Now, decoded)'
         /\ Brings(Begin, Now) => Brings(Begin, Now)'
<1>1. PICK c : c = Now'
  OBVIOUS
<1>2. PICK v : v = decoded'
  OBVIOUS
<1>3. ASSUME NEW CONSTANT w PROVE Leads(Now, w) <=> Leads(c, w)
  BY <1>1, LeadsOn
<1>4. Leads(Now, decoded) => Leads(Now, decoded)'
  <2>1. Leads(Now, decoded) => Leads(Now, v)
    BY <1>2
  <2>2. Leads(Now, decoded)' <=> Leads(c, v)
    BY <1>1, <1>2, LeadsNow
  <2> QED
    BY <1>3, <2>1, <2>2
<1>5. ASSUME Brings(Begin, Now) PROVE Brings(Begin, Now)'
  <2>1. SUFFICES ASSUME NEW CONSTANT w, Leads(Now, w)' PROVE Leads(Begin, w)'
    BY DEF Brings
  <2>2. Leads(c, w)
    BY <1>1, <2>1, LeadsNow
  <2>3. Leads(Begin, w)
    BY <1>3, <1>5, <2>2 DEF Brings
  <2> QED
    BY <2>3, BeginFixed
<1> QED
  BY <1>4, <1>5

-----------------------------------------------------------------------------
(* What a step does to the frames.                                         *)

(* A frame is added; the innermost one is changed; it is removed.          *)
Grows ==
  \E f : /\ frames' = Append(frames, f)
         /\ (f.step = NoStep /\ f.mark = 0) \/ f.mark = Len(collected)
         /\ KindOf(f) = "struct" => ctl' = "loop"

Turns ==
  \E f : /\ frames' = Replaced(frames, f)
         /\ (f.step = NoStep /\ f.mark = Top.mark) \/ f.mark = Len(collected)
         /\ f.type = Top.type
         /\ KindOf(f) = "struct" /\ ctl' # "loop" => f.step # NoStep

Drops == frames' = Front(frames) /\ ctl' = "return"

Moves ==
  \/ ctl = "call" /\ ((UNCHANGED frames /\ ctl' \in {"call", "return"}) \/ Grows)
  \/ ctl \in {"loop", "return"} /\ frames # << >> /\ (Turns \/ Drops)

(* The frame returns.                                                      *)
LEMMA LeaveMoves ==
  ASSUME NEW s, Leave(s), ctl \in {"loop", "return"}, frames # << >>
  PROVE  Moves
  BY DEF Leave, Returning, Moves, Drops

(* The fields of the innermost frame.                                      *)
LEMMA TopFields ==
  ASSUME DecodeInv, ctl \in {"loop", "return"}, frames # << >>
  PROVE  /\ FrameFields \subseteq DOMAIN Top
         /\ ctl = "loop" => Top.step = NoStep
<1>1. FrameOK(Top, Top.depth)
  BY InLoop, AtReturn
<1>2. ctl = "loop" => Top.step = NoStep
  BY InLoop
<1> QED
  BY <1>1, <1>2 DEF FrameOK

(* The frame loops on.                                                     *)
LEMMA LoopMoves ==
  ASSUME NEW f, Update(f), ctl' = "loop", ctl \in {"loop", "return"}, frames # << >>,
         f.step = NoStep, f.mark = Top.mark, f.type = Top.type
  PROVE  Moves
<1>1. Turns
  BY DEF Update, Replaced, Turns
<1> QED
  BY <1>1 DEF Moves

(* A value is skipped, or the skip fails.                                  *)
LEMMA SkipMoves ==
  ASSUME NEW p, NEW f, SkipThenLoop(p, f), ctl = "loop", frames # << >>,
         f.step = NoStep, f.mark = Top.mark, f.type = Top.type
  PROVE  Moves
<1>1. CASE SkipError(p, depth) = OK
  BY <1>1, LoopMoves DEF SkipThenLoop, Looping
<1>2. CASE SkipError(p, depth) # OK
  <2>1. Leave(SkipError(p, depth))
    BY <1>2 DEF SkipThenLoop
  <2> QED
    BY <2>1, LeaveMoves
<1> QED
  BY <1>1, <1>2

(* A child is called, with its step and the mark.                          *)
LEMMA ChildMoves ==
  ASSUME NEW f, NEW s, NEW p, NEW ty, Child(f, s, p, ty), ctl = "loop", frames # << >>,
         FrameFields \subseteq DOMAIN f, f.type = Top.type, s # NoStep
  PROVE  Moves
<1> DEFINE g == [f EXCEPT !.mark = Len(collected), !.save = << p, depth >>, !.step = s]
<1>1. frames' = Replaced(frames, g)
  BY DEF Child, Update, Replaced
<1>2. g.mark = Len(collected) /\ g.step = s /\ g.type = Top.type
  BY DEF FrameFields
<1> HIDE DEF g
<1>3. Turns
  BY <1>1, <1>2 DEF Turns
<1> QED
  BY <1>3 DEF Moves

(* decode_value.                                                           *)
LEMMA CallMoves ==
  ASSUME Unexpected \/ Scalar \/ Null \/ Emplace \/ Transparent \/ Enter
  PROVE  Moves
<1>1. CASE Unexpected \/ Scalar \/ Null \/ Emplace
  BY <1>1 DEF Unexpected, Scalar, Null, Emplace, Returning, Calling, Moves
<1>2. CASE Transparent
  <2> DEFINE g == [Frame(type) EXCEPT !.mark = Len(collected), !.step = << "member", T.members[1].name >>]
  <2>1. ctl = "call" /\ frames' = Append(frames, g) /\ T.kind = "transparent"
    BY <1>2 DEF Transparent
  <2>2. g.mark = Len(collected) /\ g.type = type
    BY DEF Frame
  <2> HIDE DEF g
  <2>3. KindOf(g) # "struct"
    BY <2>1, <2>2 DEF KindOf, T
  <2>4. Grows
    BY <2>1, <2>2, <2>3 DEF Grows
  <2> QED
    BY <2>1, <2>4 DEF Moves
<1>3. CASE Enter
  <2> DEFINE g == Frame(type)
  <2>1. ctl = "call" /\ frames' = Append(frames, g) /\ ctl' = "loop"
    BY <1>3 DEF Enter, Looping
  <2>2. g.mark = 0 /\ g.step = NoStep
    BY DEF Frame
  <2> HIDE DEF g
  <2>3. Grows
    BY <2>1, <2>2 DEF Grows
  <2> QED
    BY <2>1, <2>3 DEF Moves
<1> QED
  BY <1>1, <1>2, <1>3

(* The loops over sequences, tuples and maps.                              *)
LEMMA EntryMoves ==
  ASSUME DecodeInv,
         Cut \/ SeqElement \/ SeqEnd \/ TupleElement \/ TupleExtra \/ TupleEnd
           \/ NonTextKey \/ MapEntry \/ MapDuplicate \/ MapEnd
  PROVE  Moves
<1>0. ctl = "loop"
  BY DEF Cut, SeqElement, SeqEnd, TupleElement, TupleExtra, TupleEnd, NonTextKey, MapEntry, MapDuplicate, MapEnd, At
<1>1. frames # << >> /\ FrameFields \subseteq DOMAIN Top /\ Top.step = NoStep
  BY <1>0, InLoop, TopFields
<1>2. CASE Cut \/ SeqEnd \/ TupleEnd \/ NonTextKey \/ MapEnd
  <2>1. \E s : Leave(s)
    BY <1>2 DEF Cut, SeqEnd, TupleEnd, NonTextKey, MapEnd
  <2> QED
    BY <1>0, <1>1, <2>1, LeaveMoves
<1>3. CASE SeqElement \/ TupleElement \/ MapEntry
  <2>1. PICK s, p, ty : Child(Top, s, p, ty) /\ s # NoStep
    <3>1. << "index", Top.n >> # NoStep /\ KeyStep # NoStep
      BY DEF KeyStep, NoStep
    <3> QED
      BY <1>3, <3>1, Zenon DEF SeqElement, TupleElement, MapEntry
  <2> QED
    BY <1>0, <1>1, <2>1, ChildMoves
<1>4. CASE TupleExtra
  <2> DEFINE g == [Top EXCEPT !.n = @ + 1]
  <2>1. SkipThenLoop(pos, g)
    BY <1>4 DEF TupleExtra
  <2>2. g.step = NoStep /\ g.mark = Top.mark /\ g.type = Top.type
    BY <1>1 DEF FrameFields
  <2> HIDE DEF g
  <2> QED
    BY <1>0, <1>1, <2>1, <2>2, SkipMoves
<1>5. CASE MapDuplicate
  <2>1. (\E s : Leave(s)) \/ SkipThenLoop(pos + 1, Top)
    BY <1>5 DEF MapDuplicate
  <2> QED
    BY <1>0, <1>1, <2>1, LeaveMoves, SkipMoves
<1> QED
  BY <1>2, <1>3, <1>4, <1>5

(* decode_struct and decode_variant.                                       *)
LEMMA MemberMoves ==
  ASSUME DecodeInv, HugeKey \/ UnknownField \/ DuplicateField \/ SkipField \/ Field \/ StructEnd
  PROVE  Moves
<1>0. ctl = "loop"
  BY DEF HugeKey, UnknownField, DuplicateField, SkipField, Field, StructEnd, AtKey, At
<1>1. frames # << >> /\ FrameFields \subseteq DOMAIN Top /\ Top.step = NoStep
  BY <1>0, InLoop, TopFields
<1>2. CASE HugeKey \/ UnknownField \/ DuplicateField \/ SkipField \/ StructEnd
  <2>1. (\E s : Leave(s)) \/ SkipThenLoop(pos + 1, Top)
    BY <1>2 DEF HugeKey, UnknownField, DuplicateField, SkipField, StructEnd, Report
  <2> QED
    BY <1>0, <1>1, <2>1, LeaveMoves, SkipMoves
<1>3. CASE Field
  <2>1. PICK m : Child([Top EXCEPT !.seen = @ \cup {m}], << "member", S.members[m].name >>, pos + 1, S.members[m].type)
    BY <1>3 DEF Field
  <2> DEFINE g == [Top EXCEPT !.seen = @ \cup {m}]
             s == << "member", S.members[m].name >>
  <2>2. FrameFields \subseteq DOMAIN g /\ g.type = Top.type /\ s # NoStep
    BY <1>1 DEF FrameFields, NoStep
  <2>3. Child(g, s, pos + 1, S.members[m].type)
    BY <2>1
  <2> HIDE DEF g, s
  <2> QED
    BY <1>0, <1>1, <2>2, <2>3, ChildMoves
<1> QED
  BY <1>2, <1>3

(* decode_variant.                                                         *)
LEMMA VariantMoves ==
  ASSUME DecodeInv,
         VariantTag \/ VariantSkip \/ VariantRefused \/ VariantChosen \/ VariantValue \/ VariantEnd
  PROVE  Moves
<1>0. ctl = "loop" /\ Kind = "variant"
  BY DEF VariantTag, VariantSkip, VariantRefused, VariantChosen, VariantValue, VariantEnd, At
<1>1. frames # << >> /\ FrameFields \subseteq DOMAIN Top /\ Top.step = NoStep
  BY <1>0, InLoop, TopFields
<1>2. CASE VariantTag
  <2> DEFINE g == [Top EXCEPT !.phase = "rest", !.alt = in[pos + 1].v, !.save = << pos + 1, 0 >>]
  <2>1. (\E s : Leave(s)) \/ (Update(g) /\ ctl' = "loop")
    BY <1>2 DEF VariantTag, Looping
  <2>2. g.step = NoStep /\ g.mark = Top.mark /\ g.type = Top.type
    BY <1>1 DEF FrameFields
  <2> HIDE DEF g
  <2> QED
    BY <1>0, <1>1, <2>1, <2>2, LeaveMoves, LoopMoves
<1>3. CASE VariantSkip
  BY <1>0, <1>1, <1>3, SkipMoves DEF VariantSkip
<1>4. CASE VariantRefused \/ VariantEnd
  <2>1. \E s : Leave(s)
    BY <1>4 DEF VariantRefused, VariantEnd
  <2> QED
    BY <1>0, <1>1, <2>1, LeaveMoves
<1>5. CASE VariantChosen
  <2>1. Update(SecondPass)
    BY <1>5 DEF VariantChosen
  <2>2. SecondPass.step = NoStep /\ SecondPass.mark = Top.mark /\ SecondPass.type = Top.type
    BY <1>1 DEF FrameFields, SecondPass
  <2>3. KindOf(SecondPass) # "struct"
    BY <1>0, <2>2 DEF Kind, KindOf
  <2>4. Turns
    BY <2>1, <2>2, <2>3 DEF Turns, Update, Replaced
  <2> QED
    BY <1>0, <1>1, <2>4 DEF Moves
<1>6. CASE VariantValue
  <2>1. Child(Top, << "member", "value" >>, pos + 1, Top.alt) /\ << "member", "value" >> # NoStep
    BY <1>6 DEF VariantValue, NoStep
  <2> QED
    BY <1>0, <1>1, <2>1, ChildMoves
<1> QED
  BY <1>2, <1>3, <1>4, <1>5, <1>6

(* The frame takes the status of its child.                                *)
LEMMA ReturnMoves ==
  ASSUME DecodeInv, ChildFailed \/ ChildDecoded \/ FieldDecoded \/ FieldFailed \/ FieldRecovered
  PROVE  /\ Moves
         /\ collected' = Annotate \/ (\E e : collected' = Append(Annotate, e))
<1>0. ctl = "return" /\ frames # << >>
  BY DEF ChildFailed, ChildDecoded, FieldDecoded, FieldFailed, FieldRecovered
<1>1. FrameFields \subseteq DOMAIN Top
  BY <1>0, TopFields
<1> DEFINE g == [Top EXCEPT !.step = NoStep]
           h == [Top EXCEPT !.n = @ + 1, !.seen = @ \cup {Top.step[2]}, !.step = NoStep]
<1>2. /\ g.step = NoStep /\ g.mark = Top.mark /\ g.type = Top.type
      /\ h.step = NoStep /\ h.mark = Top.mark /\ h.type = Top.type
  BY <1>1 DEF FrameFields
<1>3. (\E s : Leave(s)) \/ ((Update(g) \/ Update(h)) /\ ctl' = "loop")
  <2>1. CASE ChildFailed \/ FieldFailed
    BY <2>1 DEF ChildFailed, FieldFailed
  <2>2. CASE ChildDecoded
    BY <2>2 DEF ChildDecoded, Looping
  <2>3. CASE FieldDecoded
    BY <2>3 DEF FieldDecoded, Looping
  <2>4. CASE FieldRecovered
    BY <2>4 DEF FieldRecovered, Looping
  <2> QED
    BY <2>1, <2>2, <2>3, <2>4
<1>4. collected' = Annotate \/ (\E e : collected' = Append(Annotate, e))
  BY Zenon DEF ChildFailed, ChildDecoded, FieldDecoded, FieldFailed, FieldRecovered
<1> HIDE DEF g, h
<1>5. Moves
  <2>1. CASE \E s : Leave(s)
    BY <1>0, <2>1, LeaveMoves
  <2>2. CASE Update(g) /\ ctl' = "loop"
    BY <1>0, <1>2, <2>2, LoopMoves
  <2>3. CASE Update(h) /\ ctl' = "loop"
    BY <1>0, <1>2, <2>3, LoopMoves
  <2> QED
    BY <1>3, <2>1, <2>2, <2>3
<1> QED
  BY <1>4, <1>5

-----------------------------------------------------------------------------
(* The frames before and after a step.                                     *)

(* All frames but the innermost stay; it stays in a call.  A frame that is *)
(* new or changed has no step, or its mark is the number of errors.        *)
LEMMA FramesMove ==
  ASSUME DecodeInv, Moves
  PROVE  /\ IsSeq(frames) /\ IsSeq(frames') /\ Len(frames) \in Nat /\ Len(frames') \in Nat
         /\ ctl = "call" =>
              /\ Len(frames) <= Len(frames') /\ (ctl' = "loop" => Len(frames) < Len(frames'))
              /\ \A i \in 1 .. Len(frames) : frames'[i] = frames[i]
              /\ \A i \in Len(frames) + 1 .. Len(frames') :
                   /\ (frames'[i].step = NoStep /\ frames'[i].mark = 0) \/ frames'[i].mark = Len(collected)
                   /\ i = Len(frames')
                   /\ KindOf(frames'[i]) = "struct" => ctl' = "loop"
         /\ ctl # "call" =>
              /\ frames # << >> /\ Len(frames) > 0
              /\ Len(frames) - 1 <= Len(frames') /\ Len(frames') <= Len(frames)
              /\ (ctl' = "loop" => Len(frames') = Len(frames))
              /\ \A i \in 1 .. Len(frames) - 1 : frames'[i] = frames[i]
              /\ Len(frames') = Len(frames) =>
                   LET f == frames'[Len(frames)]
                   IN  /\ (f.step = NoStep /\ f.mark = Top.mark) \/ f.mark = Len(collected)
                       /\ KindOf(f) = "struct" /\ ctl' # "loop" => f.step # NoStep
<1>0. IsSeq(frames)
  BY DEF DecodeInv, FramesOK
<1>1. CASE ctl = "call" /\ UNCHANGED frames /\ ctl' \in {"call", "return"}
  <2>1. Len(frames) \in Nat
    BY <1>0, SeqIsSeq DEF IsSeq
  <2> QED
    BY <1>0, <1>1, <2>1
<1>2. CASE ctl = "call" /\ Grows
  <2>1. PICK f : /\ frames' = Append(frames, f)
                 /\ (f.step = NoStep /\ f.mark = 0) \/ f.mark = Len(collected)
                 /\ KindOf(f) = "struct" => ctl' = "loop"
    BY <1>2 DEF Grows
  <2>2. /\ Len(frames) \in Nat /\ IsSeq(frames') /\ Len(frames') = Len(frames) + 1
        /\ \A i \in 1 .. Len(frames) : frames'[i] = frames[i]
        /\ frames'[Len(frames) + 1] = f
    BY <1>0, <2>1, AppendIsSeq
  <2>3. \A i \in Len(frames) + 1 .. Len(frames') : i = Len(frames) + 1 /\ i = Len(frames')
    BY <2>2
  <2>4. Len(frames') \in Nat /\ Len(frames) <= Len(frames') /\ Len(frames) < Len(frames')
    BY <2>2
  <2> QED
    BY <1>0, <1>2, <2>1, <2>2, <2>3, <2>4
<1>3. CASE ctl \in {"loop", "return"} /\ frames # << >> /\ Turns
  <2>1. PICK f : /\ frames' = Replaced(frames, f)
                 /\ (f.step = NoStep /\ f.mark = Top.mark) \/ f.mark = Len(collected)
                 /\ KindOf(f) = "struct" /\ ctl' # "loop" => f.step # NoStep
    BY <1>3 DEF Turns
  <2>2. /\ Len(frames) \in Nat \ {0} /\ IsSeq(frames') /\ Len(frames') = Len(frames)
        /\ \A i \in 1 .. Len(frames) - 1 : frames'[i] = frames[i]
        /\ frames'[Len(frames)] = f
    <3> DEFINE r == [frames EXCEPT ![Len(frames)] = f]
    <3>1. /\ Len(frames) \in Nat \ {0} /\ IsSeq(r) /\ Len(r) = Len(frames)
          /\ \A i \in 1 .. Len(frames) - 1 : r[i] = frames[i]
          /\ r[Len(frames)] = f
      BY <1>0, <1>3, ReplaceIsSeq
    <3>2. frames' = r
      BY <2>1 DEF Replaced
    <3> HIDE DEF r
    <3> QED
      BY <3>1, <3>2
  <2> QED
    BY <1>0, <1>3, <2>1, <2>2
<1>4. CASE ctl \in {"loop", "return"} /\ frames # << >> /\ Drops
  <2>1. /\ Len(frames) \in Nat \ {0} /\ IsSeq(frames') /\ Len(frames') = Len(frames) - 1
        /\ \A i \in 1 .. Len(frames) - 1 : frames'[i] = frames[i]
        /\ ctl' = "return"
    BY <1>0, <1>4, FrontIsSeq DEF Drops
  <2> QED
    BY <1>0, <1>4, <2>1
<1> QED
  BY <1>1, <1>2, <1>3, <1>4 DEF Moves

(* As long as nothing is recorded.                                         *)
LEMMA CleanStep ==
  ASSUME DecodeInv, Moves, collected = << >>, Clean
  PROVE  Clean'
<1>0. Len(collected) = 0
  BY EmptySeq
<1> SUFFICES ASSUME NEW i \in 1 .. Len(frames')
             PROVE  /\ frames'[i].mark = 0
                    /\ KindOf(frames'[i]) = "struct" /\ (i < Len(frames') \/ ctl' # "loop") => frames'[i].step # NoStep
  BY DEF Clean, KindOf
<1>1. CASE ctl = "call"
  <2>1. CASE i \in 1 .. Len(frames)
    BY <1>1, <2>1, FramesMove DEF Clean
  <2>2. CASE i \in Len(frames) + 1 .. Len(frames')
    BY <1>0, <1>1, <2>2, FramesMove
  <2> QED
    BY <1>1, <2>1, <2>2, FramesMove
<1>2. CASE ctl # "call"
  <2>1. CASE i \in 1 .. Len(frames) - 1
    <3>1. frames'[i] = frames[i] /\ i < Len(frames) /\ i \in 1 .. Len(frames)
      BY <1>2, <2>1, FramesMove
    <3> QED
      BY <3>1 DEF Clean
  <2>2. CASE i = Len(frames) /\ Len(frames') = Len(frames)
    <3>1. Top.mark = 0
      BY <1>2, <2>2 DEF Clean, Top
    <3>2. frames'[i].mark = Top.mark \/ frames'[i].mark = Len(collected)
      BY <1>2, <2>2, FramesMove
    <3>3. KindOf(frames'[i]) = "struct" /\ ctl' # "loop" => frames'[i].step # NoStep
      BY <1>2, <2>2, FramesMove
    <3>4. ~(i < Len(frames'))
      BY <2>2, FramesMove
    <3> QED
      BY <1>0, <3>1, <3>2, <3>3, <3>4
  <2> QED
    BY <1>2, <2>1, <2>2, FramesMove
<1> QED
  BY <1>1, <1>2

(* decode_all works in frames above those of decode's error.               *)
LEMMA BehindStep ==
  ASSUME DecodeInv, Moves, IsSeq(collected), collected # << >>, UNCHANGED << root, in, decoded >>,
         NEW CONSTANT c, NEW CONSTANT k, Behind(c, k), ctl = "return" => k < Len(frames),
         collected'[1] = collected[1]
  PROVE  Behind(c, k)'
<1>0. Len(collected) \in Nat \ {0}
  BY EmptySeq, SeqIsSeq DEF IsSeq
<1>1. /\ k \in 0 .. Len(frames) /\ (ctl = "loop" => k < Len(frames))
      /\ \A i \in 1 .. k : frames[i].mark = 0 /\ (KindOf(frames[i]) = "struct" => frames[i].step # NoStep)
      /\ \A i \in k + 1 .. Len(frames) : Spares(frames[i])
      /\ c.ctl = "return" /\ c.st = collected[1] /\ Failed(c.st)
      /\ IsSeq(c.frames) /\ Len(c.frames) = k /\ \A i \in 1 .. k : c.frames[i] = frames[i]
      /\ Leads(c, decoded)
  BY DEF Behind
<1>2. ctl # "call" => k < Len(frames)
  BY <1>1 DEF Moves
<1>3. /\ Len(frames) \in Nat /\ Len(frames') \in Nat
      /\ k \in 0 .. Len(frames') /\ (ctl' = "loop" => k < Len(frames'))
      /\ \A i \in 1 .. k : frames'[i] = frames[i]
  <2>1. CASE ctl = "call"
    BY <1>1, <2>1, FramesMove
  <2>2. CASE ctl # "call"
    BY <1>1, <1>2, <2>2, FramesMove
  <2> QED
    BY <2>1, <2>2
<1>4. ASSUME NEW i \in k + 1 .. Len(frames') PROVE Spares(frames'[i])
  <2>1. CASE ctl = "call" /\ i <= Len(frames)
    <3>1. frames'[i] = frames[i] /\ i \in k + 1 .. Len(frames)
      BY <1>1, <1>3, <2>1, FramesMove
    <3> QED
      BY <1>1, <3>1 DEF Spares
  <2>2. CASE ctl = "call" /\ i > Len(frames)
    <3>1. i \in Len(frames) + 1 .. Len(frames')
      BY <1>1, <1>3, <2>2
    <3> QED
      BY <1>0, <2>2, <3>1, FramesMove DEF Spares
  <2>3. CASE ctl # "call" /\ i < Len(frames)
    <3>1. i \in k + 1 .. Len(frames) /\ i \in 1 .. Len(frames) - 1
      BY <1>1, <1>3, <2>3
    <3>2. frames'[i] = frames[i]
      BY <2>3, <3>1, FramesMove
    <3> QED
      BY <1>1, <3>1, <3>2 DEF Spares
  <2>4. CASE ctl # "call" /\ i >= Len(frames)
    <3>1. i = Len(frames) /\ Len(frames') = Len(frames)
      BY <1>1, <1>3, <2>4, FramesMove
    <3>2. frames'[i].step = NoStep \/ frames'[i].mark = Len(collected)
      BY <2>4, <3>1, FramesMove
    <3> QED
      BY <1>0, <3>2 DEF Spares
  <2> QED
    BY <1>1, <1>3, <2>1, <2>2, <2>3, <2>4
<1>5. Leads(c, decoded)'
  BY <1>1, LeadsStays
<1>6. /\ \A i \in 1 .. k : frames'[i].mark = 0 /\ (KindOf(frames'[i]) = "struct" => frames'[i].step # NoStep)
      /\ \A i \in 1 .. k : c.frames[i] = frames'[i]
  BY <1>1, <1>3
<1> QED
  BY <1>1, <1>3, <1>4, <1>5, <1>6 DEF Behind, Spares, KindOf

(* decode returns through one more frame, and so does the error recorded.  *)
LEMMA ReturnsFurther ==
  ASSUME DecodeInv, Moves, IsSeq(collected), collected # << >>, UNCHANGED << root, in, decoded >>,
         NEW CONSTANT c, NEW CONSTANT k, Behind(c, k), ctl = "return", k = Len(frames),
         collected'[1] = StepAdded(Top, collected[1])
  PROVE  \E d : Behind(d, k - 1)'
<1>0. Len(collected) \in Nat \ {0}
  BY EmptySeq, SeqIsSeq DEF IsSeq
<1>1. /\ \A i \in 1 .. k : frames[i].mark = 0 /\ (KindOf(frames[i]) = "struct" => frames[i].step # NoStep)
      /\ c.ctl = "return" /\ c.st = collected[1] /\ Failed(c.st)
      /\ IsSeq(c.frames) /\ Len(c.frames) = k /\ \A i \in 1 .. k : c.frames[i] = frames[i]
      /\ Leads(c, decoded)
  BY DEF Behind
<1>2. /\ k \in Nat \ {0} /\ Len(frames') \in Nat /\ k - 1 <= Len(frames') /\ Len(frames') <= k
      /\ (ctl' = "loop" => Len(frames') = k)
      /\ \A i \in 1 .. k - 1 : frames'[i] = frames[i]
      /\ Len(frames') = k => frames'[k].step = NoStep \/ frames'[k].mark = Len(collected)
  BY FramesMove
<1>3. c.st # OK /\ c.frames # << >> /\ ~Ended(c) /\ TopOf(c.frames) = Top
  BY <1>1, <1>2, EmptySeq DEF Failed, OK, Err, Ended, TopOf, Top
<1>4. PICK d : d = After(c)
  OBVIOUS
<1>5. \E o : d = Quit(c, c.pos, c.depth, StepAdded(Top, c.st), o)
  BY <1>1, <1>3, <1>4 DEF After, AfterReturn, AfterFailed
<1>6. d.ctl = "return" /\ d.frames = Front(c.frames) /\ d.st = StepAdded(Top, c.st)
  BY <1>5 DEF Quit, State
<1>7. IsSeq(d.frames) /\ Len(d.frames) = k - 1 /\ \A i \in 1 .. k - 1 : d.frames[i] = c.frames[i]
  BY <1>1, <1>3, <1>6, FrontIsSeq
<1>8. d.st = collected'[1] /\ Failed(d.st)
  BY <1>1, <1>6, PushFailed DEF StepAdded
<1>9. Leads(d, decoded)'
  <2>1. Leads(d, decoded)
    BY <1>1, <1>3, <1>4, LeadsOn
  <2> QED
    BY <2>1, LeadsStays
<1>10. ASSUME NEW i \in k - 1 + 1 .. Len(frames') PROVE Spares(frames'[i])
  BY <1>0, <1>2 DEF Spares
<1>11. /\ \A i \in 1 .. k - 1 : frames'[i].mark = 0 /\ (KindOf(frames'[i]) = "struct" => frames'[i].step # NoStep)
       /\ \A i \in 1 .. k - 1 : d.frames[i] = frames'[i]
  BY <1>1, <1>2, <1>7
<1>12. k - 1 \in 0 .. Len(frames') /\ (ctl' = "loop" => k - 1 < Len(frames'))
  BY <1>2
<1>13. Behind(d, k - 1)'
  BY <1>6, <1>7, <1>8, <1>9, <1>10, <1>11, <1>12 DEF Behind, Spares, KindOf, Failed
<1> QED
  BY <1>13

-----------------------------------------------------------------------------
(* What a step does to the errors recorded.                                *)

(* A function on 1 .. n.                                                   *)
LEMMA FunctionIsSeq ==
  ASSUME NEW n \in Nat, NEW f, DOMAIN f = 1 .. n, f = [i \in 1 .. n |-> f[i]]
  PROVE  IsSeq(f) /\ Len(f) = n
<1>1. f \in [1 .. n -> Range(f)]
  BY DEF Range
<1> QED
  BY <1>1, SeqDef DEF IsSeq

(* annotate_collected keeps their number.                                  *)
LEMMA AnnotateIsSeq ==
  ASSUME IsSeq(collected)
  PROVE  IsSeq(Annotate) /\ Len(Annotate) = Len(collected) /\ (collected = << >> => Annotate = << >>)
<1>1. Len(collected) \in Nat /\ DOMAIN collected = 1 .. Len(collected)
  BY SeqIsSeq DEF IsSeq
<1>2. CASE Top.step = NoStep
  BY <1>2 DEF Annotate
<1>3. CASE Top.step # NoStep
  <2> DEFINE a == [i \in 1 .. Len(collected) |-> IF i > Top.mark THEN Push(collected[i], Top.step) ELSE collected[i]]
  <2>1. Annotate = a
    BY <1>1, <1>3 DEF Annotate, Annotated
  <2>2. DOMAIN a = 1 .. Len(collected) /\ a = [i \in 1 .. Len(collected) |-> a[i]]
    OBVIOUS
  <2> HIDE DEF a
  <2>3. IsSeq(a) /\ Len(a) = Len(collected)
    BY <1>1, <2>2, FunctionIsSeq
  <2>4. collected = << >> => a = << >>
    BY <2>3, EmptySeq DEF IsSeq
  <2> QED
    BY <2>1, <2>3, <2>4
<1> QED
  BY <1>2, <1>3

(* What it does to the first of them.                                      *)
LEMMA AnnotateFirst ==
  ASSUME IsSeq(collected), collected # << >>
  PROVE  /\ Len(collected) \in Nat \ {0}
         /\ Spares(Top) => Annotate[1] = collected[1]
         /\ Top.mark = 0 /\ (Kind = "struct" => Top.step # NoStep) => Annotate[1] = StepAdded(Top, collected[1])
<1>1. Len(collected) \in Nat \ {0} /\ 1 \in DOMAIN collected
  BY EmptySeq, SeqIsSeq DEF IsSeq
<1>2. CASE Top.step = NoStep
  BY <1>1, <1>2 DEF Annotate, Kind, KindOf, StepAdded
<1>3. CASE Top.step # NoStep
  <2>1. Annotate[1] = IF 1 > Top.mark THEN Push(collected[1], Top.step) ELSE collected[1]
    BY <1>1, <1>3 DEF Annotate, Annotated
  <2>2. StepAdded(Top, collected[1]) = Push(collected[1], Top.step)
    BY <1>3 DEF StepAdded
  <2>3. Spares(Top) => Top.mark \in Nat \ {0}
    BY <1>3 DEF Spares
  <2> QED
    BY <1>1, <2>1, <2>2, <2>3
<1> QED
  BY <1>2, <1>3

(* The errors about missing members.  SelectSeq returns a sequence.        *)
LEMMA MissingIsSeq ==
  /\ IsSeq([i \in DOMAIN Missing |-> MissingError(i)])
  /\ Len([i \in DOMAIN Missing |-> MissingError(i)]) = Len(Missing)
  /\ Missing # << >> => Len(Missing) \in Nat \ {0}
<1>1. DOMAIN Missing = 1 .. Len(Missing) /\ Len(Missing) \in Nat /\ (Missing # << >> => 1 \in DOMAIN Missing)
  BY DEF Missing
<1> DEFINE a == [i \in 1 .. Len(Missing) |-> MissingError(i)]
<1>2. DOMAIN a = 1 .. Len(Missing) /\ a = [i \in 1 .. Len(Missing) |-> a[i]]
  OBVIOUS
<1>3. [i \in DOMAIN Missing |-> MissingError(i)] = a
  BY <1>1
<1> HIDE DEF a
<1>4. IsSeq(a) /\ Len(a) = Len(Missing)
  BY <1>1, <1>2, FunctionIsSeq
<1> QED
  BY <1>1, <1>3, <1>4

(* In the loops, errors are added at the end.                              *)
LEMMA LoopRecords ==
  ASSUME IsSeq(collected),
         \/ Unexpected \/ Scalar \/ Null \/ Emplace \/ Transparent \/ Enter
         \/ Cut \/ SeqElement \/ SeqEnd \/ TupleElement \/ TupleExtra \/ TupleEnd
         \/ NonTextKey \/ MapEntry \/ MapDuplicate \/ MapEnd
         \/ HugeKey \/ UnknownField \/ DuplicateField \/ SkipField \/ Field \/ StructEnd
         \/ VariantTag \/ VariantSkip \/ VariantRefused \/ VariantChosen \/ VariantValue \/ VariantEnd
  PROVE  /\ IsSeq(collected') /\ (collected # << >> => collected' # << >> /\ collected'[1] = collected[1])
         /\ ctl # "return" /\ UNCHANGED << root, in, mode, decoded >>
<1>0. UNCHANGED << root, in, mode, decoded >>
  BY DEF Unexpected, Scalar, Null, Emplace, Transparent, Enter, Cut, SeqElement, SeqEnd, TupleElement, TupleExtra,
         TupleEnd, NonTextKey, MapEntry, MapDuplicate, MapEnd, HugeKey, UnknownField, DuplicateField, SkipField, Field,
         StructEnd, VariantTag, VariantSkip, VariantRefused, VariantChosen, VariantValue, VariantEnd, call
<1>1. ctl # "return"
  BY DEF Unexpected, Scalar, Null, Emplace, Transparent, Enter, Cut, SeqElement, SeqEnd, TupleElement, TupleExtra,
         TupleEnd, NonTextKey, MapEntry, MapDuplicate, MapEnd, HugeKey, UnknownField, DuplicateField, SkipField, Field,
         StructEnd, VariantTag, VariantSkip, VariantRefused, VariantChosen, VariantValue, VariantEnd, At, AtKey
<1> DEFINE a == [i \in DOMAIN Missing |-> MissingError(i)]
<1>2. UNCHANGED collected \/ (\E e : collected' = Append(collected, e)) \/ collected' = collected \o a
  <2>1. CASE UnknownField \/ DuplicateField
    BY <2>1, Zenon DEF UnknownField, DuplicateField, Report
  <2>2. CASE StructEnd
    BY <2>2 DEF StructEnd
  <2>3. CASE ~(UnknownField \/ DuplicateField \/ StructEnd)
    BY <2>3 DEF Unexpected, Scalar, Null, Emplace, Transparent, Enter, Cut, SeqElement, SeqEnd, TupleElement,
         TupleExtra, TupleEnd, NonTextKey, MapEntry, MapDuplicate, MapEnd, HugeKey, SkipField, Field,
         VariantTag, VariantSkip, VariantRefused, VariantChosen, VariantValue, VariantEnd
  <2> QED
    BY <2>1, <2>2, <2>3
<1>3. IsSeq(a)
  BY MissingIsSeq
<1> HIDE DEF a
<1>4. collected # << >> => Len(collected) \in Nat \ {0}
  BY EmptySeq, SeqIsSeq DEF IsSeq
<1>5. CASE UNCHANGED collected
  BY <1>0, <1>1, <1>5
<1>6. CASE \E e : collected' = Append(collected, e)
  BY <1>0, <1>1, <1>4, <1>6, AppendIsSeq
<1>7. CASE collected' = collected \o a
  <2>1. IsSeq(collected') /\ Len(collected') = Len(collected) + Len(a) /\ Len(a) \in Nat
    BY <1>3, <1>7, ConcatIsSeq
  <2>2. ASSUME collected # << >> PROVE collected' # << >> /\ collected'[1] = collected[1]
    <3> DEFINE U == Range(collected) \cup Range(a)
    <3>1. collected \in Seq(U) /\ a \in Seq(U)
      BY <1>3, SeqMonotonic DEF IsSeq
    <3> HIDE DEF U
    <3>2. collected'[1] = collected[1]
      BY <1>4, <1>7, <2>2, <3>1, ConcatProperties
    <3> QED
      BY <1>4, <2>1, <2>2, <3>2, EmptySeq
  <2> QED
    BY <1>0, <1>1, <2>1, <2>2
<1> QED
  BY <1>2, <1>5, <1>6, <1>7

(* A run of decode_all that has recorded errors.                           *)
LEMMA BehindLoop ==
  ASSUME DecodeInv, Moves, IsSeq(collected), collected # << >>, \E c, k : Behind(c, k),
         ctl # "return", UNCHANGED << root, in, decoded >>, collected'[1] = collected[1]
  PROVE  \E c, k : Behind(c, k)'
<1>1. PICK c, k : Behind(c, k)
  OBVIOUS
<1>2. Behind(c, k)'
  BY <1>1, BehindStep
<1> QED
  BY <1>2

(* A frame takes a status: it is above those of decode's error, or the     *)
(* innermost of them.                                                      *)
LEMMA BehindReturn ==
  ASSUME DecodeInv, IsSeq(collected), collected # << >>, \E c, k : Behind(c, k),
         ChildFailed \/ ChildDecoded \/ FieldDecoded \/ FieldFailed \/ FieldRecovered
  PROVE  IsSeq(collected') /\ collected' # << >> /\ \E c, k : Behind(c, k)'
<1>0. Moves /\ UNCHANGED << root, in, decoded >> /\ ctl = "return" /\ frames # << >>
  BY ReturnMoves DEF ChildFailed, ChildDecoded, FieldDecoded, FieldFailed, FieldRecovered, call
<1>1. IsSeq(Annotate) /\ Len(Annotate) = Len(collected) /\ Len(collected) \in Nat \ {0}
  BY AnnotateIsSeq, AnnotateFirst
<1>2. IsSeq(collected') /\ collected' # << >> /\ collected'[1] = Annotate[1]
  <2>1. CASE collected' = Annotate
    BY <1>1, <2>1, EmptySeq
  <2>2. CASE \E e : collected' = Append(Annotate, e)
    BY <1>1, <2>2, AppendIsSeq
  <2> QED
    BY <2>1, <2>2, ReturnMoves
<1>3. PICK c, k : Behind(c, k)
  OBVIOUS
<1>4. Len(frames) \in Nat \ {0} /\ k \in 0 .. Len(frames)
  BY <1>0, <1>3, FramesMove DEF Behind
<1>5. CASE k < Len(frames)
  <2>1. Spares(Top)
    BY <1>3, <1>4, <1>5 DEF Behind, Top
  <2>2. collected'[1] = collected[1]
    BY <1>2, <2>1, AnnotateFirst
  <2>3. Behind(c, k)'
    BY <1>0, <1>3, <1>5, <2>2, BehindStep
  <2> QED
    BY <1>2, <2>3
<1>6. CASE k = Len(frames)
  <2>1. Top.mark = 0 /\ (Kind = "struct" => Top.step # NoStep)
    BY <1>3, <1>4, <1>6 DEF Behind, Top, Kind, KindOf
  <2>2. collected'[1] = StepAdded(Top, collected[1])
    BY <1>2, <2>1, AnnotateFirst
  <2>3. PICK d : Behind(d, k - 1)'
    BY <1>0, <1>3, <1>6, <2>2, ReturnsFurther
  <2> QED
    BY <1>2, <2>3
<1> QED
  BY <1>4, <1>5, <1>6

(* The first error: decode returns it from the innermost frame, decode_all *)
(* records it and goes on in that frame, or leaves it for another error.   *)
LEMMA FirstRecorded ==
  ASSUME DecodeInv, Moves, Clean, ctl # "call", UNCHANGED << root, in, decoded >>,
         Leads(Now, decoded), NEW e, Failed(e), NEW p, NEW d, NEW o,
         After(Now) = Quit(Now, p, d, e, o), IsSeq(collected'), collected' # << >>, collected'[1] = e,
         frames' = Front(frames) \/ \E f : frames' = Replaced(frames, f) /\ Spares(f)
  PROVE  \E c, k : Behind(c, k)'
<1> DEFINE k == Len(frames) - 1
<1>1. /\ frames # << >> /\ IsSeq(frames) /\ k \in Nat /\ Len(frames') \in Nat
      /\ k <= Len(frames') /\ Len(frames') <= k + 1
      /\ (ctl' = "loop" => Len(frames') = k + 1)
      /\ \A i \in 1 .. k : frames'[i] = frames[i]
  BY FramesMove
<1>2. Len(frames') = k + 1 => Spares(frames'[k + 1])
  <2>1. Len(Front(frames)) = k
    BY <1>1, FrontIsSeq
  <2>2. ASSUME Len(frames') = k + 1 PROVE Spares(frames'[k + 1])
    <3>1. PICK f : frames' = Replaced(frames, f) /\ Spares(f)
      BY <1>1, <2>1, <2>2
    <3>2. frames'[Len(frames)] = f
      <4> DEFINE r == [frames EXCEPT ![Len(frames)] = f]
      <4>1. r[Len(frames)] = f
        BY <1>1, ReplaceIsSeq
      <4>2. frames' = r
        BY <3>1 DEF Replaced
      <4> HIDE DEF r
      <4> QED
        BY <4>1, <4>2
    <3> QED
      BY <1>1, <3>1, <3>2
  <2> QED
    BY <2>2
<1>3. PICK c : c = After(Now)
  OBVIOUS
<1>4. c.ctl = "return" /\ c.frames = Front(frames) /\ c.st = collected'[1] /\ Failed(c.st)
  BY <1>3, NowIs DEF Quit, State
<1>5. IsSeq(c.frames) /\ Len(c.frames) = k /\ \A i \in 1 .. k : c.frames[i] = frames[i]
  BY <1>1, <1>4, FrontIsSeq
<1>6. ~Ended(Now)
  BY <1>1, NowIs DEF Ended
<1>7. Leads(c, decoded)'
  <2>1. Leads(c, decoded)
    BY <1>3, <1>6, LeadsOn
  <2> QED
    BY <2>1, LeadsStays
<1>8. ASSUME NEW i \in 1 .. k
      PROVE  /\ frames'[i].mark = 0 /\ (KindOf(frames'[i]) = "struct" => frames'[i].step # NoStep)
             /\ c.frames[i] = frames'[i]
  <2>1. i \in 1 .. Len(frames) /\ i < Len(frames) /\ frames'[i] = frames[i]
    BY <1>1
  <2> QED
    BY <1>5, <2>1 DEF Clean
<1>9. ASSUME NEW i \in k + 1 .. Len(frames') PROVE Spares(frames'[i])
  BY <1>1, <1>2
<1>10. k \in 0 .. Len(frames') /\ (ctl' = "loop" => k < Len(frames'))
  BY <1>1
<1>11. PICK n : n = k
  OBVIOUS
<1> HIDE DEF k
<1>12. Behind(c, n)'
  BY <1>4, <1>5, <1>7, <1>8, <1>9, <1>10, <1>11 DEF Behind, Spares, KindOf, Failed
<1> QED
  BY <1>12

(* One error is recorded.                                                  *)
LEMMA OneRecorded ==
  ASSUME NEW e
  PROVE  IsSeq(Append(<< >>, e)) /\ Append(<< >>, e) # << >> /\ Append(<< >>, e)[1] = e
<1>1. PICK z : z = << >>
  OBVIOUS
<1>2. IsSeq(z) /\ Len(z) = 0
  BY <1>1, EmptySeq, SeqIsSeq
<1>3. IsSeq(Append(z, e)) /\ Append(z, e) # << >> /\ Append(z, e)[Len(z) + 1] = e
  BY <1>2, AppendIsSeq
<1>4. Append(z, e)[1] = e
  BY <1>2, <1>3
<1> QED
  BY <1>1, <1>3, <1>4, Zenon

(* An unknown or a repeated field.                                         *)
LEMMA ReportDiverges ==
  ASSUME DecodeInv, collected = << >>, mode = "collect", Clean, Leads(Now, decoded),
         UnknownField \/ DuplicateField
  PROVE  IsSeq(collected') /\ collected' # << >> /\ \E c, k : Behind(c, k)'
<1>1. PICK e : /\ Failed(e) /\ Report(e) /\ After(Now) = Fail(Now, e)
               /\ ctl = "loop" /\ UNCHANGED << call, out >>
  BY ReportNow
<1>2. collected' = Append(<< >>, e) /\ SkipThenLoop(pos + 1, Top)
  BY <1>1 DEF Report
<1>4. IsSeq(collected') /\ collected' # << >> /\ collected'[1] = e
  BY <1>2, OneRecorded
<1>5. Spares(Top)
  BY <1>1, InLoop DEF Spares
<1>6. frames' = Front(frames) \/ \E f : frames' = Replaced(frames, f) /\ Spares(f)
  BY <1>2, <1>5 DEF SkipThenLoop, Update, Leave, Replaced
<1>7. Moves /\ UNCHANGED << root, in, decoded >>
  BY <1>1, MemberMoves DEF call
<1>8. \E c, k : Behind(c, k)'
  BY <1>1, <1>4, <1>6, <1>7, FirstRecorded DEF Fail
<1> QED
  BY <1>4, <1>8

(* A member that failed.                                                   *)
LEMMA RecoveryDiverges ==
  ASSUME DecodeInv, collected = << >>, Clean, Leads(Now, decoded), FieldRecovered
  PROVE  IsSeq(collected') /\ collected' # << >> /\ \E c, k : Behind(c, k)'
<1>1. ctl = "return" /\ frames # << >> /\ st # OK /\ Kind = "struct" /\ UNCHANGED << root, in, decoded >>
  BY DEF FieldRecovered, call
<1>2. PICK o : After(Now) = Quit(Now, pos, depth, StepAdded(Top, st), o)
  BY FailedNow
<1>3. IsSeq(<< >>) /\ Len(<< >>) = 0
  BY EmptySeq, SeqIsSeq
<1>4. Annotate = << >>
  BY <1>3, AnnotateIsSeq
<1>5. StepAdded(Top, st) = Push(st, Top.step)
  BY <1>1 DEF StepAdded, Kind, KindOf
<1>6. collected' = Append(<< >>, StepAdded(Top, st))
  BY <1>4, <1>5 DEF FieldRecovered
<1>7. IsSeq(collected') /\ collected' # << >> /\ collected'[1] = StepAdded(Top, st)
  BY <1>6, OneRecorded
<1>8. Failed(StepAdded(Top, st))
  BY <1>1, <1>5, AtReturn, PushFailed
<1> DEFINE g == [Top EXCEPT !.step = NoStep]
<1>9. g.step = NoStep
  BY <1>1, TopFields DEF FrameFields
<1>10. frames' = Front(frames) \/ frames' = Replaced(frames, g)
  BY DEF FieldRecovered, Update, Leave, Replaced
<1> HIDE DEF g
<1>11. frames' = Front(frames) \/ \E f : frames' = Replaced(frames, f) /\ Spares(f)
  BY <1>9, <1>10 DEF Spares
<1>12. Moves
  BY ReturnMoves
<1>13. \E c, k : Behind(c, k)'
  BY <1>1, <1>2, <1>7, <1>8, <1>11, <1>12, FirstRecorded
<1> QED
  BY <1>7, <1>13

(* A struct with members missing; the others end as in decode.             *)
LEMMA EndDiverges ==
  ASSUME DecodeInv, collected = << >>, mode = "collect", Clean, Leads(Now, decoded), StructEnd
  PROVE  /\ Missing = << >> => Now' = After(Now) /\ collected' = << >>
         /\ Missing # << >> => IsSeq(collected') /\ collected' # << >> /\ \E c, k : Behind(c, k)'
<1> DEFINE a == [i \in DOMAIN Missing |-> MissingError(i)]
<1>1. /\ ctl = "loop" /\ Kind = "struct"
      /\ After(Now) = Quit(Now, pos', depth', IF Missing = << >> THEN OK ELSE MissingError(1), out')
  BY StructEndNow
<1>2. collected' = << >> \o a /\ Leave(OK) /\ UNCHANGED << root, in, decoded >>
  BY DEF StructEnd, call
<1>3. IsSeq(a) /\ Len(a) = Len(Missing)
  BY MissingIsSeq
<1>4. Missing # << >> => Len(Missing) \in Nat \ {0} /\ a[1] = MissingError(1)
  <2>1. Missing # << >> => 1 \in DOMAIN Missing
    BY DEF Missing
  <2> QED
    BY <2>1, MissingIsSeq
<1>5. Missing = << >> => a = << >>
  OBVIOUS
<1> HIDE DEF a
<1>6. collected' = a
  BY <1>2, <1>3, ConcatEmptySeq DEF IsSeq
<1>7. ASSUME Missing = << >> PROVE Now' = After(Now) /\ collected' = << >>
  BY <1>1, <1>2, <1>5, <1>6, <1>7, QuitNow
<1>8. ASSUME Missing # << >> PROVE IsSeq(collected') /\ collected' # << >> /\ \E c, k : Behind(c, k)'
  <2>1. IsSeq(collected') /\ collected' # << >> /\ collected'[1] = MissingError(1)
    BY <1>3, <1>4, <1>6, <1>8, EmptySeq
  <2>2. Failed(MissingError(1))
    BY DEF MissingError, Failed, Err
  <2>3. frames' = Front(frames) /\ Moves
    BY <1>2, MemberMoves DEF Leave
  <2>4. \E c, k : Behind(c, k)'
    BY <1>1, <1>2, <1>8, <2>1, <2>2, <2>3, FirstRecorded
  <2> QED
    BY <2>1, <2>4
<1> QED
  BY <1>7, <1>8

-----------------------------------------------------------------------------
(* Every step keeps the invariant.                                         *)

(* The steps of a run that record nothing on their own account.            *)
Plain ==
  \/ Unexpected \/ Scalar \/ Null \/ Emplace \/ Transparent \/ Enter
  \/ Cut \/ SeqElement \/ SeqEnd \/ TupleElement \/ TupleExtra \/ TupleEnd
  \/ NonTextKey \/ MapEntry \/ MapDuplicate \/ MapEnd
  \/ HugeKey \/ SkipField \/ Field
  \/ VariantTag \/ VariantSkip \/ VariantRefused \/ VariantChosen \/ VariantValue \/ VariantEnd

Takes == ChildFailed \/ ChildDecoded \/ FieldDecoded \/ FieldFailed

Diverging == UnknownField \/ DuplicateField \/ FieldRecovered \/ StructEnd

(* They all move the frames, and are steps within a call.                  *)
LEMMA WorkMoves ==
  ASSUME DecodeInv, Plain \/ Takes \/ Diverging
  PROVE  Moves /\ ~Ended(Now) /\ ctl' # "done" /\ UNCHANGED << root, in, mode, decoded >>
<1>1. Moves
  <2>1. CASE Plain
    BY <2>1, CallMoves, EntryMoves, MemberMoves, VariantMoves DEF Plain
  <2>2. CASE Takes \/ Diverging
    BY <2>2, ReturnMoves, MemberMoves DEF Takes, Diverging
  <2> QED
    BY <2>1, <2>2
<1>2. ~Ended(Now)
  BY <1>1, NowIs DEF Moves, Ended
<1>3. ctl' # "done"
  <2>1. CASE Plain
    BY <2>1 DEF Plain, Unexpected, Scalar, Null, Emplace, Transparent, Enter, Cut, SeqElement, SeqEnd, TupleElement,
         TupleExtra, TupleEnd, NonTextKey, MapEntry, MapDuplicate, MapEnd, HugeKey, SkipField, Field,
         VariantTag, VariantSkip, VariantRefused, VariantChosen, VariantValue, VariantEnd,
         Leave, Returning, Looping, Calling, Child, SkipThenLoop
  <2>2. CASE Takes \/ Diverging
    BY <2>2 DEF Takes, Diverging, ChildFailed, ChildDecoded, FieldDecoded, FieldFailed, FieldRecovered,
         UnknownField, DuplicateField, StructEnd, Report, Leave, Returning, Looping, SkipThenLoop
  <2> QED
    BY <2>1, <2>2
<1>4. UNCHANGED << root, in, mode, decoded >>
  BY DEF Plain, Unexpected, Scalar, Null, Emplace, Transparent, Enter, Cut, SeqElement, SeqEnd, TupleElement,
         TupleExtra, TupleEnd, NonTextKey, MapEntry, MapDuplicate, MapEnd, HugeKey, SkipField, Field,
         VariantTag, VariantSkip, VariantRefused, VariantChosen, VariantValue, VariantEnd,
         Takes, Diverging, ChildFailed, ChildDecoded, FieldDecoded, FieldFailed, FieldRecovered,
         UnknownField, DuplicateField, StructEnd, call
<1> QED
  BY <1>1, <1>2, <1>3, <1>4

(* As long as nothing is recorded, they are the steps of the computation.  *)
LEMMA QuietNow ==
  ASSUME DecodeInv, collected = << >>, Plain \/ Takes \/ (Diverging /\ mode = "fail_fast")
  PROVE  Now' = After(Now) /\ collected' = << >>
<1>1. CASE Plain
  <2>1. Now' = After(Now)
    BY <1>1, CallNow, SeqNow, MapNow, FieldNow, VariantNow DEF Plain
  <2>2. collected' = collected
    BY <1>1 DEF Plain, Unexpected, Scalar, Null, Emplace, Transparent, Enter, Cut, SeqElement, SeqEnd, TupleElement,
         TupleExtra, TupleEnd, NonTextKey, MapEntry, MapDuplicate, MapEnd, HugeKey, SkipField, Field,
         VariantTag, VariantSkip, VariantRefused, VariantChosen, VariantValue, VariantEnd
  <2> QED
    BY <2>1, <2>2
<1>2. CASE Takes
  <2>1. Now' = After(Now)
    BY <1>2, ReturnNow DEF Takes
  <2>2. IsSeq(collected)
    BY EmptySeq, SeqIsSeq
  <2>3. collected' = Annotate
    BY <1>2 DEF Takes, ChildFailed, ChildDecoded, FieldDecoded, FieldFailed
  <2> QED
    BY <2>1, <2>2, <2>3, AnnotateIsSeq
<1>3. CASE (UnknownField \/ DuplicateField) /\ mode = "fail_fast"
  <2>1. PICK e : Report(e) /\ After(Now) = Fail(Now, e) /\ UNCHANGED << call, out >>
    BY <1>3, ReportNow
  <2>2. Leave(e) /\ UNCHANGED << pos, depth, collected >>
    BY <1>3, <2>1 DEF Report, reader
  <2> QED
    BY <2>1, <2>2, QuitNow, NowIs DEF Fail
<1>4. CASE FieldRecovered /\ mode = "fail_fast"
  BY <1>4 DEF FieldRecovered, Recoverable
<1>5. CASE StructEnd /\ mode = "fail_fast"
  <2>1. Leave(IF Missing = << >> THEN OK ELSE MissingError(1)) /\ UNCHANGED collected
    BY <1>5 DEF StructEnd
  <2> QED
    BY <1>5, <2>1, QuitNow, StructEndNow
<1> QED
  BY <1>1, <1>2, <1>3, <1>4, <1>5 DEF Diverging

(* A step before the first error.                                          *)
LEMMA QuietStep ==
  ASSUME DecodeInv, AgreeInv, collected = << >>, Plain \/ Takes \/ Diverging,
         Now' = After(Now), collected' = << >>
  PROVE  AgreeInv'
<1>1. /\ Moves /\ ~Ended(Now) /\ ctl' # "done" /\ UNCHANGED << root, in, mode, decoded >>
  BY WorkMoves
<1>2. ctl # "done"
  BY <1>1 DEF Moves
<1>3. Clean'
  BY <1>1, <1>2, CleanStep DEF AgreeInv
<1>4. mode = "collect" => Leads(Now, decoded)'
  BY <1>1, <1>2, FollowStep DEF AgreeInv
<1>5. mode = "fail_fast" => Brings(Begin, Now)'
  BY <1>1, FollowStep DEF AgreeInv
<1>6. IsSeq(collected')
  BY EmptySeq, SeqIsSeq
<1>7. FirstErrorAgrees'
  BY <1>1 DEF FirstErrorAgrees, Finished
<1>8. mode' = mode /\ mode \in {"fail_fast", "collect"}
  BY <1>1 DEF AgreeInv
<1> QED
  BY <1>1, <1>3, <1>4, <1>5, <1>6, <1>7, <1>8 DEF AgreeInv, IsSeq

(* The step of the first error, and those after it.                        *)
LEMMA AheadStep ==
  ASSUME DecodeInv, AgreeInv, mode = "collect", Plain \/ Takes \/ Diverging,
         IsSeq(collected'), collected' # << >>, \E c, k : Behind(c, k)'
  PROVE  AgreeInv'
<1>1. ctl' # "done" /\ UNCHANGED << root, in, mode, decoded >>
  BY WorkMoves
<1>2. FirstErrorAgrees'
  BY <1>1 DEF FirstErrorAgrees, Finished
<1> QED
  BY <1>1, <1>2 DEF AgreeInv, IsSeq

(* Every step within a call.                                               *)
LEMMA WorkStep ==
  ASSUME DecodeInv, AgreeInv, Plain \/ Takes \/ Diverging
  PROVE  AgreeInv'
<1>1. /\ Moves /\ ~Ended(Now) /\ ctl' # "done" /\ UNCHANGED << root, in, mode, decoded >>
  BY WorkMoves
<1>2. ctl # "done" /\ IsSeq(collected) /\ mode \in {"fail_fast", "collect"}
  BY <1>1 DEF Moves, AgreeInv
<1>3. CASE collected = << >> /\ (Plain \/ Takes \/ (Diverging /\ mode = "fail_fast"))
  BY <1>3, QuietNow, QuietStep
<1>4. CASE collected = << >> /\ Diverging /\ mode = "collect"
  <2>1. Clean /\ Leads(Now, decoded)
    BY <1>2, <1>4 DEF AgreeInv
  <2>2. CASE UnknownField \/ DuplicateField
    BY <1>4, <2>1, <2>2, ReportDiverges, AheadStep
  <2>3. CASE FieldRecovered
    BY <1>4, <2>1, <2>3, RecoveryDiverges, AheadStep
  <2>4. CASE StructEnd /\ Missing = << >>
    BY <1>4, <2>1, <2>4, EndDiverges, QuietStep
  <2>5. CASE StructEnd /\ Missing # << >>
    BY <1>4, <2>1, <2>5, EndDiverges, AheadStep
  <2> QED
    BY <1>4, <2>2, <2>3, <2>4, <2>5 DEF Diverging
<1>5. CASE collected # << >>
  <2>1. mode = "collect" /\ \E c, k : Behind(c, k)
    BY <1>2, <1>5 DEF AgreeInv
  <2>2. CASE Plain \/ UnknownField \/ DuplicateField \/ StructEnd
    <3>1. IsSeq(collected') /\ collected' # << >> /\ collected'[1] = collected[1] /\ ctl # "return"
      BY <1>2, <1>5, <2>2, LoopRecords DEF Plain
    <3>2. \E c, k : Behind(c, k)'
      BY <1>1, <1>2, <1>5, <2>1, <3>1, BehindLoop
    <3> QED
      BY <2>1, <3>1, <3>2, AheadStep
  <2>3. CASE Takes \/ FieldRecovered
    <3>1. IsSeq(collected') /\ collected' # << >> /\ \E c, k : Behind(c, k)'
      BY <1>2, <1>5, <2>1, <2>3, BehindReturn DEF Takes
    <3> QED
      BY <2>1, <3>1, AheadStep
  <2> QED
    BY <2>2, <2>3 DEF Diverging
<1> QED
  BY <1>2, <1>3, <1>4, <1>5

(* decode returns: its outcome is that of the beginning, where decode_all  *)
(* starts.                                                                 *)
LEMMA DecodeReturnsStep ==
  ASSUME DecodeInv, AgreeInv, DecodeReturns
  PROVE  AgreeInv'
<1>1. /\ ctl = "return" /\ frames = << >> /\ mode = "fail_fast" /\ mode' = "collect" /\ ctl' = "call"
      /\ frames' = << >> /\ UNCHANGED << root, in, collected >>
  BY DEF DecodeReturns
<1>2. collected = << >> /\ Brings(Begin, Now)
  BY <1>1 DEF AgreeInv
<1>3. PICK v : v = decoded'
  OBVIOUS
<1>4. PICK c : c = Now'
  OBVIOUS
<1>5. c = Begin
  BY <1>1, <1>4 DEF DecodeReturns, Now, Begin
<1>6. Ended(Now) /\ v = OutcomeOf(Now)
  BY <1>1, <1>3, NowIs DEF DecodeReturns, Ended, OutcomeOf, Status, AtEnd
<1>7. Leads(Now, v)
  BY <1>6, LeadsEnd
<1>8. Leads(c, v)
  BY <1>2, <1>5, <1>7 DEF Brings
<1>9. Leads(Now, decoded)'
  BY <1>1, <1>3, <1>4, <1>8, LeadsNow
<1>10. Clean'
  <2>1. Len(frames') = 0
    BY <1>1, EmptySeq
  <2> QED
    BY <2>1 DEF Clean
<1>11. IsSeq(collected') /\ collected' = << >>
  BY <1>1, <1>2, EmptySeq, SeqIsSeq
<1>12. FirstErrorAgrees'
  BY <1>1 DEF FirstErrorAgrees, Finished
<1> QED
  BY <1>1, <1>9, <1>10, <1>11, <1>12 DEF AgreeInv, IsSeq

(* decode_all returns: without errors it is in the last state of decode,   *)
(* otherwise decode has returned the first one through all frames.         *)
LEMMA DecodeAllReturnsStep ==
  ASSUME DecodeInv, AgreeInv, DecodeAllReturns
  PROVE  AgreeInv'
<1> DEFINE a == [i \in DOMAIN collected |-> Finalize(collected[i])]
           b == IF Status = OK THEN << >> ELSE << Status >>
<1>1. /\ ctl = "return" /\ frames = << >> /\ mode = "collect" /\ mode' = "collect" /\ ctl' = "done"
      /\ collected' = a \o b /\ UNCHANGED << decoded, out >>
  BY DEF DecodeAllReturns, call
<1>2. /\ IsSeq(collected) /\ (collected = << >> => Leads(Now, decoded))
      /\ (collected # << >> => \E c, k : Behind(c, k))
  BY <1>1 DEF AgreeInv
<1>3. Len(collected) \in Nat /\ DOMAIN collected = 1 .. Len(collected)
  BY <1>2, SeqIsSeq DEF IsSeq
<1>4. IsSeq(a) /\ Len(a) = Len(collected)
  <2>1. DOMAIN a = 1 .. Len(collected) /\ a = [i \in 1 .. Len(collected) |-> a[i]]
    BY <1>3
  <2> HIDE DEF a
  <2> QED
    BY <1>3, <2>1, FunctionIsSeq
<1>5. IsSeq(b)
  <2>1. IsSeq(<< >>)
    BY EmptySeq, SeqIsSeq
  <2>2. << Status >> \in Seq({Status})
    OBVIOUS
  <2>3. IsSeq(<< Status >>)
    BY <2>2, SeqIsSeq
  <2> QED
    BY <2>1, <2>3
<1>6. CASE collected = << >>
  <2>1. Ended(Now) /\ OutcomeOf(Now) = [st |-> Status, out |-> out]
    BY <1>1, NowIs DEF Ended, OutcomeOf, Status, AtEnd
  <2>2. decoded = [st |-> Status, out |-> out]
    BY <1>2, <1>6, <2>1, LeadsEnd
  <2>3. a = << >>
    BY <1>6
  <2>4. collected' = b
    <3> HIDE DEF a, b
    <3> QED
      BY <1>1, <1>5, <2>3, ConcatEmptySeq DEF IsSeq
  <2>5. decoded'.st = Status /\ decoded'.out = out /\ out' = out
    BY <1>1, <2>2
  <2>6. CASE Status = OK
    <3>1. collected' = << >>
      BY <2>4, <2>6
    <3>2. decoded'.st = OK'
      BY <2>5, <2>6 DEF OK, Err
    <3>3. FirstErrorAgrees'
      BY <2>5, <3>1, <3>2 DEF FirstErrorAgrees
    <3> QED
      BY <1>1, <3>3 DEF AgreeInv
  <2>7. CASE Status # OK
    <3>1. collected' = << Status >>
      BY <2>4, <2>7
    <3>2. collected' # << >> /\ collected'[1] = Status
      BY <3>1
    <3>3. decoded'.st # OK'
      BY <2>5, <2>7 DEF OK, Err
    <3>4. FirstErrorAgrees'
      BY <2>5, <3>2, <3>3 DEF FirstErrorAgrees
    <3> QED
      BY <1>1, <3>4 DEF AgreeInv
  <2> QED
    BY <2>6, <2>7
<1>7. CASE collected # << >>
  <2>1. Len(collected) \in Nat \ {0} /\ 1 \in DOMAIN collected
    BY <1>2, <1>3, <1>7, EmptySeq DEF IsSeq
  <2>2. a[1] = Finalize(collected[1])
    BY <2>1
  <2>3. PICK c, k : Behind(c, k)
    BY <1>2, <1>7
  <2>4. k = 0
    <3>1. Len(frames) = 0
      BY <1>1, EmptySeq
    <3> QED
      BY <2>3, <3>1 DEF Behind
  <2>5. c.frames = << >> /\ c.ctl = "return" /\ c.st = collected[1] /\ Failed(c.st) /\ Leads(c, decoded)
    BY <2>3, <2>4, EmptySeq DEF Behind, IsSeq
  <2>6. c.st # OK /\ Finalize(c.st) # OK
    BY <2>5 DEF Failed, Finalize, OK, Err
  <2>7. decoded = OutcomeOf(c)
    BY <2>5, LeadsEnd DEF Ended
  <2>8. decoded.st = Finalize(collected[1]) /\ decoded.st # OK
    BY <2>5, <2>6, <2>7 DEF OutcomeOf
  <2> HIDE DEF a, b
  <2>9. collected' # << >> /\ collected'[1] = a[1]
    <3> DEFINE U == Range(a) \cup Range(b)
    <3>1. a \in Seq(U) /\ b \in Seq(U)
      BY <1>4, <1>5, SeqMonotonic DEF IsSeq
    <3> HIDE DEF U
    <3>2. Len(b) \in Nat
      BY <3>1, LenProperties
    <3>3. Len(a \o b) = Len(a) + Len(b)
      BY <3>1, ConcatProperties
    <3>4. 1 \in 1 .. Len(a) + Len(b) /\ 1 <= Len(a)
      BY <1>4, <2>1, <3>2
    <3>5. (a \o b)[1] = a[1]
      BY <3>1, <3>4, ConcatProperties
    <3>6. a \o b # << >>
      BY <1>4, <2>1, <3>2, <3>3, EmptySeq
    <3> QED
      BY <1>1, <3>5, <3>6
  <2>10. FirstErrorAgrees'
    BY <1>1, <2>2, <2>8, <2>9 DEF FirstErrorAgrees
  <2> QED
    BY <1>1, <2>10 DEF AgreeInv
<1> QED
  BY <1>6, <1>7

(* The invariant holds at first.                                           *)
LEMMA AgreeInit == Init => AgreeInv
<1> SUFFICES ASSUME Init PROVE AgreeInv
  OBVIOUS
<1>1. collected = << >> /\ frames = << >> /\ mode = "fail_fast" /\ ctl = "call"
  BY DEF Init
<1>2. IsSeq(collected) /\ Len(frames) = 0
  BY <1>1, EmptySeq, SeqIsSeq
<1>3. Now = Begin
  BY DEF Init, Now, Begin
<1>4. Brings(Begin, Now)
  BY <1>3 DEF Brings
<1>5. Clean
  BY <1>2 DEF Clean
<1> QED
  BY <1>1, <1>2, <1>4, <1>5 DEF AgreeInv, FirstErrorAgrees, Finished

(* Every step keeps the invariant.                                         *)
LEMMA AgreeStep == DecodeInv /\ AgreeInv /\ [Next]_vars => AgreeInv'
<1> SUFFICES ASSUME DecodeInv, AgreeInv, [Next]_vars PROVE AgreeInv'
  OBVIOUS
<1>1. CASE Plain \/ Takes \/ Diverging
  BY <1>1, WorkStep
<1>2. CASE DecodeReturns
  BY <1>2, DecodeReturnsStep
<1>3. CASE DecodeAllReturns
  BY <1>3, DecodeAllReturnsStep
<1>4. CASE UNCHANGED vars
  <2>1. UNCHANGED << root, in, mode, pos, depth, frames, ctl, type, st, collected, out, decoded >>
    BY <1>4 DEF vars
  <2>2. Now' = Now
    BY <2>1 DEF Now
  <2>3. PICK v : v = decoded'
    OBVIOUS
  <2>4. PICK c : c = Now'
    OBVIOUS
  <2>5. Leads(Now, decoded)' <=> Leads(Now, decoded)
    BY <2>1, <2>2, <2>3, <2>4, LeadsNow
  <2>6. Brings(Begin, Now) => Brings(Begin, Now)'
    <3> SUFFICES ASSUME Brings(Begin, Now), NEW CONSTANT w, Leads(Now, w)' PROVE Leads(Begin, w)'
      BY DEF Brings
    <3>1. Leads(c, w)
      BY <2>1, <2>4, LeadsNow
    <3>2. Leads(Begin, w)
      BY <2>2, <2>4, <3>1 DEF Brings
    <3> QED
      BY <2>1, <3>2, BeginFixed
  <2>7. ASSUME NEW CONSTANT d, NEW CONSTANT k, Behind(d, k) PROVE Behind(d, k)'
    BY <2>1, <2>7, LeadsStays DEF Behind, Spares
  <2>8. (\E d, k : Behind(d, k)) => \E d, k : Behind(d, k)'
    BY <2>7
  <2>9. (Clean' <=> Clean) /\ (FirstErrorAgrees' <=> FirstErrorAgrees)
    BY <2>1 DEF Clean, FirstErrorAgrees, Finished
  <2> QED
    BY <2>1, <2>5, <2>6, <2>8, <2>9 DEF AgreeInv, IsSeq
<1> QED
  BY <1>1, <1>2, <1>3, <1>4 DEF Next, Plain, Takes, Diverging

(* The first error of decode_all is the error of decode, with the same     *)
(* path, and without an error both build the same value: for any types,    *)
(* any input, any max_depth, any policy for duplicates and any limit on    *)
(* the steps of a path.  decode returns its error through every frame;     *)
(* decode_all records it where the run goes on, annotates it in place as   *)
(* the frames around it return, and reports it first although the run may  *)
(* record others, rewind, skip, or end in another error.                   *)
THEOREM FirstErrorIsDecodes == Spec => []FirstErrorAgrees
<1>1. AgreeInv => FirstErrorAgrees
  BY DEF AgreeInv
<1>2. Spec => []DecodeInv
  BY DecodeInit, DecodeStep, PTL DEF Spec
<1>3. Spec => []AgreeInv
  BY <1>2, AgreeInit, AgreeStep, PTL DEF Spec
<1> QED
  BY <1>1, <1>3, PTL

===============================================================================
