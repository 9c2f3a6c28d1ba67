--------------------------- MODULE CborReaderProofs ---------------------------
(***************************************************************************)
(* Proofs about CborReader, for every input, every depth limit, every      *)
(* width of the word save() packs into (wide enough for the position and   *)
(* the depth) and every argument width.                                    *)
(***************************************************************************)
EXTENDS CborReader, CborSkipProofs

(* A cursor the caller holds.                                              *)
Cursor ==
  [ is_map    : BOOLEAN,
    remaining : {Nullopt} \cup 0 .. W - 1,
    key       : BOOLEAN,
    prev      : Nat \X Nat ]

(* What holds in every phase: above all, the position is inside the input. *)
ReaderTypeOK ==
  /\ IsInput(in) /\ Len(in) < PosLimit
  /\ strict \in BOOLEAN /\ ignoring \in BOOLEAN
  /\ entry \in 0 .. MaxDepth
  /\ pos \in 0 .. Len(in)
  /\ depth \in 0 .. MaxDepth
  /\ chunkOf \in String
  /\ cursors \in Seq(Cursor)
  /\ undo \in {NoUndo} \cup 0 .. Len(in)
  /\ phase \in {"skip", "walk", "key", "done"}

(* The inductive invariant: while the validator runs, its own invariant    *)
(* for the depth at which it was called, and the word that restore() will  *)
(* read; while the typed operations run, one level of depth_ for each      *)
(* cursor.                                                                 *)
ReaderInv ==
  /\ ReaderTypeOK
  /\ phase = "skip" => /\ IInv
                       /\ base = entry
                       /\ cursors = << >>
                       /\ saved = Saved(0, entry)
  /\ phase = "key"  => /\ IInv
                       /\ base = entry + Len(cursors)
                       /\ cursors # << >>
                       /\ \E p \in 0 .. Len(in) : saved = Saved(p, base)
  /\ phase = "walk" => /\ stack = << >>
                       /\ depth = entry + Len(cursors)

-----------------------------------------------------------------------------
(* save() and restore().                                                   *)

(* What save() packs, restore() reads back: the position has 48 bits and   *)
(* the depth 16, and both fit.                                             *)
LEMMA RestoredSaved ==
  ASSUME ReaderTypeOK, NEW p \in 0 .. Len(in), NEW d \in 0 .. MaxDepth
  PROVE  Restored(Saved(p, d))[1] = p /\ Restored(Saved(p, d))[2] = d
<1>1. Len(in) \in Nat /\ PosLimit \in Nat /\ DepthLimit \in Nat
  BY PackingAssumption, LenProperties DEF ReaderTypeOK, IsInput
<1>2. p \in Nat /\ p < PosLimit
  BY <1>1 DEF ReaderTypeOK
<1>3. d \in Nat /\ d < DepthLimit
  BY <1>1, DepthAssumption, PackingAssumption
<1>4. /\ (p + PosLimit * d) % (PosLimit * DepthLimit) = p + PosLimit * d
      /\ (p + PosLimit * d) % PosLimit = p
      /\ (p + PosLimit * d) \div PosLimit = d
  BY ONLY <1>1, <1>2, <1>3
<1>5. Saved(p, d) % PosLimit = p /\ Saved(p, d) \div PosLimit = d
  BY <1>4 DEF Saved
<1> QED
  BY <1>5 DEF Restored

(* item_head passes over tags, never past the end of the input.            *)
LEMMA ItemAtBounds ==
  ASSUME ReaderTypeOK, NEW p \in 0 .. Len(in)
  PROVE  ItemAt(p) \in p .. Len(in)
<1>1. Len(in) \in Nat
  BY LenProperties DEF ReaderTypeOK, IsInput
<1>2. CASE ~ignoring
  BY <1>1, <1>2 DEF ItemAt
<1>3. CASE ignoring
  <2> DEFINE Q == {q \in p .. Len(in) : ~IsTag(q)}
  <2>1. Len(in) \in Q /\ Q \in SUBSET Nat
    BY <1>1 DEF IsTag
  <2>2. ItemAt(p) = Min(Q)
    BY <1>3 DEF ItemAt
  <2>3. Min(Q) \in Q
    <3> HIDE DEF Q
    <3> QED
      BY <2>1, MinOf
  <2> QED
    BY <2>2, <2>3
<1> QED
  BY <1>2, <1>3

(* The item item_head accepts is there, and its head is a token.           *)
LEMMA ItemThere ==
  ASSUME ReaderTypeOK, NEW p \in 0 .. Len(in), ItemAt(p) # Len(in)
  PROVE  /\ ItemAt(p) \in 0 .. Len(in)
         /\ ItemAt(p) + 1 \in 0 .. Len(in)
         /\ Item(p) \in Token
<1>1. Len(in) \in Nat /\ in \in Seq(Token)
  BY LenProperties DEF ReaderTypeOK, IsInput
<1>2. ItemAt(p) \in p .. Len(in)
  BY ItemAtBounds
<1>3. ItemAt(p) + 1 \in 1 .. Len(in)
  BY <1>1, <1>2
<1>4. in[ItemAt(p) + 1] \in Token
  BY <1>1, <1>3, ElementOfSeq
<1> QED
  BY <1>1, <1>2, <1>3, <1>4 DEF Item

-----------------------------------------------------------------------------
(* How a call ends.                                                        *)

(* An error leaves the position inside the input and the depth alone.      *)
LEMMA EndsStep ==
  ASSUME ReaderInv, NEW c, NEW p \in 0 .. Len(in), Ends(c, p)
  PROVE  ReaderInv'
  BY DEF ReaderInv, ReaderTypeOK, Ends, caller

(* A decoded item: the cursors held are cs, one level of depth_ for each.  *)
LEMMA DecodedStep ==
  ASSUME ReaderInv, phase = "walk", NEW cs \in Seq(Cursor), NEW p \in 0 .. Len(in),
         Decoded(cs, p), depth' = entry + Len(cs), depth' \in 0 .. MaxDepth, chunkOf' = chunkOf
  PROVE  ReaderInv'
<1>1. cursors' \in Seq(Cursor) /\ Len(cursors') = Len(cs)
  <2>1. CASE cs # << >> /\ cs[Len(cs)].key
    <3> DEFINE l == [cs[Len(cs)] EXCEPT !.key = FALSE]
    <3>1. cs[Len(cs)] \in Cursor
      BY <2>1, PopSeq
    <3>2. l \in Cursor
      BY <3>1 DEF Cursor
    <3>3. cursors' = Replace(cs, l)
      BY <2>1 DEF Decoded
    <3> HIDE DEF l
    <3> QED
      BY <2>1, <3>2, <3>3, ReplaceSeq
  <2>2. CASE ~(cs # << >> /\ cs[Len(cs)].key)
    BY <2>2 DEF Decoded
  <2> QED
    BY <2>1, <2>2
<1>2. /\ pos' = p /\ undo' = NoUndo /\ phase' = "walk"
      /\ UNCHANGED << in, strict, base, stack, ignoring, entry >>
  BY DEF Decoded, caller
<1> QED
  BY <1>1, <1>2 DEF ReaderInv, ReaderTypeOK

(* A step that only moves the position.                                    *)
LEMMA MoveStep ==
  ASSUME ReaderInv, phase = "walk", pos' \in 0 .. Len(in),
         undo' \in {NoUndo} \cup 0 .. Len(in), chunkOf' \in String,
         UNCHANGED << in, strict, depth, stack, ignoring, entry, phase, cursors >>
  PROVE  ReaderInv'
  BY DEF ReaderInv, ReaderTypeOK

(* read_string.                                                            *)
LEMMA ReadStringStep ==
  ASSUME ReaderInv, phase = "walk", NEW p \in 0 .. Len(in), p + 1 \in 0 .. Len(in),
         NEW u \in {NoUndo} \cup 0 .. Len(in), in[p + 1].mt \in String, ReadString(p, u)
  PROVE  ReaderInv'
<1>1. CASE in[p + 1].indefinite
  <2>1. /\ pos' = p + 1 /\ chunkOf' = in[p + 1].mt /\ undo' = u
        /\ UNCHANGED << in, strict, depth, stack, ignoring, entry, phase, cursors >>
    BY <1>1 DEF ReadString, caller
  <2> QED
    BY <2>1, MoveStep
<1>2. CASE ~in[p + 1].indefinite /\ \E c : Ends(c, IF u = NoUndo THEN p ELSE u) \/ Ends(c, p + 1)
  <2>1. (IF u = NoUndo THEN p ELSE u) \in 0 .. Len(in)
    OBVIOUS
  <2> QED
    BY <1>2, <2>1, EndsStep
<1>3. CASE Decoded(cursors, p + 1) /\ UNCHANGED << depth, chunkOf >>
  <2>1. /\ cursors \in Seq(Cursor) /\ depth' = entry + Len(cursors)
        /\ depth' \in 0 .. MaxDepth /\ chunkOf' = chunkOf
    BY <1>3 DEF ReaderInv, ReaderTypeOK
  <2> QED
    BY <1>3, <2>1, DecodedStep
<1> QED
  BY <1>1, <1>2, <1>3 DEF ReadString

-----------------------------------------------------------------------------
(* The steps.                                                              *)

(* The caller finds the reader as it was constructed.                      *)
LEMMA ReaderInitInv == ReaderInit => ReaderInv
<1> SUFFICES ASSUME ReaderInit PROVE ReaderInv
  OBVIOUS
<1>1. IInv
  BY InitInv DEF ReaderInit
<1>2. in \in Inputs \cup StrictInputs
  BY DEF ReaderInit, Init
<1>3. Len(in) < PosLimit
  BY <1>2, PackingAssumption
<1>4. cursors \in Seq(Cursor)
  BY EmptySeq DEF ReaderInit
<1>5. ignoring \in BOOLEAN /\ entry = base /\ phase = "skip" /\ saved = Saved(0, base)
      /\ undo = NoUndo /\ cursors = << >>
  BY DEF ReaderInit
<1>6. ReaderTypeOK
  BY <1>1, <1>3, <1>4, <1>5 DEF IInv, TypeOK, ReaderTypeOK
<1> QED
  BY <1>1, <1>5, <1>6 DEF ReaderInv

(* The validator keeps its own invariant and leaves the cursors alone.     *)
LEMMA SkipStep == ASSUME ReaderInv, Skip PROVE ReaderInv'
<1>1. IInv
  BY DEF ReaderInv, Skip
<1>2. IInv'
  BY <1>1, StepInv DEF Skip
<1>3. UNCHANGED << ignoring, entry, phase, cursors, saved, undo >>
  BY DEF Skip, caller
<1>4. UNCHANGED << in, strict, base >>
  BY DEF Skip, Next, BadHead, Break, Scalar, Tag, BadTag, DefiniteString, BadText,
     IndefiniteString, Chunk, BadChunk, Open, OpenEmpty, Return, ItemDone, Close,
     BadKeyOrder, Fail, Advance
<1>5. ReaderTypeOK'
  BY <1>2, <1>3, <1>4 DEF ReaderInv, ReaderTypeOK, IInv, TypeOK
<1>6. phase \in {"skip", "key"}
  BY DEF Skip
<1> QED
  BY <1>2, <1>3, <1>4, <1>5, <1>6 DEF ReaderInv, Saved

(* restore() after the first skip, and the self-describe tag.              *)
LEMMA RewindStep == ASSUME ReaderInv, Rewind PROVE ReaderInv'
<1>1. /\ ReaderTypeOK /\ phase = "skip" /\ cursors = << >> /\ saved = Saved(0, entry)
      /\ Len(in) \in Nat /\ entry \in 0 .. MaxDepth /\ in \in Seq(Token)
  BY LenProperties DEF ReaderInv, ReaderTypeOK, IsInput, Rewind
<1>2. Restored(saved)[1] = 0 /\ Restored(saved)[2] = entry
  BY <1>1, RestoredSaved
<1>3. Start(entry) \in 0 .. Len(in)
  BY <1>1, EmptySeq DEF Start
<1>4. depth' = entry /\ pos' = Start(entry)
  BY <1>2, <1>3 DEF Rewind, Start
<1>5. Len(cursors) = 0
  BY <1>1, EmptySeq
<1> QED
  BY <1>1, <1>3, <1>4, <1>5 DEF Rewind, ReaderInv, ReaderTypeOK

(* Calls that look at the item ahead.                                      *)
LEMMA ExpectStep ==
  ASSUME ReaderInv, ExpectRefused \/ ExpectFails \/ ExpectScalar \/ ExpectString
  PROVE  ReaderInv'
<1>1. /\ ReaderTypeOK /\ pos \in 0 .. Len(in) /\ phase = "walk" /\ depth \in 0 .. MaxDepth
      /\ cursors \in Seq(Cursor) /\ depth = entry + Len(cursors)
      /\ undo \in {NoUndo} \cup 0 .. Len(in) /\ chunkOf \in String
  BY DEF ReaderInv, ReaderTypeOK, ExpectRefused, ExpectFails, ExpectScalar, ExpectString, Fitting, Walking
<1>2. ItemAt(pos) \in pos .. Len(in) /\ ItemAt(pos) \in 0 .. Len(in)
  BY <1>1, ItemAtBounds
<1>3. ItemError(pos) = "none" => ItemAt(pos) + 1 \in 0 .. Len(in)
  BY <1>1, ItemThere DEF ItemError
<1>4. CASE ExpectRefused
  BY <1>1, <1>2, <1>4, MoveStep DEF ExpectRefused, caller
<1>5. CASE ExpectFails
  BY <1>1, <1>5, EndsStep DEF ExpectFails
<1>6. CASE ExpectScalar
  <2>1. ItemAt(pos) + 1 \in 0 .. Len(in)
    BY <1>3, <1>6 DEF ExpectScalar, Fitting
  <2>2. CASE Ends("non_deterministic", ItemAt(pos))
    BY <1>2, <2>2, EndsStep
  <2>3. CASE Decoded(cursors, ItemAt(pos) + 1) /\ UNCHANGED << depth, chunkOf >>
    BY <1>1, <2>1, <2>3, DecodedStep
  <2> QED
    BY <1>6, <2>2, <2>3 DEF ExpectScalar
<1>7. CASE ExpectString
  <2>1. ItemAt(pos) + 1 \in 0 .. Len(in)
    BY <1>3, <1>7 DEF ExpectString, Fitting
  <2>2. in[ItemAt(pos) + 1].mt \in String
    BY <1>7 DEF ExpectString, Fitting, Peek, Item, IsFloat, String
  <2>3. ReadString(ItemAt(pos), NoUndo)
    BY <1>7 DEF ExpectString
  <2> QED
    BY <1>1, <1>2, <2>1, <2>2, <2>3, ReadStringStep
<1> QED
  BY <1>4, <1>5, <1>6, <1>7

(* The chunk loop of read_string, and the tags.                            *)
LEMMA ChunkAndTagStep ==
  ASSUME ReaderInv, ChunkFails \/ NextChunk \/ ExpectTags \/ ExpectTaggedBytes
  PROVE  ReaderInv'
<1>1. /\ ReaderTypeOK /\ pos \in 0 .. Len(in) /\ phase = "walk" /\ depth \in 0 .. MaxDepth
      /\ cursors \in Seq(Cursor) /\ depth = entry + Len(cursors) /\ Len(in) \in Nat
      /\ undo \in {NoUndo} \cup 0 .. Len(in) /\ chunkOf \in String
  BY LenProperties DEF ReaderInv, ReaderTypeOK, IsInput, ChunkFails, NextChunk, ExpectTags, ExpectTaggedBytes, Walking
<1>2. CASE ChunkFails
  <2>1. (IF undo = NoUndo THEN pos ELSE undo) \in 0 .. Len(in)
    BY <1>1
  <2> QED
    BY <1>2, <2>1, EndsStep DEF ChunkFails
<1>3. CASE NextChunk
  <2>1. pos + 1 \in 0 .. Len(in)
    BY <1>1, <1>3 DEF NextChunk, ChunkError, AtEnd
  <2>2. CASE Decoded(cursors, pos + 1) /\ UNCHANGED << depth, chunkOf >>
    BY <1>1, <2>1, <2>2, DecodedStep
  <2>3. CASE Tok.mt # "break"
    BY <1>1, <1>3, <2>1, <2>3, MoveStep DEF NextChunk, caller
  <2> QED
    BY <1>3, <2>2, <2>3 DEF NextChunk
<1>4. CASE ExpectTags
  <2>1. pos + 1 \in 0 .. Len(in)
    BY <1>1, <1>4 DEF ExpectTags, IsTag
  <2> QED
    BY <1>1, <1>4, <2>1, MoveStep DEF ExpectTags, caller
<1>5. CASE ExpectTaggedBytes
  <2>1. pos + 1 \in 0 .. Len(in)
    BY <1>1, <1>5 DEF ExpectTaggedBytes, IsTag
  <2>2. CASE Ends(ItemError(pos + 1), pos)
    BY <1>1, <2>2, EndsStep
  <2>3. CASE ItemError(pos + 1) = "none" /\ Item(pos + 1).mt = "bytes" /\ ReadString(ItemAt(pos + 1), pos)
    <3>1. ItemAt(pos + 1) \in 0 .. Len(in) /\ ItemAt(pos + 1) + 1 \in 0 .. Len(in)
      BY <1>1, <2>1, <2>3, ItemThere DEF ItemError
    <3>2. in[ItemAt(pos + 1) + 1].mt \in String
      BY <2>3 DEF Item, String
    <3> QED
      BY <1>1, <2>3, <3>1, <3>2, ReadStringStep
  <2> QED
    BY <1>5, <2>2, <2>3 DEF ExpectTaggedBytes
<1> QED
  BY <1>2, <1>3, <1>4, <1>5

(* expect_array and expect_map: a level for the new cursor.                *)
LEMMA ContainerStep == ASSUME ReaderInv, ExpectContainer PROVE ReaderInv'
<1>1. /\ ReaderTypeOK /\ pos \in 0 .. Len(in) /\ phase = "walk" /\ depth \in 0 .. MaxDepth
      /\ cursors \in Seq(Cursor) /\ depth = entry + Len(cursors) /\ stack = << >>
      /\ entry \in 0 .. MaxDepth
  BY DEF ReaderInv, ReaderTypeOK, ExpectContainer, Fitting, Walking
<1>2. ItemError(pos) = "none"
  BY DEF ExpectContainer, Fitting
<1>3. ItemAt(pos) \in 0 .. Len(in) /\ ItemAt(pos) + 1 \in 0 .. Len(in) /\ Item(pos) \in Token
  BY <1>1, <1>2, ItemThere DEF ItemError
<1>4. CASE Full
  BY <1>3, <1>4, EndsStep DEF ExpectContainer
<1>5. CASE ~Full
  <2> DEFINE c == NewCursor(Item(pos))
  <2>1. c \in Cursor
    BY <1>3 DEF NewCursor, Cursor, Token
  <2>2. /\ pos' = ItemAt(pos) + 1 /\ depth' = depth + 1 /\ cursors' = Append(cursors, c)
        /\ UNCHANGED << in, strict, stack, chunkOf, ignoring, entry, phase, undo >>
    BY <1>5 DEF ExpectContainer, caller
  <2> HIDE DEF c
  <2>3. cursors' \in Seq(Cursor) /\ Len(cursors') = Len(cursors) + 1 /\ Len(cursors) \in Nat
    BY <1>1, <2>1, <2>2, AppendProperties, LenProperties
  <2>4. depth' \in 0 .. MaxDepth /\ depth' = entry + Len(cursors')
    BY <1>1, <1>5, <2>2, <2>3, DepthAssumption DEF Full
  <2> QED
    BY <1>1, <1>3, <2>2, <2>3, <2>4 DEF ReaderInv, ReaderTypeOK
<1> QED
  BY <1>4, <1>5

(* next() of a cursor that is complete: its level is given back.           *)
LEMMA NextEndsStep == ASSUME ReaderInv, NextEnds PROVE ReaderInv'
<1>1. /\ ReaderTypeOK /\ pos \in 0 .. Len(in) /\ phase = "walk" /\ depth \in 0 .. MaxDepth
      /\ cursors \in Seq(Cursor) /\ depth = entry + Len(cursors) /\ cursors # << >>
      /\ entry \in 0 .. MaxDepth /\ Len(in) \in Nat
  BY LenProperties DEF ReaderInv, ReaderTypeOK, IsInput, NextEnds, Asking, Walking
<1> DEFINE cs == SubSeq(cursors, 1, Len(cursors) - 1)
           p  == IF Stop THEN pos + 1 ELSE pos
<1>2. cs \in Seq(Cursor) /\ Len(cs) = Len(cursors) - 1 /\ Len(cursors) \in Nat \ {0}
  BY <1>1, PopSeq
<1>3. p \in 0 .. Len(in)
  BY <1>1 DEF Stop, AtEnd
<1>4. Decoded(cs, p) /\ depth' = depth - 1 /\ chunkOf' = chunkOf
  BY DEF NextEnds, Left
<1> HIDE DEF cs, p
<1>5. depth' = entry + Len(cs) /\ depth' \in 0 .. MaxDepth
  BY <1>1, <1>2, <1>4, DepthAssumption
<1> QED
  BY <1>1, <1>2, <1>3, <1>4, <1>5, DecodedStep

(* The innermost cursor is replaced by one of the same type.               *)
LEMMA CursorReplaced ==
  ASSUME cursors \in Seq(Cursor), cursors # << >>, NEW c \in Cursor
  PROVE  /\ Replace(cursors, c) \in Seq(Cursor)
         /\ Len(Replace(cursors, c)) = Len(cursors)
         /\ Replace(cursors, c) # << >>
  BY ReplaceSeq, EmptySeq

(* next() when there is an item; before a key in deterministic mode, the   *)
(* validator is called at the depth of the cursors, its stack empty.       *)
LEMMA NextItemStep == ASSUME ReaderInv, NextItem PROVE ReaderInv'
<1>1. /\ ReaderTypeOK /\ pos \in 0 .. Len(in) /\ phase = "walk" /\ depth \in 0 .. MaxDepth
      /\ cursors \in Seq(Cursor) /\ depth = entry + Len(cursors) /\ cursors # << >>
      /\ stack = << >>
  BY DEF ReaderInv, ReaderTypeOK, NextItem, Asking, Walking
<1>2. Cur \in Cursor /\ Cur.remaining # 0
  BY <1>1, PopSeq DEF Cur, NextItem
<1> DEFINE c == Taken(Cur.is_map)
<1>3. c \in Cursor
  <2>1. Cur.remaining # Nullopt => Cur.remaining - 1 \in 0 .. W - 1
    BY <1>2, WidthAssumption DEF Cursor
  <2>2. Cur.is_map \in BOOLEAN
    BY <1>2 DEF Cursor
  <2> QED
    BY <1>2, <2>1, <2>2 DEF Taken, Cursor
<1>4. /\ cursors' = Replace(cursors, c)
      /\ UNCHANGED << in, strict, pos, depth, stack, chunkOf, ignoring, entry, undo >>
  BY DEF NextItem, caller
<1> HIDE DEF c
<1>5. cursors' \in Seq(Cursor) /\ Len(cursors') = Len(cursors) /\ cursors' # << >>
  BY <1>1, <1>3, <1>4, CursorReplaced
<1>6. CASE Cur.is_map /\ strict
  <2>1. phase' = "key" /\ saved' = Saved(pos, depth) /\ pc' = "item" /\ err' = "none" /\ base' = depth
    BY <1>6 DEF NextItem
  <2>2. stack' \in Seq(GoodLevel(pos')) /\ stack' \in Seq(Level) /\ Len(stack') = 0
    BY <1>1, <1>4, EmptySeq
  <2>3. TypeOK'
    BY <1>1, <1>4, <2>1, <2>2 DEF TypeOK, ReaderTypeOK, Controls, Errors
  <2>4. DepthAccounting'
    BY <1>1, <1>4, <2>1, <2>2 DEF DepthAccounting, ReaderTypeOK
  <2>5. IInv'
    BY <2>1, <2>2, <2>3, <2>4 DEF IInv, StartedTo
  <2>6. ReaderTypeOK'
    BY <1>1, <1>4, <1>5, <2>1 DEF ReaderTypeOK
  <2>7. (\E p \in 0 .. Len(in) : saved = Saved(p, base))'
    BY <1>1, <1>4, <2>1 DEF Saved
  <2> QED
    BY <1>1, <1>4, <1>5, <2>1, <2>5, <2>6, <2>7 DEF ReaderInv
<1>7. CASE ~(Cur.is_map /\ strict)
  <2>1. phase' = phase
    BY <1>7 DEF NextItem
  <2> QED
    BY <1>1, <1>4, <1>5, <2>1 DEF ReaderInv, ReaderTypeOK
<1> QED
  BY <1>6, <1>7

(* key_ahead: back to the key, at the depth of the cursors.                *)
LEMMA KeyAheadStep == ASSUME ReaderInv, KeyAhead PROVE ReaderInv'
<1>1. /\ ReaderTypeOK /\ pos \in 0 .. Len(in) /\ cursors \in Seq(Cursor) /\ cursors # << >>
      /\ IInv /\ base = entry + Len(cursors) /\ base \in 0 .. MaxDepth /\ Len(in) \in Nat
  BY LenProperties DEF ReaderInv, ReaderTypeOK, IsInput, KeyAhead, IInv, TypeOK
<1>2. PICK p \in 0 .. Len(in) : saved = Saved(p, base)
  BY DEF ReaderInv, KeyAhead
<1>3. Restored(saved)[1] = p /\ Restored(saved)[2] = base
  BY <1>1, <1>2, RestoredSaved
<1>4. /\ pos' = p /\ depth' = base /\ stack' = << >> /\ phase' \in {"walk", "done"}
      /\ UNCHANGED << in, strict, chunkOf, ignoring, entry, undo >>
  BY <1>3 DEF KeyAhead, caller
<1>5. Cur \in Cursor
  BY <1>1, PopSeq DEF Cur
<1>6. cursors' \in Seq(Cursor) /\ Len(cursors') = Len(cursors)
  <2> DEFINE c == [Cur EXCEPT !.prev = << p, pos >>]
  <2>1. c \in Cursor
    <3>1. << p, pos >> \in Nat \X Nat
      BY <1>1
    <3> QED
      BY <1>5, <3>1 DEF Cursor
  <2>2. cursors' = cursors \/ cursors' = Replace(cursors, c)
    BY <1>3 DEF KeyAhead
  <2> HIDE DEF c
  <2> QED
    BY <1>1, <2>1, <2>2, CursorReplaced
<1> QED
  BY <1>1, <1>4, <1>6 DEF ReaderInv, ReaderTypeOK

-----------------------------------------------------------------------------
(* Theorems.                                                               *)

(* Every step of the reader and of its caller keeps the invariant.         *)
LEMMA ReaderStepInv == ReaderInv /\ [ReaderNext]_readerVars => ReaderInv'
<1> SUFFICES ASSUME ReaderInv, [ReaderNext]_readerVars PROVE ReaderInv'
  OBVIOUS
<1>1. CASE Skip
  BY <1>1, SkipStep
<1>2. CASE Rewind
  BY <1>2, RewindStep
<1>3. CASE ExpectRefused \/ ExpectFails \/ ExpectScalar \/ ExpectString
  BY <1>3, ExpectStep
<1>4. CASE ChunkFails \/ NextChunk \/ ExpectTags \/ ExpectTaggedBytes
  BY <1>4, ChunkAndTagStep
<1>5. CASE ExpectContainer
  BY <1>5, ContainerStep
<1>6. CASE NextCut \/ Finish
  <2>1. pos \in 0 .. Len(in)
    BY DEF ReaderInv, ReaderTypeOK
  <2> QED
    BY <1>6, <2>1, EndsStep DEF NextCut, Finish
<1>7. CASE NextEnds
  BY <1>7, NextEndsStep
<1>8. CASE NextItem
  BY <1>8, NextItemStep
<1>9. CASE KeyAhead
  BY <1>9, KeyAheadStep
<1>10. CASE UNCHANGED readerVars
  BY <1>10 DEF readerVars, vars, ReaderInv, ReaderTypeOK, IInv, TypeOK, DepthAccounting,
     StartedTo, Started, Saved
<1> QED
  BY <1>1, <1>2, <1>3, <1>4, <1>5, <1>6, <1>7, <1>8, <1>9, <1>10 DEF ReaderNext

(* The invariant holds throughout.                                         *)
LEMMA ReaderInvariance == ReaderSpec => []ReaderInv
  BY ReaderInitInv, ReaderStepInv, PTL DEF ReaderSpec

(* Whatever calls the caller makes, the reader's position stays inside the *)
(* input, where it reads, rewinds and sets itself back to.                 *)
THEOREM ReaderInBounds == ReaderSpec => []ReaderTypeOK
<1>1. ReaderInv => ReaderTypeOK
  BY DEF ReaderInv
<1> QED
  BY <1>1, ReaderInvariance, PTL

(* depth_ counts the cursors the caller holds, and inside a key also the   *)
(* containers the validator has open, for any input and any max_depth: no  *)
(* refused call, rewind or look at a key leaves it changed.                *)
THEOREM DepthStaysInStep == ReaderSpec => []DepthInStep
<1>1. ReaderInv => DepthInStep
  <2> SUFFICES ASSUME ReaderInv PROVE DepthInStep
    OBVIOUS
  <2>1. depth \in 0 .. MaxDepth
    BY DEF ReaderInv, ReaderTypeOK
  <2>2. phase = "walk" => depth = entry + Len(cursors)
    BY DEF ReaderInv
  <2>3. phase = "key" => depth = entry + Len(cursors) + Len(stack)
    BY DEF ReaderInv, IInv, DepthAccounting
  <2> QED
    BY <2>1, <2>2, <2>3, DepthAssumption DEF DepthInStep
<1> QED
  BY <1>1, ReaderInvariance, PTL

===============================================================================
