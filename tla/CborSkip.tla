------------------------------- MODULE CborSkip -------------------------------
(***************************************************************************)
(* reader::skip_value of cbor/read.hpp: the validator that walks over one  *)
(* data item of any kind without recursion, with an explicit stack of open *)
(* containers.  Unknown members, duplicates that are dropped, collect-mode *)
(* recovery and the two passes over a variant all rest on it.              *)
(*                                                                         *)
(* `pos' counts consumed tokens, so the next head is in[pos + 1].          *)
(***************************************************************************)
EXTENDS CborTokens

CONSTANTS
  Inputs,        \* the inputs of calls without require_deterministic
  StrictInputs,  \* the inputs of calls with it
  MaxDepth,      \* options::max_depth
  ValidateUtf8   \* options::validate_utf8

ASSUME InputsAssumption == \A s \in Inputs \cup StrictInputs : IsInput(s)
ASSUME DepthAssumption  == MaxDepth \in Nat
ASSUME OptionAssumption == ValidateUtf8 \in BOOLEAN

VARIABLES
  in,       \* in_: the bytes from the start of the item to the end of input
  strict,   \* options::require_deterministic
  base,     \* depth_ when skip_value was called
  pos,      \* pos_
  depth,    \* depth_
  stack,    \* the local vector of open containers
  chunkOf,  \* major type of the indefinite-length string being read
  pc,       \* where control is
  err       \* the error returned, "none" so far

vars == << in, strict, base, pos, depth, stack, chunkOf, pc, err >>

Nullopt == -1    \* an empty std::optional count: ended by a break
NoKey   == -1    \* !in_key

Level ==
  [ is_map    : BOOLEAN,
    remaining : {Nullopt} \cup 0 .. W - 1,
    key_next  : BOOLEAN,
    key_start : {NoKey} \cup Nat,
    prev      : Nat \X Nat ]     \* extent of the previous key, <<0, 0>> if none

Errors == {"none", "truncated", "malformed_item", "invalid_utf8",
           "depth_exceeded", "non_deterministic"}

Controls == {"item", "chunk", "item_done", "ok", "fail"}

-----------------------------------------------------------------------------
AtEnd == pos = Len(in)
Tok   == in[pos + 1]
Top   == stack[Len(stack)]
Pop   == SubSeq(stack, 1, Len(stack) - 1)

Replace(s, l) == [s EXCEPT ![Len(s)] = l]

Init ==
  /\ \/ strict = FALSE /\ in \in Inputs
     \/ strict = TRUE /\ in \in StrictInputs
  /\ base \in 0 .. MaxDepth
  /\ pos = 0
  /\ depth = base
  /\ stack = << >>
  /\ chunkOf = "text"
  /\ pc = "item"
  /\ err = "none"

(* Mutant: an error rewinds to the start of the item.                      *)
FailRewinds(e, p) ==
  /\ pc' = "fail"
  /\ err' = e
  /\ pos' = 0
  /\ UNCHANGED << in, strict, base, depth, stack, chunkOf >>

(* return std::unexpected(error(e, ...)), having consumed up to p.         *)
Fail(e, p) ==
  /\ pc' = "fail"
  /\ err' = e
  /\ pos' = p
  /\ UNCHANGED << in, strict, base, depth, stack, chunkOf >>

(* Mutant: the first key of a map is not marked.                           *)
MarkedLate ==
  IF strict /\ stack # << >> /\ Top.is_map /\ Top.key_next
       /\ Top.key_start = NoKey /\ Top.prev # << 0, 0 >>
  THEN Replace(stack, [Top EXCEPT !.key_start = pos])
  ELSE stack

(* The top of the loop: at the first head of a key, its start is recorded. *)
Marked ==
  IF strict /\ stack # << >> /\ Top.is_map /\ Top.key_next
       /\ Top.key_start = NoKey
  THEN Replace(stack, [Top EXCEPT !.key_start = pos])
  ELSE stack

(* Consume n tokens, leave the error alone and go to control point c.      *)
Advance(n, c) ==
  /\ pos' = pos + n
  /\ pc' = c
  /\ UNCHANGED << in, strict, base, err >>

-----------------------------------------------------------------------------
(* Heads.                                                                  *)

(* Mutant: a break is also accepted between a key and its value.           *)
MayBreakAnywhere ==
  /\ stack # << >>
  /\ Top.remaining = Nullopt

(* A break closes the innermost container if that has no count, and not    *)
(* between a key and its value.                                            *)
MayBreak ==
  /\ stack # << >>
  /\ Top.remaining = Nullopt
  /\ Top.is_map => Top.key_next

(* Mutant: tag heads are not checked.                                      *)
NotShortestUntagged == Tok.indefinite \/ (~Tok.shortest /\ Tok.mt \notin {"simple", "tag"})

NotShortest == Tok.indefinite \/ (~Tok.shortest /\ Tok.mt # "simple")

(* Mutant: one level too many.                                             *)
FullLate == depth > MaxDepth

(* The limit is reached: no further container may be opened.               *)
Full == depth >= MaxDepth

(* What the loop checks, in its order, before it consumes a head.          *)
HeadError ==
  IF AtEnd \/ Tok.cut = "head" THEN "truncated"
  ELSE IF Tok.mt = "break" THEN IF MayBreak THEN "none" ELSE "malformed_item"
  ELSE IF Tok.reserved THEN "malformed_item"
  ELSE IF strict /\ NotShortest THEN "non_deterministic"
  ELSE IF Tok.mt = "simple" /\ ~Tok.valid THEN "malformed_item"
  ELSE IF Tok.mt = "simple" /\ strict /\ ~Tok.shortest THEN "non_deterministic"
  ELSE IF Tok.mt \in String /\ Tok.cut = "body" THEN "truncated"
  ELSE IF Tok.mt \in Container /\ Full THEN "depth_exceeded"
  ELSE "none"

Accepts(mts) == pc = "item" /\ HeadError = "none" /\ Tok.mt \in mts

BadHead == pc = "item" /\ HeadError # "none" /\ Fail(HeadError, pos)

(* Mutant: depth_ is not lowered.                                          *)
NotLowered == depth

(* --depth_ with stack.pop_back().                                         *)
Lowered == depth - 1

Break ==
  /\ Accepts({"break"})
  /\ Advance(1, "item_done")
  /\ depth' = Lowered
  /\ stack' = Pop
  /\ UNCHANGED chunkOf

Scalar ==
  /\ Accepts({"uint", "nint", "simple"})
  /\ Advance(1, "item_done")
  /\ stack' = Marked
  /\ UNCHANGED << depth, chunkOf >>

(* A tag prefixes an item: the loop goes on with the tagged item, which is *)
(* the same item of the container.                                         *)
Untagged == pos + 1 < Len(in) => in[pos + 2].mt = "break"

Tag ==
  /\ Accepts({"tag"})
  /\ ~Untagged
  /\ Advance(1, "item")
  /\ stack' = Marked
  /\ UNCHANGED << depth, chunkOf >>

BadTag ==
  /\ Accepts({"tag"})
  /\ Untagged
  /\ Fail(IF pos + 1 = Len(in) THEN "truncated" ELSE "malformed_item", pos + 1)

BadUtf8 == ValidateUtf8 /\ Tok.mt = "text" /\ ~Tok.valid

(* read_string of a definite-length string, then the UTF-8 check.          *)
DefiniteString ==
  /\ Accepts(String)
  /\ ~Tok.indefinite
  /\ ~BadUtf8
  /\ Advance(1, "item_done")
  /\ stack' = Marked
  /\ UNCHANGED << depth, chunkOf >>

BadText ==
  /\ Accepts(String)
  /\ ~Tok.indefinite
  /\ BadUtf8
  /\ Fail("invalid_utf8", pos + 1)

IndefiniteString ==
  /\ Accepts(String)
  /\ Tok.indefinite
  /\ Advance(1, "chunk")
  /\ stack' = Marked
  /\ chunkOf' = Tok.mt
  /\ UNCHANGED depth

(* The chunk loop of read_string, with its checks in their order.  The     *)
(* concatenation of valid chunks is valid, so the caller's UTF-8 check of  *)
(* the whole string adds nothing.                                          *)
ChunkError ==
  IF AtEnd THEN "truncated"
  ELSE IF Tok.mt = "break" THEN "none"
  ELSE IF Tok.cut = "head" THEN "truncated"
  ELSE IF Tok.mt # chunkOf \/ Tok.indefinite THEN "malformed_item"
  ELSE IF Tok.cut = "body" THEN "truncated"
  ELSE IF BadUtf8 THEN "invalid_utf8"
  ELSE "none"

BadChunk == pc = "chunk" /\ ChunkError # "none" /\ Fail(ChunkError, pos)

(* Mutant: the chunk loop does not move past a chunk.                      *)
ChunkStuck ==
  /\ pc = "chunk"
  /\ ChunkError = "none"
  /\ IF Tok.mt = "break" THEN Advance(1, "item_done") ELSE Advance(0, "chunk")
  /\ UNCHANGED << depth, stack, chunkOf >>

Chunk ==
  /\ pc = "chunk"
  /\ ChunkError = "none"
  /\ Advance(1, IF Tok.mt = "break" THEN "item_done" ELSE "chunk")
  /\ UNCHANGED << depth, stack, chunkOf >>

(* Mutant: the count of pairs is taken for the count of items.             *)
NotDoubled(n) == n

(* uint64_t arithmetic modulo W.                                           *)
Doubled(n)   == IF 2 * n < W THEN 2 * n ELSE 2 * n - W
Decrement(n) == IF n = 0 THEN W - 1 ELSE n - 1

(* The count of a map is doubled: its keys and its values are items.       *)
LevelCount ==
  IF Tok.indefinite THEN Nullopt
  ELSE IF Tok.mt = "map" THEN Doubled(Tok.value)
  ELSE Tok.value

NewLevel ==
  [ is_map    |-> Tok.mt = "map",
    remaining |-> LevelCount,
    key_next  |-> TRUE,
    key_start |-> NoKey,
    prev      |-> << 0, 0 >> ]

(* An empty definite-length container enters and leaves its level at once. *)
Empty == Tok.value = 0 /\ ~Tok.indefinite

Open ==
  /\ Accepts(Container)
  /\ ~Empty
  /\ Advance(1, "item")
  /\ stack' = Append(Marked, NewLevel)
  /\ depth' = depth + 1
  /\ UNCHANGED chunkOf

OpenEmpty ==
  /\ Accepts(Container)
  /\ Empty
  /\ Advance(1, "item_done")
  /\ stack' = Marked
  /\ UNCHANGED << depth, chunkOf >>

-----------------------------------------------------------------------------
(* item_done: an item of the innermost container is complete.              *)

Return ==
  /\ pc = "item_done"
  /\ stack = << >>
  /\ Advance(0, "ok")
  /\ UNCHANGED << depth, stack, chunkOf >>

KeyDone == strict /\ Top.is_map /\ Top.key_next

CurrentKey  == SubSeq(in, Top.key_start + 1, pos)
PreviousKey == SubSeq(in, Top.prev[1] + 1, Top.prev[2])

OutOfOrder ==
  /\ KeyDone
  /\ Top.prev # << 0, 0 >>
  /\ ~EncodedLess(PreviousKey, CurrentKey)

(* The level after one more of its items.                                  *)
Counted ==
  [ Top EXCEPT
      !.key_next  = IF Top.is_map THEN ~@ ELSE @,
      !.remaining = IF @ = Nullopt THEN @ ELSE Decrement(@),
      !.prev      = IF KeyDone THEN << Top.key_start, pos >> ELSE @,
      !.key_start = IF KeyDone THEN NoKey ELSE @ ]

BadKeyOrder ==
  /\ pc = "item_done"
  /\ stack # << >>
  /\ OutOfOrder
  /\ Fail("non_deterministic", pos)

ItemDone ==
  /\ pc = "item_done"
  /\ stack # << >>
  /\ ~OutOfOrder
  /\ Counted.remaining # 0
  /\ Advance(0, "item")
  /\ stack' = Replace(stack, Counted)
  /\ UNCHANGED << depth, chunkOf >>

(* The last item of a definite-length container completes the container.   *)
Close ==
  /\ pc = "item_done"
  /\ stack # << >>
  /\ ~OutOfOrder
  /\ Counted.remaining = 0
  /\ Advance(0, "item_done")
  /\ stack' = Pop
  /\ depth' = Lowered
  /\ UNCHANGED chunkOf

-----------------------------------------------------------------------------
Next ==
  \/ BadHead \/ Break \/ Scalar \/ Tag \/ BadTag
  \/ DefiniteString \/ BadText \/ IndefiniteString \/ Chunk \/ BadChunk
  \/ Open \/ OpenEmpty
  \/ Return \/ ItemDone \/ Close \/ BadKeyOrder

(* skip_value is a plain loop of the calling thread: it keeps running.     *)
Spec == Init /\ [][Next]_vars /\ WF_vars(Next)

-----------------------------------------------------------------------------
(* Properties.                                                             *)

(* The reader never runs past the input and never opens more containers    *)
(* than max_depth, its own and the caller's together.                      *)
TypeOK ==
  /\ IsInput(in)
  /\ strict \in BOOLEAN
  /\ base \in 0 .. MaxDepth
  /\ pos \in 0 .. Len(in)
  /\ depth \in 0 .. MaxDepth
  /\ stack \in Seq(Level)
  /\ chunkOf \in String
  /\ pc \in Controls
  /\ err \in Errors

(* The reader's depth_ and the local stack never drift apart, although the *)
(* code raises and lowers them at six different places: the depth limit    *)
(* counts exactly the open containers, and a call that succeeds leaves     *)
(* depth_ as it found it (the caller's cursors go on with it).             *)
DepthAccounting ==
  /\ depth = base + Len(stack)
  /\ pc = "ok" => stack = << >>

Paired(l) ==
  /\ l.is_map /\ l.remaining # Nullopt => (l.key_next <=> l.remaining % 2 = 0)
  /\ ~l.is_map => l.key_next /\ l.remaining # 0

(* A definite-length map never completes between a key and its value: the  *)
(* parity of the count left tells which of the two comes next.  An array   *)
(* on the stack has items left (a map of 2^63 pairs doubles to zero and    *)
(* wraps at its first item, hence only the parity for maps).               *)
MapPairing == \A i \in DOMAIN stack : Paired(stack[i])

Extent(l, p) ==
  /\ l.prev[1] <= l.prev[2] /\ l.prev[2] <= p
  /\ l.key_start # NoKey => l.prev[2] <= l.key_start /\ l.key_start <= p

Started(l) == strict /\ l.is_map /\ l.key_next => l.key_start # NoKey

(* Deterministic mode: the start of the key being read is recorded before  *)
(* anything of it is consumed, in every open map and however deep inside   *)
(* the key the loop is; it lies after the previous key of the same map.    *)
(* So the two byte ranges compared are the two whole keys, and the key of  *)
(* an outer map is not forgotten while a map inside it is checked.         *)
KeyExtents ==
  /\ \A i \in DOMAIN stack : Extent(stack[i], pos)
  /\ \A i \in DOMAIN stack :
       i < Len(stack) \/ pc \in {"chunk", "item_done"} => Started(stack[i])

(* The position only moves forward and no head is read twice.              *)
NeverRewinds == [][pos' >= pos /\ (pc = "item" /\ pc' # "fail" => pos' = pos + 1)]_vars

(* Every call returns, on every input.                                     *)
Returns == <>(pc \in {"ok", "fail"})

===============================================================================
