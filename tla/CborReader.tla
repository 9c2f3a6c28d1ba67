------------------------------ MODULE CborReader ------------------------------
(***************************************************************************)
(* The typed operations of cbor::reader (cbor/read.hpp) over the same      *)
(* input as the validator: peek, the expect_* calls, expect_tags, bignums  *)
(* and typed arrays, the cursors and their look at the next key.           *)
(*                                                                         *)
(* The reader is saved, runs skip_value over the item, is restored, and    *)
(* then decodes the item with the typed operations, as core/build.hpp does *)
(* when it passes over a variant or recovers from an error.  The caller    *)
(* is any codec that asks peek what comes, keys included; before that it   *)
(* may try calls that do not fit.  undefined_as_null and                   *)
(* accept_typed_arrays have their default values; pending_ is never set,   *)
(* so take_pending does nothing.                                           *)
(***************************************************************************)
EXTENDS CborSkip, FiniteSetsExt

CONSTANTS
  PosLimit,      \* save(): the position has 48 bits,
  DepthLimit,    \* the depth the 16 above them
  IntMax,        \* INT64_MAX
  SelfDescribe,  \* self_describe_tag
  BytesTags      \* the tags of bignums (2, 3) and typed arrays (64..87, not 76)

ASSUME PackingAssumption ==
  /\ PosLimit \in Nat /\ DepthLimit \in Nat
  /\ \A s \in Inputs \cup StrictInputs : Len(s) < PosLimit
  /\ MaxDepth < DepthLimit
ASSUME ArgumentAssumption ==
  /\ IntMax = W \div 2 - 1
  /\ BytesTags \subseteq 0 .. W - 1 /\ SelfDescribe \in 1 .. W - 1

(* Simple values by their argument; 25..27 are the floats.                 *)
IsFloat(t) == t.mt = "simple" /\ t.value \in 25 .. 27

(* What parse_head may return: only strings and containers are indefinite  *)
(* (of simple values that is the break) and have no payload then, a        *)
(* reserved head has no argument, and of the simple values that are whole  *)
(* and valid only floats can be longer than necessary.                     *)
IsHead(t) ==
  /\ t.indefinite /\ ~t.reserved => t.mt \in String \cup Container /\ t.cut # "body"
  /\ t.reserved => t.value = 0
  /\ t.mt = "break" => t.cut = "none"
  /\ t.mt = "simple" => ~t.indefinite /\ (t.valid /\ ~t.reserved /\ t.cut # "head" => t.shortest \/ IsFloat(t))

ASSUME HeadsAssumption == \A s \in Inputs \cup StrictInputs : \A i \in DOMAIN s : IsHead(s[i])

VARIABLES
  ignoring,  \* options::ignore_unknown_tags
  entry,     \* depth_ when the item is reached
  phase,     \* "skip", "walk", "key" (the validator runs over a key) or "done"
  at,        \* walk: "value" to decode, "next" of the cursor, "chunk" of a string
  cursors,   \* the cursors the caller holds, innermost last
  saved,     \* what save() returned
  undo,      \* where a call that fails in its byte string sets the position back
  skipped,   \* how skip_value ended
  walked     \* how the typed operations ended

caller     == << ignoring, entry, skipped >>
readerVars == << vars, ignoring, entry, phase, at, cursors, saved, undo, skipped, walked >>

NoUndo == -1

Cur == cursors[Len(cursors)]

(* save(): one word of 64 bits.                                            *)
Saved(p, d) == (p + PosLimit * d) % (PosLimit * DepthLimit)

(* restore().                                                              *)
Restored(s) == << s % PosLimit, s \div PosLimit >>

Verdict(c, p, d) == [code |-> c, pos |-> p, depth |-> d]
Pending          == Verdict("pending", 0, 0)

ReaderInit ==
  /\ Init
  /\ ignoring \in BOOLEAN
  /\ entry = base
  /\ phase = "skip"
  /\ at = "value"
  /\ cursors = << >>
  /\ saved = Saved(0, base)
  /\ undo = NoUndo
  /\ skipped = Pending /\ walked = Pending

-----------------------------------------------------------------------------
(* The validator: over the whole item first, then over keys.               *)

Skip ==
  /\ phase \in {"skip", "key"}
  /\ Next
  /\ UNCHANGED << caller, phase, at, cursors, saved, undo, walked >>

(* start(): a leading self-describe tag is passed by the entry points.     *)
Start(d) == IF d = 0 /\ in # << >> /\ in[1].cut = "none" /\ in[1].mt = "tag" /\ in[1].value = SelfDescribe THEN 1 ELSE 0

Rewind ==
  /\ phase = "skip"
  /\ pc \in {"ok", "fail"}
  /\ skipped' = Verdict(err, pos, depth)
  /\ depth' = Restored(saved)[2]
  /\ pos' = Restored(saved)[1] + Start(depth')
  /\ stack' = << >>
  /\ phase' = "walk"
  /\ UNCHANGED << in, strict, base, chunkOf, pc, err, ignoring, entry, at, cursors, saved, undo, walked >>

-----------------------------------------------------------------------------
(* item_head: the tags that are ignored, then the checks of the head.      *)

Walking(a) == phase = "walk" /\ at = a

IsTag(p) == p < Len(in) /\ in[p + 1].mt = "tag" /\ in[p + 1].cut = "none" /\ ~in[p + 1].reserved

(* The item at p, after the tags that are ignored.                         *)
ItemAt(p) == IF ignoring THEN Min({q \in p .. Len(in) : ~IsTag(q)}) ELSE p
Item(p)   == in[ItemAt(p) + 1]

ItemError(p) ==
  IF ItemAt(p) = Len(in) \/ Item(p).cut = "head" THEN "truncated"
  ELSE IF Item(p).mt = "break" \/ Item(p).reserved THEN "malformed_item"
  ELSE IF Item(p).mt = "tag" THEN "tag_mismatch"
  ELSE IF Item(p).mt = "simple" /\ ~Item(p).valid THEN "malformed_item"
  ELSE IF strict /\ (Item(p).indefinite \/ (Item(p).mt # "simple" /\ ~Item(p).shortest)) THEN "non_deterministic"
  ELSE "none"

Wants == {"null", "boolean", "uint", "sint", "nint", "real", "simple", "text", "bytes", "array", "map"}

(* Whether expect_<want> takes the item with head t.                       *)
Fits(want, t) ==
  \/ want = t.mt /\ t.mt # "simple"
  \/ want = "sint" /\ t.mt \in {"uint", "nint"} /\ t.value <= IntMax
  \/ want = "real" /\ (t.mt \in {"uint", "nint"} \/ IsFloat(t))
  \/ want = "boolean" /\ t.mt = "simple" /\ t.value \in {20, 21}
  \/ want = "null" /\ t.mt = "simple" /\ t.value \in {22, 23}
  \/ want = "simple" /\ t.mt = "simple" /\ t.value \notin 20 .. 27

(* The call that peek's answer leads to (kind::sint to expect_nint,        *)
(* kind::undefined to expect_simple).                                      *)
Peek(t) ==
  IF t.mt # "simple" THEN t.mt
  ELSE IF t.value \in {20, 21} THEN "boolean"
  ELSE IF t.value \in {22, 23} THEN "null"
  ELSE IF IsFloat(t) THEN "real"
  ELSE "simple"

-----------------------------------------------------------------------------
(* How a call ends.                                                        *)

(* The decode fails with code c and leaves the reader at p.                *)
Ends(c, p) ==
  /\ walked' = Verdict(c, p, depth)
  /\ pos' = p
  /\ phase' = "done"
  /\ UNCHANGED << in, strict, base, depth, stack, chunkOf, pc, err, caller, at, cursors, saved, undo >>

(* An item is decoded and the reader is at p; cs are the cursors held.  A  *)
(* value follows a key; otherwise the innermost cursor is asked.           *)
Decoded(cs, p) ==
  /\ pos' = p
  /\ IF cs # << >> /\ cs[Len(cs)].key
     THEN cursors' = Replace(cs, [cs[Len(cs)] EXCEPT !.key = FALSE]) /\ at' = "value"
     ELSE cursors' = cs /\ at' = "next"
  /\ undo' = NoUndo
  /\ UNCHANGED << in, strict, base, stack, pc, err, caller, phase, saved, walked >>

(* read_string of the string whose head is at p; u is where a failure sets *)
(* the position back, or NoUndo.                                           *)
ReadString(p, u) ==
  LET t == in[p + 1]
  IN  IF t.indefinite
      THEN /\ pos' = p + 1 /\ at' = "chunk" /\ chunkOf' = t.mt /\ undo' = u
           /\ UNCHANGED << in, strict, base, depth, stack, pc, err, caller, phase, cursors, saved, walked >>
      ELSE IF t.cut = "body" THEN Ends("truncated", IF u = NoUndo THEN p ELSE u)
      ELSE IF ValidateUtf8 /\ t.mt = "text" /\ ~t.valid THEN Ends("invalid_utf8", p + 1)
      ELSE Decoded(cursors, p + 1) /\ UNCHANGED << depth, chunkOf >>

-----------------------------------------------------------------------------
(* expect_*.                                                               *)

(* A call that does not fit, of type_mismatch or out_of_range: the reader  *)
(* stays before the item, though past the tags it ignored.                 *)
ExpectRefused ==
  /\ Walking("value")
  /\ ItemError(pos) = "none"
  /\ \E want \in Wants : ~Fits(want, Item(pos))
  /\ pos' = ItemAt(pos)
  /\ UNCHANGED << in, strict, base, depth, stack, chunkOf, pc, err, caller, phase, at, cursors, saved, undo, walked >>

(* The call peek leads to fails in item_head.  Without ignore_unknown_tags *)
(* peek answers kind::tag, which is for expect_tags.                       *)
ExpectFails ==
  /\ Walking("value")
  /\ ItemError(pos) \notin {"none", "tag_mismatch"}
  /\ Ends(ItemError(pos), pos)

Fitting(wants) ==
  /\ Walking("value")
  /\ ItemError(pos) = "none"
  /\ Peek(Item(pos)) \in wants
  /\ Fits(Peek(Item(pos)), Item(pos))

(* expect_null .. expect_real; check_preferred_float in deterministic mode.*)
ExpectScalar ==
  /\ Fitting(Wants \ (String \cup Container))
  /\ IF strict /\ IsFloat(Item(pos)) /\ ~Item(pos).shortest
     THEN Ends("non_deterministic", ItemAt(pos))
     ELSE Decoded(cursors, ItemAt(pos) + 1) /\ UNCHANGED << depth, chunkOf >>

ExpectString ==
  /\ Fitting(String)
  /\ ReadString(ItemAt(pos), NoUndo)

ChunkFails ==
  /\ Walking("chunk")
  /\ ChunkError # "none"
  /\ Ends(ChunkError, IF undo = NoUndo THEN pos ELSE undo)

NextChunk ==
  /\ Walking("chunk")
  /\ ChunkError = "none"
  /\ IF Tok.mt = "break" THEN Decoded(cursors, pos + 1)
     ELSE pos' = pos + 1 /\ UNCHANGED << in, strict, base, stack, pc, err, caller, phase, at, cursors, saved, undo, walked >>
  /\ UNCHANGED << depth, chunkOf >>

(* expect_tags with the tag that is there; a mismatch changes nothing.     *)
ExpectTags ==
  /\ Walking("value")
  /\ IsTag(pos)
  /\ pos' = pos + 1
  /\ UNCHANGED << in, strict, base, depth, stack, chunkOf, pc, err, caller, phase, at, cursors, saved, undo, walked >>

(* expect_bignum and read_range: a tag, then expect_bytes; when that fails *)
(* the position is set back before the tag.  With anything but a byte      *)
(* string the call fails and leaves no trace.                              *)
ExpectTaggedBytes ==
  /\ Walking("value")
  /\ IsTag(pos) /\ Tok.value \in BytesTags
  /\ \/ /\ ItemError(pos + 1) \notin {"none", "tag_mismatch"}
        /\ Ends(ItemError(pos + 1), pos)
     \/ /\ ItemError(pos + 1) = "none"
        /\ Item(pos + 1).mt = "bytes"
        /\ ReadString(ItemAt(pos + 1), pos)

-----------------------------------------------------------------------------
(* Containers and cursors.                                                 *)

NewCursor(t) ==
  [ is_map    |-> t.mt = "map",
    remaining |-> IF t.indefinite THEN Nullopt ELSE t.value,
    key       |-> FALSE,          \* the item being decoded is a key
    prev      |-> << 0, 0 >> ]    \* prev_start_, prev_end_

(* expect_array, expect_map, with enter.                                   *)
ExpectContainer ==
  /\ Fitting(Container)
  /\ IF Full THEN Ends("depth_exceeded", ItemAt(pos))
     ELSE /\ pos' = ItemAt(pos) + 1
          /\ depth' = depth + 1
          /\ cursors' = Append(cursors, NewCursor(Item(pos)))
          /\ at' = "next"
          /\ UNCHANGED << in, strict, base, stack, chunkOf, pc, err, caller, phase, saved, undo, walked >>

Asking == Walking("next") /\ cursors # << >>

(* next() of either cursor.                                                *)
NextCut ==
  /\ Asking
  /\ Cur.remaining # 0 /\ AtEnd
  /\ Ends("truncated", pos)

(* Mutant: depth_ is lowered only for a count.                             *)
LoweredAtCount == IF Cur.remaining = Nullopt THEN depth ELSE depth - 1

(* --r_->depth_ of the four places where next() returns false.             *)
Left == depth - 1

Stop == Cur.remaining = Nullopt /\ ~AtEnd /\ Tok.mt = "break"

NextEnds ==
  /\ Asking
  /\ Cur.remaining = 0 \/ Stop
  /\ depth' = Left
  /\ Decoded(SubSeq(cursors, 1, Len(cursors) - 1), IF Stop THEN pos + 1 ELSE pos)
  /\ UNCHANGED chunkOf

Taken(key) ==
  [Cur EXCEPT !.remaining = IF @ = Nullopt THEN @ ELSE @ - 1, !.key = key]

NextItem ==
  /\ Asking
  /\ Cur.remaining # 0 /\ ~AtEnd /\ ~Stop
  /\ cursors' = Replace(cursors, Taken(Cur.is_map))
  /\ IF Cur.is_map /\ strict
     THEN /\ phase' = "key"
          /\ saved' = Saved(pos, depth)
          /\ pc' = "item" /\ err' = "none" /\ base' = depth
          /\ UNCHANGED at
     ELSE at' = "value" /\ UNCHANGED << phase, saved, pc, err, base >>
  /\ UNCHANGED << in, strict, pos, depth, stack, chunkOf, caller, undo, walked >>

(* Mutant: equal keys are in order.                                        *)
RepeatAllowed(prev, cur) == ~EncodedLess(cur, prev)

(* key_order_error finds nothing.                                          *)
InOrder(prev, cur) == EncodedLess(prev, cur)

KeyBytes(x) == SubSeq(in, x[1] + 1, x[2])

(* key_ahead, after its skip_value: back to the key, then its order.       *)
KeyAhead ==
  /\ phase = "key"
  /\ pc \in {"ok", "fail"}
  /\ LET back == Restored(saved)
         cur  == << back[1], pos >>
     IN  /\ pos' = back[1]
         /\ depth' = back[2]
         /\ IF pc = "ok" /\ Cur.prev # << 0, 0 >> /\ ~InOrder(KeyBytes(Cur.prev), KeyBytes(cur))
            THEN /\ walked' = Verdict("non_deterministic", back[1], back[2])
                 /\ phase' = "done"
                 /\ UNCHANGED << at, cursors >>
            ELSE /\ phase' = "walk" /\ at' = "value"
                 /\ cursors' = IF pc = "ok" THEN Replace(cursors, [Cur EXCEPT !.prev = cur]) ELSE cursors
                 /\ UNCHANGED walked
  /\ stack' = << >>
  /\ UNCHANGED << in, strict, base, chunkOf, pc, err, caller, saved, undo >>

(* The item is complete; the entry points end with finish().               *)
Finish ==
  /\ Walking("next")
  /\ cursors = << >>
  /\ Ends(IF entry = 0 /\ pos < Len(in) THEN "trailing_content" ELSE "none", pos)

-----------------------------------------------------------------------------
ReaderNext ==
  \/ Skip \/ Rewind
  \/ ExpectRefused \/ ExpectFails \/ ExpectScalar \/ ExpectString \/ ChunkFails \/ NextChunk
  \/ ExpectTags \/ ExpectTaggedBytes \/ ExpectContainer
  \/ NextCut \/ NextEnds \/ NextItem \/ KeyAhead \/ Finish

ReaderSpec == ReaderInit /\ [][ReaderNext]_readerVars

-----------------------------------------------------------------------------
(* Properties.                                                             *)

(* depth_ counts the cursors the caller holds on top of where it started,  *)
(* and the containers the validator has open inside a key on top of those: *)
(* the look at a key, a rewind or a refused call never leaves it changed;  *)
(* and it never passes max_depth.                                          *)
DepthInStep ==
  /\ depth <= MaxDepth
  /\ phase = "walk" => depth = entry + Len(cursors)
  /\ phase = "key"  => depth = entry + Len(cursors) + Len(stack)

(* skip_value and the typed operations agree: both accept, or both fail    *)
(* with the same code; accepted, both end at the same place and depth.     *)
(* Only what follows the item is the entry point's to report.              *)
Agree ==
  IF skipped.code # "none" THEN walked.code = skipped.code
  ELSE /\ walked.code = IF entry = 0 /\ skipped.pos < Len(in) THEN "trailing_content" ELSE "none"
       /\ walked.pos = skipped.pos /\ walked.depth = skipped.depth

(* Heads on which the two part: the pair count that doubles past 64 bits   *)
(* in skip_value, and in deterministic mode a tag head that is not in its  *)
(* shortest form, which only skip_value looks at.                          *)
Wide       == \E i \in DOMAIN in : in[i].mt = "map" /\ 2 * in[i].value >= W
LongTag    == strict /\ \E i \in DOMAIN in : in[i].mt = "tag" /\ ~in[i].shortest

(* What the fuzzer's oracle says, on the inputs without those heads: for   *)
(* every codec that follows peek, whatever wrong calls it made on the way, *)
(* whether tags are ignored or expected, and with keys of any kind.        *)
PathsAgree == phase = "done" /\ ~Wide /\ ~LongTag => Agree

(* The documentation: require_deterministic makes the reader check core    *)
(* deterministic encoding.  What it decodes then, skip_value accepts.      *)
DecodesDeterministic == phase = "done" /\ strict /\ walked.code = "none" => skipped.code = "none"

===============================================================================
