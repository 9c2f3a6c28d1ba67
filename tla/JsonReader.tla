------------------------------ MODULE JsonReader ------------------------------
(***************************************************************************)
(* json::reader over a text: the generic validator skip_value, and the     *)
(* typed path (peek, expect_*, cursors) that a decoder of any value takes. *)
(* Both read the value at the same saved position, as build.hpp does when  *)
(* it rewinds, and as fuzz/fuzz_skip.cpp does to compare them.             *)
(***************************************************************************)
EXTENDS JsonTokens

VARIABLES
  in,         \* in_
  pos,        \* pos_, as the index of a token
  depth,      \* depth_
  base,       \* depth_ at the saved position, which is the start of in
  reading,    \* "skip", "walk", or "none"
  state,      \* skip_value: the state of its loop
  is_object,  \* skip_value: is_object[0 .. local - 1]
  cursors,    \* typed path: the open cursors, innermost last
  walk,       \* typed path: what it does next
  events,     \* typed path: what it has read
  skipped,    \* what skip_value returned, and the position and depth then
  walked      \* the same of the typed path

skip   == << state, is_object >>
typed  == << cursors, walk, events >>
reader == << in, pos, depth, base, reading, skip, typed, skipped, walked >>

NoVerdict == [code |-> "none", at |-> 0, pos |-> 0, depth |-> 0]

Reset ==
  /\ state = "want_value" /\ is_object = << >>
  /\ cursors = << >> /\ walk = "value" /\ events = << >>
  /\ skipped = NoVerdict /\ walked = NoVerdict

(* skip_ws from index i.                                                   *)
SkipWs(i) == Min({j \in i .. Len(in) + 1 : j > Len(in) \/ in[j].k # "ws"})

AtEnd(i) == i > Len(in)

(* The offset of the lexical error of token i: literal() reports the end   *)
(* of the text when the word is cut off.                                   *)
LexOffset(i) == IF in[i].v = "truncated" THEN Len(in) + 1 ELSE i

-----------------------------------------------------------------------------
(* skip_value.  Each action is an iteration of the loop, from its skip_ws. *)

Skipping(s) == reading = "skip" /\ state = s

(* skip_value returns; then restore() goes back for the typed path.        *)
SkipReturns(code, at, p) ==
  /\ skipped' = [code |-> code, at |-> at, pos |-> p, depth |-> depth]
  /\ reading' = "walk"
  /\ pos' = 1
  /\ depth' = base
  /\ state' = "want_value" /\ is_object' = << >>
  /\ UNCHANGED << in, base, typed, walked >>

SkipOn(p, s, objs) ==
  /\ pos' = p /\ state' = s /\ is_object' = objs
  /\ UNCHANGED << in, depth, base, reading, typed, skipped, walked >>

SkipFull == depth + Len(is_object) >= MaxDepth

SkipCut ==
  /\ reading = "skip"
  /\ ~(state = "after_value" /\ is_object = << >>)
  /\ AtEnd(SkipWs(pos))
  /\ SkipReturns("truncated", SkipWs(pos), SkipWs(pos))

SkipOpen ==
  LET p == SkipWs(pos) q == SkipWs(p + 1)
  IN  /\ Skipping("want_value") /\ ~AtEnd(p) /\ in[p].k \in Opening
      /\ IF SkipFull THEN SkipReturns("depth_exceeded", p, p)
         ELSE IF AtEnd(q) THEN SkipReturns("truncated", q, q)
         ELSE IF in[q].k = Closing(in[p].k) THEN SkipOn(q + 1, "after_value", is_object)
         ELSE SkipOn(q, IF in[p].k = "{" THEN "want_key" ELSE "want_value",
                     Append(is_object, in[p].k = "{"))

SkipScalar ==
  LET p == SkipWs(pos)
  IN  /\ Skipping("want_value") /\ ~AtEnd(p) /\ in[p].k \in Scalar
      /\ IF in[p].v = "ok" THEN SkipOn(p + 1, "after_value", is_object)
         ELSE SkipReturns(in[p].v, LexOffset(p), p)

SkipNoValue ==
  LET p == SkipWs(pos)
  IN  /\ Skipping("want_value") /\ ~AtEnd(p) /\ in[p].k \notin Opening \cup Scalar
      /\ SkipReturns("unexpected_token", p, p)

SkipKey ==
  LET p == SkipWs(pos) q == SkipWs(p + 1)
  IN  /\ Skipping("want_key") /\ ~AtEnd(p)
      /\ IF in[p].k # "text" THEN SkipReturns("unexpected_token", p, p)
         ELSE IF in[p].v # "ok" THEN SkipReturns(in[p].v, p, p)
         ELSE IF AtEnd(q) THEN SkipReturns("truncated", q, q)
         ELSE IF in[q].k # ":" THEN SkipReturns("unexpected_token", q, q)
         ELSE SkipOn(q + 1, "want_value", is_object)

(* Mutant: the comma is looked at and not passed.                          *)
SkipCommaStays(p) == SkipOn(p, "after_value", is_object)

(* After the comma a closing bracket of either kind is refused at once.    *)
SkipComma(p) ==
  LET q == SkipWs(p + 1)
  IN  IF ~AtEnd(q) /\ in[q].k \in {"]", "}"} THEN SkipReturns("unexpected_token", q, q)
      ELSE SkipOn(q, IF Last(is_object) THEN "want_key" ELSE "want_value", is_object)

(* Mutant: either bracket closes.                                          *)
SkipAnyBracket(p) == in[p].k \in {"]", "}"}

SkipCloses(p) == in[p].k = Closing(IF Last(is_object) THEN "{" ELSE "[")

SkipAfter ==
  LET p == SkipWs(pos)
  IN  /\ Skipping("after_value") /\ is_object # << >> /\ ~AtEnd(p)
      /\ IF in[p].k = "," THEN SkipComma(p)
         ELSE IF SkipCloses(p) THEN SkipOn(p + 1, "after_value", Front(is_object))
         ELSE SkipReturns("unexpected_token", p, p)

SkipDone ==
  /\ Skipping("after_value") /\ is_object = << >>
  /\ SkipReturns("none", 0, pos)

-----------------------------------------------------------------------------
(* The typed path.                                                         *)

Walking(w) == reading = "walk" /\ walk = w

WalkReturns(code, at, p) ==
  /\ walked' = [code |-> code, at |-> at, pos |-> p, depth |-> depth]
  /\ reading' = "none"
  /\ pos' = p
  /\ UNCHANGED << in, depth, base, skip, typed, skipped >>

WalkOn(p, d, w, cs, ev) ==
  /\ pos' = p /\ depth' = d /\ walk' = w /\ cursors' = cs /\ events' = events \o ev
  /\ UNCHANGED << in, base, reading, skip, skipped, walked >>

AfterValue(cs) == IF cs = << >> THEN "end" ELSE "next"

(* expect_null, expect_boolean, expect_real or expect_text, chosen by      *)
(* peek; a character that starts no value fails any of them.               *)
ExpectScalar ==
  LET p == SkipWs(pos)
  IN  /\ Walking("value")
      /\ ~(~AtEnd(p) /\ in[p].k \in Opening)
      /\ IF AtEnd(p) THEN WalkReturns("truncated", p, p)
         ELSE IF in[p].k \notin Scalar THEN WalkReturns("unexpected_token", p, p)
         ELSE IF in[p].v # "ok" THEN WalkReturns(in[p].v, LexOffset(p), p)
         ELSE WalkOn(p + 1, depth, AfterValue(cursors), cursors, << in[p] >>)

(* Mutant: one container too many.                                         *)
EnterFullLate == depth > MaxDepth

EnterFull == depth >= MaxDepth

(* expect_array, expect_map and enter.                                     *)
ExpectContainer ==
  LET p == SkipWs(pos)
  IN  /\ Walking("value") /\ ~AtEnd(p) /\ in[p].k \in Opening
      /\ IF EnterFull THEN WalkReturns("depth_exceeded", p, p)
         ELSE WalkOn(p + 1, depth + 1, "next",
                     Append(cursors, [open |-> in[p].k, first |-> TRUE]), << in[p] >>)

Cur == Last(cursors)

(* seq_cursor::next and map_cursor::next.                                  *)
CursorNext ==
  LET p    == SkipWs(pos)
      q    == SkipWs(p + 1)
      used == [cursors EXCEPT ![Len(cursors)].first = FALSE]
      then == IF Cur.open = "{" THEN "key" ELSE "value"
  IN  /\ Walking("next")
      /\ IF AtEnd(p) THEN WalkReturns("truncated", p, p)
         ELSE IF in[p].k = Closing(Cur.open)
           THEN WalkOn(p + 1, depth - 1, AfterValue(Front(cursors)), Front(cursors), << in[p] >>)
         ELSE IF Cur.first THEN WalkOn(p, depth, then, used, << >>)
         ELSE IF in[p].k # "," THEN WalkReturns("unexpected_token", p, p)
         ELSE IF ~AtEnd(q) /\ in[q].k = Closing(Cur.open) THEN WalkReturns("unexpected_token", q, q)
         ELSE WalkOn(q, depth, then, cursors, << >>)

(* map_cursor::key_text.                                                   *)
KeyText ==
  LET p == SkipWs(pos) q == SkipWs(p + 1)
  IN  /\ Walking("key")
      /\ IF AtEnd(p) THEN WalkReturns("truncated", p, p)
         ELSE IF in[p].k # "text" THEN WalkReturns("unexpected_token", p, p)
         ELSE IF in[p].v # "ok" THEN WalkReturns(in[p].v, p, p)
         ELSE IF AtEnd(q) THEN WalkReturns("truncated", q, q)
         ELSE IF in[q].k # ":" THEN WalkReturns("unexpected_token", q, q)
         ELSE WalkOn(q + 1, depth, "value", cursors, << KeyEvent >>)

WalkDone ==
  /\ Walking("end")
  /\ WalkReturns("none", 0, pos)

ReadNext ==
  \/ SkipCut \/ SkipOpen \/ SkipScalar \/ SkipNoValue \/ SkipKey \/ SkipAfter \/ SkipDone
  \/ ExpectScalar \/ ExpectContainer \/ CursorNext \/ KeyText \/ WalkDone

===============================================================================
