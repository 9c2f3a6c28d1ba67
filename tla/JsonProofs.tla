------------------------------ MODULE JsonProofs ------------------------------
(***************************************************************************)
(* Proofs about Json, for every text, every max_depth, every depth at the  *)
(* call and writers called without a bound.                                *)
(***************************************************************************)
EXTENDS Json, CommonLemmas

(* The loop of skip_value at its top: the position, the state and the      *)
(* brackets of the open containers, for which is_object has a bit each.    *)
Conf(p, s, o) == [p |-> p, s |-> s, o |-> o]

Bit     == [k \in Opening |-> k = "{"]
Bits(o) == [i \in 1 .. Len(o) |-> Bit[o[i]]]

Wanted(k) == IF k = "{" THEN "want_key" ELSE "want_value"

(* An iteration that goes on takes c to d.                                 *)
GoesOpen(c, d) ==
  LET p == SkipWs(c.p) q == SkipWs(p + 1)
  IN  /\ c.s = "want_value" /\ ~AtEnd(p) /\ in[p].k \in Opening
      /\ ~(base + Len(c.o) >= MaxDepth) /\ ~AtEnd(q)
      /\ d = IF in[q].k = Closing(in[p].k) THEN Conf(q + 1, "after_value", c.o)
             ELSE Conf(q, Wanted(in[p].k), Append(c.o, in[p].k))

GoesScalar(c, d) ==
  LET p == SkipWs(c.p)
  IN  /\ c.s = "want_value" /\ ~AtEnd(p) /\ in[p].k \in Scalar /\ in[p].v = "ok"
      /\ d = Conf(p + 1, "after_value", c.o)

GoesKey(c, d) ==
  LET p == SkipWs(c.p) q == SkipWs(p + 1)
  IN  /\ c.s = "want_key" /\ ~AtEnd(p) /\ in[p].k = "text" /\ in[p].v = "ok"
      /\ ~AtEnd(q) /\ in[q].k = ":"
      /\ d = Conf(q + 1, "want_value", c.o)

GoesAfter(c, d) ==
  LET p == SkipWs(c.p) q == SkipWs(p + 1)
  IN  /\ c.s = "after_value" /\ c.o # << >> /\ ~AtEnd(p)
      /\ \/ /\ in[p].k = "," /\ ~(~AtEnd(q) /\ in[q].k \in {"]", "}"})
            /\ d = Conf(q, Wanted(Last(c.o)), c.o)
         \/ /\ in[p].k # "," /\ in[p].k = Closing(Last(c.o))
            /\ d = Conf(p + 1, "after_value", Front(c.o))

Goes(c, d) == GoesOpen(c, d) \/ GoesScalar(c, d) \/ GoesKey(c, d) \/ GoesAfter(c, d)

(* An iteration from c returns the error v.                                *)
StopsAny(c, v) ==
  /\ ~(c.s = "after_value" /\ c.o = << >>)
  /\ AtEnd(SkipWs(c.p)) /\ v.code = "truncated" /\ v.at = SkipWs(c.p)

StopsValue(c, v) ==
  LET p == SkipWs(c.p) q == SkipWs(p + 1)
  IN  /\ c.s = "want_value" /\ ~AtEnd(p)
      /\ \/ /\ in[p].k \in Opening /\ base + Len(c.o) >= MaxDepth
            /\ v.code = "depth_exceeded" /\ v.at = p
         \/ /\ in[p].k \in Opening /\ ~(base + Len(c.o) >= MaxDepth) /\ AtEnd(q)
            /\ v.code = "truncated" /\ v.at = q
         \/ /\ in[p].k \in Scalar /\ in[p].v # "ok"
            /\ v.code = in[p].v /\ v.at = LexOffset(p)
         \/ /\ in[p].k \notin Opening \cup Scalar
            /\ v.code = "unexpected_token" /\ v.at = p

StopsKey(c, v) ==
  LET p == SkipWs(c.p) q == SkipWs(p + 1)
  IN  /\ c.s = "want_key" /\ ~AtEnd(p)
      /\ \/ in[p].k # "text" /\ v.code = "unexpected_token" /\ v.at = p
         \/ in[p].k = "text" /\ in[p].v # "ok" /\ v.code = in[p].v /\ v.at = p
         \/ /\ in[p].k = "text" /\ in[p].v = "ok"
            /\ AtEnd(q) /\ v.code = "truncated" /\ v.at = q
         \/ /\ in[p].k = "text" /\ in[p].v = "ok"
            /\ ~AtEnd(q) /\ in[q].k # ":" /\ v.code = "unexpected_token" /\ v.at = q

StopsAfter(c, v) ==
  LET p == SkipWs(c.p) q == SkipWs(p + 1)
  IN  /\ c.s = "after_value" /\ c.o # << >> /\ ~AtEnd(p)
      /\ v.code = "unexpected_token"
      /\ \/ in[p].k = "," /\ ~AtEnd(q) /\ in[q].k \in {"]", "}"} /\ v.at = q
         \/ in[p].k # "," /\ in[p].k # Closing(Last(c.o)) /\ v.at = p

(* The value is complete at c.                                             *)
StopsDone(c, v) ==
  /\ c.s = "after_value" /\ c.o = << >>
  /\ v = [code |-> "none", at |-> 0, pos |-> c.p, depth |-> base]

Stops(c, v) ==
  StopsAny(c, v) \/ StopsValue(c, v) \/ StopsKey(c, v) \/ StopsAfter(c, v) \/ StopsDone(c, v)

-----------------------------------------------------------------------------
(* skip_value, from a on, has come to b: the places S it has been at.      *)
Reached(a, b) ==
  \E S : a \in S /\ b \in S /\ \A c \in S : c = b \/ \E d \in S : Goes(c, d)

(* skip_value, from a on, ends with the verdict v.                         *)
Leads(a, v) ==
  \E S : a \in S /\ \A c \in S : Stops(c, v) \/ \E d \in S : Goes(c, d)

(* The typed path.                                                         *)
Cursor == [open : Opening, first : BOOLEAN]

Brackets(cs) == [i \in 1 .. Len(cs) |-> cs[i].open]

AtState(w) == CASE w = "value" -> "want_value" [] w = "key" -> "want_key" [] OTHER -> "after_value"

CursorsOK(cs, w) ==
  /\ cs \in Seq(Cursor)
  /\ \A i \in 1 .. Len(cs) : i < Len(cs) \/ w # "next" => cs[i].first = FALSE
  /\ w = "end" => cs = << >>
  /\ w = "next" => cs # << >>

(* Right behind a bracket skip_value is one iteration back: it looks for   *)
(* an empty container in the same one.                                     *)
Entered(p, cs) ==
  \E c : /\ Leads(c, skipped)
         /\ c.s = "want_value" /\ c.o = Brackets(Front(cs))
         /\ ~AtEnd(SkipWs(c.p)) /\ in[SkipWs(c.p)].k = Last(cs).open
         /\ p = SkipWs(c.p) + 1
         /\ base + Len(c.o) < MaxDepth

(* After a comma skip_value refuses a bracket of the wrong kind at once,   *)
(* where the typed path goes on to the value or the key, and fails there.  *)
Refused(p, w) ==
  /\ w \in {"value", "key"}
  /\ ~AtEnd(SkipWs(p)) /\ in[SkipWs(p)].k \in {"]", "}"}
  /\ skipped.code = "unexpected_token" /\ skipped.at = SkipWs(p)

(* The typed path is about to do w at position p, with depth_ = d and the  *)
(* cursors cs: skip_value has been where it is.                            *)
Follows(p, d, w, cs) ==
  /\ CursorsOK(cs, w)
  /\ w \in {"value", "key", "next", "end"}
  /\ d = base + Len(cs)
  /\ p \in 1 .. Len(in) + 1
  /\ w = "next" /\ Last(cs).first = TRUE => Entered(p, cs)
  /\ ~(w = "next" /\ Last(cs).first = TRUE) =>
       Leads(Conf(p, AtState(w), Brackets(cs)), skipped) \/ Refused(p, w)

Start == Conf(1, "want_value", << >>)

Fresh == cursors = << >> /\ walk = "value"

(* The inductive invariant.  PathsAgree speaks of the end only: on the way *)
(* the typed path is at one of the places skip_value has been at, from     *)
(* which it went on to its verdict, one iteration back or refused apart.   *)
JsonInv ==
  /\ reading \in {"write", "skip", "walk", "none"}
  /\ in \in Seq(Token)
  /\ base \in 0 .. MaxDepth
  /\ reading = "write" =>
       /\ Fresh /\ out \in Seq(Token) /\ base = 0
       /\ pos = 1 /\ depth = base /\ state = "want_value" /\ is_object = << >>
  /\ reading = "skip" =>
       /\ Fresh /\ depth = base
       /\ \E o \in Seq(Opening) : is_object = Bits(o) /\ Reached(Start, Conf(pos, state, o))
  /\ reading = "walk" => Follows(pos, depth, walk, cursors)
  /\ reading = "none" => PathsAgree

-----------------------------------------------------------------------------
(* Tokens and positions.                                                   *)

(* What a lexeme is found to be is never the code of success.              *)
LEMMA TokenCode == \A t \in Token : t.v # "none"
<1>1. \A k : "none" \notin Outcomes(k)
  BY DEF Outcomes
<1>2. \A k, v : Tk(k, v).v = v
  BY DEF Tk
<1> TAKE t \in Token
<1>3. CASE \E k : t = Tk(k, "ok")
  BY <1>2, <1>3
<1>4. CASE \E k \in Scalar : t \in {Tk(k, v) : v \in Outcomes(k)}
  BY <1>1, <1>2, <1>4
<1>5. \/ t \in {Mark(k) : k \in Opening \cup {"]", "}", ",", ":", "ws", "other"}}
      \/ t \in UNION {{Tk(k, v) : v \in Outcomes(k)} : k \in Scalar}
  BY DEF Token
<1> QED
  BY <1>3, <1>4, <1>5 DEF Mark

(* skip_ws stops inside the text or at its end, and at once where there is *)
(* no whitespace.                                                          *)
LEMMA SkipWsIn ==
  ASSUME in \in Seq(Token), NEW i \in 1 .. Len(in) + 1
  PROVE  /\ SkipWs(i) \in 1 .. Len(in) + 1
         /\ ~AtEnd(i) /\ in[i].k # "ws" => SkipWs(i) = i
         /\ ~AtEnd(SkipWs(i)) => in[SkipWs(i)].k # "ws" /\ SkipWs(i) + 1 \in 1 .. Len(in) + 1
<1> DEFINE S == {j \in i .. Len(in) + 1 : j > Len(in) \/ in[j].k # "ws"}
<1>1. Len(in) \in Nat
  OBVIOUS
<1>2. S \in SUBSET Nat /\ Len(in) + 1 \in S
  BY <1>1
<1>3. SkipWs(i) = Min(S)
  BY DEF SkipWs
<1>4. ~AtEnd(i) /\ in[i].k # "ws" => i \in S
  BY <1>1
<1>5. \A j \in S : j \in i .. Len(in) + 1 /\ (j > Len(in) \/ in[j].k # "ws")
  OBVIOUS
<1>6. Min(S) \in S /\ \A x \in S : Min(S) <= x
  <2> HIDE DEF S
  <2> QED
    BY <1>2, MinOf
<1> HIDE DEF S
<1> QED
  BY <1>1, <1>3, <1>4, <1>5, <1>6 DEF AtEnd

-----------------------------------------------------------------------------
(* Paths of skip_value.                                                    *)

(* One more iteration.                                                     *)
LEMMA ReachedOn ==
  ASSUME NEW a, NEW b, NEW d, Reached(a, b), Goes(b, d)
  PROVE  Reached(a, d)
<1>1. PICK S : a \in S /\ b \in S /\ \A c \in S : c = b \/ \E e \in S : Goes(c, e)
  BY DEF Reached
<1>2. \A c \in S \cup {d} : c = d \/ \E e \in S \cup {d} : Goes(c, e)
  BY <1>1
<1> QED
  BY <1>1, <1>2 DEF Reached

(* The last one.                                                           *)
LEMMA ReachedEnd ==
  ASSUME NEW a, NEW b, NEW v, Reached(a, b), Stops(b, v)
  PROVE  Leads(a, v)
  BY DEF Reached, Leads

(* The first one.                                                          *)
LEMMA LeadsOn ==
  ASSUME NEW c, NEW v, Leads(c, v)
  PROVE  Stops(c, v) \/ \E d : Goes(c, d) /\ Leads(d, v)
  BY DEF Leads

(* What an iteration does depends on the text and on max_depth alone.      *)
LEMMA SameText ==
  ASSUME UNCHANGED << in, base >>
  PROVE  /\ \A a, b : Reached(a, b)' <=> Reached(a, b)
         /\ \A a, v : Leads(a, v)' <=> Leads(a, v)
<1>1. in' = in /\ base' = base
  OBVIOUS
<1>2. \A c, d : Goes(c, d)' <=> Goes(c, d)
  BY <1>1 DEF Goes, GoesOpen, GoesScalar, GoesKey, GoesAfter, SkipWs, AtEnd
<1>3. \A c, v : Stops(c, v)' <=> Stops(c, v)
  BY <1>1 DEF Stops, StopsAny, StopsValue, StopsKey, StopsAfter, StopsDone, SkipWs, AtEnd, LexOffset
<1>4. \A a, b : Reached(a, b)' <=> Reached(a, b)
  BY <1>2 DEF Reached
<1> QED
  BY <1>2, <1>3, <1>4 DEF Leads

-----------------------------------------------------------------------------
(* The bits of is_object, and the brackets of the cursors.                 *)

(* The bit of a bracket.                                                   *)
LEMMA BitType == Bit \in [Opening -> BOOLEAN] /\ \A k \in Opening : Bit[k] = (k = "{")
  BY DEF Bit

(* There is a bit for each container.                                      *)
LEMMA BitsLen ==
  ASSUME NEW o \in Seq(Opening)
  PROVE  /\ Bits(o) \in Seq(BOOLEAN) /\ Len(Bits(o)) = Len(o) /\ Len(o) \in Nat
         /\ Bits(o) = << >> <=> o = << >>
         /\ \A i \in 1 .. Len(o) : Bits(o)[i] = Bit[o[i]]
<1>0. Len(o) \in Nat /\ \A i \in 1 .. Len(o) : o[i] \in Opening
  OBVIOUS
<1>1. Len(o) \in Nat /\ \A i \in 1 .. Len(o) : Bit[o[i]] \in BOOLEAN
  BY <1>0, BitType, Zenon
<1>2. Bits(o) \in Seq(BOOLEAN) /\ Len(Bits(o)) = Len(o)
  BY <1>1 DEF Bits
<1> QED
  BY <1>1, <1>2, EmptySeq DEF Bits

(* A container is opened.                                                  *)
LEMMA BitsAppend ==
  ASSUME NEW o \in Seq(Opening), NEW k \in Opening
  PROVE  Append(o, k) \in Seq(Opening) /\ Bits(Append(o, k)) = Append(Bits(o), k = "{")
<1>1. /\ Append(o, k) \in Seq(Opening) /\ Len(o) \in Nat /\ Len(Append(o, k)) = Len(o) + 1
      /\ \A i \in 1 .. Len(o) : Append(o, k)[i] = o[i]
      /\ Append(o, k)[Len(o) + 1] = k
  OBVIOUS
<1>2. /\ Append(Bits(o), Bit[k]) \in Seq(BOOLEAN) /\ Len(Append(Bits(o), Bit[k])) = Len(o) + 1
      /\ \A i \in 1 .. Len(o) : Append(Bits(o), Bit[k])[i] = Bit[o[i]]
      /\ Append(Bits(o), Bit[k])[Len(o) + 1] = Bit[k]
  <2>1. Bit[k] \in BOOLEAN
    BY BitType, Zenon
  <2>2. Bits(o) \in Seq(BOOLEAN) /\ Len(Bits(o)) = Len(o) /\ \A i \in 1 .. Len(o) : Bits(o)[i] = Bit[o[i]]
    BY BitsLen
  <2> DEFINE b == Bits(o)
             x == Bit[k]
             B == BOOLEAN
  <2>3. b \in Seq(B) /\ x \in B
    BY <2>1, <2>2
  <2> HIDE DEF b, x, B
  <2>4. /\ Append(b, x) \in Seq(B) /\ Len(Append(b, x)) = Len(b) + 1
        /\ \A i \in 1 .. Len(b) : Append(b, x)[i] = b[i]
        /\ Append(b, x)[Len(b) + 1] = x
    BY <2>3
  <2> QED
    BY <2>2, <2>4 DEF b, x, B
<1>3. \A i \in 1 .. Len(o) + 1 : Bits(Append(o, k))[i] = Append(Bits(o), Bit[k])[i]
  <2> TAKE i \in 1 .. Len(o) + 1
  <2>1. Bits(Append(o, k))[i] = Bit[Append(o, k)[i]]
    BY <1>1, BitsLen
  <2>2. i \in 1 .. Len(o) \/ i = Len(o) + 1
    BY <1>1
  <2> QED
    BY <1>1, <1>2, <2>1, <2>2
<1>4. Bits(Append(o, k)) \in Seq(BOOLEAN) /\ Len(Bits(Append(o, k))) = Len(o) + 1
  BY <1>1, BitsLen
<1>5. Bits(Append(o, k)) = Append(Bits(o), Bit[k])
  BY <1>2, <1>3, <1>4, SeqEqual
<1> QED
  BY <1>1, <1>5, BitType

(* One is closed.                                                          *)
LEMMA BitsFront ==
  ASSUME NEW o \in Seq(Opening), o # << >>
  PROVE  /\ Front(o) \in Seq(Opening) /\ Bits(Front(o)) = Front(Bits(o))
         /\ Last(o) \in Opening /\ (Last(Bits(o)) <=> Last(o) = "{")
<1>1. /\ Len(o) \in Nat \ {0} /\ o[Len(o)] \in Opening
      /\ Front(o) \in Seq(Opening) /\ Len(Front(o)) = Len(o) - 1
      /\ \A i \in 1 .. Len(o) - 1 : Front(o)[i] = o[i]
  BY PopSeq DEF Front
<1>2. /\ Front(Bits(o)) \in Seq(BOOLEAN) /\ Len(Front(Bits(o))) = Len(o) - 1
      /\ \A i \in 1 .. Len(o) - 1 : Front(Bits(o))[i] = Bits(o)[i]
  BY BitsLen, PopSeq DEF Front
<1>3. \A i \in 1 .. Len(o) - 1 : Bits(Front(o))[i] = Front(Bits(o))[i]
  <2> TAKE i \in 1 .. Len(o) - 1
  <2>1. i \in 1 .. Len(o)
    BY <1>1
  <2>2. Bits(Front(o))[i] = Bit[Front(o)[i]]
    BY <1>1, BitsLen
  <2>3. Bits(o)[i] = Bit[o[i]]
    BY <2>1, BitsLen
  <2> QED
    BY <1>1, <1>2, <2>2, <2>3
<1>4. Bits(Front(o)) \in Seq(BOOLEAN) /\ Len(Bits(Front(o))) = Len(o) - 1
  BY <1>1, BitsLen
<1>5. Bits(Front(o)) = Front(Bits(o))
  BY <1>2, <1>3, <1>4, SeqEqual
<1>6. Bits(o)[Len(Bits(o))] = Bit[o[Len(o)]]
  BY <1>1, BitsLen
<1>7. Last(Bits(o)) <=> Last(o) = "{"
  BY <1>1, <1>6, BitType DEF Last
<1> QED
  BY <1>1, <1>5, <1>7 DEF Last

(* A cursor is opened.                                                     *)
LEMMA CursorsAppend ==
  ASSUME NEW cs \in Seq(Cursor), NEW c \in Cursor
  PROVE  /\ Append(cs, c) \in Seq(Cursor) /\ Append(cs, c) # << >>
         /\ Len(Append(cs, c)) = Len(cs) + 1 /\ Last(Append(cs, c)) = c
         /\ Front(Append(cs, c)) = cs
<1>1. /\ Append(cs, c) \in Seq(Cursor) /\ Append(cs, c) # << >> /\ Len(cs) \in Nat
      /\ Len(Append(cs, c)) = Len(cs) + 1 /\ Append(cs, c)[Len(cs) + 1] = c
      /\ \A i \in 1 .. Len(cs) : Append(cs, c)[i] = cs[i]
  OBVIOUS
<1>2. /\ Front(Append(cs, c)) \in Seq(Cursor) /\ Len(Front(Append(cs, c))) = Len(cs)
      /\ \A i \in 1 .. Len(cs) : Front(Append(cs, c))[i] = Append(cs, c)[i]
  BY <1>1, PopSeq DEF Front
<1>3. Front(Append(cs, c)) = cs
  BY <1>1, <1>2, SeqEqual
<1> QED
  BY <1>1, <1>3 DEF Last

(* The brackets of cursors.                                                *)
LEMMA BracketsOf ==
  ASSUME NEW cs \in Seq(Cursor)
  PROVE  /\ Brackets(cs) \in Seq(Opening) /\ Len(Brackets(cs)) = Len(cs) /\ Len(cs) \in Nat
         /\ Brackets(cs) = << >> <=> cs = << >>
         /\ \A i \in 1 .. Len(cs) : Brackets(cs)[i] = cs[i].open /\ cs[i] \in Cursor
<1>0. \A c \in Cursor : c.open \in Opening
  BY DEF Cursor
<1>1. Len(cs) \in Nat /\ \A i \in 1 .. Len(cs) : cs[i] \in Cursor /\ cs[i].open \in Opening
  BY <1>0
<1>2. Brackets(cs) \in Seq(Opening) /\ Len(Brackets(cs)) = Len(cs)
  BY <1>1 DEF Brackets
<1> QED
  BY <1>1, <1>2, EmptySeq DEF Brackets

(* The innermost one, and the cursors without it.                          *)
LEMMA CursorsFront ==
  ASSUME NEW cs \in Seq(Cursor), cs # << >>
  PROVE  /\ Last(cs) \in Cursor /\ Len(cs) \in Nat \ {0} /\ Last(cs) = cs[Len(cs)]
         /\ Front(cs) \in Seq(Cursor) /\ Len(Front(cs)) = Len(cs) - 1
         /\ \A i \in 1 .. Len(cs) - 1 : Front(cs)[i] = cs[i]
         /\ Front(Brackets(cs)) = Brackets(Front(cs))
         /\ Last(Brackets(cs)) = Last(cs).open
         /\ Append(Brackets(Front(cs)), Last(cs).open) = Brackets(cs)
<1>1. /\ Len(cs) \in Nat \ {0} /\ cs[Len(cs)] \in Cursor
      /\ Front(cs) \in Seq(Cursor) /\ Len(Front(cs)) = Len(cs) - 1
      /\ \A i \in 1 .. Len(cs) - 1 : Front(cs)[i] = cs[i]
  BY PopSeq DEF Front
<1>2. /\ Brackets(cs) \in Seq(Opening) /\ Len(Brackets(cs)) = Len(cs) /\ Brackets(cs) # << >>
      /\ \A i \in 1 .. Len(cs) : Brackets(cs)[i] = cs[i].open
  BY BracketsOf
<1>3. /\ Front(Brackets(cs)) \in Seq(Opening) /\ Len(Front(Brackets(cs))) = Len(cs) - 1
      /\ \A i \in 1 .. Len(cs) - 1 : Front(Brackets(cs))[i] = cs[i].open
  BY <1>1, <1>2, PopSeq DEF Front
<1>4. /\ Brackets(Front(cs)) \in Seq(Opening) /\ Len(Brackets(Front(cs))) = Len(cs) - 1
      /\ \A i \in 1 .. Len(cs) - 1 : Brackets(Front(cs))[i] = cs[i].open
  BY <1>1, BracketsOf
<1>5. Front(Brackets(cs)) = Brackets(Front(cs))
  BY <1>1, <1>3, <1>4, SeqEqual
<1>6. cs[Len(cs)].open \in Opening
  BY <1>1 DEF Cursor
<1>7. Append(Brackets(Front(cs)), cs[Len(cs)].open) = Brackets(cs)
  <2> DEFINE a == Append(Brackets(Front(cs)), cs[Len(cs)].open)
  <2>1. /\ a \in Seq(Opening) /\ Len(a) = Len(cs) /\ a[Len(cs)] = cs[Len(cs)].open
        /\ \A i \in 1 .. Len(cs) - 1 : a[i] = cs[i].open
    BY <1>1, <1>4, <1>6
  <2> HIDE DEF a
  <2>2. \A i \in 1 .. Len(cs) : a[i] = Brackets(cs)[i]
    BY <1>1, <1>2, <2>1
  <2>3. a = Brackets(cs)
    BY <1>2, <2>1, <2>2, SeqEqual
  <2> QED
    BY <2>3 DEF a
<1> QED
  BY <1>1, <1>2, <1>5, <1>7 DEF Last

(* next() clears the flag of its cursor.                                   *)
LEMMA CursorsUsed ==
  ASSUME NEW cs \in Seq(Cursor), cs # << >>
  PROVE  LET used == [cs EXCEPT ![Len(cs)].first = FALSE]
         IN  /\ used \in Seq(Cursor) /\ used # << >> /\ Len(used) = Len(cs)
             /\ \A i \in 1 .. Len(cs) - 1 : used[i] = cs[i]
             /\ used[Len(cs)].first = FALSE
             /\ Brackets(used) = Brackets(cs)
<1> DEFINE r    == [cs[Len(cs)] EXCEPT !.first = FALSE]
           used == [cs EXCEPT ![Len(cs)] = r]
<1>1. Len(cs) \in Nat \ {0} /\ cs[Len(cs)] \in Cursor
  BY CursorsFront
<1>2. r \in Cursor /\ r.first = FALSE /\ r.open = cs[Len(cs)].open
  BY <1>1 DEF Cursor
<1> HIDE DEF r
<1>3. /\ used \in Seq(Cursor) /\ Len(used) = Len(cs) /\ used[Len(cs)] = r
      /\ \A i \in 1 .. Len(cs) - 1 : used[i] = cs[i]
  BY <1>1, <1>2
<1> HIDE DEF used
<1>4. used # << >>
  BY <1>1, <1>3
<1>5. \A i \in 1 .. Len(cs) : used[i].open = cs[i].open
  BY <1>1, <1>2, <1>3
<1>6. Brackets(used) = Brackets(cs)
  BY <1>3, <1>5 DEF Brackets
<1>7. used = [cs EXCEPT ![Len(cs)].first = FALSE]
  BY DEF used, r
<1> QED
  BY <1>1, <1>2, <1>3, <1>4, <1>6, <1>7

-----------------------------------------------------------------------------
(* The steps of skip_value.                                                *)

(* The loop goes on.                                                       *)
LEMMA SkipOnStep ==
  ASSUME JsonInv, reading = "skip",
         NEW o \in Seq(Opening), Reached(Start, Conf(pos, state, o)),
         NEW p, NEW s, NEW n \in Seq(Opening), Goes(Conf(pos, state, o), Conf(p, s, n)),
         SkipOn(p, s, Bits(n))
  PROVE  JsonInv'
<1>1. UNCHANGED << in, base, depth, reading, cursors, walk >> /\ pos' = p /\ state' = s /\ is_object' = Bits(n)
  BY DEF SkipOn, typed
<1>2. Reached(Start, Conf(p, s, n))
  BY ReachedOn
<1>3. Reached(Start, Conf(p, s, n))'
  BY <1>1, <1>2, SameText
<1>4. (\E m \in Seq(Opening) : is_object = Bits(m) /\ Reached(Start, Conf(pos, state, m)))'
  BY <1>1, <1>3
<1> QED
  BY <1>1, <1>4 DEF JsonInv, Fresh

(* skip_value returns, and the typed path starts where it did.             *)
LEMMA SkipReturnsStep ==
  ASSUME JsonInv, reading = "skip",
         NEW o \in Seq(Opening), Reached(Start, Conf(pos, state, o)),
         NEW code, NEW at, NEW p,
         Stops(Conf(pos, state, o), [code |-> code, at |-> at, pos |-> p, depth |-> base]),
         SkipReturns(code, at, p)
  PROVE  JsonInv'
<1>1. /\ UNCHANGED << in, base, cursors, walk >> /\ reading' = "walk" /\ pos' = 1 /\ depth' = base
      /\ skipped' = [code |-> code, at |-> at, pos |-> p, depth |-> base]
  BY DEF SkipReturns, typed, JsonInv
<1>2. Leads(Start, skipped')
  BY <1>1, ReachedEnd
<1>3. cursors = << >> /\ walk = "value"
  BY DEF JsonInv, Fresh
<1>4. Leads(Start, skipped)'
  BY <1>1, <1>2, SameText
<1>5. << >> \in Seq(Cursor) /\ Brackets(<< >>) = << >> /\ Len(<< >>) = 0
  <2>1. << >> \in Seq(Cursor) /\ Len(<< >>) = 0
    BY EmptySeq
  <2> QED
    BY <2>1, BracketsOf
<1>6. Len(in) \in Nat /\ base \in Nat
  BY DepthAssumption DEF JsonInv
<1>7. CursorsOK(<< >>, "value")
  BY <1>5 DEF CursorsOK
<1>8. Follows(pos, depth, walk, cursors)'
  BY <1>1, <1>3, <1>4, <1>5, <1>6, <1>7 DEF Follows, Start, AtState
<1> QED
  BY <1>1, <1>8 DEF JsonInv

(* Each iteration of the loop is one of Goes or Stops.                     *)
LEMMA SkipStep ==
  ASSUME JsonInv,
         SkipCut \/ SkipOpen \/ SkipScalar \/ SkipNoValue \/ SkipKey \/ SkipAfter \/ SkipDone
  PROVE  JsonInv'
<1>1. reading = "skip"
  BY DEF SkipCut, SkipOpen, SkipScalar, SkipNoValue, SkipKey, SkipAfter, SkipDone, Skipping
<1>2. PICK o \in Seq(Opening) : is_object = Bits(o) /\ Reached(Start, Conf(pos, state, o))
  BY <1>1 DEF JsonInv
<1>3. Len(is_object) = Len(o) /\ (is_object = << >> <=> o = << >>) /\ depth = base
  BY <1>1, <1>2, BitsLen DEF JsonInv
<1> DEFINE c == Conf(pos, state, o)
           p == SkipWs(pos)
           q == SkipWs(p + 1)
<1>4. c.p = pos /\ c.s = state /\ c.o = o
  BY DEF Conf
<1>5. ASSUME NEW code, NEW at, NEW e
      PROVE  LET v == [code |-> code, at |-> at, pos |-> e, depth |-> base]
             IN  v.code = code /\ v.at = at
  OBVIOUS
<1> HIDE DEF c
<1>6. CASE SkipCut
  <2>1. Stops(c, [code |-> "truncated", at |-> p, pos |-> p, depth |-> base])
    BY <1>3, <1>4, <1>6 DEF SkipCut, Stops, StopsAny
  <2> QED
    BY <1>1, <1>2, <1>6, <2>1, SkipReturnsStep DEF SkipCut, c
<1>7. CASE SkipOpen
  <2>1. state = "want_value" /\ ~AtEnd(p) /\ in[p].k \in Opening
    BY <1>7 DEF SkipOpen, Skipping
  <2>2. CASE SkipFull
    <3>1. Stops(c, [code |-> "depth_exceeded", at |-> p, pos |-> p, depth |-> base])
      BY <1>3, <1>4, <2>1, <2>2 DEF SkipFull, Stops, StopsValue
    <3> QED
      BY <1>1, <1>2, <1>7, <2>2, <3>1, SkipReturnsStep DEF SkipOpen, c
  <2>3. CASE ~SkipFull /\ AtEnd(q)
    <3>1. Stops(c, [code |-> "truncated", at |-> q, pos |-> q, depth |-> base])
      BY <1>3, <1>4, <2>1, <2>3 DEF SkipFull, Stops, StopsValue
    <3> QED
      BY <1>1, <1>2, <1>7, <2>3, <3>1, SkipReturnsStep DEF SkipOpen, c
  <2>4. CASE ~SkipFull /\ ~AtEnd(q) /\ in[q].k = Closing(in[p].k)
    <3>1. Goes(c, Conf(q + 1, "after_value", o))
      BY <1>3, <1>4, <2>1, <2>4 DEF SkipFull, Goes, GoesOpen
    <3>2. SkipOn(q + 1, "after_value", Bits(o))
      BY <1>2, <1>7, <2>4 DEF SkipOpen
    <3> QED
      BY <1>1, <1>2, <3>1, <3>2, SkipOnStep DEF c
  <2>5. CASE ~SkipFull /\ ~AtEnd(q) /\ in[q].k # Closing(in[p].k)
    <3> DEFINE k == in[p].k
    <3>1. Goes(c, Conf(q, Wanted(k), Append(o, k)))
      BY <1>3, <1>4, <2>1, <2>5 DEF SkipFull, Goes, GoesOpen
    <3>2. SkipOn(q, Wanted(k), Append(is_object, k = "{"))
      BY <1>7, <2>5 DEF SkipOpen, Wanted
    <3>3. Append(o, k) \in Seq(Opening) /\ Bits(Append(o, k)) = Append(is_object, k = "{")
      BY <1>2, <2>1, BitsAppend
    <3>4. SkipOn(q, Wanted(k), Bits(Append(o, k)))
      BY <3>2, <3>3
    <3> QED
      BY <1>1, <1>2, <3>1, <3>3, <3>4, SkipOnStep DEF c
  <2> QED
    BY <2>2, <2>3, <2>4, <2>5
<1>8. CASE SkipScalar
  <2>1. state = "want_value" /\ ~AtEnd(p) /\ in[p].k \in Scalar /\ in[p].k \notin Opening
    BY <1>8 DEF SkipScalar, Skipping, Scalar, Opening
  <2>2. CASE in[p].v = "ok"
    <3>1. Goes(c, Conf(p + 1, "after_value", o))
      BY <1>4, <2>1, <2>2 DEF Goes, GoesScalar
    <3>2. SkipOn(p + 1, "after_value", Bits(o))
      BY <1>2, <1>8, <2>2 DEF SkipScalar
    <3> QED
      BY <1>1, <1>2, <3>1, <3>2, SkipOnStep DEF c
  <2>3. CASE in[p].v # "ok"
    <3>1. Stops(c, [code |-> in[p].v, at |-> LexOffset(p), pos |-> p, depth |-> base])
      BY <1>4, <2>1, <2>3 DEF Stops, StopsValue
    <3> QED
      BY <1>1, <1>2, <1>8, <2>3, <3>1, SkipReturnsStep DEF SkipScalar, c
  <2> QED
    BY <2>2, <2>3
<1>9. CASE SkipNoValue
  <2>1. Stops(c, [code |-> "unexpected_token", at |-> p, pos |-> p, depth |-> base])
    BY <1>4, <1>9 DEF SkipNoValue, Skipping, Stops, StopsValue
  <2> QED
    BY <1>1, <1>2, <1>9, <2>1, SkipReturnsStep DEF SkipNoValue, c
<1>10. CASE SkipKey
  <2>1. state = "want_key" /\ ~AtEnd(p)
    BY <1>10 DEF SkipKey, Skipping
  <2>2. CASE in[p].k # "text"
    <3>1. Stops(c, [code |-> "unexpected_token", at |-> p, pos |-> p, depth |-> base])
      BY <1>4, <2>1, <2>2 DEF Stops, StopsKey
    <3> QED
      BY <1>1, <1>2, <1>10, <2>2, <3>1, SkipReturnsStep DEF SkipKey, c
  <2>3. CASE in[p].k = "text" /\ in[p].v # "ok"
    <3>1. Stops(c, [code |-> in[p].v, at |-> p, pos |-> p, depth |-> base])
      BY <1>4, <2>1, <2>3 DEF Stops, StopsKey
    <3> QED
      BY <1>1, <1>2, <1>10, <2>3, <3>1, SkipReturnsStep DEF SkipKey, c
  <2>4. CASE in[p].k = "text" /\ in[p].v = "ok" /\ AtEnd(q)
    <3>1. Stops(c, [code |-> "truncated", at |-> q, pos |-> q, depth |-> base])
      BY <1>4, <2>1, <2>4 DEF Stops, StopsKey
    <3> QED
      BY <1>1, <1>2, <1>10, <2>4, <3>1, SkipReturnsStep DEF SkipKey, c
  <2>5. CASE in[p].k = "text" /\ in[p].v = "ok" /\ ~AtEnd(q) /\ in[q].k # ":"
    <3>1. Stops(c, [code |-> "unexpected_token", at |-> q, pos |-> q, depth |-> base])
      BY <1>4, <2>1, <2>5 DEF Stops, StopsKey
    <3> QED
      BY <1>1, <1>2, <1>10, <2>5, <3>1, SkipReturnsStep DEF SkipKey, c
  <2>6. CASE in[p].k = "text" /\ in[p].v = "ok" /\ ~AtEnd(q) /\ in[q].k = ":"
    <3>1. Goes(c, Conf(q + 1, "want_value", o))
      BY <1>4, <2>1, <2>6 DEF Goes, GoesKey
    <3>2. SkipOn(q + 1, "want_value", Bits(o))
      BY <1>2, <1>10, <2>6 DEF SkipKey
    <3> QED
      BY <1>1, <1>2, <3>1, <3>2, SkipOnStep DEF c
  <2> QED
    BY <2>2, <2>3, <2>4, <2>5, <2>6
<1>11. CASE SkipAfter
  <2>1. state = "after_value" /\ is_object # << >> /\ o # << >> /\ ~AtEnd(p)
    BY <1>3, <1>11 DEF SkipAfter, Skipping
  <2>2. /\ Front(o) \in Seq(Opening) /\ Bits(Front(o)) = Front(is_object)
        /\ Last(o) \in Opening /\ (Last(is_object) <=> Last(o) = "{")
    BY <1>2, <2>1, BitsFront
  <2>3. CASE in[p].k = "," /\ ~AtEnd(q) /\ in[q].k \in {"]", "}"}
    <3>1. Stops(c, [code |-> "unexpected_token", at |-> q, pos |-> q, depth |-> base])
      BY <1>4, <2>1, <2>3 DEF Stops, StopsAfter
    <3> QED
      BY <1>1, <1>2, <1>11, <2>3, <3>1, SkipReturnsStep DEF SkipAfter, SkipComma, c
  <2>4. CASE in[p].k = "," /\ ~(~AtEnd(q) /\ in[q].k \in {"]", "}"})
    <3>1. Goes(c, Conf(q, Wanted(Last(o)), o))
      BY <1>4, <2>1, <2>4 DEF Goes, GoesAfter
    <3>2. SkipOn(q, Wanted(Last(o)), Bits(o))
      <4>1. SkipComma(p)
        BY <1>11, <2>4 DEF SkipAfter
      <4>2. SkipOn(q, IF Last(is_object) THEN "want_key" ELSE "want_value", is_object)
        BY <2>4, <4>1 DEF SkipComma
      <4>3. (IF Last(is_object) THEN "want_key" ELSE "want_value") = Wanted(Last(o))
        BY <2>2 DEF Wanted
      <4> QED
        BY <1>2, <4>2, <4>3
    <3> QED
      BY <1>1, <1>2, <3>1, <3>2, SkipOnStep DEF c
  <2>5. SkipCloses(p) <=> in[p].k = Closing(Last(o))
    BY <2>2 DEF SkipCloses, Closing, Opening
  <2>6. CASE in[p].k # "," /\ SkipCloses(p)
    <3>1. Goes(c, Conf(p + 1, "after_value", Front(o)))
      BY <1>4, <2>1, <2>5, <2>6 DEF Goes, GoesAfter
    <3>2. SkipOn(p + 1, "after_value", Bits(Front(o)))
      BY <1>11, <2>2, <2>6 DEF SkipAfter
    <3> QED
      BY <1>1, <1>2, <2>2, <3>1, <3>2, SkipOnStep DEF c
  <2>7. CASE in[p].k # "," /\ ~SkipCloses(p)
    <3>1. Stops(c, [code |-> "unexpected_token", at |-> p, pos |-> p, depth |-> base])
      BY <1>4, <2>1, <2>5, <2>7 DEF Stops, StopsAfter
    <3> QED
      BY <1>1, <1>2, <1>11, <2>7, <3>1, SkipReturnsStep DEF SkipAfter, c
  <2> QED
    BY <2>3, <2>4, <2>6, <2>7
<1>12. CASE SkipDone
  <2>1. Stops(c, [code |-> "none", at |-> 0, pos |-> pos, depth |-> base])
    BY <1>3, <1>4, <1>12 DEF SkipDone, Skipping, Stops, StopsDone
  <2> QED
    BY <1>1, <1>2, <1>12, <2>1, SkipReturnsStep DEF SkipDone, c
<1> QED
  BY <1>6, <1>7, <1>8, <1>9, <1>10, <1>11, <1>12

-----------------------------------------------------------------------------
(* The steps of the typed path.                                            *)

(* It goes on.                                                             *)
LEMMA WalkOnStep ==
  ASSUME JsonInv, reading = "walk",
         NEW p, NEW d, NEW w, NEW cs, NEW ev, WalkOn(p, d, w, cs, ev), Follows(p, d, w, cs)
  PROVE  JsonInv'
<1>1. /\ UNCHANGED << in, base, reading, skipped >>
      /\ pos' = p /\ depth' = d /\ walk' = w /\ cursors' = cs
  BY DEF WalkOn
<1>2. /\ \A i : SkipWs(i)' = SkipWs(i) /\ (AtEnd(i)' <=> AtEnd(i))
      /\ \A c : Leads(c, skipped)' <=> Leads(c, skipped)
  <2>1. \A c, v : Leads(c, v)' <=> Leads(c, v)
    BY <1>1, SameText
  <2> QED
    BY <1>1, <2>1 DEF SkipWs, AtEnd
<1>3. (Entered(pos, cursors)' <=> Entered(p, cs)) /\ (Refused(pos, walk)' <=> Refused(p, w))
  BY <1>1, <1>2 DEF Entered, Refused
<1>4. Follows(pos, depth, walk, cursors)'
  BY <1>1, <1>2, <1>3 DEF Follows, CursorsOK
<1> QED
  BY <1>1, <1>4 DEF JsonInv

(* It returns, as skip_value did.                                          *)
LEMMA WalkReturnsStep ==
  ASSUME JsonInv, reading = "walk", NEW code, NEW at, NEW p, WalkReturns(code, at, p),
         \/ skipped.code = code /\ skipped.at = at /\ code # "none"
         \/ skipped = [code |-> code, at |-> at, pos |-> p, depth |-> depth]
  PROVE  JsonInv'
<1>1. /\ UNCHANGED << in, base, skipped >> /\ reading' = "none"
      /\ walked' = [code |-> code, at |-> at, pos |-> p, depth |-> depth]
  BY DEF WalkReturns
<1>2. Outcome(skipped) = Outcome(walked')
  BY <1>1 DEF Outcome
<1>3. PathsAgree'
  BY <1>1, <1>2 DEF PathsAgree, Outcome
<1> QED
  BY <1>1, <1>3 DEF JsonInv

(* In front of a value skip_value is there too, or has refused a bracket.  *)
LEMMA AtValue ==
  ASSUME JsonInv, Walking("value")
  PROVE  LET c == Conf(pos, "want_value", Brackets(cursors)) IN
         /\ depth = base + Len(cursors) /\ CursorsOK(cursors, "value")
         /\ pos \in 1 .. Len(in) + 1
         /\ Leads(c, skipped) \/ Refused(pos, "value")
         /\ c.p = pos /\ c.s = "want_value" /\ c.o = Brackets(cursors)
         /\ Len(Brackets(cursors)) = Len(cursors)
<1>1. reading = "walk" /\ walk = "value"
  BY DEF Walking
<1>2. Follows(pos, depth, "value", cursors)
  BY <1>1 DEF JsonInv
<1>3. cursors \in Seq(Cursor)
  BY <1>2 DEF Follows, CursorsOK
<1>4. AtState("value") = "want_value"
  BY DEF AtState
<1> QED
  BY <1>2, <1>3, <1>4, BracketsOf DEF Follows, Conf

(* After a value: the end, or the next() of the innermost cursor.          *)
LEMMA ValueDone ==
  ASSUME JsonInv, NEW p \in 1 .. Len(in) + 1, NEW cs \in Seq(Cursor),
         \A i \in 1 .. Len(cs) : cs[i].first = FALSE,
         Leads(Conf(p, "after_value", Brackets(cs)), skipped)
  PROVE  Follows(p, base + Len(cs), AfterValue(cs), cs)
<1>1. AtState(AfterValue(cs)) = "after_value" /\ AfterValue(cs) \in {"next", "end"}
  BY DEF AtState, AfterValue
<1>2. cs # << >> => Last(cs).first = FALSE
  <2>1. cs # << >> => Len(cs) \in 1 .. Len(cs)
    BY CursorsFront
  <2> QED
    BY <2>1 DEF Last
<1>3. CursorsOK(cs, AfterValue(cs))
  BY DEF CursorsOK, AfterValue
<1>4. ~(AfterValue(cs) = "next" /\ Last(cs).first = TRUE)
  BY <1>2 DEF AfterValue
<1> QED
  BY <1>1, <1>3, <1>4 DEF Follows

(* expect_null, expect_boolean, expect_real, expect_text.                  *)
LEMMA ScalarStep == ASSUME JsonInv, ExpectScalar PROVE JsonInv'
<1> DEFINE p == SkipWs(pos)
           c == Conf(pos, "want_value", Brackets(cursors))
<1>1. Walking("value") /\ reading = "walk" /\ in \in Seq(Token)
  BY DEF ExpectScalar, Walking, JsonInv
<1>2. /\ depth = base + Len(cursors) /\ CursorsOK(cursors, "value") /\ pos \in 1 .. Len(in) + 1
      /\ Leads(c, skipped) \/ Refused(pos, "value")
      /\ c.p = pos /\ c.s = "want_value" /\ c.o = Brackets(cursors)
  BY <1>1, AtValue
<1> HIDE DEF c
<1>3. ~(~AtEnd(p) /\ in[p].k \in Opening)
  BY DEF ExpectScalar
<1>4. p \in 1 .. Len(in) + 1 /\ (~AtEnd(p) => p + 1 \in 1 .. Len(in) + 1)
  BY <1>1, <1>2, SkipWsIn
<1>5. Leads(c, skipped) => Stops(c, skipped) \/ \E d : Goes(c, d) /\ Leads(d, skipped)
  BY LeadsOn
<1>6. CASE AtEnd(p)
  <2>1. skipped.code = "truncated" /\ skipped.at = p
    BY <1>2, <1>5, <1>6 DEF Refused, Stops, StopsAny, StopsValue, StopsKey, StopsAfter, StopsDone,
       Goes, GoesOpen, GoesScalar, GoesKey, GoesAfter
  <2> QED
    BY <1>1, <1>6, <2>1, WalkReturnsStep DEF ExpectScalar
<1>7. CASE ~AtEnd(p) /\ in[p].k \notin Scalar
  <2>1. skipped.code = "unexpected_token" /\ skipped.at = p
    BY <1>2, <1>3, <1>5, <1>7 DEF Refused, Stops, StopsAny, StopsValue, StopsKey, StopsAfter, StopsDone,
       Goes, GoesOpen, GoesScalar, GoesKey, GoesAfter
  <2> QED
    BY <1>1, <1>7, <2>1, WalkReturnsStep DEF ExpectScalar
<1>8. CASE ~AtEnd(p) /\ in[p].k \in Scalar /\ in[p].v # "ok"
  <2>1. skipped.code = in[p].v /\ skipped.at = LexOffset(p)
    BY <1>2, <1>3, <1>5, <1>8 DEF Refused, Scalar, Stops, StopsAny, StopsValue, StopsKey, StopsAfter, StopsDone,
       Goes, GoesOpen, GoesScalar, GoesKey, GoesAfter
  <2>2. in[p] \in Token
    BY <1>1, <1>4, <1>8 DEF AtEnd
  <2>3. in[p].v # "none"
    BY <2>2, TokenCode
  <2> QED
    BY <1>1, <1>8, <2>1, <2>3, WalkReturnsStep DEF ExpectScalar
<1>9. CASE ~AtEnd(p) /\ in[p].k \in Scalar /\ in[p].v = "ok"
  <2>1. Leads(Conf(p + 1, "after_value", Brackets(cursors)), skipped)
    BY <1>2, <1>3, <1>5, <1>9 DEF Refused, Scalar, Stops, StopsAny, StopsValue, StopsKey, StopsAfter, StopsDone,
       Goes, GoesOpen, GoesScalar, GoesKey, GoesAfter
  <2>2. Follows(p + 1, depth, AfterValue(cursors), cursors)
    BY <1>2, <1>4, <1>9, <2>1, ValueDone DEF CursorsOK
  <2>3. WalkOn(p + 1, depth, AfterValue(cursors), cursors, << in[p] >>)
    BY <1>9 DEF ExpectScalar
  <2> QED
    BY <1>1, <2>2, <2>3, WalkOnStep
<1> QED
  BY <1>6, <1>7, <1>8, <1>9

(* expect_array, expect_map and enter.                                     *)
LEMMA ContainerStep == ASSUME JsonInv, ExpectContainer PROVE JsonInv'
<1> DEFINE p == SkipWs(pos)
           c == Conf(pos, "want_value", Brackets(cursors))
           n == [open |-> in[p].k, first |-> TRUE]
<1>1. Walking("value") /\ reading = "walk" /\ in \in Seq(Token) /\ ~AtEnd(p) /\ in[p].k \in Opening
  BY DEF ExpectContainer, Walking, JsonInv
<1>2. /\ depth = base + Len(cursors) /\ CursorsOK(cursors, "value") /\ pos \in 1 .. Len(in) + 1
      /\ Leads(c, skipped) \/ Refused(pos, "value")
      /\ c.p = pos /\ c.s = "want_value" /\ c.o = Brackets(cursors)
      /\ Len(Brackets(cursors)) = Len(cursors)
  BY <1>1, AtValue
<1> HIDE DEF c
<1>3. Leads(c, skipped)
  BY <1>1, <1>2 DEF Refused, Opening
<1>4. p \in 1 .. Len(in) + 1 /\ p + 1 \in 1 .. Len(in) + 1
  BY <1>1, <1>2, SkipWsIn
<1>5. CASE EnterFull
  <2>1. Stops(c, skipped) \/ \E d : Goes(c, d) /\ Leads(d, skipped)
    BY <1>3, LeadsOn
  <2>2. skipped.code = "depth_exceeded" /\ skipped.at = p
    BY <1>1, <1>2, <1>5, <2>1 DEF EnterFull, Opening, Scalar, Stops, StopsAny, StopsValue, StopsKey, StopsAfter,
       StopsDone, Goes, GoesOpen, GoesScalar, GoesKey, GoesAfter
  <2> QED
    BY <1>1, <1>5, <2>2, WalkReturnsStep DEF ExpectContainer
<1>6. CASE ~EnterFull
  <2>1. n \in Cursor /\ n.first = TRUE /\ n.open = in[p].k
    BY <1>1 DEF Cursor
  <2> HIDE DEF n
  <2>2. cursors \in Seq(Cursor)
    BY <1>2 DEF CursorsOK
  <2> DEFINE cs == Append(cursors, n)
  <2>3. /\ cs \in Seq(Cursor) /\ cs # << >> /\ Len(cs) = Len(cursors) + 1
        /\ Last(cs) = n /\ Front(cs) = cursors
    BY <2>1, <2>2, CursorsAppend
  <2>4. \A i \in 1 .. Len(cs) : i < Len(cs) => cs[i].first = FALSE
    <3>1. \A i \in 1 .. Len(cursors) : cs[i] = cursors[i] /\ cursors[i].first = FALSE
      BY <1>2, <2>1, <2>2 DEF CursorsOK
    <3> QED
      BY <2>2, <2>3, <3>1
  <2> HIDE DEF cs
  <2>5. CursorsOK(cs, "next")
    BY <2>3, <2>4 DEF CursorsOK
  <2>6. base \in Nat /\ Len(cursors) \in Nat
    BY <2>2 DEF JsonInv
  <2>7. Entered(p + 1, cs)
    BY <1>1, <1>2, <1>3, <1>6, <2>1, <2>3, <2>6, DepthAssumption DEF Entered, EnterFull
  <2>8. Follows(p + 1, depth + 1, "next", cs)
    BY <1>2, <1>4, <2>1, <2>3, <2>5, <2>6, <2>7 DEF Follows
  <2>9. WalkOn(p + 1, depth + 1, "next", cs, << in[p] >>)
    BY <1>6 DEF ExpectContainer, cs, n
  <2> QED
    BY <1>1, <2>8, <2>9, WalkOnStep
<1> QED
  BY <1>5, <1>6

(* A value or a key follows: the flags of all cursors are cleared.         *)
LEMMA ItemNext ==
  ASSUME JsonInv, NEW p \in 1 .. Len(in) + 1, NEW cs \in Seq(Cursor), cs # << >>,
         \A i \in 1 .. Len(cs) : cs[i].first = FALSE, NEW w,
         w = IF Last(cs).open = "{" THEN "key" ELSE "value",
         Leads(Conf(p, Wanted(Last(cs).open), Brackets(cs)), skipped) \/ Refused(p, w)
  PROVE  Follows(p, base + Len(cs), w, cs)
<1>1. AtState(w) = Wanted(Last(cs).open) /\ w \in {"value", "key"}
  BY DEF AtState, Wanted
<1>2. CursorsOK(cs, w)
  BY <1>1 DEF CursorsOK
<1> QED
  BY <1>1, <1>2 DEF Follows

(* next() of both cursors.                                                 *)
LEMMA NextStep == ASSUME JsonInv, CursorNext PROVE JsonInv'
<1> DEFINE p    == SkipWs(pos)
           q    == SkipWs(p + 1)
           used == [cursors EXCEPT ![Len(cursors)].first = FALSE]
           then == IF Cur.open = "{" THEN "key" ELSE "value"
<1>1. reading = "walk" /\ walk = "next" /\ in \in Seq(Token)
  BY DEF CursorNext, Walking, JsonInv
<1>2. /\ CursorsOK(cursors, "next") /\ depth = base + Len(cursors) /\ pos \in 1 .. Len(in) + 1
      /\ Cur.first = TRUE => Entered(pos, cursors)
      /\ Cur.first # TRUE => Leads(Conf(pos, "after_value", Brackets(cursors)), skipped)
  <2>1. Follows(pos, depth, "next", cursors)
    BY <1>1 DEF JsonInv
  <2>2. AtState("next") = "after_value" /\ ~Refused(pos, "next")
    BY DEF AtState, Refused
  <2> QED
    BY <2>1, <2>2 DEF Follows, Cur
<1>3. cursors \in Seq(Cursor) /\ cursors # << >>
  BY <1>2 DEF CursorsOK
<1>4. /\ Cur \in Cursor /\ Len(cursors) \in Nat \ {0} /\ Cur = cursors[Len(cursors)]
      /\ Front(cursors) \in Seq(Cursor) /\ Len(Front(cursors)) = Len(cursors) - 1
      /\ \A i \in 1 .. Len(cursors) - 1 : Front(cursors)[i] = cursors[i]
      /\ Front(Brackets(cursors)) = Brackets(Front(cursors))
      /\ Last(Brackets(cursors)) = Cur.open
      /\ Append(Brackets(Front(cursors)), Cur.open) = Brackets(cursors)
  BY <1>3, CursorsFront DEF Cur
<1>5. base \in Nat /\ Cur.open \in Opening /\ Cur.first \in BOOLEAN
  BY <1>4 DEF JsonInv, Cursor
<1>6. /\ \A i \in 1 .. Len(cursors) - 1 : cursors[i].first = FALSE
      /\ \A i \in 1 .. Len(Front(cursors)) : Front(cursors)[i].first = FALSE
  BY <1>2, <1>4 DEF CursorsOK
<1>7. p \in 1 .. Len(in) + 1 /\ (~AtEnd(p) => p + 1 \in 1 .. Len(in) + 1 /\ q \in 1 .. Len(in) + 1)
  BY <1>1, <1>2, SkipWsIn
<1>8. ~AtEnd(p) /\ ~AtEnd(q) => SkipWs(q) = q
  BY <1>1, <1>7, SkipWsIn
<1>9. ASSUME ~AtEnd(p), in[p].k = Closing(Cur.open),
             Leads(Conf(p + 1, "after_value", Brackets(Front(cursors))), skipped)
      PROVE  JsonInv'
  <2>1. Follows(p + 1, base + Len(Front(cursors)), AfterValue(Front(cursors)), Front(cursors))
    BY <1>4, <1>6, <1>7, <1>9, ValueDone
  <2>2. depth - 1 = base + Len(Front(cursors))
    BY <1>2, <1>4, <1>5
  <2>3. WalkOn(p + 1, depth - 1, AfterValue(Front(cursors)), Front(cursors), << in[p] >>)
    BY <1>9 DEF CursorNext
  <2> QED
    BY <1>1, <2>1, <2>2, <2>3, WalkOnStep
<1>10. CASE Cur.first = TRUE
  <2>1. PICK c : /\ Leads(c, skipped)
                 /\ c.s = "want_value" /\ c.o = Brackets(Front(cursors))
                 /\ ~AtEnd(SkipWs(c.p)) /\ in[SkipWs(c.p)].k = Cur.open
                 /\ pos = SkipWs(c.p) + 1
                 /\ base + Len(c.o) < MaxDepth
    BY <1>2, <1>10 DEF Entered, Cur
  <2>2. ~(base + Len(c.o) >= MaxDepth)
    <3>1. Len(c.o) \in Nat
      BY <1>4, <2>1, BracketsOf
    <3> QED
      BY <1>5, <2>1, <3>1, DepthAssumption
  <2>3. Stops(c, skipped) \/ \E d : Goes(c, d) /\ Leads(d, skipped)
    BY <2>1, LeadsOn
  <2>4. CASE AtEnd(p)
    <3>1. skipped.code = "truncated" /\ skipped.at = p
      BY <1>5, <2>1, <2>2, <2>3, <2>4 DEF Opening, Scalar, Stops, StopsAny, StopsValue, StopsKey, StopsAfter,
       StopsDone, Goes, GoesOpen, GoesScalar, GoesKey, GoesAfter
    <3> QED
      BY <1>1, <2>4, <3>1, WalkReturnsStep DEF CursorNext
  <2>5. CASE ~AtEnd(p) /\ in[p].k = Closing(Cur.open)
    <3>1. Leads(Conf(p + 1, "after_value", Brackets(Front(cursors))), skipped)
      BY <1>5, <2>1, <2>2, <2>3, <2>5 DEF Opening, Scalar, Stops, StopsAny, StopsValue, StopsKey, StopsAfter,
       StopsDone, Goes, GoesOpen, GoesScalar, GoesKey, GoesAfter
    <3> QED
      BY <1>9, <2>5, <3>1
  <2>6. CASE ~AtEnd(p) /\ in[p].k # Closing(Cur.open)
    <3>1. Leads(Conf(p, Wanted(Cur.open), Brackets(cursors)), skipped)
      BY <1>4, <1>5, <2>1, <2>2, <2>3, <2>6 DEF Opening, Scalar, Stops, StopsAny, StopsValue, StopsKey, StopsAfter,
       StopsDone, Goes, GoesOpen, GoesScalar, GoesKey, GoesAfter
    <3>2. /\ used \in Seq(Cursor) /\ used # << >> /\ Len(used) = Len(cursors)
          /\ \A i \in 1 .. Len(cursors) - 1 : used[i] = cursors[i]
          /\ used[Len(cursors)].first = FALSE
          /\ Brackets(used) = Brackets(cursors)
      BY <1>3, CursorsUsed
    <3>3. WalkOn(p, depth, then, used, << >>)
      BY <1>5, <1>10, <2>6 DEF CursorNext
    <3> HIDE DEF used
    <3>4. Last(used).open = Cur.open
      <4>1. Last(Brackets(used)) = Last(used).open
        BY <3>2, CursorsFront
      <4> QED
        BY <1>4, <3>2, <4>1
    <3>5. \A i \in 1 .. Len(used) : used[i].first = FALSE
      BY <1>4, <1>6, <3>2
    <3>6. Follows(p, base + Len(used), then, used)
      BY <1>7, <3>1, <3>2, <3>4, <3>5, ItemNext
    <3> QED
      BY <1>1, <1>2, <3>2, <3>3, <3>6, WalkOnStep
  <2> QED
    BY <2>4, <2>5, <2>6
<1>11. CASE Cur.first # TRUE
  <2> DEFINE c == Conf(pos, "after_value", Brackets(cursors))
  <2>1. c.p = pos /\ c.s = "after_value" /\ c.o = Brackets(cursors) /\ c.o # << >>
    BY <1>3, BracketsOf DEF Conf
  <2>2. Leads(c, skipped)
    BY <1>2, <1>11
  <2> HIDE DEF c
  <2>3. Stops(c, skipped) \/ \E d : Goes(c, d) /\ Leads(d, skipped)
    BY <2>2, LeadsOn
  <2>4. Closing(Cur.open) # "," /\ Closing(Cur.open) \in {"]", "}"}
    BY DEF Closing
  <2>5. \A i \in 1 .. Len(cursors) : cursors[i].first = FALSE
    <3>1. cursors[Len(cursors)].first = FALSE
      BY <1>4, <1>5, <1>11, Zenon
    <3> TAKE i \in 1 .. Len(cursors)
    <3>2. i \in 1 .. Len(cursors) - 1 \/ i = Len(cursors)
      BY <1>4
    <3> QED
      BY <1>6, <3>1, <3>2
  <2>6. CASE AtEnd(p)
    <3>1. skipped.code = "truncated" /\ skipped.at = p
      BY <2>1, <2>3, <2>6 DEF Stops, StopsAny, StopsValue, StopsKey, StopsAfter,
       StopsDone, Goes, GoesOpen, GoesScalar, GoesKey, GoesAfter
    <3> QED
      BY <1>1, <2>6, <3>1, WalkReturnsStep DEF CursorNext
  <2>7. CASE ~AtEnd(p) /\ in[p].k = Closing(Cur.open)
    <3>1. Leads(Conf(p + 1, "after_value", Brackets(Front(cursors))), skipped)
      BY <1>4, <2>1, <2>3, <2>4, <2>7 DEF Stops, StopsAny, StopsValue, StopsKey, StopsAfter,
       StopsDone, Goes, GoesOpen, GoesScalar, GoesKey, GoesAfter
    <3> QED
      BY <1>9, <2>7, <3>1
  <2>8. CASE ~AtEnd(p) /\ in[p].k # Closing(Cur.open) /\ in[p].k # ","
    <3>1. skipped.code = "unexpected_token" /\ skipped.at = p
      BY <1>4, <2>1, <2>3, <2>8 DEF Stops, StopsAny, StopsValue, StopsKey, StopsAfter,
       StopsDone, Goes, GoesOpen, GoesScalar, GoesKey, GoesAfter
    <3> QED
      BY <1>1, <1>5, <1>11, <2>8, <3>1, WalkReturnsStep DEF CursorNext
  <2>9. CASE ~AtEnd(p) /\ in[p].k = "," /\ ~AtEnd(q) /\ in[q].k = Closing(Cur.open)
    <3>1. skipped.code = "unexpected_token" /\ skipped.at = q
      BY <1>4, <2>1, <2>3, <2>4, <2>9 DEF Stops, StopsAny, StopsValue, StopsKey, StopsAfter,
       StopsDone, Goes, GoesOpen, GoesScalar, GoesKey, GoesAfter
    <3> QED
      BY <1>1, <1>5, <1>11, <2>4, <2>9, <3>1, WalkReturnsStep DEF CursorNext
  <2>10. CASE ~AtEnd(p) /\ in[p].k = "," /\ ~(~AtEnd(q) /\ in[q].k = Closing(Cur.open))
    <3>1. \/ /\ ~AtEnd(q) /\ in[q].k \in {"]", "}"}
             /\ skipped.code = "unexpected_token" /\ skipped.at = q
          \/ Leads(Conf(q, Wanted(Cur.open), Brackets(cursors)), skipped)
      BY <1>4, <2>1, <2>3, <2>10 DEF Stops, StopsAny, StopsValue, StopsKey, StopsAfter,
       StopsDone, Goes, GoesOpen, GoesScalar, GoesKey, GoesAfter
    <3>2. then \in {"value", "key"}
      OBVIOUS
    <3>3. Leads(Conf(q, Wanted(Cur.open), Brackets(cursors)), skipped) \/ Refused(q, then)
      BY <1>8, <2>10, <3>1, <3>2 DEF Refused
    <3>4. Follows(q, base + Len(cursors), then, cursors)
      BY <1>3, <1>7, <2>5, <2>10, <3>3, ItemNext DEF Cur
    <3>5. WalkOn(q, depth, then, cursors, << >>)
      BY <1>5, <1>11, <2>4, <2>10 DEF CursorNext
    <3> QED
      BY <1>1, <1>2, <3>4, <3>5, WalkOnStep
  <2> QED
    BY <2>6, <2>7, <2>8, <2>9, <2>10
<1> QED
  BY <1>10, <1>11

(* key_text.                                                               *)
LEMMA KeyStep == ASSUME JsonInv, KeyText PROVE JsonInv'
<1> DEFINE p == SkipWs(pos)
           q == SkipWs(p + 1)
           c == Conf(pos, "want_key", Brackets(cursors))
<1>1. reading = "walk" /\ walk = "key" /\ in \in Seq(Token)
  BY DEF KeyText, Walking, JsonInv
<1>2. /\ CursorsOK(cursors, "key") /\ depth = base + Len(cursors) /\ pos \in 1 .. Len(in) + 1
      /\ Leads(c, skipped) \/ Refused(pos, "key")
  <2>1. Follows(pos, depth, "key", cursors)
    BY <1>1 DEF JsonInv
  <2>2. AtState("key") = "want_key"
    BY DEF AtState
  <2> QED
    BY <2>1, <2>2 DEF Follows
<1>3. c.p = pos /\ c.s = "want_key" /\ c.o = Brackets(cursors)
  BY DEF Conf
<1> HIDE DEF c
<1>4. Leads(c, skipped) => Stops(c, skipped) \/ \E d : Goes(c, d) /\ Leads(d, skipped)
  BY LeadsOn
<1>5. p \in 1 .. Len(in) + 1 /\ (~AtEnd(p) => p + 1 \in 1 .. Len(in) + 1)
  BY <1>1, <1>2, SkipWsIn
<1>6. ~AtEnd(p) => q \in 1 .. Len(in) + 1 /\ (~AtEnd(q) => q + 1 \in 1 .. Len(in) + 1)
  BY <1>1, <1>5, SkipWsIn
<1>7. CASE AtEnd(p)
  <2>1. skipped.code = "truncated" /\ skipped.at = p
    BY <1>2, <1>3, <1>4, <1>7 DEF Refused, Stops, StopsAny, StopsValue, StopsKey, StopsAfter,
       StopsDone, Goes, GoesOpen, GoesScalar, GoesKey, GoesAfter
  <2> QED
    BY <1>1, <1>7, <2>1, WalkReturnsStep DEF KeyText
<1>8. CASE ~AtEnd(p) /\ in[p].k # "text"
  <2>1. skipped.code = "unexpected_token" /\ skipped.at = p
    BY <1>2, <1>3, <1>4, <1>8 DEF Refused, Stops, StopsAny, StopsValue, StopsKey, StopsAfter,
       StopsDone, Goes, GoesOpen, GoesScalar, GoesKey, GoesAfter
  <2> QED
    BY <1>1, <1>8, <2>1, WalkReturnsStep DEF KeyText
<1>9. CASE ~AtEnd(p) /\ in[p].k = "text" /\ in[p].v # "ok"
  <2>1. skipped.code = in[p].v /\ skipped.at = p
    BY <1>2, <1>3, <1>4, <1>9 DEF Refused, Stops, StopsAny, StopsValue, StopsKey, StopsAfter,
       StopsDone, Goes, GoesOpen, GoesScalar, GoesKey, GoesAfter
  <2>2. in[p] \in Token
    BY <1>1, <1>5, <1>9 DEF AtEnd
  <2>3. in[p].v # "none"
    BY <2>2, TokenCode
  <2> QED
    BY <1>1, <1>9, <2>1, <2>3, WalkReturnsStep DEF KeyText
<1>10. CASE ~AtEnd(p) /\ in[p].k = "text" /\ in[p].v = "ok" /\ AtEnd(q)
  <2>1. skipped.code = "truncated" /\ skipped.at = q
    BY <1>2, <1>3, <1>4, <1>10 DEF Refused, Stops, StopsAny, StopsValue, StopsKey, StopsAfter,
       StopsDone, Goes, GoesOpen, GoesScalar, GoesKey, GoesAfter
  <2> QED
    BY <1>1, <1>10, <2>1, WalkReturnsStep DEF KeyText
<1>11. CASE ~AtEnd(p) /\ in[p].k = "text" /\ in[p].v = "ok" /\ ~AtEnd(q) /\ in[q].k # ":"
  <2>1. skipped.code = "unexpected_token" /\ skipped.at = q
    BY <1>2, <1>3, <1>4, <1>11 DEF Refused, Stops, StopsAny, StopsValue, StopsKey, StopsAfter,
       StopsDone, Goes, GoesOpen, GoesScalar, GoesKey, GoesAfter
  <2> QED
    BY <1>1, <1>11, <2>1, WalkReturnsStep DEF KeyText
<1>12. CASE ~AtEnd(p) /\ in[p].k = "text" /\ in[p].v = "ok" /\ ~AtEnd(q) /\ in[q].k = ":"
  <2>1. Leads(Conf(q + 1, "want_value", Brackets(cursors)), skipped)
    BY <1>2, <1>3, <1>4, <1>12 DEF Refused, Stops, StopsAny, StopsValue, StopsKey, StopsAfter,
       StopsDone, Goes, GoesOpen, GoesScalar, GoesKey, GoesAfter
  <2>2. AtState("value") = "want_value"
    BY DEF AtState
  <2>3. CursorsOK(cursors, "value")
    BY <1>2 DEF CursorsOK
  <2>4. Follows(q + 1, depth, "value", cursors)
    BY <1>2, <1>6, <1>12, <2>1, <2>2, <2>3 DEF Follows
  <2>5. WalkOn(q + 1, depth, "value", cursors, << KeyEvent >>)
    BY <1>12 DEF KeyText
  <2> QED
    BY <1>1, <2>4, <2>5, WalkOnStep
<1> QED
  BY <1>7, <1>8, <1>9, <1>10, <1>11, <1>12

(* The typed path has read the whole value.                                *)
LEMMA DoneStep == ASSUME JsonInv, WalkDone PROVE JsonInv'
<1> DEFINE c == Conf(pos, "after_value", << >>)
<1>1. reading = "walk" /\ walk = "end"
  BY DEF WalkDone, Walking
<1>2. cursors = << >> /\ depth = base + Len(cursors) /\ Leads(c, skipped) /\ base \in Nat
  <2>1. Follows(pos, depth, "end", cursors)
    BY <1>1 DEF JsonInv
  <2>2. AtState("end") = "after_value" /\ ~Refused(pos, "end")
    BY DEF AtState, Refused
  <2>3. cursors = << >> /\ cursors \in Seq(Cursor)
    BY <2>1 DEF Follows, CursorsOK
  <2>4. Brackets(cursors) = << >>
    BY <2>3, BracketsOf
  <2> QED
    BY <2>1, <2>2, <2>3, <2>4 DEF Follows, JsonInv
<1>3. c.p = pos /\ c.s = "after_value" /\ c.o = << >>
  BY DEF Conf
<1> HIDE DEF c
<1>4. Stops(c, skipped) \/ \E d : Goes(c, d) /\ Leads(d, skipped)
  BY <1>2, LeadsOn
<1>5. skipped = [code |-> "none", at |-> 0, pos |-> pos, depth |-> base]
  BY <1>3, <1>4 DEF Stops, StopsAny, StopsValue, StopsKey, StopsAfter,
       StopsDone, Goes, GoesOpen, GoesScalar, GoesKey, GoesAfter
<1>6. depth = base
  BY <1>2
<1> QED
  BY <1>1, <1>5, <1>6, WalkReturnsStep DEF WalkDone

-----------------------------------------------------------------------------
(* The writer, and the whole.                                              *)

(* Texts put together are texts.                                           *)
LEMMA Joined ==
  /\ << >> \in Seq(Token)
  /\ \A x \in Token : << x >> \in Seq(Token)
  /\ \A x, y \in Token : << x, y >> \in Seq(Token)
  /\ \A s, t \in Seq(Token) : s \o t \in Seq(Token)
  OBVIOUS

(* The sink writes tokens of JSON.                                         *)
LEMMA Written ==
  /\ \A k \in Opening \cup Scalar \cup {"]", "}", ",", ":", "ws"} : Mark(k) \in Token
  /\ Space \in Seq(Token) /\ Separator \in Seq(Token)
<1>1. \A k \in Scalar : Mark(k) \in Token
  <2> TAKE k \in Scalar
  <2>1. "ok" \in Outcomes(k)
    BY DEF Outcomes
  <2>2. Tk(k, "ok") \in {Tk(k, v) : v \in Outcomes(k)}
    BY <2>1
  <2> QED
    BY <2>2, Zenon DEF Token, Mark
<1>2. \A k \in Opening \cup {"]", "}", ",", ":", "ws"} : Mark(k) \in Token
  BY DEF Token
<1>3. Space \in Seq(Token)
  BY <1>2, Joined DEF Space
<1>4. << Mark(",") >> \in Seq(Token)
  BY <1>2, Joined
<1>5. Separator \in Seq(Token)
  BY <1>3, <1>4, Joined DEF Separator
<1> QED
  BY <1>1, <1>2, <1>3, <1>5

(* A call of the sink leaves the reader alone.                             *)
LEMMA WriteStep ==
  ASSUME JsonInv, PutScalar \/ PutBadText \/ PutKey \/ Begin \/ End
  PROVE  JsonInv'
<1>1. reading = "write" /\ out \in Seq(Token) /\ UNCHANGED reader
  BY DEF PutScalar, PutBadText, PutKey, Begin, End, Writing, JsonInv
<1>2. out' \in Seq(Token)
  <2>1. CASE PutScalar
    <3>1. PICK k \in Kinds : out' = out \o Separator \o << Mark(k) >>
      BY <2>1 DEF PutScalar, WriteScalar
    <3>2. Mark(k) \in Token
      BY InputsAssumption, Written
    <3> QED
      BY <1>1, <3>1, <3>2, Written, Joined
  <2>2. CASE PutBadText
    BY <1>1, <2>2, Written, Joined DEF PutBadText, WriteBadText
  <2>3. CASE PutKey
    <3>1. out' = out \o Separator \o << Mark("text"), Mark(":") >> \o Space
      BY <2>3 DEF PutKey, WriteKey
    <3>2. Mark("text") \in Token /\ Mark(":") \in Token
      BY Written DEF Scalar
    <3>3. << Mark("text"), Mark(":") >> \in Seq(Token)
      BY <3>2, Joined
    <3> QED
      BY <1>1, <3>1, <3>3, Written, Joined
  <2>4. CASE Begin
    <3>1. PICK k \in Opening : Open(k)
      BY <2>4 DEF Begin
    <3>2. Mark(k) \in Token
      BY Written
    <3>3. out' = out \o Separator \/ out' = out \o Separator \o << Mark(k) >>
      BY <3>1 DEF Open
    <3>4. out \o Separator \in Seq(Token) /\ << Mark(k) >> \in Seq(Token)
      BY <1>1, <3>2, Written, Joined
    <3> QED
      BY <3>3, <3>4, Joined
  <2>5. CASE End
    <3> DEFINE k == IF Last(plan) = "[" THEN "[" ELSE "{"
               s == IF first[wdepth] THEN << >> ELSE Space
    <3>1. out' = out \o s \o << Mark(Closing(k)) >>
      BY <2>5 DEF End, Close
    <3>2. Mark(Closing(k)) \in Token
      BY Written DEF Closing
    <3>3. s \in Seq(Token)
      BY Written, Joined
    <3> HIDE DEF k, s
    <3> QED
      BY <1>1, <3>1, <3>2, <3>3, Joined
  <2> QED
    BY <2>1, <2>2, <2>3, <2>4, <2>5
<1>3. UNCHANGED << in, base, reading, cursors, walk, pos, depth, state, is_object >>
  BY <1>1 DEF reader, skip, typed
<1> QED
  BY <1>1, <1>2, <1>3 DEF JsonInv, Fresh

(* Nothing has been skipped when a reader is made.                         *)
LEMMA ReachedStart == Reached(Start, Start) /\ << >> \in Seq(Opening) /\ Bits(<< >>) = << >>
<1>1. Reached(Start, Start)
  <2> SUFFICES \E S : Start \in S /\ \A c \in S : c = Start
    BY Zenon DEF Reached
  <2> DEFINE T == {Start}
  <2>1. Start \in T /\ \A c \in T : c = Start
    OBVIOUS
  <2> HIDE DEF T
  <2> QED
    BY <2>1, Zenon
<1>2. << >> \in Seq(Opening)
  BY EmptySeq
<1> QED
  BY <1>1, <1>2, BitsLen

(* A reader is made for what was written.                                  *)
LEMMA ReadBackStep == ASSUME JsonInv, ReadBack PROVE JsonInv'
<1>1. /\ reading = "write" /\ reading' = "skip" /\ in' = out
      /\ UNCHANGED << base, cursors, walk, pos, depth, state, is_object >>
  BY DEF ReadBack, skip, typed
<1>2. /\ Fresh /\ out \in Seq(Token) /\ pos = 1 /\ depth = base /\ state = "want_value" /\ is_object = << >>
  BY <1>1 DEF JsonInv
<1>3. Reached(Start, Start)'
  <2> SUFFICES \E S : Start \in S /\ \A c \in S : c = Start
    BY Zenon DEF Reached, Start
  <2> DEFINE T == {Start}
  <2>1. Start \in T /\ \A c \in T : c = Start
    OBVIOUS
  <2> HIDE DEF T
  <2> QED
    BY <2>1, Zenon
<1>4. Conf(pos', state', << >>) = Start
  BY <1>1, <1>2 DEF Start
<1>5. (\E o \in Seq(Opening) : is_object = Bits(o) /\ Reached(Start, Conf(pos, state, o)))'
  BY <1>1, <1>2, <1>3, <1>4, ReachedStart DEF Start
<1> QED
  BY <1>1, <1>2, <1>5 DEF JsonInv, Fresh

(* The invariant holds when a writer or a reader has been made.            *)
LEMMA JsonStart == Init => JsonInv
<1> SUFFICES ASSUME Init PROVE JsonInv
  OBVIOUS
<1>1. /\ pos = 1 /\ depth = base /\ state = "want_value" /\ is_object = << >> /\ Fresh
      /\ out = << >>
  BY DEF Init, Reset, Fresh, WriterInit
<1>2. \/ reading = "write" /\ in = << >> /\ base = 0
      \/ reading = "skip" /\ in \in Inputs /\ base \in 0 .. MaxDepth
  BY DEF Init
<1>3. << >> \in Seq(Token)
  BY EmptySeq
<1>4. in \in Seq(Token) /\ base \in 0 .. MaxDepth
  <2>1. in \in Inputs => in \in Seq(Token)
    BY InputsAssumption DEF IsText
  <2>2. 0 \in 0 .. MaxDepth
    BY DepthAssumption
  <2> QED
    BY <1>2, <1>3, <2>1, <2>2
<1>5. \E o \in Seq(Opening) : is_object = Bits(o) /\ Reached(Start, Conf(pos, state, o))
  BY <1>1, ReachedStart DEF Start
<1> QED
  BY <1>1, <1>2, <1>3, <1>4, <1>5 DEF JsonInv

(* Every call keeps it.                                                    *)
LEMMA JsonStep == JsonInv /\ [Next]_vars => JsonInv'
<1> SUFFICES ASSUME JsonInv, [Next]_vars PROVE JsonInv'
  OBVIOUS
<1>1. CASE PutScalar \/ PutBadText \/ PutKey \/ Begin \/ End
  BY <1>1, WriteStep
<1>2. CASE ReadBack
  BY <1>2, ReadBackStep
<1>3. CASE Read
  BY <1>3, SkipStep, ScalarStep, ContainerStep, NextStep, KeyStep, DoneStep DEF Read, ReadNext
<1>4. CASE UNCHANGED vars
  <2>1. /\ UNCHANGED << in, pos, depth, base, reading, state, is_object, cursors, walk, skipped, walked >>
        /\ UNCHANGED out
    BY <1>4 DEF vars, reader, skip, typed, writer
  <2>2. /\ \A a, b : Reached(a, b)' <=> Reached(a, b)
        /\ \A c, v : Leads(c, v)' <=> Leads(c, v)
    BY <2>1, SameText
  <2>3. Follows(pos, depth, walk, cursors)' <=> Follows(pos, depth, walk, cursors)
    <3>1. \A c : Leads(c, skipped)' <=> Leads(c, skipped)
      BY <2>1, <2>2
    <3>2. Entered(pos, cursors)' <=> Entered(pos, cursors)
      BY <2>1, <3>1 DEF Entered, SkipWs, AtEnd
    <3>3. Refused(pos, walk)' <=> Refused(pos, walk)
      BY <2>1 DEF Refused, SkipWs, AtEnd
    <3> QED
      BY <2>1, <3>1, <3>2, <3>3 DEF Follows, CursorsOK
  <2>4. PathsAgree' <=> PathsAgree
    BY <2>1 DEF PathsAgree, Outcome
  <2> QED
    BY <2>1, <2>2, <2>3, <2>4 DEF JsonInv, Fresh
<1> QED
  BY <1>1, <1>2, <1>3, <1>4 DEF Next

(* json::reader's validator and its typed path agree on every text and at  *)
(* every depth: they end at the same place with depth_ as it was, or fail  *)
(* with the same code at the same offset.                                  *)
THEOREM SkipAgreesWithWalk == Spec => []PathsAgree
<1>1. JsonInv => PathsAgree
  BY DEF JsonInv, PathsAgree
<1> QED
  BY <1>1, JsonStart, JsonStep, PTL DEF Spec

-----------------------------------------------------------------------------
(* The text a writer has written, call by call.                            *)

Place == {"[", "key", "value"}
Call  == Token \cup {KeyEvent}

(* The writer after n calls: where its caller is, whether the innermost    *)
(* container is still empty, and how much of the text there is.            *)
Hist(n, pl, f, len) == [n |-> n, plan |-> pl, f |-> f, len |-> len]

OpenOf(x) == IF x = "[" THEN "[" ELSE "{"
Shape(pl) == [j \in 1 .. Len(pl) |-> OpenOf(pl[j])]
Fill(pl)  == IF pl # << >> /\ Last(pl) = "value" THEN Append(Front(pl), "key") ELSE pl

Blank(t, i, j) == \A x \in i .. j : t[x].k = "ws"

(* No separator belongs here: at the top, or after a key.                  *)
Plain(h) == h.plan = << >> \/ Last(h.plan) = "value"

(* The separator after h ends with token b; w is 1 when pretty, else 0.    *)
Lead(w, t, h, b) ==
  /\ Plain(h) => b = h.len
  /\ ~Plain(h) /\ h.f = "fresh" => b = h.len + w /\ Blank(t, h.len + 1, b)
  /\ ~Plain(h) /\ h.f # "fresh" =>
       b = h.len + 1 + w /\ t[h.len + 1].k = "," /\ Blank(t, h.len + 2, b)

(* The next call of cl after h, and what it wrote to t: a value, a key or  *)
(* the end of a container.                                                 *)
PutsItem(w, t, cl, h, b, g) ==
  /\ Lead(w, t, h, b)
  /\ IF h.plan = << >> THEN h.n = 0 ELSE Last(h.plan) # "key"
  /\ t[b + 1] = cl[h.n + 1]
  /\ \/ \E k \in Scalar :
          cl[h.n + 1] = Mark(k) /\ g = Hist(h.n + 1, Fill(h.plan), "used", b + 1)
     \/ \E k \in Opening :
          /\ cl[h.n + 1] = Mark(k)
          /\ Len(h.plan) < MaxDepth
          /\ g = Hist(h.n + 1, Append(Fill(h.plan), IF k = "[" THEN "[" ELSE "key"), "fresh", b + 1)

PutsKey(w, t, cl, h, b, g) ==
  /\ Lead(w, t, h, b)
  /\ h.plan # << >> /\ Last(h.plan) = "key"
  /\ cl[h.n + 1] = KeyEvent
  /\ t[b + 1] = Mark("text") /\ t[b + 2] = Mark(":") /\ Blank(t, b + 3, b + 2 + w)
  /\ g = Hist(h.n + 1, Append(Front(h.plan), "value"), "used", b + 2 + w)

PutsEnd(w, t, cl, h, e, g) ==
  /\ h.plan # << >> /\ Last(h.plan) # "value"
  /\ e = IF h.f = "fresh" THEN h.len ELSE h.len + w
  /\ Blank(t, h.len + 1, e)
  /\ cl[h.n + 1] = Mark(Closing(OpenOf(Last(h.plan)))) /\ t[e + 1] = cl[h.n + 1]
  /\ g = Hist(h.n + 1, Front(h.plan), "used", e + 1)

Puts(w, t, cl, h, g) ==
  \E b \in Nat : PutsItem(w, t, cl, h, b, g) \/ PutsKey(w, t, cl, h, b, g) \/ PutsEnd(w, t, cl, h, b, g)

(* Around the innermost container no key waits for its value: that is it.  *)
Around(pl) == \A j \in 1 .. Len(pl) - 1 : pl[j] # "value"

HistOK(t, cl, h) ==
  /\ h.plan \in Seq(Place) /\ Around(h.plan)
  /\ h.n \in 0 .. Len(cl) /\ h.len \in 0 .. Len(t)

(* The calls from a to b, and what they wrote.                             *)
Wrote(w, t, cl, a, b) ==
  \E S : /\ a \in S /\ b \in S
         /\ \A c \in S : HistOK(t, cl, c) /\ (c = b \/ \E d \in S : HistOK(t, cl, d) /\ Puts(w, t, cl, c, d))

-----------------------------------------------------------------------------
(* Places of the caller.                                                   *)

(* The same brackets as the containers that are open.                      *)
LEMMA ShapeOf ==
  ASSUME NEW pl \in Seq(Place)
  PROVE  /\ Shape(pl) \in Seq(Opening) /\ Len(Shape(pl)) = Len(pl) /\ Len(pl) \in Nat
         /\ Shape(pl) = << >> <=> pl = << >>
         /\ \A i \in 1 .. Len(pl) : Shape(pl)[i] = OpenOf(pl[i]) /\ pl[i] \in Place
<1>1. Len(pl) \in Nat /\ \A i \in 1 .. Len(pl) : OpenOf(pl[i]) \in Opening /\ pl[i] \in Place
  BY DEF OpenOf, Opening
<1>2. Shape(pl) \in Seq(Opening) /\ Len(Shape(pl)) = Len(pl)
  BY <1>1 DEF Shape
<1> QED
  BY <1>1, <1>2, EmptySeq DEF Shape

(* One place more.                                                         *)
LEMMA ShapeAppend ==
  ASSUME NEW pl \in Seq(Place), NEW x \in Place
  PROVE  /\ Append(pl, x) \in Seq(Place) /\ Append(pl, x) # << >> /\ Len(Append(pl, x)) = Len(pl) + 1
         /\ Last(Append(pl, x)) = x /\ Len(pl) \in Nat
         /\ Shape(Append(pl, x)) = Append(Shape(pl), OpenOf(x))
         /\ \A i \in 1 .. Len(pl) : Append(pl, x)[i] = pl[i]
<1>1. /\ Append(pl, x) \in Seq(Place) /\ Append(pl, x) # << >> /\ Len(pl) \in Nat
      /\ Len(Append(pl, x)) = Len(pl) + 1 /\ Append(pl, x)[Len(pl) + 1] = x
      /\ \A i \in 1 .. Len(pl) : Append(pl, x)[i] = pl[i]
  OBVIOUS
<1>2. OpenOf(x) \in Opening
  BY DEF OpenOf, Opening
<1>3. Shape(pl) \in Seq(Opening) /\ Len(Shape(pl)) = Len(pl) /\ \A i \in 1 .. Len(pl) : Shape(pl)[i] = OpenOf(pl[i])
  BY ShapeOf
<1>4. /\ Append(Shape(pl), OpenOf(x)) \in Seq(Opening) /\ Len(Append(Shape(pl), OpenOf(x))) = Len(pl) + 1
      /\ \A i \in 1 .. Len(pl) : Append(Shape(pl), OpenOf(x))[i] = OpenOf(pl[i])
      /\ Append(Shape(pl), OpenOf(x))[Len(pl) + 1] = OpenOf(x)
  BY <1>1, <1>2, <1>3
<1>5. /\ Shape(Append(pl, x)) \in Seq(Opening) /\ Len(Shape(Append(pl, x))) = Len(pl) + 1
      /\ \A i \in 1 .. Len(pl) + 1 : Shape(Append(pl, x))[i] = OpenOf(Append(pl, x)[i])
  BY <1>1, ShapeOf
<1>6. \A i \in 1 .. Len(pl) + 1 : Shape(Append(pl, x))[i] = Append(Shape(pl), OpenOf(x))[i]
  <2> TAKE i \in 1 .. Len(pl) + 1
  <2>1. i \in 1 .. Len(pl) \/ i = Len(pl) + 1
    BY <1>1
  <2> QED
    BY <1>1, <1>4, <1>5, <2>1
<1>7. Shape(Append(pl, x)) = Append(Shape(pl), OpenOf(x))
  BY <1>4, <1>5, <1>6, SeqEqual
<1> QED
  BY <1>1, <1>7 DEF Last

(* One less.                                                               *)
LEMMA ShapeFront ==
  ASSUME NEW pl \in Seq(Place), pl # << >>
  PROVE  /\ Front(pl) \in Seq(Place) /\ Len(Front(pl)) = Len(pl) - 1 /\ Len(pl) \in Nat \ {0}
         /\ Last(pl) \in Place /\ Last(pl) = pl[Len(pl)]
         /\ Shape(Front(pl)) = Front(Shape(pl)) /\ Last(Shape(pl)) = OpenOf(Last(pl))
         /\ Append(Shape(Front(pl)), OpenOf(Last(pl))) = Shape(pl)
         /\ \A i \in 1 .. Len(pl) - 1 : Front(pl)[i] = pl[i]
<1>1. /\ Len(pl) \in Nat \ {0} /\ pl[Len(pl)] \in Place
      /\ Front(pl) \in Seq(Place) /\ Len(Front(pl)) = Len(pl) - 1
      /\ \A i \in 1 .. Len(pl) - 1 : Front(pl)[i] = pl[i]
  BY PopSeq DEF Front
<1>2. /\ Shape(pl) \in Seq(Opening) /\ Len(Shape(pl)) = Len(pl) /\ Shape(pl) # << >>
      /\ \A i \in 1 .. Len(pl) : Shape(pl)[i] = OpenOf(pl[i])
  BY ShapeOf
<1>3. /\ Front(Shape(pl)) \in Seq(Opening) /\ Len(Front(Shape(pl))) = Len(pl) - 1
      /\ \A i \in 1 .. Len(pl) - 1 : Front(Shape(pl))[i] = OpenOf(pl[i])
  BY <1>1, <1>2, PopSeq DEF Front
<1>4. /\ Shape(Front(pl)) \in Seq(Opening) /\ Len(Shape(Front(pl))) = Len(pl) - 1
      /\ \A i \in 1 .. Len(pl) - 1 : Shape(Front(pl))[i] = OpenOf(pl[i])
  BY <1>1, ShapeOf
<1>5. Shape(Front(pl)) = Front(Shape(pl))
  BY <1>1, <1>3, <1>4, SeqEqual
<1>6. OpenOf(pl[Len(pl)]) \in Opening
  BY DEF OpenOf, Opening
<1>7. Append(Shape(Front(pl)), OpenOf(pl[Len(pl)])) = Shape(pl)
  <2> DEFINE a == Append(Shape(Front(pl)), OpenOf(pl[Len(pl)]))
  <2>1. /\ a \in Seq(Opening) /\ Len(a) = Len(pl) /\ a[Len(pl)] = OpenOf(pl[Len(pl)])
        /\ \A i \in 1 .. Len(pl) - 1 : a[i] = OpenOf(pl[i])
    BY <1>1, <1>4, <1>6
  <2> HIDE DEF a
  <2>2. \A i \in 1 .. Len(pl) : a[i] = Shape(pl)[i]
    BY <1>1, <1>2, <2>1
  <2>3. a = Shape(pl)
    BY <1>2, <2>1, <2>2, SeqEqual
  <2> QED
    BY <2>3 DEF a
<1> QED
  BY <1>1, <1>2, <1>5, <1>7 DEF Last

(* The innermost place changes: between a key and its value.               *)
LEMMA ShapeReplace ==
  ASSUME NEW pl \in Seq(Place), pl # << >>, NEW x \in Place, OpenOf(x) = OpenOf(Last(pl))
  PROVE  /\ Append(Front(pl), x) \in Seq(Place) /\ Append(Front(pl), x) # << >>
         /\ Len(Append(Front(pl), x)) = Len(pl) /\ Last(Append(Front(pl), x)) = x
         /\ Shape(Append(Front(pl), x)) = Shape(pl)
         /\ Around(pl) => Around(Append(Front(pl), x))
<1>1. /\ Front(pl) \in Seq(Place) /\ Len(Front(pl)) = Len(pl) - 1 /\ Len(pl) \in Nat \ {0}
      /\ Append(Shape(Front(pl)), OpenOf(Last(pl))) = Shape(pl)
      /\ \A i \in 1 .. Len(pl) - 1 : Front(pl)[i] = pl[i]
  BY ShapeFront
<1>2. /\ Append(Front(pl), x) \in Seq(Place) /\ Append(Front(pl), x) # << >>
      /\ Len(Append(Front(pl), x)) = Len(Front(pl)) + 1 /\ Last(Append(Front(pl), x)) = x
      /\ Shape(Append(Front(pl), x)) = Append(Shape(Front(pl)), OpenOf(x))
      /\ \A i \in 1 .. Len(Front(pl)) : Append(Front(pl), x)[i] = Front(pl)[i]
  BY <1>1, ShapeAppend
<1>3. Around(pl) => Around(Append(Front(pl), x))
  BY <1>1, <1>2 DEF Around
<1> QED
  BY <1>1, <1>2, <1>3

(* A value is complete.                                                    *)
LEMMA ShapeFill ==
  ASSUME NEW pl \in Seq(Place)
  PROVE  /\ Fill(pl) \in Seq(Place) /\ Len(Fill(pl)) = Len(pl) /\ Shape(Fill(pl)) = Shape(pl)
         /\ Fill(pl) = << >> <=> pl = << >>
         /\ pl # << >> => Last(Fill(pl)) # "value"
         /\ Around(pl) => Around(Fill(pl)) /\ \A i \in 1 .. Len(pl) : Fill(pl)[i] # "value"
<1> DEFINE F == /\ Fill(pl) \in Seq(Place) /\ Len(Fill(pl)) = Len(pl) /\ Shape(Fill(pl)) = Shape(pl)
                /\ Fill(pl) = << >> <=> pl = << >>
                /\ pl # << >> => Last(Fill(pl)) # "value"
                /\ Around(pl) => Around(Fill(pl))
<1>1. ASSUME pl # << >>, Last(pl) = "value" PROVE F
  <2>1. OpenOf("key") = OpenOf(Last(pl)) /\ "key" \in Place
    BY <1>1 DEF OpenOf, Place
  <2> QED
    BY <1>1, <2>1, ShapeReplace DEF Fill
<1>2. ASSUME ~(pl # << >> /\ Last(pl) = "value") PROVE F
  BY <1>2 DEF Fill
<1>3. /\ Fill(pl) \in Seq(Place) /\ Len(Fill(pl)) = Len(pl) /\ Shape(Fill(pl)) = Shape(pl)
      /\ Fill(pl) = << >> <=> pl = << >>
      /\ pl # << >> => Last(Fill(pl)) # "value"
      /\ Around(pl) => Around(Fill(pl))
  BY <1>1, <1>2
<1>4. ASSUME Around(pl), NEW i \in 1 .. Len(pl) PROVE Fill(pl)[i] # "value"
  <2>1. Len(pl) \in Nat /\ pl # << >>
    BY <1>4
  <2>2. i \in 1 .. Len(pl) - 1 \/ i = Len(pl)
    BY <2>1
  <2> QED
    BY <1>3, <1>4, <2>1, <2>2 DEF Around, Last
<1> QED
  BY <1>3, <1>4

-----------------------------------------------------------------------------
(* Histories.                                                              *)

Extends(s, t) == Len(s) <= Len(t) /\ \A i \in 1 .. Len(s) : t[i] = s[i]

(* What was written stays.                                                 *)
LEMMA PutsLater ==
  ASSUME NEW w \in {0, 1}, NEW t \in Seq(Token), NEW cl \in Seq(Call), NEW u \in Seq(Token), NEW dl \in Seq(Call),
         Extends(t, u), Extends(cl, dl),
         NEW h, NEW g, HistOK(t, cl, h), HistOK(t, cl, g), Puts(w, t, cl, h, g)
  PROVE  Puts(w, u, dl, h, g) /\ HistOK(u, dl, h) /\ HistOK(u, dl, g)
<1>1. Len(t) \in Nat /\ Len(u) \in Nat /\ Len(cl) \in Nat /\ Len(dl) \in Nat
  OBVIOUS
<1>2. HistOK(u, dl, h) /\ HistOK(u, dl, g)
  BY <1>1 DEF HistOK, Extends
<1>3. h.n \in Nat /\ h.len \in Nat /\ g.len \in Nat /\ g.n \in Nat /\ g.len <= Len(t) /\ g.n <= Len(cl)
  BY <1>1 DEF HistOK
<1>4. PICK b \in Nat : PutsItem(w, t, cl, h, b, g) \/ PutsKey(w, t, cl, h, b, g) \/ PutsEnd(w, t, cl, h, b, g)
  BY DEF Puts
<1>5. g.n = h.n + 1 /\ g.len \in Nat /\ b + 1 <= g.len
  BY <1>4 DEF PutsItem, PutsKey, PutsEnd, Hist
<1>6. dl[h.n + 1] = cl[h.n + 1]
  BY <1>1, <1>3, <1>5 DEF Extends
<1>7. \A x \in 1 .. g.len : u[x] = t[x]
  BY <1>1, <1>3 DEF Extends
<1>8. \A i \in Nat \ {0}, j \in Nat : j <= g.len /\ Blank(t, i, j) => Blank(u, i, j)
  <2> SUFFICES ASSUME NEW i \in Nat \ {0}, NEW j \in Nat, j <= g.len, Blank(t, i, j), NEW x \in i .. j
               PROVE  u[x].k = "ws"
    BY DEF Blank
  <2>1. x \in 1 .. g.len /\ t[x].k = "ws"
    BY <1>3 DEF Blank
  <2> QED
    BY <1>7, <2>1
<1>9. Lead(w, t, h, b) => Lead(w, u, h, b)
  <2>1. /\ h.len + 1 \in Nat \ {0} /\ h.len + 2 \in Nat \ {0} /\ b <= g.len
        /\ b = h.len + 1 + w => h.len + 1 \in 1 .. g.len
    <3>1. PICK l \in Nat : l = h.len
      BY <1>3
    <3>2. PICK m \in Nat : m = g.len
      BY <1>3
    <3>3. b + 1 <= m
      BY <1>5, <3>2
    <3>4. /\ l + 1 \in Nat \ {0} /\ l + 2 \in Nat \ {0} /\ b <= m
          /\ b = l + 1 + w => l + 1 \in 1 .. m
      BY <3>3
    <3> QED
      BY <3>1, <3>2, <3>4
  <2>2. Blank(t, h.len + 1, b) => Blank(u, h.len + 1, b)
    BY <1>8, <2>1
  <2>3. Blank(t, h.len + 2, b) => Blank(u, h.len + 2, b)
    BY <1>8, <2>1
  <2>4. b = h.len + 1 + w => u[h.len + 1] = t[h.len + 1]
    BY <1>7, <2>1
  <2> QED
    BY <2>2, <2>3, <2>4 DEF Lead
<1>10. CASE PutsItem(w, t, cl, h, b, g)
  BY <1>2, <1>3, <1>5, <1>6, <1>7, <1>9, <1>10 DEF PutsItem, Puts
<1>11. CASE PutsKey(w, t, cl, h, b, g)
  <2>1. g.len = b + 2 + w
    BY <1>11 DEF PutsKey, Hist
  <2>2. u[b + 1] = t[b + 1] /\ u[b + 2] = t[b + 2]
    BY <1>3, <1>7, <2>1
  <2>3. Blank(u, b + 3, b + 2 + w)
    BY <1>8, <1>11, <2>1 DEF PutsKey
  <2> QED
    BY <1>2, <1>6, <1>9, <1>11, <2>2, <2>3 DEF PutsKey, Puts
<1>12. CASE PutsEnd(w, t, cl, h, b, g)
  <2>1. u[b + 1] = t[b + 1]
    BY <1>3, <1>5, <1>7
  <2>2. Blank(u, h.len + 1, b)
    <3>1. h.len + 1 \in Nat \ {0} /\ b <= g.len /\ Blank(t, h.len + 1, b)
      <4>1. \A m, l \in Nat : m + 1 <= l => m <= l
        OBVIOUS
      <4>2. Blank(t, h.len + 1, b)
        BY <1>12 DEF PutsEnd
      <4> QED
        BY <1>3, <1>5, <4>1, <4>2
    <3> QED
      BY <1>8, <3>1
  <2> QED
    BY <1>2, <1>6, <1>12, <2>1, <2>2 DEF PutsEnd, Puts
<1> QED
  BY <1>4, <1>10, <1>11, <1>12

(* One more call.                                                          *)
LEMMA WroteOn ==
  ASSUME NEW w \in {0, 1}, NEW t \in Seq(Token), NEW cl \in Seq(Call), NEW u \in Seq(Token), NEW dl \in Seq(Call),
         Extends(t, u), Extends(cl, dl),
         NEW a, NEW b, NEW d, Wrote(w, t, cl, a, b), HistOK(u, dl, d), Puts(w, u, dl, b, d)
  PROVE  Wrote(w, u, dl, a, d)
<1>1. PICK S : /\ a \in S /\ b \in S
               /\ \A c \in S : HistOK(t, cl, c)
               /\ \A c \in S : c = b \/ \E e \in S : Puts(w, t, cl, c, e)
  BY DEF Wrote
<1>2. \A c \in S : HistOK(u, dl, c)
  BY <1>1 DEF HistOK, Extends
<1>3. \A c \in S : c = b \/ \E e \in S : Puts(w, u, dl, c, e)
  BY <1>1, PutsLater
<1> DEFINE T == S \cup {d}
<1>4. /\ a \in T /\ d \in T
      /\ \A c \in T : HistOK(u, dl, c)
      /\ \A c \in T : c = d \/ \E e \in T : Puts(w, u, dl, c, e)
  BY <1>1, <1>2, <1>3
<1> HIDE DEF T
<1> QED
  BY <1>4, Zenon DEF Wrote

(* The first call.                                                         *)
LEMMA WroteFrom ==
  ASSUME NEW w, NEW t, NEW cl, NEW a, NEW b, Wrote(w, t, cl, a, b)
  PROVE  /\ HistOK(t, cl, a)
         /\ a = b \/ \E d : HistOK(t, cl, d) /\ Puts(w, t, cl, a, d) /\ Wrote(w, t, cl, d, b)
  BY DEF Wrote

-----------------------------------------------------------------------------
(* The writer.                                                             *)

Width == IF pretty THEN 1 ELSE 0
Zero  == Hist(0, << >>, "used", 0)

Flag(fs, wd) == IF wd # 0 /\ fs[wd] = TRUE THEN "fresh" ELSE "used"

(* The writer after the calls cl: its depth and its flags follow the       *)
(* caller, and its text is that of the calls.                              *)
Writes(t, cl, pl, fs, ak, wd) ==
  /\ t \in Seq(Token) /\ cl \in Seq(Call) /\ pl \in Seq(Place) /\ Around(pl)
  /\ wd = Len(pl) /\ wd <= MaxDepth
  /\ fs \in [0 .. MaxDepth + 1 -> BOOLEAN]
  /\ \A j \in 1 .. wd : j < wd \/ Last(pl) = "value" => fs[j] = FALSE
  /\ ak = (pl # << >> /\ Last(pl) = "value")
  /\ Wrote(Width, t, cl, Zero, Hist(Len(cl), pl, Flag(fs, wd), Len(t)))

WritesNow == Writes(out, calls, plan, first, after_key, wdepth)

(* Nothing has been written.                                               *)
LEMMA WritesFirst ==
  ASSUME NEW fs \in [0 .. MaxDepth + 1 -> BOOLEAN]
  PROVE  Writes(<< >>, << >>, << >>, fs, FALSE, 0)
<1>1. << >> \in Seq(Token) /\ << >> \in Seq(Call) /\ << >> \in Seq(Place) /\ Len(<< >>) = 0
  BY EmptySeq
<1>2. Around(<< >>) /\ Flag(fs, 0) = "used"
  BY <1>1 DEF Around, Flag
<1>3. HistOK(<< >>, << >>, Zero)
  BY <1>1, <1>2 DEF HistOK, Zero, Hist
<1>4. Wrote(Width, << >>, << >>, Zero, Zero)
  <2> DEFINE T == {Zero}
  <2>1. Zero \in T /\ \A c \in T : HistOK(<< >>, << >>, c) /\ c = Zero
    BY <1>3
  <2> HIDE DEF T
  <2> QED
    BY <2>1, Zenon DEF Wrote
<1> QED
  BY <1>1, <1>2, <1>4, DepthAssumption DEF Writes, Zero

(* newline() of a compact writer writes nothing.                           *)
LEMMA SpaceIs ==
  /\ Width \in {0, 1} /\ Space \in Seq(Token) /\ Len(Space) = Width
  /\ \A i \in 1 .. Len(Space) : Space[i].k = "ws"
<1>1. Mark("ws").k = "ws" /\ Mark("ws") \in Token
  BY Written DEF Mark, Tk
<1>2. CASE pretty
  BY <1>1, <1>2 DEF Width, Space
<1>3. CASE ~pretty
  BY <1>3 DEF Width, Space
<1> QED
  BY <1>2, <1>3

(* Elements of texts put together.                                         *)
LEMMA JoinedAt ==
  ASSUME NEW s \in Seq(Token), NEW t \in Seq(Token)
  PROVE  /\ s \o t \in Seq(Token) /\ Len(s \o t) = Len(s) + Len(t) /\ Len(s) \in Nat /\ Len(t) \in Nat
         /\ Extends(s, s \o t)
         /\ \A i \in 1 .. Len(t) : (s \o t)[Len(s) + i] = t[i]
<1>1. /\ s \o t \in Seq(Token) /\ Len(s \o t) = Len(s) + Len(t) /\ Len(s) \in Nat /\ Len(t) \in Nat
      /\ \A i \in 1 .. Len(s) : (s \o t)[i] = s[i]
      /\ \A i \in 1 .. Len(t) : (s \o t)[Len(s) + i] = t[i]
  OBVIOUS
<1> QED
  BY <1>1 DEF Extends

(* One token in front.                                                     *)
LEMMA ConsAt ==
  ASSUME NEW x \in Token, NEW t \in Seq(Token)
  PROVE  /\ << x >> \o t \in Seq(Token) /\ Len(<< x >> \o t) = 1 + Len(t) /\ Len(t) \in Nat
         /\ (<< x >> \o t)[1] = x
         /\ \A i \in 1 .. Len(t) : (<< x >> \o t)[1 + i] = t[i]
<1>1. << x >> \in Seq(Token) /\ Len(<< x >>) = 1 /\ << x >>[1] = x
  OBVIOUS
<1> DEFINE s == << x >>
<1>2. s \in Seq(Token) /\ Len(s) = 1 /\ s[1] = x
  BY <1>1
<1> HIDE DEF s
<1>3. /\ s \o t \in Seq(Token) /\ Len(s \o t) = Len(s) + Len(t) /\ Len(t) \in Nat
      /\ \A i \in 1 .. Len(s) : (s \o t)[i] = s[i]
      /\ \A i \in 1 .. Len(t) : (s \o t)[Len(s) + i] = t[i]
  BY <1>2, JoinedAt DEF Extends
<1>4. (s \o t)[1] = x
  <2>1. 1 \in 1 .. Len(s)
    BY <1>2
  <2> QED
    BY <1>2, <1>3, <2>1
<1>5. /\ Len(s \o t) = 1 + Len(t)
      /\ \A i \in 1 .. Len(t) : (s \o t)[1 + i] = t[i]
  BY <1>2, <1>3
<1> QED
  BY <1>3, <1>4, <1>5 DEF s

(* A prefix of a prefix.                                                   *)
LEMMA ExtendsOn ==
  ASSUME NEW s \in Seq(Token), NEW t \in Seq(Token), NEW u \in Seq(Token), Extends(s, t), Extends(t, u)
  PROVE  Extends(s, u)
<1>1. Len(s) \in Nat /\ Len(t) \in Nat /\ Len(u) \in Nat
  OBVIOUS
<1> QED
  BY <1>1 DEF Extends

(* before_value writes the separator that belongs there.                   *)
LEMMA SeparatorLeads ==
  ASSUME WritesNow, NEW u \in Seq(Token), Extends(out \o Separator, u)
  PROVE  /\ Lead(Width, u, Hist(Len(calls), plan, Flag(first, wdepth), Len(out)), Len(out \o Separator))
         /\ Extends(out, u) /\ Len(out \o Separator) \in Nat /\ out \o Separator \in Seq(Token)
<1> DEFINE h == Hist(Len(calls), plan, Flag(first, wdepth), Len(out))
           b == Len(out \o Separator)
<1>1. out \in Seq(Token) /\ Separator \in Seq(Token)
  BY Written DEF WritesNow, Writes
<1>2. /\ out \o Separator \in Seq(Token) /\ b = Len(out) + Len(Separator) /\ Len(out) \in Nat /\ Len(Separator) \in Nat
      /\ Extends(out, out \o Separator)
      /\ \A i \in 1 .. Len(Separator) : (out \o Separator)[Len(out) + i] = Separator[i]
  BY <1>1, JoinedAt
<1>3. \A i \in 1 .. Len(Separator) : u[Len(out) + i] = Separator[i]
  <2> TAKE i \in 1 .. Len(Separator)
  <2>1. Len(out) + i \in 1 .. b
    BY <1>2
  <2> QED
    BY <1>2, <2>1 DEF Extends
<1>4. Extends(out, u)
  BY <1>1, <1>2, ExtendsOn
<1>5. h.plan = plan /\ h.len = Len(out) /\ h.f = Flag(first, wdepth)
  BY DEF Hist
<1>6. /\ after_key \/ wdepth = 0 <=> Plain(h)
      /\ wdepth \in 0 .. MaxDepth + 1 /\ first[wdepth] \in BOOLEAN
      /\ wdepth # 0 => (h.f = "fresh" <=> first[wdepth])
  <2>1. wdepth = Len(plan) /\ Len(plan) \in Nat /\ wdepth <= MaxDepth /\ (wdepth = 0 <=> plan = << >>)
    BY EmptySeq DEF WritesNow, Writes
  <2>2. wdepth \in 0 .. MaxDepth + 1
    BY <2>1, DepthAssumption
  <2>3. first[wdepth] \in BOOLEAN
    BY <2>2 DEF WritesNow, Writes
  <2>4. after_key \/ wdepth = 0 <=> Plain(h)
    BY <1>5, <2>1 DEF WritesNow, Writes, Plain
  <2>5. wdepth # 0 => (h.f = "fresh" <=> first[wdepth])
    BY <1>5, <2>3 DEF Flag
  <2> QED
    BY <2>2, <2>3, <2>4, <2>5
<1> HIDE DEF h, b
<1>7. CASE Plain(h)
  <2>1. Separator = << >>
    BY <1>6, <1>7 DEF Separator
  <2> QED
    BY <1>2, <1>4, <1>5, <1>7, <2>1 DEF Lead, h, b
<1>8. CASE ~Plain(h) /\ h.f = "fresh"
  <2>1. Separator = Space
    <3>1. Separator = << >> \o Space
      BY <1>6, <1>8 DEF Separator
    <3> QED
      BY <3>1, SpaceIs
  <2>2. b = Len(out) + Width /\ Width \in Nat
    BY <1>2, <2>1, SpaceIs
  <2>3. ASSUME NEW x \in Len(out) + 1 .. b PROVE u[x].k = "ws"
    <3>1. x - Len(out) \in 1 .. Len(Separator) /\ Len(out) + (x - Len(out)) = x
      BY <1>2, <2>3
    <3> QED
      BY <1>3, <2>1, <3>1, SpaceIs
  <2> QED
    BY <1>2, <1>4, <1>5, <1>8, <2>2, <2>3 DEF Lead, Blank, h, b
<1>9. CASE ~Plain(h) /\ h.f # "fresh"
  <2>1. Separator = << Mark(",") >> \o Space
    BY <1>6, <1>9 DEF Separator
  <2>2. Mark(",") \in Token /\ Mark(",").k = ","
    BY Written DEF Mark, Tk
  <2>3. /\ Len(Separator) = 1 + Len(Space) /\ Separator[1] = Mark(",")
        /\ \A i \in 1 .. Len(Space) : Separator[1 + i] = Space[i]
    BY <2>1, <2>2, ConsAt, SpaceIs
  <2>4. PICK w \in Nat : w = Width
    BY SpaceIs
  <2>5. PICK l \in Nat : l = Len(out)
    BY <1>2
  <2>6. Len(Separator) = 1 + w /\ \A i \in 1 .. w : Separator[1 + i].k = "ws"
    BY <2>3, <2>4, SpaceIs
  <2>7. b = l + 1 + w
    BY <1>2, <2>5, <2>6
  <2>8. u[l + 1].k = ","
    <3>1. 1 \in 1 .. Len(Separator)
      BY <2>6
    <3> QED
      BY <1>3, <2>2, <2>3, <2>5, <3>1
  <2>9. ASSUME NEW x \in l + 2 .. b PROVE u[x].k = "ws"
    <3>1. PICK i \in 1 .. w : x = l + (1 + i)
      <4>1. x - l - 1 \in 1 .. w /\ x = l + (1 + (x - l - 1))
        BY <2>7, <2>9
      <4> QED
        BY <4>1
    <3>2. 1 + i \in 1 .. Len(Separator)
      BY <2>6
    <3> QED
      BY <1>3, <2>5, <2>6, <3>1, <3>2
  <2>10. Lead(Width, u, h, b)
    BY <1>5, <1>9, <2>4, <2>5, <2>7, <2>8, <2>9 DEF Lead, Blank
  <2> QED
    BY <1>2, <1>4, <2>10 DEF h, b
<1> QED
  BY <1>7, <1>8, <1>9

(* before_value clears the flag.                                           *)
LEMMA StartedIs ==
  ASSUME WritesNow
  PROVE  /\ Started \in [0 .. MaxDepth + 1 -> BOOLEAN]
         /\ \A j \in 1 .. wdepth : Started[j] = FALSE
<1>1. /\ first \in [0 .. MaxDepth + 1 -> BOOLEAN] /\ wdepth \in 0 .. MaxDepth
      /\ \A j \in 1 .. wdepth : j < wdepth \/ Last(plan) = "value" => first[j] = FALSE
      /\ after_key = (plan # << >> /\ Last(plan) = "value")
  BY DepthAssumption DEF WritesNow, Writes
<1>2. CASE after_key \/ wdepth = 0
  <2>1. Started = first
    BY <1>2 DEF Started
  <2>2. wdepth = 0 => 1 .. wdepth = {}
    OBVIOUS
  <2>3. \A j \in 1 .. wdepth : first[j] = FALSE
    BY <1>1, <1>2, <2>2, Zenon
  <2> QED
    BY <1>1, <2>1, <2>3, Zenon
<1>3. CASE ~(after_key \/ wdepth = 0)
  <2>1. Started = [first EXCEPT ![wdepth] = FALSE]
    BY <1>3 DEF Started
  <2>2. wdepth \in 0 .. MaxDepth + 1
    BY <1>1, DepthAssumption
  <2>3. Started \in [0 .. MaxDepth + 1 -> BOOLEAN]
    BY <1>1, <2>1, <2>2, Zenon
  <2>4. \A j \in 1 .. wdepth : j \in 0 .. MaxDepth + 1 /\ (j < wdepth \/ j = wdepth)
    BY <1>1, DepthAssumption
  <2>5. ASSUME NEW j \in 1 .. wdepth PROVE Started[j] = FALSE
    <3>1. j = wdepth => Started[j] = FALSE
      BY <1>1, <2>1, <2>2
    <3>2. j # wdepth => Started[j] = first[j]
      BY <1>1, <2>1, <2>4
    <3> QED
      BY <1>1, <2>4, <3>1, <3>2
  <2> QED
    BY <2>3, <2>5
<1> QED
  BY <1>2, <1>3

(* A call puts its text behind the separator.                              *)
LEMMA CallWrites ==
  ASSUME WritesNow, NEW u \in Seq(Token), Extends(out, u), NEW x \in Call, NEW b \in Nat,
         NEW pl \in Seq(Place), Around(pl), NEW f,
         LET h  == Hist(Len(calls), plan, Flag(first, wdepth), Len(out))
             g  == Hist(Len(calls) + 1, pl, f, Len(u))
             cl == Append(calls, x)
         IN  PutsItem(Width, u, cl, h, b, g) \/ PutsKey(Width, u, cl, h, b, g) \/ PutsEnd(Width, u, cl, h, b, g)
  PROVE  /\ Append(calls, x) \in Seq(Call) /\ Len(Append(calls, x)) = Len(calls) + 1
         /\ Append(calls, x) # << >>
         /\ Wrote(Width, u, Append(calls, x), Zero, Hist(Len(Append(calls, x)), pl, f, Len(u)))
<1>1. out \in Seq(Token) /\ calls \in Seq(Call) /\ Width \in {0, 1}
  BY SpaceIs DEF WritesNow, Writes
<1>2. /\ Append(calls, x) \in Seq(Call) /\ Len(Append(calls, x)) = Len(calls) + 1 /\ Len(calls) \in Nat
      /\ Append(calls, x) # << >> /\ \A i \in 1 .. Len(calls) : Append(calls, x)[i] = calls[i]
  BY <1>1, AppendProperties
<1>3. Extends(calls, Append(calls, x))
  BY <1>2 DEF Extends
<1>4. Len(u) \in Nat
  OBVIOUS
<1> DEFINE h == Hist(Len(calls), plan, Flag(first, wdepth), Len(out))
           g == Hist(Len(calls) + 1, pl, f, Len(u))
<1>5. HistOK(u, Append(calls, x), g)
  BY <1>2, <1>4 DEF HistOK, Hist
<1>6. Puts(Width, u, Append(calls, x), h, g)
  BY DEF Puts
<1>7. Wrote(Width, out, calls, Zero, h)
  BY DEF WritesNow, Writes
<1> HIDE DEF h, g
<1>8. Wrote(Width, u, Append(calls, x), Zero, g)
  BY <1>1, <1>2, <1>3, <1>5, <1>6, <1>7, WroteOn
<1> QED
  BY <1>2, <1>8 DEF g

(* The tokens and places of the call that comes next.                      *)
LEMMA NextCall ==
  ASSUME NEW cl \in Seq(Call), NEW x \in Call
  PROVE  Append(cl, x)[Len(cl) + 1] = x
  OBVIOUS

(* A text and one token.                                                   *)
LEMMA SnocAt ==
  ASSUME NEW s \in Seq(Token), NEW x \in Token
  PROVE  /\ s \o << x >> \in Seq(Token) /\ Len(s \o << x >>) = Len(s) + 1 /\ Extends(s, s \o << x >>)
         /\ (s \o << x >>)[Len(s) + 1] = x
<1>1. << x >> \in Seq(Token) /\ Len(<< x >>) = 1 /\ << x >>[1] = x
  OBVIOUS
<1> DEFINE t == << x >>
<1>2. t \in Seq(Token) /\ Len(t) = 1 /\ t[1] = x
  BY <1>1
<1> HIDE DEF t
<1>3. /\ s \o t \in Seq(Token) /\ Len(s \o t) = Len(s) + Len(t) /\ Extends(s, s \o t)
      /\ \A i \in 1 .. Len(t) : (s \o t)[Len(s) + i] = t[i]
  BY <1>2, JoinedAt
<1>4. 1 \in 1 .. Len(t)
  BY <1>2
<1>5. (s \o t)[Len(s) + 1] = x
  BY <1>2, <1>3, <1>4
<1> QED
  BY <1>2, <1>3, <1>5 DEF t

(* Places of the caller and the sink, for any call.                        *)
LEMMA NowFacts ==
  ASSUME WritesNow
  PROVE  LET h == Hist(Len(calls), plan, Flag(first, wdepth), Len(out)) IN
         /\ h.n = Len(calls) /\ h.plan = plan /\ h.len = Len(out) /\ h.f = Flag(first, wdepth)
         /\ plan \in Seq(Place) /\ Around(plan) /\ wdepth = Len(plan) /\ Len(plan) \in Nat
         /\ out \in Seq(Token) /\ calls \in Seq(Call) /\ Len(calls) \in Nat /\ Len(out) \in Nat
         /\ calls = << >> <=> Len(calls) = 0
  BY EmptySeq DEF WritesNow, Writes, Hist

(* A scalar.                                                               *)
LEMMA ScalarWrites ==
  ASSUME WritesNow, PutScalar
  PROVE  Writes(out, calls, plan, first, after_key, wdepth)' /\ calls' # << >>
<1> DEFINE h == Hist(Len(calls), plan, Flag(first, wdepth), Len(out))
           s == out \o Separator
<1>1. PICK k \in Kinds : WriteScalar(k) /\ calls' = Append(calls, Mark(k))
  BY DEF PutScalar
<1>2. k \in Scalar /\ Mark(k) \in Token
  BY InputsAssumption, Written
<1> DEFINE u == s \o << Mark(k) >>
<1>3. out' = u /\ first' = Started /\ after_key' = FALSE /\ UNCHANGED << wdepth, pretty >> /\ plan' = Fill(plan)
  BY <1>1 DEF WriteScalar, PutScalar, Filled, Fill
<1>4. /\ h.n = Len(calls) /\ h.plan = plan /\ h.len = Len(out)
      /\ plan \in Seq(Place) /\ Around(plan) /\ wdepth = Len(plan) /\ Len(plan) \in Nat
      /\ out \in Seq(Token) /\ calls \in Seq(Call) /\ Len(calls) \in Nat
      /\ calls = << >> <=> Len(calls) = 0
  BY NowFacts
<1>5. s \in Seq(Token)
  BY <1>4, Written, Joined
<1>6. u \in Seq(Token) /\ Len(u) = Len(s) + 1 /\ Extends(s, u) /\ u[Len(s) + 1] = Mark(k)
  BY <1>2, <1>5, SnocAt
<1> HIDE DEF u
<1>7. Lead(Width, u, h, Len(s)) /\ Extends(out, u) /\ Len(s) \in Nat
  BY <1>6, SeparatorLeads
<1> HIDE DEF h, s
<1>8. Mark(k) \in Call /\ Append(calls, Mark(k))[Len(calls) + 1] = Mark(k)
  BY <1>2, <1>4, NextCall DEF Call
<1>9. /\ Fill(plan) \in Seq(Place) /\ Len(Fill(plan)) = Len(plan) /\ Around(Fill(plan))
      /\ Fill(plan) = << >> <=> plan = << >>
      /\ plan # << >> => Last(Fill(plan)) # "value"
  BY <1>4, ShapeFill
<1>10. PutsItem(Width, u, Append(calls, Mark(k)), h, Len(s), Hist(Len(calls) + 1, Fill(plan), "used", Len(u)))
  <2>1. IF h.plan = << >> THEN h.n = 0 ELSE Last(h.plan) # "key"
    BY <1>4 DEF PutScalar, ValueNext
  <2> QED
    BY <1>2, <1>4, <1>6, <1>7, <1>8, <2>1 DEF PutsItem
<1>11. /\ Append(calls, Mark(k)) \in Seq(Call) /\ Append(calls, Mark(k)) # << >>
       /\ Wrote(Width, u, Append(calls, Mark(k)), Zero,
                Hist(Len(Append(calls, Mark(k))), Fill(plan), "used", Len(u)))
  BY <1>6, <1>7, <1>8, <1>9, <1>10, CallWrites DEF h
<1>12. Started \in [0 .. MaxDepth + 1 -> BOOLEAN] /\ \A j \in 1 .. wdepth : Started[j] = FALSE
  BY StartedIs
<1>13. Flag(Started, wdepth) = "used"
  <2>1. wdepth # 0 => wdepth \in 1 .. wdepth
    BY <1>4
  <2> QED
    BY <1>12, <2>1 DEF Flag
<1>14. Width' = Width
  BY <1>3 DEF Width
<1>15. wdepth <= MaxDepth
  BY DEF WritesNow, Writes
<1>16. FALSE = (Fill(plan) # << >> /\ Last(Fill(plan)) = "value")
  BY <1>9
<1> QED
  BY <1>1, <1>3, <1>4, <1>6, <1>9, <1>11, <1>12, <1>13, <1>14, <1>15, <1>16 DEF Writes

(* A key.                                                                  *)
LEMMA KeyWrites ==
  ASSUME WritesNow, PutKey
  PROVE  Writes(out, calls, plan, first, after_key, wdepth)' /\ calls' # << >>
<1> DEFINE h  == Hist(Len(calls), plan, Flag(first, wdepth), Len(out))
           s  == out \o Separator
           v  == s \o << Mark("text"), Mark(":") >>
           u  == v \o Space
           pl == Append(Front(plan), "value")
<1>1. /\ out' = u /\ first' = Started /\ after_key' = TRUE /\ UNCHANGED << wdepth, pretty >>
      /\ plan' = pl /\ calls' = Append(calls, KeyEvent)
      /\ plan # << >> /\ Last(plan) = "key"
  BY DEF WriteKey, PutKey
<1>2. /\ h.n = Len(calls) /\ h.plan = plan /\ h.len = Len(out)
      /\ plan \in Seq(Place) /\ Around(plan) /\ wdepth = Len(plan) /\ Len(plan) \in Nat
      /\ out \in Seq(Token) /\ calls \in Seq(Call) /\ Len(calls) \in Nat
  BY NowFacts
<1>3. s \in Seq(Token) /\ Len(s) \in Nat
  <2>1. s \in Seq(Token)
    BY <1>2, Written, Joined
  <2> HIDE DEF s
  <2> QED
    BY <2>1
<1>4. Mark("text") \in Token /\ Mark(":") \in Token
  BY Written DEF Scalar
<1>5. v \in Seq(Token) /\ Len(v) = Len(s) + 2 /\ Extends(s, v) /\ v[Len(s) + 1] = Mark("text") /\ v[Len(s) + 2] = Mark(":")
  <2> DEFINE m == << Mark("text"), Mark(":") >>
  <2>1. m \in Seq(Token) /\ Len(m) = 2 /\ m[1] = Mark("text") /\ m[2] = Mark(":")
    BY <1>4
  <2> HIDE DEF m
  <2>2. /\ s \o m \in Seq(Token) /\ Len(s \o m) = Len(s) + Len(m) /\ Extends(s, s \o m)
        /\ \A i \in 1 .. Len(m) : (s \o m)[Len(s) + i] = m[i]
    BY <1>3, <2>1, JoinedAt
  <2>3. 1 \in 1 .. Len(m) /\ 2 \in 1 .. Len(m)
    BY <2>1
  <2>4. (s \o m)[Len(s) + 1] = Mark("text") /\ (s \o m)[Len(s) + 2] = Mark(":")
    BY <2>1, <2>2, <2>3
  <2> QED
    BY <2>1, <2>2, <2>4 DEF m
<1> HIDE DEF v
<1>6. /\ u \in Seq(Token) /\ Len(u) = Len(v) + Len(Space) /\ Extends(v, u)
      /\ \A i \in 1 .. Len(Space) : u[Len(v) + i] = Space[i]
  BY <1>5, SpaceIs, JoinedAt
<1> HIDE DEF u
<1>7. Extends(s, u)
  BY <1>3, <1>5, <1>6, ExtendsOn
<1>8. Lead(Width, u, h, Len(s)) /\ Extends(out, u)
  BY <1>6, <1>7, SeparatorLeads
<1> HIDE DEF h, s
<1>9. u[Len(s) + 1] = Mark("text") /\ u[Len(s) + 2] = Mark(":")
  <2>1. Len(s) + 1 \in 1 .. Len(v) /\ Len(s) + 2 \in 1 .. Len(v)
    BY <1>3, <1>5
  <2> QED
    BY <1>5, <1>6, <2>1 DEF Extends
<1>10. PICK w \in Nat : w = Width
  BY SpaceIs
<1>11. Len(u) = Len(s) + 2 + w
  BY <1>3, <1>5, <1>6, <1>10, SpaceIs
<1>12. Blank(u, Len(s) + 3, Len(s) + 2 + w)
  <2> SUFFICES ASSUME NEW x \in Len(s) + 3 .. Len(s) + 2 + w PROVE u[x].k = "ws"
    BY DEF Blank
  <2>1. PICK i \in 1 .. w : x = (Len(s) + 2) + i
    <3>1. x - (Len(s) + 2) \in 1 .. w /\ x = (Len(s) + 2) + (x - (Len(s) + 2))
      BY <1>3
    <3> QED
      BY <3>1
  <2>2. i \in 1 .. Len(Space)
    BY <1>10, SpaceIs
  <2> QED
    BY <1>5, <1>6, <2>1, <2>2, SpaceIs
<1>13. KeyEvent \in Call /\ Append(calls, KeyEvent)[Len(calls) + 1] = KeyEvent
  BY <1>2, NextCall DEF Call
<1>14. /\ pl \in Seq(Place) /\ pl # << >> /\ Len(pl) = Len(plan) /\ Last(pl) = "value" /\ Around(pl)
  <2>1. OpenOf("value") = OpenOf(Last(plan)) /\ "value" \in Place
    BY <1>1 DEF OpenOf, Place
  <2> QED
    BY <1>1, <1>2, <2>1, ShapeReplace
<1> HIDE DEF pl
<1>15. PutsKey(Width, u, Append(calls, KeyEvent), h, Len(s), Hist(Len(calls) + 1, pl, "used", Len(u)))
  BY <1>1, <1>2, <1>8, <1>9, <1>10, <1>11, <1>12, <1>13 DEF PutsKey, pl
<1>16. /\ Append(calls, KeyEvent) \in Seq(Call) /\ Append(calls, KeyEvent) # << >>
       /\ Wrote(Width, u, Append(calls, KeyEvent), Zero, Hist(Len(Append(calls, KeyEvent)), pl, "used", Len(u)))
  BY <1>3, <1>6, <1>8, <1>13, <1>14, <1>15, CallWrites DEF h
<1>17. Started \in [0 .. MaxDepth + 1 -> BOOLEAN] /\ \A j \in 1 .. wdepth : Started[j] = FALSE
  BY StartedIs
<1>18. Flag(Started, wdepth) = "used"
  <2>1. wdepth # 0 => wdepth \in 1 .. wdepth
    BY <1>2
  <2> QED
    BY <1>17, <2>1 DEF Flag
<1>19. Width' = Width /\ wdepth <= MaxDepth
  BY <1>1 DEF Width, WritesNow, Writes
<1>20. TRUE = (pl # << >> /\ Last(pl) = "value")
  BY <1>14
<1> QED
  BY <1>1, <1>2, <1>6, <1>14, <1>16, <1>17, <1>18, <1>19, <1>20 DEF Writes

(* The beginning of a container.                                           *)
LEMMA BeginWrites ==
  ASSUME WritesNow, Begin, thrown = "none", thrown' = "none"
  PROVE  Writes(out, calls, plan, first, after_key, wdepth)' /\ calls' # << >>
<1> DEFINE h == Hist(Len(calls), plan, Flag(first, wdepth), Len(out))
           s == out \o Separator
<1>1. PICK k \in Opening :
        /\ Open(k)
        /\ plan' = Append(Filled, IF k = "[" THEN "[" ELSE "key")
        /\ calls' = Append(calls, Mark(k))
  BY DEF Begin
<1>2. Mark(k) \in Token
  BY Written
<1> DEFINE u  == s \o << Mark(k) >>
           x  == IF k = "[" THEN "[" ELSE "key"
           pl == Append(Fill(plan), x)
           fs == [Started EXCEPT ![wdepth + 1] = TRUE]
<1>3. /\ out' = u /\ first' = fs /\ after_key' = FALSE /\ wdepth' = wdepth + 1 /\ UNCHANGED pretty
      /\ plan' = pl /\ ~(wdepth >= MaxDepth)
  BY <1>1 DEF Open, Filled, Fill
<1>4. /\ h.n = Len(calls) /\ h.plan = plan /\ h.len = Len(out)
      /\ plan \in Seq(Place) /\ Around(plan) /\ wdepth = Len(plan) /\ Len(plan) \in Nat
      /\ out \in Seq(Token) /\ calls \in Seq(Call) /\ Len(calls) \in Nat
      /\ calls = << >> <=> Len(calls) = 0
  BY NowFacts
<1>5. s \in Seq(Token)
  BY <1>4, Written, Joined
<1>6. u \in Seq(Token) /\ Len(u) = Len(s) + 1 /\ Extends(s, u) /\ u[Len(s) + 1] = Mark(k)
  BY <1>2, <1>5, SnocAt
<1> HIDE DEF u
<1>7. Lead(Width, u, h, Len(s)) /\ Extends(out, u) /\ Len(s) \in Nat
  BY <1>6, SeparatorLeads
<1> HIDE DEF h, s
<1>8. Mark(k) \in Call /\ Append(calls, Mark(k))[Len(calls) + 1] = Mark(k)
  BY <1>2, <1>4, NextCall DEF Call
<1>9. /\ pl \in Seq(Place) /\ pl # << >> /\ Len(pl) = Len(plan) + 1 /\ Last(pl) # "value" /\ Around(pl)
  <2>1. x \in Place /\ x # "value"
    BY DEF Place
  <2>2. /\ Fill(plan) \in Seq(Place) /\ Len(Fill(plan)) = Len(plan)
        /\ \A i \in 1 .. Len(plan) : Fill(plan)[i] # "value"
    BY <1>4, ShapeFill
  <2> HIDE DEF x
  <2>3. /\ pl \in Seq(Place) /\ pl # << >> /\ Len(pl) = Len(Fill(plan)) + 1 /\ Last(pl) = x
        /\ \A i \in 1 .. Len(Fill(plan)) : pl[i] = Fill(plan)[i]
    BY <2>1, <2>2, ShapeAppend
  <2> HIDE DEF pl
  <2>4. Around(pl)
    BY <1>4, <2>2, <2>3 DEF Around
  <2> QED
    BY <2>1, <2>2, <2>3, <2>4
<1>10. wdepth < MaxDepth /\ wdepth + 1 \in 1 .. MaxDepth
  BY <1>3, <1>4, DepthAssumption
<1>11. PutsItem(Width, u, Append(calls, Mark(k)), h, Len(s), Hist(Len(calls) + 1, pl, "fresh", Len(u)))
  <2>1. IF h.plan = << >> THEN h.n = 0 ELSE Last(h.plan) # "key"
    BY <1>4 DEF Begin, ValueNext
  <2> QED
    BY <1>4, <1>6, <1>7, <1>8, <1>10, <2>1 DEF PutsItem
<1> HIDE DEF pl
<1>12. /\ Append(calls, Mark(k)) \in Seq(Call) /\ Append(calls, Mark(k)) # << >>
       /\ Wrote(Width, u, Append(calls, Mark(k)), Zero, Hist(Len(Append(calls, Mark(k))), pl, "fresh", Len(u)))
  BY <1>6, <1>7, <1>8, <1>9, <1>11, CallWrites DEF h
<1>13. Started \in [0 .. MaxDepth + 1 -> BOOLEAN] /\ \A j \in 1 .. wdepth : Started[j] = FALSE
  BY StartedIs
<1>14. wdepth + 1 \in 0 .. MaxDepth + 1 /\ wdepth + 1 # 0 /\ \A j \in 1 .. wdepth + 1 : j \in 0 .. MaxDepth + 1
  BY <1>4, <1>10, DepthAssumption
<1>15. fs \in [0 .. MaxDepth + 1 -> BOOLEAN] /\ fs[wdepth + 1] = TRUE
  BY <1>13, <1>14, Zenon
<1>16. \A j \in 1 .. wdepth + 1 : j < wdepth + 1 => fs[j] = FALSE
  <2> SUFFICES ASSUME NEW j \in 1 .. wdepth + 1, j < wdepth + 1 PROVE fs[j] = FALSE
    OBVIOUS
  <2>1. j # wdepth + 1 /\ j \in 1 .. wdepth
    BY <1>4
  <2>2. fs[j] = Started[j]
    BY <1>13, <1>14, <2>1
  <2> QED
    BY <1>13, <2>1, <2>2
<1> HIDE DEF fs
<1>17. Flag(fs, wdepth + 1) = "fresh"
  BY <1>14, <1>15 DEF Flag
<1>18. Width' = Width /\ wdepth + 1 <= MaxDepth
  BY <1>3, <1>10 DEF Width
<1>19. FALSE = (pl # << >> /\ Last(pl) = "value")
  BY <1>9
<1> QED
  BY <1>1, <1>3, <1>4, <1>6, <1>9, <1>12, <1>15, <1>16, <1>17, <1>18, <1>19 DEF Writes

(* The end of one.                                                         *)
LEMMA EndWrites ==
  ASSUME WritesNow, End
  PROVE  Writes(out, calls, plan, first, after_key, wdepth)' /\ calls' # << >>
<1> DEFINE h  == Hist(Len(calls), plan, Flag(first, wdepth), Len(out))
           k  == IF Last(plan) = "[" THEN "[" ELSE "{"
           x  == Mark(Closing(k))
           sp == IF first[wdepth] THEN << >> ELSE Space
           s  == out \o sp
           u  == s \o << x >>
<1>1. /\ out' = u /\ UNCHANGED << after_key, first, pretty >> /\ wdepth' = wdepth - 1
      /\ plan' = Front(plan) /\ calls' = Append(calls, x)
      /\ plan # << >> /\ Last(plan) # "value"
  BY DEF End, Close
<1>2. /\ h.n = Len(calls) /\ h.plan = plan /\ h.len = Len(out) /\ h.f = Flag(first, wdepth)
      /\ plan \in Seq(Place) /\ Around(plan) /\ wdepth = Len(plan) /\ Len(plan) \in Nat
      /\ out \in Seq(Token) /\ calls \in Seq(Call) /\ Len(calls) \in Nat /\ Len(out) \in Nat
  BY NowFacts
<1>3. x \in Token /\ x = Mark(Closing(OpenOf(Last(plan))))
  BY Written DEF Closing, OpenOf
<1>4. /\ Front(plan) \in Seq(Place) /\ Len(Front(plan)) = Len(plan) - 1 /\ Len(plan) \in Nat \ {0}
      /\ \A i \in 1 .. Len(plan) - 1 : Front(plan)[i] = plan[i]
  BY <1>1, <1>2, ShapeFront
<1>5. /\ wdepth # 0 /\ wdepth \in 0 .. MaxDepth + 1 /\ first[wdepth] \in BOOLEAN
      /\ h.f = "fresh" <=> first[wdepth]
  <2>1. wdepth # 0 /\ wdepth \in 0 .. MaxDepth + 1
    BY <1>2, <1>4, DepthAssumption DEF WritesNow, Writes
  <2>2. first[wdepth] \in BOOLEAN
    BY <2>1 DEF WritesNow, Writes
  <2> QED
    BY <1>2, <2>1, <2>2 DEF Flag
<1>6. /\ sp \in Seq(Token) /\ Len(sp) = (IF h.f = "fresh" THEN 0 ELSE Width)
      /\ \A i \in 1 .. Len(sp) : sp[i].k = "ws"
  <2>1. CASE first[wdepth]
    <3>1. sp = << >>
      BY <2>1
    <3> QED
      BY <1>5, <2>1, <3>1, Joined
  <2>2. CASE ~first[wdepth]
    BY <1>5, <2>2, SpaceIs
  <2> QED
    BY <2>1, <2>2
<1> HIDE DEF sp
<1>7. /\ s \in Seq(Token) /\ Len(s) = Len(out) + Len(sp) /\ Len(sp) \in Nat /\ Extends(out, s)
      /\ \A i \in 1 .. Len(sp) : s[Len(out) + i] = sp[i]
  BY <1>2, <1>6, JoinedAt
<1> HIDE DEF s, x
<1>8. u \in Seq(Token) /\ Len(u) = Len(s) + 1 /\ Extends(s, u) /\ u[Len(s) + 1] = x
  BY <1>3, <1>7, SnocAt
<1> HIDE DEF u
<1>9. Extends(out, u)
  BY <1>2, <1>7, <1>8, ExtendsOn
<1>10. Blank(u, Len(out) + 1, Len(s))
  <2> SUFFICES ASSUME NEW y \in Len(out) + 1 .. Len(s) PROVE u[y].k = "ws"
    BY DEF Blank
  <2>1. PICK i \in 1 .. Len(sp) : y = Len(out) + i
    <3>1. y - Len(out) \in 1 .. Len(sp) /\ y = Len(out) + (y - Len(out))
      BY <1>2, <1>7
    <3> QED
      BY <3>1
  <2>2. y \in 1 .. Len(s)
    BY <1>2
  <2> QED
    BY <1>6, <1>7, <1>8, <2>1, <2>2 DEF Extends
<1>11. Len(s) = (IF h.f = "fresh" THEN h.len ELSE h.len + Width) /\ Len(s) \in Nat
  BY <1>2, <1>6, <1>7
<1> HIDE DEF h
<1>12. x \in Call /\ Append(calls, x)[Len(calls) + 1] = x
  BY <1>2, <1>3, NextCall DEF Call
<1>13. Around(Front(plan)) /\ FALSE = (Front(plan) # << >> /\ Last(Front(plan)) = "value")
  <2>1. Around(Front(plan))
    BY <1>2, <1>4 DEF Around
  <2>2. ASSUME Front(plan) # << >> PROVE Last(Front(plan)) # "value"
    <3>1. Len(plan) - 1 \in 1 .. Len(plan) - 1
      BY <1>4, <2>2, ShapeFront
    <3> QED
      BY <1>2, <1>4, <3>1 DEF Around, Last
  <2> QED
    BY <2>1, <2>2
<1>14. PutsEnd(Width, u, Append(calls, x), h, Len(s), Hist(Len(calls) + 1, Front(plan), "used", Len(u)))
  BY <1>1, <1>2, <1>3, <1>8, <1>10, <1>11, <1>12 DEF PutsEnd
<1>15. /\ Append(calls, x) \in Seq(Call) /\ Append(calls, x) # << >>
       /\ Wrote(Width, u, Append(calls, x), Zero, Hist(Len(Append(calls, x)), Front(plan), "used", Len(u)))
  BY <1>4, <1>8, <1>9, <1>11, <1>12, <1>13, <1>14, CallWrites DEF h
<1>16. \A j \in 1 .. wdepth - 1 : first[j] = FALSE
  <2>1. \A j \in 1 .. wdepth - 1 : j \in 1 .. wdepth /\ j < wdepth
    BY <1>2
  <2> QED
    BY <2>1 DEF WritesNow, Writes
<1>17. Flag(first, wdepth - 1) = "used"
  <2>1. wdepth - 1 # 0 => wdepth - 1 \in 1 .. wdepth - 1
    BY <1>2, <1>4
  <2> QED
    BY <1>16, <2>1 DEF Flag
<1>18. Width' = Width /\ wdepth - 1 <= MaxDepth /\ wdepth - 1 = Len(Front(plan))
  <2>1. wdepth <= MaxDepth
    BY DEF WritesNow, Writes
  <2> QED
    BY <1>1, <1>2, <1>4, <2>1, DepthAssumption DEF Width
<1>19. after_key = (Front(plan) # << >> /\ Last(Front(plan)) = "value")
  <2>1. after_key = (plan # << >> /\ Last(plan) = "value")
    BY DEF WritesNow, Writes
  <2> QED
    BY <1>1, <1>13, <2>1
<1>20. first \in [0 .. MaxDepth + 1 -> BOOLEAN]
  BY DEF WritesNow, Writes
<1> QED
  BY <1>1, <1>4, <1>8, <1>13, <1>15, <1>16, <1>17, <1>18, <1>19, <1>20 DEF Writes

-----------------------------------------------------------------------------
(* The typed path over a text that was written.                            *)

Final == Hist(Len(calls), << >>, "used", Len(in))

(* The text from h on is that of the calls after the first h.n.            *)
Rest(h) == Wrote(Width, in, calls, h, Final)

(* The cursors are those of the containers open at h, and what has been    *)
(* read are the calls before it.                                           *)
Agrees(h, cs, ev) ==
  /\ Brackets(cs) = Shape(h.plan)
  /\ ev \in Seq(Call) /\ Len(ev) = h.n
  /\ \A i \in 1 .. h.n : ev[i] = calls[i]

(* The typed path is about to do wk at position p; in front of a value or  *)
(* a key it may have passed the separator already.                         *)
Synced(p, wk, cs, ev) ==
  \E h :
    /\ Rest(h) /\ Agrees(h, cs, ev)
    /\ \/ /\ wk = "value"
          /\ \E b \in Nat : \E g : /\ PutsItem(Width, in, calls, h, b, g) /\ Rest(g)
                                   /\ p \in 1 .. b + 1 /\ Blank(in, p, b)
       \/ /\ wk = "key"
          /\ \E b \in Nat : \E g : /\ PutsKey(Width, in, calls, h, b, g) /\ Rest(g)
                                   /\ p \in 1 .. b + 1 /\ Blank(in, p, b)
       \/ /\ wk = "next" /\ h.plan # << >> /\ Last(h.plan) # "value"
          /\ p = h.len + 1
          /\ Last(cs).first = TRUE <=> h.f = "fresh"
       \/ /\ wk = "end" /\ h.plan = << >> /\ h.n # 0
          /\ p = h.len + 1

(* The inductive invariant for RoundTrip, besides JsonInv.                 *)
RoundInv ==
  /\ calls \in Seq(Call)
  /\ reading = "write" => events = << >> /\ (thrown = "none" => WritesNow)
  /\ reading = "skip" => events = << >>
  /\ reading \in {"skip", "walk"} /\ calls # << >> => base = 0 /\ Rest(Zero)
  /\ reading = "walk" /\ calls # << >> => Synced(pos, walk, cursors, events)
  /\ reading = "none" => RoundTrip

(* skip_ws passes what is blank.                                           *)
LEMMA BlankSkips ==
  ASSUME in \in Seq(Token), NEW b \in Nat, b + 1 <= Len(in), NEW p \in 1 .. b + 1,
         Blank(in, p, b), in[b + 1].k # "ws"
  PROVE  SkipWs(p) = b + 1 /\ ~AtEnd(SkipWs(p))
<1> DEFINE S == {j \in p .. Len(in) + 1 : j > Len(in) \/ in[j].k # "ws"}
<1>1. Len(in) \in Nat
  OBVIOUS
<1>2. S \in SUBSET Nat /\ b + 1 \in S
  BY <1>1
<1>3. \A j \in S : b + 1 <= j
  <2> SUFFICES ASSUME NEW j \in S, ~(b + 1 <= j) PROVE FALSE
    OBVIOUS
  <2>1. j \in p .. b /\ j \in Nat /\ ~(j > Len(in)) /\ in[j].k # "ws"
    BY <1>1
  <2> QED
    BY <2>1 DEF Blank
<1>4. SkipWs(p) = Min(S)
  BY DEF SkipWs
<1> HIDE DEF S
<1>5. Min(S) \in S /\ \A x \in S : Min(S) <= x
  BY <1>2, MinOf
<1>6. Min(S) \in Nat /\ Min(S) <= b + 1 /\ b + 1 <= Min(S)
  BY <1>2, <1>3, <1>5
<1> QED
  BY <1>1, <1>4, <1>6 DEF AtEnd

(* The next call of a history, and how far its text reaches.               *)
LEMMA RestFrom ==
  ASSUME NEW h, Rest(h), in \in Seq(Token), calls \in Seq(Call)
  PROVE  /\ h.plan \in Seq(Place) /\ Around(h.plan) /\ h.n \in Nat /\ h.len \in Nat
         /\ h.n <= Len(calls) /\ h.len <= Len(in)
         /\ h = Final \/ \E g : Puts(Width, in, calls, h, g) /\ Rest(g)
<1>1. Len(in) \in Nat /\ Len(calls) \in Nat
  OBVIOUS
<1>2. /\ HistOK(in, calls, h)
      /\ h = Final \/ \E g : HistOK(in, calls, g) /\ Puts(Width, in, calls, h, g) /\ Rest(g)
  BY WroteFrom DEF Rest
<1> QED
  BY <1>1, <1>2 DEF HistOK

(* One more event.                                                         *)
LEMMA EventOn ==
  ASSUME calls \in Seq(Call), NEW h, h.n \in Nat, NEW cs, NEW ev, Agrees(h, cs, ev),
         NEW x \in Call, x = calls[h.n + 1], NEW g, g.n = h.n + 1, NEW ds, Brackets(ds) = Shape(g.plan)
  PROVE  Agrees(g, ds, ev \o << x >>)
<1>1. ev \in Seq(Call) /\ Len(ev) = h.n /\ \A i \in 1 .. h.n : ev[i] = calls[i]
  BY DEF Agrees
<1>2. PICK n \in Nat : n = h.n
  OBVIOUS
<1>3. /\ ev \o << x >> \in Seq(Call) /\ Len(ev \o << x >>) = n + 1
      /\ \A i \in 1 .. n : (ev \o << x >>)[i] = ev[i]
      /\ (ev \o << x >>)[n + 1] = x
  <2> DEFINE y == << x >>
  <2>1. y \in Seq(Call) /\ Len(y) = 1 /\ y[1] = x
    OBVIOUS
  <2> HIDE DEF y
  <2>2. /\ ev \o y \in Seq(Call) /\ Len(ev \o y) = Len(ev) + Len(y)
        /\ \A i \in 1 .. Len(ev) + Len(y) : (ev \o y)[i] = IF i <= Len(ev) THEN ev[i] ELSE y[i - Len(ev)]
    BY <1>1, <2>1, ConcatProperties
  <2>3. Len(ev \o y) = n + 1 /\ (\A i \in 1 .. n : (ev \o y)[i] = ev[i]) /\ (ev \o y)[n + 1] = x
    BY <1>1, <1>2, <2>1, <2>2
  <2> QED
    BY <2>2, <2>3 DEF y
<1>4. \A i \in 1 .. n + 1 : (ev \o << x >>)[i] = calls[i]
  <2> TAKE i \in 1 .. n + 1
  <2>1. i \in 1 .. n \/ i = n + 1
    OBVIOUS
  <2> QED
    BY <1>1, <1>2, <1>3, <2>1
<1> QED
  BY <1>2, <1>3, <1>4 DEF Agrees

(* At the beginning, and after a key, a value is next.                     *)
LEMMA ValueAhead ==
  ASSUME in \in Seq(Token), calls \in Seq(Call), calls # << >>,
         NEW h, Rest(h), NEW cs, NEW ev, Agrees(h, cs, ev),
         (h.plan = << >> /\ h.n = 0) \/ (h.plan # << >> /\ Last(h.plan) = "value"),
         NEW p \in 1 .. h.len + 1, Blank(in, p, h.len)
  PROVE  Synced(p, "value", cs, ev)
<1>1. Len(calls) # 0
  BY EmptySeq
<1>2. h # Final
  BY <1>1 DEF Final, Hist
<1>3. PICK g : Puts(Width, in, calls, h, g) /\ Rest(g)
  BY <1>2, RestFrom
<1>4. PICK b \in Nat : \/ PutsItem(Width, in, calls, h, b, g)
                       \/ PutsKey(Width, in, calls, h, b, g)
                       \/ PutsEnd(Width, in, calls, h, b, g)
  BY <1>3 DEF Puts
<1>5. PutsItem(Width, in, calls, h, b, g)
  BY <1>4 DEF PutsKey, PutsEnd
<1>6. b = h.len
  BY <1>5 DEF PutsItem, Lead, Plain
<1> QED
  BY <1>3, <1>5, <1>6 DEF Synced

(* What the operators on both sides read is not changed by a reader.       *)
LEMMA SyncSame ==
  ASSUME UNCHANGED << in, calls, pretty >>
  PROVE  /\ \A p, wk, cs, ev : Synced(p, wk, cs, ev)' <=> Synced(p, wk, cs, ev)
         /\ Rest(Zero)' <=> Rest(Zero)
<1>1. in' = in /\ calls' = calls /\ Width' = Width
  BY DEF Width
<1>2. \A h : Rest(h)' <=> Rest(h)
  BY <1>1 DEF Rest, Final
<1>3. \A h, cs, ev : Agrees(h, cs, ev)' <=> Agrees(h, cs, ev)
  BY <1>1 DEF Agrees
<1> QED
  BY <1>1, <1>2, <1>3 DEF Synced

(* The typed path goes on in step with the calls.                          *)
LEMMA RoundOn ==
  ASSUME JsonInv, RoundInv, reading = "walk", UNCHANGED << writer, plan, calls >>,
         NEW p, NEW d, NEW w, NEW cs, NEW ev, WalkOn(p, d, w, cs, ev),
         calls # << >> => Synced(p, w, cs, events \o ev)
  PROVE  RoundInv'
<1>1. /\ UNCHANGED << in, base, reading, calls, pretty >>
      /\ pos' = p /\ walk' = w /\ cursors' = cs /\ events' = events \o ev
  BY DEF WalkOn, writer
<1>2. /\ \A q, wk, ds, e : Synced(q, wk, ds, e)' <=> Synced(q, wk, ds, e)
      /\ Rest(Zero)' <=> Rest(Zero)
  BY <1>1, SyncSame
<1>3. calls # << >> => Synced(pos, walk, cursors, events)'
  BY <1>1, <1>2
<1>4. calls # << >> => base = 0 /\ Rest(Zero)
  BY DEF RoundInv
<1> QED
  BY <1>1, <1>2, <1>3, <1>4 DEF RoundInv

(* A text from elsewhere, of which RoundTrip says nothing.                 *)
LEMMA NotWritten ==
  ASSUME RoundInv, reading = "walk", calls = << >>, UNCHANGED calls, reading' \in {"walk", "none"}
  PROVE  RoundInv'
  BY DEF RoundInv, RoundTrip

(* skip_value has returned, or goes on.                                    *)
LEMMA RoundSkips ==
  ASSUME JsonInv, RoundInv, UNCHANGED << writer, plan, calls >>,
         SkipCut \/ SkipOpen \/ SkipScalar \/ SkipNoValue \/ SkipKey \/ SkipAfter \/ SkipDone
  PROVE  RoundInv'
<1>1. reading = "skip"
  BY DEF SkipCut, SkipOpen, SkipScalar, SkipNoValue, SkipKey, SkipAfter, SkipDone, Skipping
<1>2. /\ UNCHANGED << in, base, cursors, walk, events, calls, pretty >>
      /\ reading' = "skip" \/ (reading' = "walk" /\ pos' = 1)
  BY <1>1 DEF SkipCut, SkipOpen, SkipScalar, SkipNoValue, SkipKey, SkipAfter, SkipDone, SkipComma,
     SkipOn, SkipReturns, typed, writer
<1>3. cursors = << >> /\ walk = "value" /\ events = << >> /\ in \in Seq(Token) /\ calls \in Seq(Call)
  BY <1>1 DEF JsonInv, Fresh, RoundInv
<1>4. calls # << >> => base = 0 /\ Rest(Zero)
  BY <1>1 DEF RoundInv
<1>5. calls # << >> => Synced(1, "value", << >>, << >>)
  <2> SUFFICES ASSUME calls # << >> PROVE Synced(1, "value", << >>, << >>)
    OBVIOUS
  <2>1. Zero.n = 0 /\ Zero.plan = << >> /\ Zero.len = 0
    BY DEF Zero, Hist
  <2>2. << >> \in Seq(Cursor) /\ << >> \in Seq(Place) /\ << >> \in Seq(Call) /\ Len(<< >>) = 0
    BY EmptySeq
  <2>3. Brackets(<< >>) = << >> /\ Shape(<< >>) = << >>
    BY <2>2, BracketsOf, ShapeOf
  <2>4. Agrees(Zero, << >>, << >>)
    BY <2>1, <2>2, <2>3 DEF Agrees
  <2>5. 1 \in 1 .. Zero.len + 1 /\ Blank(in, 1, Zero.len)
    BY <2>1 DEF Blank
  <2> QED
    BY <1>3, <1>4, <2>1, <2>4, <2>5, ValueAhead
<1>6. /\ \A q, wk, ds, e : Synced(q, wk, ds, e)' <=> Synced(q, wk, ds, e)
      /\ Rest(Zero)' <=> Rest(Zero)
  BY <1>2, SyncSame
<1>7. reading' = "walk" /\ calls # << >> => Synced(pos, walk, cursors, events)'
  BY <1>2, <1>3, <1>5, <1>6
<1> QED
  BY <1>2, <1>3, <1>4, <1>6, <1>7 DEF RoundInv

(* What the invariants say while the typed path reads what was written.    *)
LEMMA RoundFacts ==
  ASSUME JsonInv, RoundInv, reading = "walk", calls # << >>
  PROVE  /\ in \in Seq(Token) /\ calls \in Seq(Call) /\ base = 0
         /\ CursorsOK(cursors, walk) /\ cursors \in Seq(Cursor) /\ depth = Len(cursors)
         /\ Synced(pos, walk, cursors, events)
<1>1. Follows(pos, depth, walk, cursors)
  BY DEF JsonInv
<1>2. CursorsOK(cursors, walk) /\ depth = base + Len(cursors) /\ cursors \in Seq(Cursor)
  BY <1>1 DEF Follows, CursorsOK
<1>3. base = 0 /\ Len(cursors) \in Nat
  BY <1>2 DEF RoundInv
<1> QED
  BY <1>2, <1>3 DEF JsonInv, RoundInv

(* In front of a value: the call that wrote it.                            *)
LEMMA SyncedValue ==
  ASSUME JsonInv, RoundInv, Walking("value"), calls # << >>
  PROVE  \E h, g : \E b \in Nat :
           /\ Agrees(h, cursors, events) /\ PutsItem(Width, in, calls, h, b, g) /\ Rest(h) /\ Rest(g)
           /\ SkipWs(pos) = b + 1 /\ ~AtEnd(b + 1) /\ in[b + 1] \in Call
           /\ in[b + 1].v = "ok" /\ g.n = h.n + 1 /\ g.len = b + 1
           /\ h.n \in Nat /\ h.plan \in Seq(Place)
           /\ \/ in[b + 1].k \in Scalar /\ g.plan = Fill(h.plan) /\ g.f = "used"
              \/ /\ in[b + 1].k \in Opening /\ Len(h.plan) < MaxDepth /\ g.f = "fresh"
                 /\ g.plan = Append(Fill(h.plan), IF in[b + 1].k = "[" THEN "[" ELSE "key")
<1>1. reading = "walk" /\ walk = "value"
  BY DEF Walking
<1>2. in \in Seq(Token) /\ calls \in Seq(Call) /\ Synced(pos, "value", cursors, events)
  BY <1>1, RoundFacts
<1>3. PICK h : /\ Rest(h) /\ Agrees(h, cursors, events)
               /\ \E b \in Nat : \E g : /\ PutsItem(Width, in, calls, h, b, g) /\ Rest(g)
                                        /\ pos \in 1 .. b + 1 /\ Blank(in, pos, b)
  BY <1>2 DEF Synced
<1>b. PICK b \in Nat : \E g : /\ PutsItem(Width, in, calls, h, b, g) /\ Rest(g)
                               /\ pos \in 1 .. b + 1 /\ Blank(in, pos, b)
  BY <1>3
<1>4. PICK g : /\ PutsItem(Width, in, calls, h, b, g) /\ Rest(g)
              /\ pos \in 1 .. b + 1 /\ Blank(in, pos, b)
  BY <1>b
<1>5. h.n \in Nat /\ h.plan \in Seq(Place) /\ g.n \in Nat /\ g.n <= Len(calls) /\ g.len \in Nat /\ g.len <= Len(in)
  BY <1>2, <1>3, <1>4, RestFrom
<1>6. \A k : Mark(k).k = k /\ Mark(k).v = "ok"
  BY DEF Mark, Tk
<1>7. g.n = h.n + 1 /\ g.len = b + 1
  BY <1>4 DEF PutsItem, Hist
<1>8. /\ in[b + 1].v = "ok"
      /\ \/ in[b + 1].k \in Scalar /\ g.plan = Fill(h.plan) /\ g.f = "used"
         \/ /\ in[b + 1].k \in Opening /\ Len(h.plan) < MaxDepth /\ g.f = "fresh"
            /\ g.plan = Append(Fill(h.plan), IF in[b + 1].k = "[" THEN "[" ELSE "key")
  BY <1>4, <1>6 DEF PutsItem, Hist
<1>9. in[b + 1].k # "ws"
  BY <1>8 DEF Scalar, Opening
<1>10. SkipWs(pos) = b + 1 /\ ~AtEnd(SkipWs(pos))
  BY <1>2, <1>4, <1>5, <1>7, <1>9, BlankSkips
<1>11. in[b + 1] \in Call
  BY <1>2, <1>5, <1>7 DEF Call
<1> QED
  BY <1>3, <1>4, <1>5, <1>7, <1>8, <1>10, <1>11

(* A scalar is read as the one that was written.                           *)
LEMMA RoundScalar ==
  ASSUME JsonInv, RoundInv, UNCHANGED << writer, plan, calls >>, ExpectScalar
  PROVE  RoundInv'
<1>1. Walking("value") /\ reading = "walk" /\ walk = "value" /\ reading' \in {"walk", "none"}
  BY DEF ExpectScalar, Walking, WalkReturns, WalkOn
<1>2. CASE calls = << >>
  BY <1>1, <1>2, NotWritten
<1>3. CASE calls # << >>
  <2>1. PICK h, g : \E b \in Nat :
           /\ Agrees(h, cursors, events) /\ PutsItem(Width, in, calls, h, b, g) /\ Rest(h) /\ Rest(g)
           /\ SkipWs(pos) = b + 1 /\ ~AtEnd(b + 1) /\ in[b + 1] \in Call
           /\ in[b + 1].v = "ok" /\ g.n = h.n + 1 /\ g.len = b + 1
           /\ h.n \in Nat /\ h.plan \in Seq(Place)
           /\ \/ in[b + 1].k \in Scalar /\ g.plan = Fill(h.plan) /\ g.f = "used"
              \/ in[b + 1].k \in Opening
    BY <1>1, <1>3, SyncedValue
  <2>2. PICK b \in Nat :
           /\ Agrees(h, cursors, events) /\ PutsItem(Width, in, calls, h, b, g) /\ Rest(h) /\ Rest(g)
           /\ SkipWs(pos) = b + 1 /\ ~AtEnd(b + 1) /\ in[b + 1] \in Call
           /\ in[b + 1].v = "ok" /\ g.n = h.n + 1 /\ g.len = b + 1
           /\ h.n \in Nat /\ h.plan \in Seq(Place)
           /\ \/ in[b + 1].k \in Scalar /\ g.plan = Fill(h.plan) /\ g.f = "used"
              \/ in[b + 1].k \in Opening
    BY <2>1
  <2>3. in[b + 1].k \in Scalar /\ g.plan = Fill(h.plan) /\ g.f = "used"
    BY <2>2 DEF ExpectScalar
  <2>4. WalkOn(b + 2, depth, AfterValue(cursors), cursors, << in[b + 1] >>)
    <3>1. (b + 1) + 1 = b + 2
      OBVIOUS
    <3>2. WalkOn((b + 1) + 1, depth, AfterValue(cursors), cursors, << in[b + 1] >>)
      BY <2>2, <2>3 DEF ExpectScalar
    <3> QED
      BY <3>1, <3>2
  <2>5. /\ in \in Seq(Token) /\ calls \in Seq(Call) /\ CursorsOK(cursors, "value") /\ cursors \in Seq(Cursor)
    BY <1>1, <1>3, RoundFacts
  <2>6. /\ Brackets(cursors) = Shape(g.plan) /\ (g.plan = << >> <=> h.plan = << >>)
        /\ g.plan # << >> => Last(g.plan) # "value"
    BY <2>2, <2>3, ShapeFill DEF Agrees
  <2>7. in[b + 1] = calls[h.n + 1]
    BY <2>2 DEF PutsItem
  <2>8. Agrees(g, cursors, events \o << in[b + 1] >>)
    BY <2>2, <2>5, <2>6, <2>7, EventOn
  <2>9. cursors = << >> <=> g.plan = << >>
    BY <2>2, <2>5, <2>6, BracketsOf, ShapeOf DEF Agrees
  <2>10. cursors # << >> => Last(cursors).first = FALSE
    <3>1. cursors # << >> => Len(cursors) \in 1 .. Len(cursors)
      BY <2>5, CursorsFront
    <3> QED
      BY <2>5, <3>1 DEF CursorsOK, Last
  <2>11. Synced(b + 2, AfterValue(cursors), cursors, events \o << in[b + 1] >>)
    <3>1. b + 2 = g.len + 1 /\ g.n # 0
      BY <2>2
    <3>2. CASE cursors = << >>
      BY <2>2, <2>8, <2>9, <3>1, <3>2 DEF Synced, AfterValue
    <3>3. CASE cursors # << >>
      BY <2>2, <2>3, <2>6, <2>8, <2>9, <2>10, <3>1, <3>3 DEF Synced, AfterValue
    <3> QED
      BY <3>2, <3>3
  <2> QED
    BY <1>1, <2>4, <2>11, RoundOn
<1> QED
  BY <1>2, <1>3

(* A container is opened where one was begun, and not too deep.            *)
LEMMA RoundContainer ==
  ASSUME JsonInv, RoundInv, UNCHANGED << writer, plan, calls >>, ExpectContainer
  PROVE  RoundInv'
<1>1. Walking("value") /\ reading = "walk" /\ walk = "value" /\ reading' \in {"walk", "none"}
  BY DEF ExpectContainer, Walking, WalkReturns, WalkOn
<1>2. CASE calls = << >>
  BY <1>1, <1>2, NotWritten
<1>3. CASE calls # << >>
  <2>1. PICK h, g : \E b \in Nat :
           /\ Agrees(h, cursors, events) /\ PutsItem(Width, in, calls, h, b, g) /\ Rest(h) /\ Rest(g)
           /\ SkipWs(pos) = b + 1 /\ ~AtEnd(b + 1) /\ in[b + 1] \in Call
           /\ g.n = h.n + 1 /\ g.len = b + 1
           /\ h.n \in Nat /\ h.plan \in Seq(Place)
           /\ \/ in[b + 1].k \in Scalar
              \/ /\ in[b + 1].k \in Opening /\ Len(h.plan) < MaxDepth /\ g.f = "fresh"
                 /\ g.plan = Append(Fill(h.plan), IF in[b + 1].k = "[" THEN "[" ELSE "key")
    BY <1>1, <1>3, SyncedValue
  <2>2. PICK b \in Nat :
           /\ Agrees(h, cursors, events) /\ PutsItem(Width, in, calls, h, b, g) /\ Rest(h) /\ Rest(g)
           /\ SkipWs(pos) = b + 1 /\ ~AtEnd(b + 1) /\ in[b + 1] \in Call
           /\ g.n = h.n + 1 /\ g.len = b + 1
           /\ h.n \in Nat /\ h.plan \in Seq(Place)
           /\ \/ in[b + 1].k \in Scalar
              \/ /\ in[b + 1].k \in Opening /\ Len(h.plan) < MaxDepth /\ g.f = "fresh"
                 /\ g.plan = Append(Fill(h.plan), IF in[b + 1].k = "[" THEN "[" ELSE "key")
    BY <2>1
  <2> DEFINE k == in[b + 1].k
             x == IF k = "[" THEN "[" ELSE "key"
             n == [open |-> k, first |-> TRUE]
             cs == Append(cursors, n)
  <2>3. k \in Opening /\ Len(h.plan) < MaxDepth /\ g.f = "fresh" /\ g.plan = Append(Fill(h.plan), x)
    BY <2>2 DEF ExpectContainer, Scalar, Opening
  <2>4. /\ in \in Seq(Token) /\ calls \in Seq(Call) /\ cursors \in Seq(Cursor) /\ depth = Len(cursors)
    BY <1>1, <1>3, RoundFacts
  <2>5. Len(cursors) = Len(h.plan) /\ Len(h.plan) \in Nat
    BY <2>2, <2>4, BracketsOf, ShapeOf DEF Agrees
  <2>6. ~EnterFull
    BY <2>3, <2>4, <2>5, DepthAssumption DEF EnterFull
  <2>7. WalkOn(b + 2, depth + 1, "next", cs, << in[b + 1] >>)
    <3>1. (b + 1) + 1 = b + 2
      OBVIOUS
    <3>2. WalkOn((b + 1) + 1, depth + 1, "next", cs, << in[b + 1] >>)
      BY <2>2, <2>6 DEF ExpectContainer
    <3> QED
      BY <3>1, <3>2
  <2>8. n \in Cursor /\ n.open = k /\ n.first = TRUE
    BY <2>3 DEF Cursor
  <2>9. x \in Place /\ OpenOf(x) = k /\ x # "value"
    BY <2>3 DEF Place, OpenOf, Opening
  <2> HIDE DEF x, k, n
  <2>10. cs \in Seq(Cursor) /\ cs # << >> /\ Last(cs) = n /\ Front(cs) = cursors
    BY <2>4, <2>8, CursorsAppend
  <2> HIDE DEF cs
  <2>11. Brackets(cs) = Append(Brackets(cursors), k)
    BY <2>8, <2>10, CursorsFront
  <2>12. Fill(h.plan) \in Seq(Place) /\ Shape(Fill(h.plan)) = Shape(h.plan)
    BY <2>2, ShapeFill
  <2>13. Shape(g.plan) = Append(Shape(h.plan), k) /\ g.plan # << >> /\ Last(g.plan) = x
    BY <2>3, <2>9, <2>12, ShapeAppend
  <2>14. Brackets(cs) = Shape(g.plan)
    BY <2>2, <2>11, <2>13 DEF Agrees
  <2>15. in[b + 1] = calls[h.n + 1]
    BY <2>2 DEF PutsItem
  <2>16. Agrees(g, cs, events \o << in[b + 1] >>)
    BY <2>2, <2>4, <2>14, <2>15, EventOn
  <2>17. Synced(b + 2, "next", cs, events \o << in[b + 1] >>)
    <3>1. b + 2 = g.len + 1
      BY <2>2
    <3>2. Last(cs).first = TRUE <=> g.f = "fresh"
      BY <2>3, <2>8, <2>10
    <3> QED
      BY <2>2, <2>9, <2>13, <2>16, <3>1, <3>2 DEF Synced
  <2> QED
    BY <1>1, <2>7, <2>17, RoundOn
<1> QED
  BY <1>2, <1>3

(* A container is left where it was ended, and a separator passed where    *)
(* one was written.                                                        *)
LEMMA RoundNext ==
  ASSUME JsonInv, RoundInv, UNCHANGED << writer, plan, calls >>, CursorNext
  PROVE  RoundInv'
<1>1. reading = "walk" /\ walk = "next" /\ reading' \in {"walk", "none"}
  BY DEF CursorNext, Walking, WalkReturns, WalkOn
<1>2. CASE calls = << >>
  BY <1>1, <1>2, NotWritten
<1>3. CASE calls # << >>
  <2> DEFINE used == [cursors EXCEPT ![Len(cursors)].first = FALSE]
             then == IF Cur.open = "{" THEN "key" ELSE "value"
  <2>1. /\ in \in Seq(Token) /\ calls \in Seq(Call) /\ cursors \in Seq(Cursor)
        /\ CursorsOK(cursors, "next") /\ Synced(pos, "next", cursors, events)
    BY <1>1, <1>3, RoundFacts
  <2>2. PICK h : /\ Rest(h) /\ Agrees(h, cursors, events)
                 /\ h.plan # << >> /\ Last(h.plan) # "value" /\ pos = h.len + 1
                 /\ Last(cursors).first = TRUE <=> h.f = "fresh"
    BY <2>1 DEF Synced
  <2>3. /\ h.plan \in Seq(Place) /\ Around(h.plan) /\ h.n \in Nat /\ h.len \in Nat /\ h.len <= Len(in)
        /\ h = Final \/ \E g : Puts(Width, in, calls, h, g) /\ Rest(g)
    BY <2>1, <2>2, RestFrom
  <2>4. h # Final
    BY <2>2 DEF Final, Hist
  <2>5. PICK g : Puts(Width, in, calls, h, g) /\ Rest(g)
    BY <2>3, <2>4
  <2>6. PICK b \in Nat : \/ PutsItem(Width, in, calls, h, b, g)
                         \/ PutsKey(Width, in, calls, h, b, g)
                         \/ PutsEnd(Width, in, calls, h, b, g)
    BY <2>5 DEF Puts
  <2>7. g.n \in Nat /\ g.len \in Nat /\ g.len <= Len(in) /\ g.n <= Len(calls) /\ Len(in) \in Nat
    BY <2>1, <2>5, RestFrom
  <2>8. cursors # << >>
    BY <2>1 DEF CursorsOK
  <2>9. /\ Cur \in Cursor /\ Cur = Last(cursors) /\ Front(cursors) \in Seq(Cursor)
        /\ Front(Brackets(cursors)) = Brackets(Front(cursors)) /\ Last(Brackets(cursors)) = Cur.open
        /\ Len(cursors) \in Nat \ {0} /\ Len(Front(cursors)) = Len(cursors) - 1
        /\ \A i \in 1 .. Len(cursors) - 1 : Front(cursors)[i] = cursors[i]
    BY <2>1, <2>8, CursorsFront DEF Cur
  <2>10. Cur.first \in BOOLEAN /\ (Cur.first = TRUE <=> h.f = "fresh") /\ (Cur.first <=> h.f = "fresh")
    <3>1. Cur.first \in BOOLEAN
      BY <2>9 DEF Cursor
    <3> QED
      BY <2>2, <2>9, <3>1
  <2>11. /\ Last(h.plan) \in Place /\ Front(h.plan) \in Seq(Place)
         /\ Shape(Front(h.plan)) = Front(Shape(h.plan)) /\ Last(Shape(h.plan)) = OpenOf(Last(h.plan))
         /\ Len(h.plan) \in Nat \ {0} /\ Len(Front(h.plan)) = Len(h.plan) - 1
         /\ \A i \in 1 .. Len(h.plan) - 1 : Front(h.plan)[i] = h.plan[i]
    BY <2>2, <2>3, ShapeFront
  <2>12. Cur.open = OpenOf(Last(h.plan)) /\ Brackets(Front(cursors)) = Shape(Front(h.plan))
    BY <2>2, <2>9, <2>11 DEF Agrees
  <2>13. \A k : Mark(k).k = k
    BY DEF Mark, Tk
  <2>14. CASE PutsEnd(Width, in, calls, h, b, g)
    <3>1. /\ g.n = h.n + 1 /\ g.plan = Front(h.plan) /\ g.len = b + 1 /\ g.f = "used"
          /\ in[b + 1] = calls[h.n + 1] /\ in[b + 1].k = Closing(Cur.open)
          /\ Blank(in, pos, b)
          /\ b = (IF h.f = "fresh" THEN h.len ELSE h.len + Width)
      BY <2>2, <2>12, <2>13, <2>14 DEF PutsEnd, Hist
    <3>2. in[b + 1].k # "ws"
      BY <3>1 DEF Closing
    <3>3. pos \in 1 .. b + 1 /\ b + 1 <= Len(in)
      <4>1. PICK l \in Nat : l = h.len
        BY <2>3
      <4>2. b = l \/ b = l + Width
        BY <3>1, <4>1
      <4>3. l + 1 \in 1 .. b + 1
        BY <4>2, SpaceIs
      <4> QED
        BY <2>2, <2>7, <3>1, <4>1, <4>3
    <3>4. SkipWs(pos) = b + 1 /\ ~AtEnd(SkipWs(pos))
      BY <2>1, <3>1, <3>2, <3>3, BlankSkips
    <3>5. WalkOn((b + 1) + 1, depth - 1, AfterValue(Front(cursors)), Front(cursors), << in[b + 1] >>)
      BY <3>1, <3>4 DEF CursorNext
    <3>6. in[b + 1] \in Call
      BY <2>1, <3>3 DEF Call
    <3>7. Agrees(g, Front(cursors), events \o << in[b + 1] >>)
      BY <2>1, <2>2, <2>3, <2>12, <3>1, <3>6, EventOn
    <3>8. Front(cursors) = << >> <=> Front(h.plan) = << >>
      BY <2>9, <2>11, <2>12, BracketsOf, ShapeOf
    <3>9. Synced((b + 1) + 1, AfterValue(Front(cursors)), Front(cursors), events \o << in[b + 1] >>)
      <4>1. (b + 1) + 1 = g.len + 1 /\ g.n # 0
        BY <2>3, <3>1
      <4>2. CASE Front(cursors) = << >>
        BY <2>5, <3>1, <3>7, <3>8, <4>1, <4>2 DEF Synced, AfterValue
      <4>3. CASE Front(cursors) # << >>
        <5>1. Last(Front(cursors)).first = FALSE
          <6>1. Len(cursors) - 1 \in 1 .. Len(cursors) - 1 /\ Len(cursors) - 1 \in 1 .. Len(cursors)
                /\ Len(cursors) - 1 < Len(cursors)
            BY <2>9, <4>3, CursorsFront
          <6> QED
            BY <2>1, <2>9, <6>1 DEF CursorsOK, Last
        <5>2. Last(Front(h.plan)) # "value"
          <6>1. Len(h.plan) - 1 \in 1 .. Len(h.plan) - 1
            BY <2>11, <3>8, <4>3, ShapeFront
          <6> QED
            BY <2>3, <2>11, <6>1 DEF Around, Last
        <5> QED
          BY <2>5, <3>1, <3>7, <3>8, <4>1, <4>3, <5>1, <5>2 DEF Synced, AfterValue
      <4> QED
        BY <4>2, <4>3
    <3> QED
      BY <1>1, <3>5, <3>9, RoundOn
  <2>15. CASE PutsItem(Width, in, calls, h, b, g) \/ PutsKey(Width, in, calls, h, b, g)
    <3>1. /\ Lead(Width, in, h, b) /\ ~Plain(h) /\ b + 1 <= g.len
          /\ in[b + 1].k \in Scalar \cup Opening
      <4>1. CASE PutsItem(Width, in, calls, h, b, g)
        BY <2>2, <2>13, <4>1 DEF PutsItem, Hist, Plain
      <4>2. CASE PutsKey(Width, in, calls, h, b, g)
        <5>1. g.len = b + 2 + Width /\ b + 1 <= b + 2 + Width
          BY <4>2, SpaceIs DEF PutsKey, Hist
        <5> QED
          BY <2>2, <2>13, <4>2, <5>1 DEF PutsKey, Plain, Scalar
      <4> QED
        BY <2>15, <4>1, <4>2
    <3>2. b + 1 <= Len(in) /\ in[b + 1].k \notin {"ws", "]", "}", ","}
      <4>1. PICK m \in Nat : m = g.len
        BY <2>7
      <4>2. b + 1 <= m /\ m <= Len(in)
        BY <2>7, <3>1, <4>1
      <4>3. b + 1 <= Len(in)
        BY <2>7, <4>2
      <4>4. in[b + 1].k \notin {"ws", "]", "}", ","}
        BY <3>1 DEF Scalar, Opening
      <4> QED
        BY <4>3, <4>4
    <3>3. in[b + 1].k # Closing(Cur.open) /\ Closing(Cur.open) \in {"]", "}"}
      BY <3>2 DEF Closing
    <3>4. \A cs : Brackets(cs) = Brackets(cursors) => Synced(b + 1, then, cs, events)
      <4> SUFFICES ASSUME NEW cs, Brackets(cs) = Brackets(cursors) PROVE Synced(b + 1, then, cs, events)
        OBVIOUS
      <4>1. Agrees(h, cs, events)
        BY <2>2 DEF Agrees
      <4>2. b + 1 \in 1 .. b + 1 /\ Blank(in, b + 1, b)
        BY DEF Blank
      <4>3. CASE PutsItem(Width, in, calls, h, b, g)
        <5>1. Last(h.plan) = "["
          BY <2>2, <2>11, <4>3 DEF PutsItem, Place
        <5>2. then = "value"
          BY <2>12, <5>1 DEF OpenOf
        <5> QED
          BY <2>2, <2>5, <4>1, <4>2, <4>3, <5>2 DEF Synced
      <4>4. CASE PutsKey(Width, in, calls, h, b, g)
        <5>1. then = "key"
          BY <2>12, <4>4 DEF PutsKey, OpenOf
        <5> QED
          BY <2>2, <2>5, <4>1, <4>2, <4>4, <5>1 DEF Synced
      <4> QED
        BY <2>15, <4>3, <4>4
    <3>5. events \o << >> = events
      <4>1. events \in Seq(Call)
        BY <2>2 DEF Agrees
      <4> QED
        BY <4>1, ConcatEmptySeq
    <3>6. CASE h.f = "fresh"
      <4>1. b = h.len + Width /\ Blank(in, h.len + 1, b)
        BY <3>1, <3>6 DEF Lead
      <4>2. pos \in 1 .. b + 1
        <5>1. PICK l \in Nat : l = h.len
          BY <2>3
        <5>2. l + 1 \in 1 .. b + 1
          BY <4>1, <5>1, SpaceIs
        <5> QED
          BY <2>2, <5>1, <5>2
      <4>3. SkipWs(pos) = b + 1 /\ ~AtEnd(SkipWs(pos))
        BY <2>1, <2>2, <3>2, <4>1, <4>2, BlankSkips
      <4>4. WalkOn(b + 1, depth, then, used, << >>)
        BY <2>10, <3>3, <3>6, <4>3 DEF CursorNext
      <4>5. Brackets(used) = Brackets(cursors)
        BY <2>1, <2>8, CursorsUsed
      <4> HIDE DEF used, then
      <4>6. Synced(b + 1, then, used, events)
        BY <3>4, <4>5
      <4> QED
        BY <1>1, <3>5, <4>4, <4>6, RoundOn
    <3>7. CASE h.f # "fresh"
      <4>1. PICK l \in Nat : l = h.len
        BY <2>3
      <4>2. b = l + 1 + Width /\ in[l + 1].k = "," /\ Blank(in, l + 2, b)
        BY <3>1, <3>7, <4>1 DEF Lead
      <4>3. l + 1 <= Len(in) /\ l + 1 \in 1 .. l + 1 /\ Blank(in, l + 1, l) /\ l + 2 \in 1 .. b + 1
        <5>1. PICK m \in Nat : m = Len(in)
          BY <2>7
        <5>2. b + 1 <= m
          BY <3>2, <5>1
        <5>3. PICK w \in {0, 1} : w = Width
          BY SpaceIs
        <5>4. b = l + 1 + w
          BY <4>2, <5>3
        <5>5. l + 1 <= m /\ l + 2 <= b + 1 /\ 1 <= l + 1 /\ b + 1 \in Nat
          BY <5>2, <5>4
        <5>6. l + 1 \in 1 .. l + 1 /\ l + 2 \in 1 .. b + 1
          BY <5>5
        <5>7. Blank(in, l + 1, l)
          BY DEF Blank
        <5> QED
          BY <5>1, <5>5, <5>6, <5>7
      <4>4. SkipWs(pos) = l + 1 /\ ~AtEnd(SkipWs(pos))
        BY <2>1, <2>2, <4>1, <4>2, <4>3, BlankSkips
      <4>5. SkipWs(l + 2) = b + 1 /\ ~AtEnd(SkipWs(l + 2))
        BY <2>1, <3>2, <4>2, <4>3, BlankSkips
      <4>6. SkipWs(SkipWs(pos) + 1) = b + 1 /\ ~AtEnd(b + 1)
        <5>1. (l + 1) + 1 = l + 2
          OBVIOUS
        <5> QED
          BY <4>4, <4>5, <5>1
      <4>7. in[SkipWs(pos)].k = "," /\ in[SkipWs(pos)].k # Closing(Cur.open)
        BY <3>3, <4>2, <4>4
      <4>8. WalkOn(b + 1, depth, then, cursors, << >>)
        BY <2>10, <3>3, <3>7, <4>4, <4>6, <4>7 DEF CursorNext
      <4> HIDE DEF then
      <4>9. Synced(b + 1, then, cursors, events)
        BY <3>4
      <4> QED
        BY <1>1, <3>5, <4>8, <4>9, RoundOn
    <3> QED
      BY <3>6, <3>7
  <2> QED
    BY <2>6, <2>14, <2>15
<1> QED
  BY <1>2, <1>3

(* A key is read where one was written, and its value is next.             *)
LEMMA RoundKey ==
  ASSUME JsonInv, RoundInv, UNCHANGED << writer, plan, calls >>, KeyText
  PROVE  RoundInv'
<1>1. reading = "walk" /\ walk = "key" /\ reading' \in {"walk", "none"}
  BY DEF KeyText, Walking, WalkReturns, WalkOn
<1>2. CASE calls = << >>
  BY <1>1, <1>2, NotWritten
<1>3. CASE calls # << >>
  <2>1. in \in Seq(Token) /\ calls \in Seq(Call) /\ Synced(pos, "key", cursors, events)
    BY <1>1, <1>3, RoundFacts
  <2>2. PICK h : /\ Rest(h) /\ Agrees(h, cursors, events)
                 /\ \E b \in Nat : \E g : /\ PutsKey(Width, in, calls, h, b, g) /\ Rest(g)
                                          /\ pos \in 1 .. b + 1 /\ Blank(in, pos, b)
    BY <2>1 DEF Synced
  <2>b. PICK b \in Nat : \E g : /\ PutsKey(Width, in, calls, h, b, g) /\ Rest(g)
                                 /\ pos \in 1 .. b + 1 /\ Blank(in, pos, b)
    BY <2>2
  <2>3. PICK g : /\ PutsKey(Width, in, calls, h, b, g) /\ Rest(g)
                /\ pos \in 1 .. b + 1 /\ Blank(in, pos, b)
    BY <2>b
  <2>4. h.n \in Nat /\ h.plan \in Seq(Place) /\ g.len \in Nat /\ g.len <= Len(in) /\ Len(in) \in Nat
    BY <2>1, <2>2, <2>3, RestFrom
  <2>5. /\ g.n = h.n + 1 /\ g.len = b + 2 + Width /\ g.plan = Append(Front(h.plan), "value")
        /\ h.plan # << >> /\ Last(h.plan) = "key" /\ calls[h.n + 1] = KeyEvent
        /\ in[b + 1] = Mark("text") /\ in[b + 2] = Mark(":") /\ Blank(in, b + 3, b + 2 + Width)
    BY <2>3 DEF PutsKey, Hist
  <2>6. /\ in[b + 1].k = "text" /\ in[b + 1].v = "ok" /\ in[b + 2].k = ":"
    BY <2>5 DEF Mark, Tk
  <2>7. b + 1 <= Len(in) /\ (b + 1) + 1 <= Len(in) /\ b + 2 \in 1 .. (b + 1) + 1 /\ b + 2 = (b + 1) + 1
    BY <2>4, <2>5, SpaceIs
  <2>8. SkipWs(pos) = b + 1 /\ ~AtEnd(SkipWs(pos))
    BY <2>1, <2>3, <2>6, <2>7, BlankSkips
  <2>9. SkipWs(b + 2) = b + 2 /\ ~AtEnd(SkipWs(b + 2))
    <3>1. b + 1 \in Nat /\ Blank(in, b + 2, b + 1) /\ in[(b + 1) + 1].k # "ws"
      BY <2>6, <2>7 DEF Blank
    <3> QED
      BY <2>1, <2>7, <3>1, BlankSkips
  <2>10. SkipWs(SkipWs(pos) + 1) = b + 2
    BY <2>7, <2>8, <2>9
  <2>11. WalkOn((b + 2) + 1, depth, "value", cursors, << KeyEvent >>)
    BY <2>6, <2>8, <2>9, <2>10 DEF KeyText
  <2>12. /\ g.plan # << >> /\ Last(g.plan) = "value" /\ Shape(g.plan) = Shape(h.plan)
    <3>1. OpenOf("value") = OpenOf(Last(h.plan)) /\ "value" \in Place
      BY <2>5 DEF OpenOf, Place
    <3> QED
      BY <2>4, <2>5, <3>1, ShapeReplace
  <2>13. KeyEvent \in Call
    BY DEF Call
  <2>14. Agrees(g, cursors, events \o << KeyEvent >>)
    <3>1. Brackets(cursors) = Shape(g.plan)
      BY <2>2, <2>12 DEF Agrees
    <3> QED
      BY <2>1, <2>2, <2>4, <2>5, <2>13, <3>1, EventOn
  <2>15. (b + 2) + 1 \in 1 .. g.len + 1 /\ Blank(in, (b + 2) + 1, g.len)
    <3>1. (b + 2) + 1 = b + 3 /\ b + 3 \in 1 .. (b + 2 + Width) + 1
      BY SpaceIs
    <3> QED
      BY <2>5, <3>1
  <2>16. Synced((b + 2) + 1, "value", cursors, events \o << KeyEvent >>)
    BY <1>3, <2>1, <2>3, <2>12, <2>14, <2>15, ValueAhead
  <2> QED
    BY <1>1, <2>11, <2>16, RoundOn
<1> QED
  BY <1>2, <1>3

(* The end: all calls have been met, and the text is used up.              *)
LEMMA RoundDone ==
  ASSUME JsonInv, RoundInv, UNCHANGED << writer, plan, calls >>, WalkDone
  PROVE  RoundInv'
<1>1. /\ reading = "walk" /\ walk = "end" /\ reading' = "none" /\ UNCHANGED << in, events, calls >>
      /\ walked'.code = "none" /\ walked'.pos = pos
  BY DEF WalkDone, Walking, WalkReturns, typed
<1>2. CASE calls = << >>
  BY <1>1, <1>2, NotWritten
<1>3. CASE calls # << >>
  <2>1. in \in Seq(Token) /\ calls \in Seq(Call) /\ Synced(pos, "end", cursors, events)
    BY <1>1, <1>3, RoundFacts
  <2>2. PICK h : Rest(h) /\ Agrees(h, cursors, events) /\ h.plan = << >> /\ h.n # 0 /\ pos = h.len + 1
    BY <2>1 DEF Synced
  <2>3. ASSUME NEW g, Puts(Width, in, calls, h, g) PROVE FALSE
    BY <2>2, <2>3 DEF Puts, PutsItem, PutsKey, PutsEnd
  <2>4. h = Final
    BY <2>1, <2>2, <2>3, RestFrom
  <2>5. pos = Len(in) + 1 /\ h.n = Len(calls) /\ Len(in) \in Nat
    BY <2>1, <2>2, <2>4 DEF Final, Hist
  <2>6. SkipWs(pos) = Len(in) + 1
    <3> DEFINE S == {j \in pos .. Len(in) + 1 : j > Len(in) \/ in[j].k # "ws"}
    <3>1. S = {Len(in) + 1} /\ S \in SUBSET Nat /\ SkipWs(pos) = Min(S)
      BY <2>5 DEF SkipWs
    <3> HIDE DEF S
    <3> QED
      BY <3>1, MinOf
  <2>7. events = calls
    BY <2>1, <2>2, <2>5, SeqEqual DEF Agrees
  <2>8. SkipWs(walked.pos)' = Len(in') + 1
    BY <1>1, <2>6 DEF SkipWs
  <2>9. RoundTrip'
    BY <1>1, <2>7, <2>8 DEF RoundTrip
  <2> QED
    BY <1>1, <2>1, <2>9 DEF RoundInv
<1> QED
  BY <1>2, <1>3

(* The calls of the sink.                                                  *)
LEMMA RoundWrites ==
  ASSUME RoundInv, PutScalar \/ PutBadText \/ PutKey \/ Begin \/ End
  PROVE  RoundInv'
<1>1. reading = "write" /\ thrown = "none" /\ UNCHANGED reader
  BY DEF PutScalar, PutBadText, PutKey, Begin, End, Writing
<1>2. WritesNow /\ events = << >> /\ reading' = "write" /\ events' = << >> /\ calls \in Seq(Call)
  BY <1>1 DEF RoundInv, reader, typed
<1>3. /\ PutScalar \/ PutKey \/ End \/ (Begin /\ thrown' = "none") => WritesNow'
      /\ PutBadText => thrown' # "none"
  BY <1>1, <1>2, ScalarWrites, KeyWrites, EndWrites, BeginWrites DEF WritesNow, PutBadText, WriteBadText
<1>4. calls' \in Seq(Call)
  <2>1. CASE PutBadText
    BY <1>2, <2>1 DEF PutBadText
  <2>2. CASE Begin
    <3>1. PICK k \in Opening : calls' = Append(calls, Mark(k))
      BY <2>2 DEF Begin
    <3>2. Mark(k) \in Call
      BY Written DEF Call
    <3> QED
      BY <1>2, <3>1, <3>2, AppendProperties
  <2>3. CASE ~PutBadText /\ ~Begin
    BY <1>3, <2>3 DEF WritesNow, Writes
  <2> QED
    BY <2>1, <2>2, <2>3
<1>5. thrown' = "none" => WritesNow'
  BY <1>3
<1> QED
  BY <1>2, <1>4, <1>5 DEF RoundInv

(* A reader is made for the text.                                          *)
LEMMA RoundReadBack == ASSUME JsonInv, RoundInv, ReadBack PROVE RoundInv'
<1>1. /\ reading = "write" /\ thrown = "none" /\ plan = << >> /\ reading' = "skip" /\ in' = out
      /\ UNCHANGED << base, events, calls, pretty >>
  BY DEF ReadBack, typed, writer
<1>2. WritesNow /\ events = << >> /\ base = 0 /\ calls \in Seq(Call)
  BY <1>1 DEF RoundInv, JsonInv
<1>3. wdepth = 0
  BY <1>1, <1>2 DEF WritesNow, Writes
<1>4. Wrote(Width, out, calls, Zero, Hist(Len(calls), << >>, "used", Len(out)))
  BY <1>1, <1>2, <1>3 DEF WritesNow, Writes, Flag
<1>5. Width' = Width
  BY <1>1 DEF Width
<1>6. Rest(Zero)'
  BY <1>1, <1>4, <1>5 DEF Rest, Final
<1> QED
  BY <1>1, <1>2, <1>6 DEF RoundInv

(* The invariant holds at the start.                                       *)
LEMMA RoundStart == Init => RoundInv
<1> SUFFICES ASSUME Init PROVE RoundInv
  OBVIOUS
<1>1. /\ calls = << >> /\ events = << >> /\ plan = << >> /\ out = << >> /\ wdepth = 0 /\ after_key = FALSE
      /\ first = [d \in 0 .. MaxDepth + 1 |-> FALSE] /\ reading \in {"write", "skip"}
  BY DEF Init, Reset, WriterInit
<1>2. first \in [0 .. MaxDepth + 1 -> BOOLEAN]
  BY <1>1
<1>3. WritesNow
  BY <1>1, <1>2, WritesFirst DEF WritesNow
<1>4. calls \in Seq(Call)
  BY <1>1, EmptySeq
<1> QED
  BY <1>1, <1>3, <1>4 DEF RoundInv

(* And is kept.                                                            *)
LEMMA RoundStep == JsonInv /\ RoundInv /\ [Next]_vars => RoundInv'
<1> SUFFICES ASSUME JsonInv, RoundInv, [Next]_vars PROVE RoundInv'
  OBVIOUS
<1>1. CASE PutScalar \/ PutBadText \/ PutKey \/ Begin \/ End
  BY <1>1, RoundWrites
<1>2. CASE ReadBack
  BY <1>2, RoundReadBack
<1>3. CASE Read
  BY <1>3, RoundSkips, RoundScalar, RoundContainer, RoundNext, RoundKey, RoundDone DEF Read, ReadNext
<1>4. CASE UNCHANGED vars
  <2>1. /\ UNCHANGED << in, pos, base, reading, cursors, walk, events, walked >>
        /\ UNCHANGED << out, wdepth, after_key, first, pretty, thrown, plan, calls >>
    BY <1>4 DEF vars, reader, typed, writer
  <2>2. /\ \A q, wk, ds, e : Synced(q, wk, ds, e)' <=> Synced(q, wk, ds, e)
        /\ Rest(Zero)' <=> Rest(Zero)
    BY <2>1, SyncSame
  <2>3. WritesNow' <=> WritesNow
    BY <2>1 DEF WritesNow, Writes, Width
  <2>4. Synced(pos, walk, cursors, events)' <=> Synced(pos, walk, cursors, events)
    BY <2>1, <2>2
  <2>5. RoundTrip' <=> RoundTrip
    BY <2>1 DEF RoundTrip, SkipWs
  <2> QED
    BY <2>1, <2>2, <2>3, <2>4, <2>5 DEF RoundInv
<1> QED
  BY <1>1, <1>2, <1>3, <1>4 DEF Next

(* Whatever value is written, with any nesting and any number of calls,    *)
(* compact or pretty: json::writer's text is read back by json::reader as  *)
(* exactly the calls that wrote it, to its end.                            *)
THEOREM WrittenIsReadBack == Spec => []RoundTrip
<1>1. RoundInv /\ JsonInv => RoundTrip
  BY DEF RoundInv, RoundTrip
<1> QED
  BY <1>1, JsonStart, JsonStep, RoundStart, RoundStep, PTL DEF Spec

===============================================================================
