---------------------------- MODULE CborAgreeProofs ----------------------------
(***************************************************************************)
(* A proof that skip_value and the typed operations of the reader agree,   *)
(* for every input, depth limit, option and caller.                        *)
(*                                                                         *)
(* While the typed operations run, the verdict of skip_value is known and  *)
(* the loop that came to it is over.  The proof follows that loop along:   *)
(* its control points are records, and at each of its own the walk knows   *)
(* one of them from which skip_value ends with that verdict.               *)
(***************************************************************************)
EXTENDS CborReaderProofs

(* The call both paths are about: what never changes.                      *)
Here == [in |-> in, strict |-> strict, entry |-> entry]

(* The loop of skip_value at a control point, in the call x: the position, *)
(* the control, the stack, and the major type of the string being read.    *)
Conf(x, p, k, s) ==
  [in |-> x.in, strict |-> x.strict, entry |-> x.entry, p |-> p, k |-> k, s |-> s, h |-> "none"]
Chunks(x, p, s, m) ==
  [in |-> x.in, strict |-> x.strict, entry |-> x.entry, p |-> p, k |-> "chunk", s |-> s, h |-> m]

(* The definitions of the validator, at c.                                 *)
C(c) == INSTANCE CborSkip
          WITH in <- c.in, strict <- c.strict, base <- c.entry, err <- "none", pos <- c.p, pc <- c.k,
               stack <- c.s, chunkOf <- c.h, depth <- c.entry + Len(c.s)

Over(c) == c.k = "item_done" /\ c.s = << >>

(* The error the next iteration returns, "none" if it goes on.             *)
Fault(c) ==
  IF c.k = "chunk" THEN C(c)!ChunkError
  ELSE IF c.k = "item_done" THEN IF C(c)!OutOfOrder THEN "non_deterministic" ELSE "none"
  ELSE IF C(c)!HeadError # "none" THEN C(c)!HeadError
  ELSE IF C(c)!Tok.mt = "tag" /\ C(c)!Untagged THEN IF c.p + 1 = Len(c.in) THEN "truncated" ELSE "malformed_item"
  ELSE IF C(c)!Tok.mt \in String /\ ~C(c)!Tok.indefinite /\ C(c)!BadUtf8 THEN "invalid_utf8"
  ELSE "none"

(* Where an iteration that goes on leads.                                  *)
AfterHead(c, t) ==
  IF t.mt = "break" THEN Conf(c, c.p + 1, "item_done", C(c)!Pop)
  ELSE IF t.mt = "tag" THEN Conf(c, c.p + 1, "item", C(c)!Marked)
  ELSE IF t.mt \in Container /\ ~C(c)!Empty THEN Conf(c, c.p + 1, "item", Append(C(c)!Marked, C(c)!NewLevel))
  ELSE IF t.mt \in String /\ t.indefinite THEN Chunks(c, c.p + 1, C(c)!Marked, t.mt)
  ELSE Conf(c, c.p + 1, "item_done", C(c)!Marked)

After(c) ==
  IF c.k = "item" THEN AfterHead(c, C(c)!Tok)
  ELSE IF c.k = "chunk"
       THEN IF C(c)!Tok.mt = "break" THEN Conf(c, c.p + 1, "item_done", c.s) ELSE Chunks(c, c.p + 1, c.s, c.h)
  ELSE IF C(c)!Counted.remaining = 0 THEN Conf(c, c.p, "item_done", C(c)!Pop)
  ELSE Conf(c, c.p, "item", Replace(c.s, C(c)!Counted))

Goes(c)     == ~Over(c) /\ Fault(c) = "none"
Stops(c, v) == IF Over(c) THEN v = Verdict("none", c.p, c.entry) ELSE Fault(c) # "none" /\ v.code = Fault(c)

(* skip_value, from c on, ends with the verdict v.                         *)
Leads(c, v) == \E S : c \in S /\ \A x \in S : Stops(x, v) \/ (Goes(x) /\ After(x) \in S)

(* An item of the n-th open container is complete.                         *)
Exits(c, n) == n > 0 /\ c.k = "item_done" /\ Len(c.s) = n

(* The iterations from a to b stay within an item of the n-th container.   *)
Path(a, b, n) ==
  \E S : a \in S /\ b \in S /\ \A x \in S : x = b \/ (Goes(x) /\ ~Exits(x, n) /\ After(x) \in S)

(* From c on skip_value fails within the key of the n-th container, or     *)
(* completes it with the extent k and finds it in order.                   *)
Clean(c, n, k) ==
  \E S : c \in S /\ \A x \in S :
    IF Exits(x, n) THEN << x.s[n].key_start, x.p >> = k /\ ~C(x)!OutOfOrder
    ELSE Fault(x) # "none" \/ (Goes(x) /\ After(x) \in S)

-----------------------------------------------------------------------------
(* The level of a container one of whose items the cursor c is reading.    *)
Held(l, c) ==
  /\ l.is_map <=> c.is_map
  /\ c.key => c.is_map
  /\ l.key_next <=> (c.is_map => c.key)
  /\ l.remaining = IF c.remaining = Nullopt THEN Nullopt
                   ELSE IF ~c.is_map THEN c.remaining + 1
                   ELSE IF c.key THEN 2 * c.remaining + 2
                   ELSE 2 * c.remaining + 1

(* Besides, in deterministic mode, the last key of a map.                  *)
KeyHeld(c, n, cur) ==
  c.strict /\ cur.is_map =>
    IF cur.key THEN Clean(c, n, cur.prev) ELSE c.s[n].key_start = NoKey /\ c.s[n].prev = cur.prev

(* The validator at c has the containers of the cursors cs open and ends   *)
(* with the verdict v.                                                     *)
Tracks(c, cs, v) ==
  /\ c.p \in 0 .. Len(c.in)
  /\ c.s \in Seq(Level) /\ Len(cs) <= Len(c.s)
  /\ \A i \in 1 .. Len(cs) : Held(c.s[i], cs[i]) /\ KeyHeld(c, i, cs[i])
  /\ Leads(c, v)

At(c, cs, v) == Tracks(c, cs, v) /\ Len(c.s) = Len(cs)

(* A break that is next does not close the innermost container.            *)
NoBreak(c) == c.p < Len(c.in) /\ c.in[c.p + 1].mt = "break" => ~C(c)!MayBreak

(* skip_value refused a tag that nothing follows before it went on.        *)
Refused(x, p, v) ==
  \/ p = Len(x.in) /\ v.code = "truncated"
  \/ p < Len(x.in) /\ x.in[p + 1].mt = "break" /\ v.code = "malformed_item"

AtValue(x, p, cs, v) ==
  Refused(x, p, v) \/ \E s : At(Conf(x, p, "item", s), cs, v) /\ NoBreak(Conf(x, p, "item", s))

(* A container none of whose items has been read.                          *)
Fresh(l, c) ==
  /\ ~c.key /\ c.remaining # 0 /\ c.prev = << 0, 0 >>
  /\ l.is_map <=> c.is_map
  /\ l.key_next
  /\ l.key_start = NoKey /\ l.prev = << 0, 0 >>
  /\ l.remaining = IF c.remaining = Nullopt THEN Nullopt
                   ELSE IF c.is_map THEN 2 * c.remaining ELSE c.remaining

Outer(cs) == SubSeq(cs, 1, Len(cs) - 1)

(* Before next(): an item has been decoded, or none yet of a container     *)
(* that has some, or the container is empty.                               *)
AtNext(x, p, cs, v) ==
  \/ (cs # << >> => ~cs[Len(cs)].key) /\ \E s : At(Conf(x, p, "item_done", s), cs, v)
  \/ cs # << >> /\ \E s : /\ Tracks(Conf(x, p, "item", s), Outer(cs), v) /\ Len(s) = Len(cs)
                          /\ Fresh(s[Len(s)], cs[Len(cs)])
  \/ /\ cs # << >> /\ cs[Len(cs)].remaining = 0 /\ ~cs[Len(cs)].key
     /\ \E s : At(Conf(x, p, "item_done", s), Outer(cs), v)

Follows ==
  /\ at = "value" => AtValue(Here, pos, cursors, skipped)
  /\ at = "chunk" => \E s : At(Chunks(Here, pos, s, chunkOf), cursors, skipped)
  /\ at = "next"  => AtNext(Here, pos, cursors, skipped)

(* The validator in a key, seen from the containers o around it.           *)
Now(o) ==
  IF pc = "chunk" THEN Chunks(Here, pos, o \o stack, chunkOf) ELSE Conf(Here, pos, pc, o \o stack)

MarkedAt(s, p) == Replace(s, [s[Len(s)] EXCEPT !.key_start = p])

(* The look at a key, which starts at q: the containers around it are s.   *)
KeyLook(s, q) ==
  LET c0 == Conf(Here, q, "item", s)
      n  == Len(cursors)
  IN  /\ Tracks(c0, Outer(cursors), skipped) /\ Len(s) = n /\ NoBreak(c0)
      /\ Held(s[n], Cur) /\ s[n].key_start = NoKey /\ s[n].prev = Cur.prev
      /\ pc \in {"item", "chunk", "item_done"} =>
           \E o : /\ o = MarkedAt(s, q) \/ (o = s /\ pc = "item" /\ stack = << >> /\ pos = q)
                  /\ Path(c0, Now(o), n) /\ Leads(Now(o), skipped)
                  /\ pc = "item" /\ stack = << >> => NoBreak(Now(o))
      /\ pc = "ok"   => LET e == Conf(Here, pos, "item_done", MarkedAt(s, q))
                        IN  Path(c0, e, n) /\ Leads(e, skipped)
      /\ pc = "fail" => \A k : Clean(c0, n, k)

Begin == Conf(Here, 0, "item", << >>)

(* The inductive invariant, besides ReaderInv: skip_value, from its first  *)
(* iteration on, came to its verdict; the walk follows it; and so does the *)
(* validator in a key, until it knows whether the key is in order.         *)
AgreeInv ==
  /\ \A i \in DOMAIN in : IsHead(in[i])
  /\ ~Wide /\ ~LongTag =>
       /\ phase = "skip" =>
            /\ at = "value"
            /\ pc \in {"item", "chunk", "item_done"} => err = "none" /\ Path(Begin, Now(<< >>), 0)
            /\ pc \in {"ok", "fail"} => Leads(Begin, Verdict(err, pos, depth))
       /\ phase = "walk" => Follows
       /\ phase = "key" =>
            /\ strict /\ Cur.is_map /\ Cur.key
            /\ \E s : KeyLook(s, Restored(saved)[1])
       /\ phase = "done" => Agree

Kept == (phase = "walk" /\ Follows) \/ (phase = "done" /\ Agree)

(* A container that has another item.                                      *)
Ready(l, c) ==
  /\ ~c.key
  /\ l.is_map <=> c.is_map
  /\ l.key_next
  /\ l.remaining = IF c.remaining = Nullopt THEN Nullopt
                   ELSE IF c.is_map THEN 2 * c.remaining ELSE c.remaining
  /\ strict /\ c.is_map => l.key_start = NoKey /\ l.prev = c.prev

(* What every step below rests on.                                         *)
Usual == ReaderTypeOK /\ (\A i \in DOMAIN in : IsHead(in[i])) /\ ~Wide /\ ~LongTag

-----------------------------------------------------------------------------
(* Iterations of the loop.                                                 *)

(* From where it stops, skip_value ends there.                             *)
LEMMA LeadsStops ==
  ASSUME NEW c, NEW v, Leads(c, v), ~Goes(c)
  PROVE  Stops(c, v)
  BY DEF Leads

(* Where an iteration goes on, so does what follows.                       *)
LEMMA LeadsStep ==
  ASSUME NEW c, NEW v, Leads(c, v), Goes(c)
  PROVE  Leads(After(c), v)
<1>1. ~Stops(c, v)
  BY DEF Goes, Stops
<1> QED
  BY <1>1, Zenon DEF Leads

(* Nothing has happened yet.                                               *)
LEMMA PathStart == ASSUME NEW a, NEW n PROVE Path(a, a, n)
<1>1. a \in {a} /\ \A x \in {a} : x = a
  OBVIOUS
<1> QED
  BY <1>1, Zenon DEF Path

(* One more iteration.                                                     *)
LEMMA PathStep ==
  ASSUME NEW a, NEW b, NEW n, Path(a, b, n), Goes(b), ~Exits(b, n)
  PROVE  Path(a, After(b), n)
<1>1. PICK S : a \in S /\ b \in S /\ \A x \in S : x = b \/ (Goes(x) /\ ~Exits(x, n) /\ After(x) \in S)
  BY DEF Path
<1> DEFINE T == S \cup {After(b)}
<1>2. a \in T /\ After(b) \in T
  BY <1>1
<1>3. \A x \in T : x = After(b) \/ (Goes(x) /\ ~Exits(x, n) /\ After(x) \in T)
  BY <1>1
<1> HIDE DEF T
<1> QED
  BY <1>2, <1>3, Zenon DEF Path

(* The verdict at the end of a path is that of its beginning.              *)
LEMMA PathLeads ==
  ASSUME NEW a, NEW b, NEW n, NEW v, Path(a, b, n), Stops(b, v)
  PROVE  Leads(a, v)
  BY Zenon DEF Path, Leads

(* A path that ends with an error inside the key.                          *)
LEMMA PathFails ==
  ASSUME NEW a, NEW b, NEW n, NEW k, Path(a, b, n), Fault(b) # "none", ~Exits(b, n)
  PROVE  Clean(a, n, k)
  BY Zenon DEF Path, Clean

(* A path that ends with the key.                                          *)
LEMMA PathExits ==
  ASSUME NEW a, NEW b, NEW n, NEW k, Path(a, b, n), Exits(b, n),
         << b.s[n].key_start, b.p >> = k, ~C(b)!OutOfOrder
  PROVE  Clean(a, n, k)
  BY Zenon DEF Path, Clean

(* A key that is being read, one iteration on.                             *)
LEMMA CleanStep ==
  ASSUME NEW c, NEW n, NEW k, Clean(c, n, k), Goes(c), ~Exits(c, n)
  PROVE  Clean(After(c), n, k)
<1>1. Fault(c) = "none"
  BY DEF Goes
<1> QED
  BY <1>1, Zenon DEF Clean

(* A key that is complete.                                                 *)
LEMMA CleanExit ==
  ASSUME NEW c, NEW n, NEW k, Clean(c, n, k), Exits(c, n)
  PROVE  << c.s[n].key_start, c.p >> = k /\ ~C(c)!OutOfOrder
  BY Zenon DEF Clean

-----------------------------------------------------------------------------
(* The stack of a call inside that of another.                             *)

(* The elements of a sequence that begins with o.                          *)
LEMMA ConcatIs ==
  ASSUME NEW S, NEW o \in Seq(S), NEW a \in Seq(S), NEW b \in Seq(S),
         Len(b) = Len(o) + Len(a),
         \A i \in 1 .. Len(o) : b[i] = o[i],
         \A i \in 1 .. Len(a) : b[Len(o) + i] = a[i]
  PROVE  b = o \o a
<1>1. PICK n \in Nat : n = Len(o)
  BY LenProperties
<1>2. PICK m \in Nat : m = Len(a)
  BY LenProperties
<1>3. o \o a \in Seq(S) /\ Len(o \o a) = Len(o) + Len(a)
  BY ConcatProperties
<1>4. \A i \in 1 .. Len(o) + Len(a) : (o \o a)[i] = IF i <= Len(o) THEN o[i] ELSE a[i - Len(o)]
  BY ConcatProperties
<1>5. \A i \in 1 .. Len(b) : b[i] = (o \o a)[i]
  <2> TAKE i \in 1 .. Len(b)
  <2>1. i \in 1 .. n + m /\ (o \o a)[i] = IF i <= n THEN o[i] ELSE a[i - n]
    BY <1>1, <1>2, <1>4
  <2>2. CASE i <= n
    <3>1. i \in 1 .. Len(o)
      BY <1>1, <2>1, <2>2
    <3> QED
      BY <2>1, <2>2, <3>1
  <2>3. CASE ~(i <= n)
    <3>1. PICK j \in 1 .. m : i = n + j
      BY <2>1, <2>3
    <3>2. b[n + j] = a[j]
      BY <1>1, <1>2
    <3>3. (o \o a)[i] = a[i - n] /\ i - n = j
      BY <2>1, <2>3, <3>1
    <3> QED
      BY <3>1, <3>2, <3>3
  <2> QED
    BY <2>2, <2>3
<1> QED
  BY <1>3, <1>5, SeqEqual

(* The elements of o \o s.                                                 *)
LEMMA ConcatElements ==
  ASSUME NEW S, NEW o \in Seq(S), NEW s \in Seq(S)
  PROVE  /\ o \o s \in Seq(S)
         /\ Len(o) \in Nat /\ Len(s) \in Nat /\ Len(o \o s) = Len(o) + Len(s)
         /\ \A i \in 1 .. Len(o) : (o \o s)[i] = o[i]
         /\ \A i \in 1 .. Len(s) : (o \o s)[Len(o) + i] = s[i]
<1>1. PICK n \in Nat : n = Len(o)
  BY LenProperties
<1>2. PICK m \in Nat : m = Len(s)
  BY LenProperties
<1>3. o \o s \in Seq(S) /\ Len(o \o s) = Len(o) + Len(s)
  BY ConcatProperties
<1>4. \A i \in 1 .. n + m : (o \o s)[i] = IF i <= n THEN o[i] ELSE s[i - n]
  BY <1>1, <1>2, ConcatProperties
<1>5. \A i \in 1 .. n : (o \o s)[i] = o[i]
  <2> TAKE i \in 1 .. n
  <2>1. i \in 1 .. n + m /\ i <= n
    OBVIOUS
  <2> QED
    BY <1>4, <2>1
<1>6. \A i \in 1 .. m : (o \o s)[n + i] = s[i]
  <2> TAKE i \in 1 .. m
  <2>1. n + i \in 1 .. n + m /\ ~(n + i <= n) /\ (n + i) - n = i
    OBVIOUS
  <2> QED
    BY <1>4, <2>1
<1> QED
  BY <1>1, <1>2, <1>3, <1>5, <1>6

(* push_back at the end of o \o s is done to s.                            *)
LEMMA ConcatAppend ==
  ASSUME NEW S, NEW o \in Seq(S), NEW s \in Seq(S), NEW l \in S, NEW r, r = Append(s, l)
  PROVE  Append(o \o s, l) = o \o r
<1> DEFINE u == o \o s
<1>1. /\ u \in Seq(S)
      /\ Len(u) = Len(o) + Len(s)
      /\ \A i \in 1 .. Len(o) : u[i] = o[i]
      /\ \A i \in 1 .. Len(s) : u[Len(o) + i] = s[i]
  BY ConcatElements
<1> HIDE DEF u
<1>2. PICK n \in Nat : n = Len(o)
  BY LenProperties
<1>3. PICK m \in Nat : m = Len(s)
  BY LenProperties
<1>4. Append(u, l) = o \o Append(s, l)
  <2>1. /\ Append(s, l) \in Seq(S) /\ Len(Append(s, l)) = m + 1
        /\ \A i \in 1 .. m : Append(s, l)[i] = s[i]
        /\ Append(s, l)[m + 1] = l
    BY <1>3, AppendProperties
  <2>2. /\ Append(u, l) \in Seq(S) /\ Len(Append(u, l)) = n + m + 1
        /\ \A i \in 1 .. n + m : Append(u, l)[i] = u[i]
        /\ Append(u, l)[n + m + 1] = l
    BY <1>1, <1>2, <1>3, AppendProperties
  <2> DEFINE a == Append(s, l)
             b == Append(u, l)
  <2>3. /\ a \in Seq(S) /\ b \in Seq(S) /\ Len(a) = m + 1 /\ Len(b) = n + m + 1
        /\ (\A i \in 1 .. m : a[i] = s[i]) /\ a[m + 1] = l
        /\ (\A i \in 1 .. n + m : b[i] = u[i]) /\ b[n + m + 1] = l
    BY <2>1, <2>2
  <2> HIDE DEF a, b
  <2>4. \A i \in 1 .. n : b[i] = o[i]
    BY <1>1, <1>2, <2>3
  <2>5. \A i \in 1 .. m + 1 : b[n + i] = a[i]
    <3> TAKE i \in 1 .. m + 1
    <3>1. CASE i \in 1 .. m
      <4>1. n + i \in 1 .. n + m
        BY <3>1
      <4> QED
        BY <1>1, <1>2, <1>3, <2>3, <3>1, <4>1
    <3>2. CASE i = m + 1
      <4>1. n + i = n + m + 1
        BY <3>2
      <4> QED
        BY <2>3, <3>2, <4>1
    <3> QED
      BY <3>1, <3>2
  <2>6. b = o \o a
    <3>1. Len(b) = Len(o) + Len(a)
      BY <1>2, <2>3
    <3>2. (\A i \in 1 .. Len(o) : b[i] = o[i]) /\ \A i \in 1 .. Len(a) : b[Len(o) + i] = a[i]
      BY <1>2, <2>3, <2>4, <2>5
    <3> QED
      BY <2>3, <3>1, <3>2, ConcatIs
  <2> QED
    BY <2>6 DEF a, b
<1> QED
  BY <1>4 DEF u

(* And so are pop_back and an assignment to back().                        *)
LEMMA ConcatEnd ==
  ASSUME NEW S, NEW o \in Seq(S), NEW s \in Seq(S), NEW l \in S
  PROVE  s # << >> =>
           /\ o \o s # << >>
           /\ (o \o s)[Len(o \o s)] = s[Len(s)]
           /\ SubSeq(o \o s, 1, Len(o \o s) - 1) = o \o SubSeq(s, 1, Len(s) - 1)
           /\ Replace(o \o s, l) = o \o Replace(s, l)
<1> DEFINE u == o \o s
<1>1. /\ u \in Seq(S)
      /\ Len(u) = Len(o) + Len(s)
      /\ \A i \in 1 .. Len(o) : u[i] = o[i]
      /\ \A i \in 1 .. Len(s) : u[Len(o) + i] = s[i]
  BY ConcatElements
<1> HIDE DEF u
<1>2. PICK n \in Nat : n = Len(o)
  BY LenProperties
<1>3. PICK m \in Nat : m = Len(s)
  BY LenProperties
<1>5. ASSUME s # << >>
      PROVE  /\ u # << >>
             /\ u[Len(u)] = s[Len(s)]
             /\ SubSeq(u, 1, Len(u) - 1) = o \o SubSeq(s, 1, Len(s) - 1)
             /\ Replace(u, l) = o \o Replace(s, l)
  <2>1. PICK k \in Nat : m = k + 1
    <3>1. m # 0
      BY <1>3, <1>5, EmptySeq
    <3>2. m - 1 \in Nat /\ m = (m - 1) + 1
      BY <3>1
    <3> QED
      BY <3>2
  <2>2. Len(u) = n + k + 1 /\ Len(u) - 1 = n + k /\ Len(s) = k + 1 /\ Len(s) - 1 = k
    BY <1>1, <1>2, <1>3, <2>1
  <2>3. u # << >>
    BY <1>1, <2>2, EmptySeq
  <2>4. u[Len(u)] = s[Len(s)]
    <3>1. k + 1 \in 1 .. Len(s) /\ n + (k + 1) = n + k + 1
      BY <2>2
    <3> QED
      BY <1>1, <1>2, <2>2, <3>1
  <2>5. SubSeq(u, 1, Len(u) - 1) = o \o SubSeq(s, 1, Len(s) - 1)
    <3> DEFINE a == SubSeq(s, 1, Len(s) - 1)
               b == SubSeq(u, 1, Len(u) - 1)
    <3>1. a \in Seq(S) /\ Len(a) = Len(s) - 1 /\ \A i \in 1 .. Len(s) - 1 : a[i] = s[i]
      BY <1>5, PopSeq
    <3>2. b \in Seq(S) /\ Len(b) = Len(u) - 1 /\ \A i \in 1 .. Len(u) - 1 : b[i] = u[i]
      BY <1>1, <2>3, PopSeq
    <3> HIDE DEF a, b
    <3>3. \A i \in 1 .. n : b[i] = o[i]
      <4> TAKE i \in 1 .. n
      <4>1. i \in 1 .. n + k
        OBVIOUS
      <4> QED
        BY <1>1, <1>2, <2>2, <3>2, <4>1
    <3>4. \A i \in 1 .. k : b[n + i] = a[i]
      <4> TAKE i \in 1 .. k
      <4>1. n + i \in 1 .. n + k /\ i \in 1 .. k + 1
        OBVIOUS
      <4> QED
        BY <1>1, <1>2, <2>2, <3>1, <3>2, <4>1
    <3>5. b = o \o a
      <4>1. Len(b) = Len(o) + Len(a)
        BY <1>2, <2>2, <3>1, <3>2
      <4>2. (\A i \in 1 .. Len(o) : b[i] = o[i]) /\ \A i \in 1 .. Len(a) : b[Len(o) + i] = a[i]
        BY <1>2, <2>2, <3>1, <3>3, <3>4
      <4> QED
        BY <3>1, <3>2, <4>1, <4>2, ConcatIs
    <3> QED
      BY <3>5 DEF a, b
  <2>6. Replace(u, l) = o \o Replace(s, l)
    <3> DEFINE a == Replace(s, l)
               b == Replace(u, l)
    <3>1. a \in Seq(S) /\ Len(a) = Len(s) /\ \A i \in 1 .. Len(s) : a[i] = IF i = Len(s) THEN l ELSE s[i]
      BY <1>5, ReplaceSeq
    <3>2. b \in Seq(S) /\ Len(b) = Len(u) /\ \A i \in 1 .. Len(u) : b[i] = IF i = Len(u) THEN l ELSE u[i]
      <4>1. u \in Seq(S) /\ u # << >>
        BY <1>1, <2>3
      <4> QED
        BY <4>1, ReplaceSeq
    <3> HIDE DEF a, b
    <3>3. \A i \in 1 .. n : b[i] = o[i]
      <4> TAKE i \in 1 .. n
      <4>1. i \in 1 .. n + k + 1 /\ i # n + k + 1
        OBVIOUS
      <4> QED
        BY <1>1, <1>2, <2>2, <3>2, <4>1
    <3>4. \A i \in 1 .. k + 1 : b[n + i] = a[i]
      <4> TAKE i \in 1 .. k + 1
      <4>1. n + i \in 1 .. n + k + 1 /\ (n + i = n + k + 1 <=> i = k + 1)
        OBVIOUS
      <4>2. u[n + i] = s[i]
        BY <1>1, <1>2, <2>2
      <4> QED
        BY <2>2, <3>1, <3>2, <4>1, <4>2
    <3>5. b = o \o a
      <4>1. Len(b) = Len(o) + Len(a)
        BY <1>2, <2>2, <3>1, <3>2
      <4>2. (\A i \in 1 .. Len(o) : b[i] = o[i]) /\ \A i \in 1 .. Len(a) : b[Len(o) + i] = a[i]
        BY <1>2, <2>2, <3>1, <3>3, <3>4
      <4> QED
        BY <3>1, <3>2, <4>1, <4>2, ConcatIs
    <3> QED
      BY <3>5 DEF a, b
  <2> QED
    BY <2>3, <2>4, <2>5, <2>6
<1> QED
  BY <1>5 DEF u

(* pop_back alone.                                                         *)
LEMMA ConcatPop ==
  ASSUME NEW S, NEW o \in Seq(S), NEW s \in Seq(S), s # << >>
  PROVE  /\ o \o s # << >>
         /\ (o \o s)[Len(o \o s)] = s[Len(s)]
         /\ SubSeq(o \o s, 1, Len(o \o s) - 1) = o \o SubSeq(s, 1, Len(s) - 1)
<1>1. s[Len(s)] \in S
  BY PopSeq
<1> DEFINE l == s[Len(s)]
<1>2. l \in S
  BY <1>1
<1> HIDE DEF l
<1>3. o \o s # << >>
  BY <1>2, ConcatEnd
<1>4. (o \o s)[Len(o \o s)] = s[Len(s)]
  BY <1>2, ConcatEnd
<1>5. SubSeq(o \o s, 1, Len(o \o s) - 1) = o \o SubSeq(s, 1, Len(s) - 1)
  BY <1>2, ConcatEnd
<1> QED
  BY <1>3, <1>4, <1>5

-----------------------------------------------------------------------------
(* One iteration of the validator, seen from the containers around it.     *)

(* The control point c is that of the validator, called inside o.          *)
Lifts(c, o) ==
  /\ c.in = in /\ c.strict = strict /\ c.entry = entry
  /\ c.p = pos /\ c.k = pc /\ c.s = o \o stack
  /\ pc = "chunk" => c.h = chunkOf

(* What Now says.                                                          *)
LEMMA NowLifts == ASSUME NEW o PROVE Lifts(Now(o), o)
  BY DEF Lifts, Now, Conf, Chunks, Here

(* The checks of a head do not see the containers around it.               *)
LEMMA LiftReads ==
  ASSUME IInv, NEW o \in Seq(Level), base = entry + Len(o), entry \in Nat, NEW c, Lifts(c, o)
  PROVE  /\ C(c)!AtEnd <=> AtEnd
         /\ C(c)!Tok = Tok
         /\ C(c)!NotShortest <=> NotShortest
         /\ C(c)!Full <=> Full
         /\ C(c)!BadUtf8 <=> BadUtf8
         /\ C(c)!Untagged <=> Untagged
         /\ C(c)!Empty <=> Empty
         /\ C(c)!NewLevel = NewLevel
         /\ pc = "chunk" => C(c)!ChunkError = ChunkError
<1>1. C(c)!Tok = Tok /\ (C(c)!AtEnd <=> AtEnd)
  BY DEF Lifts, Tok, AtEnd, C!Tok, C!AtEnd
<1>2. C(c)!NotShortest <=> NotShortest
  BY <1>1 DEF NotShortest, C!NotShortest
<1>3. C(c)!Full <=> Full
  <2>1. Len(c.s) = Len(o) + Len(stack) /\ Len(o) \in Nat /\ Len(stack) \in Nat
    BY ConcatElements DEF Lifts, IInv, TypeOK
  <2>2. depth = entry + Len(c.s)
    BY <2>1 DEF IInv, DepthAccounting
  <2> QED
    BY <2>2 DEF Full, C!Full, Lifts
<1>4. C(c)!BadUtf8 <=> BadUtf8
  BY <1>1 DEF BadUtf8, C!BadUtf8
<1>5. C(c)!Untagged <=> Untagged
  BY DEF Untagged, C!Untagged, Lifts
<1>6. C(c)!Empty <=> Empty
  BY <1>1 DEF Empty, C!Empty
<1>7. C(c)!NewLevel = NewLevel
  BY <1>1 DEF NewLevel, C!NewLevel, LevelCount, C!LevelCount, Doubled, C!Doubled, Nullopt, C!Nullopt, NoKey, C!NoKey
<1>8. pc = "chunk" => C(c)!ChunkError = ChunkError
  BY <1>1, <1>4 DEF ChunkError, C!ChunkError, Lifts
<1> QED
  BY <1>1, <1>2, <1>3, <1>4, <1>5, <1>6, <1>7, <1>8

(* The order of keys is that of their bytes, wherever they are compared.   *)
LEMMA SameOrder == ASSUME NEW c, NEW a, NEW b PROVE C(c)!EncodedLess(a, b) <=> EncodedLess(a, b)
<1>1. \A t : C(c)!MajorRank(t) = MajorRank(t)
  BY Zenon DEF MajorRank, C!MajorRank, MajorOrder, C!MajorOrder
<1>2. \A s, t : C(c)!TokenLess(s, t) <=> TokenLess(s, t)
  <2> TAKE s, t
  <2>1. C(c)!MajorRank(s) = MajorRank(s) /\ C(c)!MajorRank(t) = MajorRank(t)
    BY <1>1
  <2> QED
    BY <2>1 DEF TokenLess, C!TokenLess
<1> QED
  BY <1>2, Zenon DEF EncodedLess, C!EncodedLess

(* Inside a container of its own, the validator works on that one.         *)
LEMMA LiftStack ==
  ASSUME IInv, NEW o \in Seq(Level), NEW c, Lifts(c, o), stack # << >>
  PROVE  /\ c.s # << >>
         /\ C(c)!Pop = o \o Pop
         /\ C(c)!Marked = o \o Marked
         /\ C(c)!MayBreak <=> MayBreak
         /\ C(c)!OutOfOrder <=> OutOfOrder
         /\ C(c)!Counted.remaining = Counted.remaining
         /\ pc = "item_done" /\ Counted.remaining # 0 => Replace(c.s, C(c)!Counted) = o \o Replace(stack, Counted)
<1>1. stack \in Seq(Level) /\ c.s = o \o stack /\ Top \in Level
  BY PopSeq DEF IInv, TypeOK, Lifts, Top
<1>2. \A l \in Level : Replace(c.s, l) = o \o Replace(stack, l)
  BY <1>1, ConcatEnd
<1>3. c.s # << >> /\ C(c)!Top = Top /\ C(c)!Pop = o \o Pop
  <2>1. /\ o \o stack # << >>
        /\ (o \o stack)[Len(o \o stack)] = stack[Len(stack)]
        /\ SubSeq(o \o stack, 1, Len(o \o stack) - 1) = o \o SubSeq(stack, 1, Len(stack) - 1)
    BY <1>1, ConcatPop
  <2> QED
    BY <1>1, <2>1, Zenon DEF C!Top, C!Pop, Top, Pop
<1>4. C(c)!Marked = o \o Marked
  <2>1. CASE strict /\ Top.is_map /\ Top.key_next /\ Top.key_start = NoKey
    <3>1. C(c)!Marked = Replace(c.s, [Top EXCEPT !.key_start = pos])
      BY <1>3, <2>1 DEF C!Marked, Lifts, C!NoKey, NoKey, C!Replace, Replace
    <3>2. Marked = Replace(stack, [Top EXCEPT !.key_start = pos])
      BY <2>1 DEF Marked
    <3>3. [Top EXCEPT !.key_start = pos] \in Level
      <4>1. pos \in Nat
        BY DEF IInv, TypeOK
      <4> QED
        BY <1>1, <4>1 DEF Level
    <3> QED
      BY <1>2, <3>1, <3>2, <3>3
  <2>2. CASE ~(strict /\ Top.is_map /\ Top.key_next /\ Top.key_start = NoKey)
    BY <1>1, <1>3, <2>2 DEF C!Marked, Marked, Lifts, C!NoKey, NoKey
  <2> QED
    BY <2>1, <2>2
<1>5. C(c)!MayBreak <=> MayBreak
  BY <1>3 DEF MayBreak, C!MayBreak, C!Nullopt, Nullopt
<1>6. C(c)!KeyDone <=> KeyDone
  BY <1>3 DEF KeyDone, C!KeyDone, Lifts
<1>7. C(c)!OutOfOrder <=> OutOfOrder
  BY <1>3, <1>6, SameOrder DEF OutOfOrder, C!OutOfOrder, PreviousKey, C!PreviousKey, CurrentKey, C!CurrentKey, Lifts
<1>8. C(c)!Counted = Counted
  BY <1>3, <1>6 DEF Counted, C!Counted, Decrement, C!Decrement, C!Nullopt, Nullopt, C!NoKey, NoKey, Lifts
<1>9. ASSUME pc = "item_done", Counted.remaining # 0 PROVE Counted \in Level
  <2>1. Top \in GoodLevel(pos) /\ pos \in Nat
    BY PopSeq DEF IInv, TypeOK, Top
  <2>2. Started(Top)
    BY <1>1, <1>9, PopSeq DEF IInv, StartedTo, Top
  <2> QED
    BY <1>9, <2>1, <2>2, CountedGood DEF GoodLevel
<1> QED
  BY <1>2, <1>3, <1>4, <1>5, <1>7, <1>8, <1>9

(* The checks of a head, all together.                                     *)
LEMMA LiftHead ==
  ASSUME IInv, NEW o \in Seq(Level), base = entry + Len(o), entry \in Nat, NEW c, Lifts(c, o),
         stack = << >> => NoBreak(c)
  PROVE  C(c)!HeadError = HeadError
<1>1. /\ C(c)!AtEnd <=> AtEnd
      /\ C(c)!Tok = Tok
      /\ C(c)!NotShortest <=> NotShortest
      /\ C(c)!Full <=> Full
  BY LiftReads
<1>2. ~AtEnd /\ Tok.mt = "break" => (C(c)!MayBreak <=> MayBreak)
  <2>1. CASE stack # << >>
    BY <2>1, LiftStack
  <2>2. CASE stack = << >>
    BY <2>2 DEF NoBreak, Lifts, MayBreak, AtEnd, Tok, IInv, TypeOK
  <2> QED
    BY <2>1, <2>2
<1> QED
  BY <1>1, <1>2 DEF HeadError, C!HeadError, C!String, String, C!Container, Container, Lifts

(* The mark of a key, in the containers around it or in those inside.      *)
LEMMA LiftMarked ==
  ASSUME IInv, NEW o \in Seq(Level), NEW c, Lifts(c, o),
         NEW m, m = IF stack = << >> THEN C(c)!Marked ELSE o
  PROVE  C(c)!Marked = m \o Marked /\ m \in Seq(Level) /\ Marked \in Seq(Level)
<1>1. Marked \in Seq(Level)
  <2>1. Marked \in Seq(GoodLevel(pos))
    BY MarkedStack DEF IInv, TypeOK
  <2>2. GoodLevel(pos) \subseteq Level
    BY DEF GoodLevel
  <2> QED
    BY <2>1, <2>2, SeqMonotonic
<1>2. CASE stack # << >>
  BY <1>1, <1>2, LiftStack
<1>3. CASE stack = << >>
  <2>1. Marked = << >> /\ c.s = o
    BY <1>3, ConcatEmptySeq DEF Marked, Lifts
  <2>2. C(c)!Marked \in Seq(Level)
    <3>1. CASE o # << >> /\ C(c)!Marked = Replace(o, [o[Len(o)] EXCEPT !.key_start = pos])
      <4>1. o[Len(o)] \in Level
        BY <3>1, PopSeq
      <4>2. pos \in Nat
        BY DEF IInv, TypeOK
      <4>3. [o[Len(o)] EXCEPT !.key_start = pos] \in Level
        BY <4>1, <4>2 DEF Level
      <4> QED
        BY <3>1, <4>3, ReplaceSeq
    <3>2. CASE C(c)!Marked = o
      BY <3>2
    <3> QED
      BY <2>1, <3>1, <3>2 DEF C!Marked, C!Top, C!Replace, Replace, Lifts
  <2>3. m = C(c)!Marked
    BY <1>3
  <2> QED
    BY <2>1, <2>2, <2>3, ConcatEmptySeq
<1> QED
  BY <1>2, <1>3

(* An iteration that goes on.                                              *)
LEMMA LiftGoes ==
  ASSUME IInv, NEW o \in Seq(Level), base = entry + Len(o), entry \in Nat, NEW c, c = Now(o),
         pc = "item" /\ stack = << >> => NoBreak(c),
         NEW m, m = IF pc = "item" /\ stack = << >> THEN C(c)!Marked ELSE o,
         Next, pc' \in {"item", "chunk", "item_done"}, Here' = Here
  PROVE  Goes(c) /\ After(c) = Now(m)' /\ ~Exits(c, Len(o))
<1>1. Lifts(c, o)
  BY NowLifts
<1>2. /\ c.in = in /\ c.p = pos /\ c.k = pc /\ c.s = o \o stack
      /\ pc = "chunk" => c.h = chunkOf
  BY <1>1 DEF Lifts
<1>3. /\ C(c)!Tok = Tok
      /\ C(c)!BadUtf8 <=> BadUtf8
      /\ C(c)!Untagged <=> Untagged
      /\ C(c)!Empty <=> Empty
      /\ C(c)!NewLevel = NewLevel
      /\ pc = "chunk" => C(c)!ChunkError = ChunkError
  BY <1>1, LiftReads
<1>5. \A p, k, s, h : Conf(c, p, k, s) = Conf(Here, p, k, s) /\ Chunks(c, p, s, h) = Chunks(Here, p, s, h)
  BY <1>1 DEF Conf, Chunks, Here, Lifts
<1>6. /\ pc' = "chunk" => Now(m)' = Chunks(Here, pos', m \o stack', chunkOf')
      /\ pc' # "chunk" => Now(m)' = Conf(Here, pos', pc', m \o stack')
  BY DEF Now
<1>7. CASE pc = "item"
  <2>1. C(c)!HeadError = HeadError
    BY <1>1, <1>7, LiftHead
  <2>2. C(c)!Marked = m \o Marked /\ m \in Seq(Level) /\ Marked \in Seq(Level)
    BY <1>1, <1>7, LiftMarked
  <2>3. ~Over(c) /\ ~Exits(c, Len(o))
    BY <1>2, <1>7 DEF Over, Exits
  <2>4. HeadError = "none" /\ Fault(c) = IF Tok.mt = "tag" /\ Untagged
                                         THEN IF pos + 1 = Len(in) THEN "truncated" ELSE "malformed_item"
                                         ELSE IF Tok.mt \in String /\ ~Tok.indefinite /\ BadUtf8 THEN "invalid_utf8"
                                         ELSE "none"
    <3>1. HeadError = "none"
      BY <1>7 DEF Next, BadHead, Break, Scalar, Tag, BadTag, DefiniteString, BadText, IndefiniteString,
         Chunk, BadChunk, Open, OpenEmpty, Return, ItemDone, Close, BadKeyOrder, Accepts, Fail
    <3> QED
      BY <1>2, <1>3, <1>7, <2>1, <3>1 DEF Fault
  <2>5. After(c) = AfterHead(c, Tok)
    BY <1>2, <1>3, <1>7 DEF After
  <2>6. CASE Break
    <3>1. stack # << >> /\ Tok.mt = "break" /\ pos' = pos + 1 /\ pc' = "item_done" /\ stack' = Pop
      BY <2>6 DEF Break, Accepts, HeadError, MayBreak, Advance
    <3>2. C(c)!Pop = o \o Pop /\ m = o
      BY <1>1, <3>1, LiftStack
    <3>3. Fault(c) = "none"
      BY <2>4, <3>1 DEF String
    <3>4. AfterHead(c, Tok) = Conf(c, pos + 1, "item_done", C(c)!Pop)
      BY <1>2, <3>1 DEF AfterHead
    <3>5. Now(m)' = Conf(Here, pos + 1, "item_done", o \o Pop)
      BY <1>6, <3>1, <3>2
    <3> QED
      BY <1>5, <2>3, <2>5, <3>2, <3>3, <3>4, <3>5, Zenon DEF Goes
  <2>7. CASE Scalar
    <3>1. Tok.mt \in {"uint", "nint", "simple"} /\ pos' = pos + 1 /\ pc' = "item_done" /\ stack' = Marked
      BY <2>7 DEF Scalar, Accepts, Advance
    <3>2. Fault(c) = "none"
      BY <2>4, <3>1 DEF String, Container
    <3>3. AfterHead(c, Tok) = Conf(c, pos + 1, "item_done", C(c)!Marked)
      BY <1>2, <1>3, <3>1 DEF AfterHead, String, Container
    <3>4. Now(m)' = Conf(Here, pos + 1, "item_done", m \o Marked)
      BY <1>6, <3>1
    <3> QED
      BY <1>5, <2>2, <2>3, <2>5, <3>2, <3>3, <3>4, Zenon DEF Goes
  <2>8. CASE Tag
    <3>1. Tok.mt = "tag" /\ ~Untagged /\ pos' = pos + 1 /\ pc' = "item" /\ stack' = Marked
      BY <2>8 DEF Tag, Accepts, Advance
    <3>2. Fault(c) = "none"
      BY <2>4, <3>1 DEF String, Container
    <3>3. AfterHead(c, Tok) = Conf(c, pos + 1, "item", C(c)!Marked)
      BY <1>2, <1>3, <3>1 DEF AfterHead, String, Container
    <3>4. Now(m)' = Conf(Here, pos + 1, "item", m \o Marked)
      BY <1>6, <3>1
    <3> QED
      BY <1>5, <2>2, <2>3, <2>5, <3>2, <3>3, <3>4, Zenon DEF Goes
  <2>9. CASE DefiniteString
    <3>1. /\ Tok.mt \in String /\ ~Tok.indefinite /\ ~BadUtf8
          /\ pos' = pos + 1 /\ pc' = "item_done" /\ stack' = Marked
      BY <2>9 DEF DefiniteString, Accepts, Advance
    <3>2. Fault(c) = "none"
      BY <2>4, <3>1 DEF String, Container
    <3>3. AfterHead(c, Tok) = Conf(c, pos + 1, "item_done", C(c)!Marked)
      BY <1>2, <1>3, <3>1 DEF AfterHead, String, Container
    <3>4. Now(m)' = Conf(Here, pos + 1, "item_done", m \o Marked)
      BY <1>6, <3>1
    <3> QED
      BY <1>5, <2>2, <2>3, <2>5, <3>2, <3>3, <3>4, Zenon DEF Goes
  <2>10. CASE IndefiniteString
    <3>1. /\ Tok.mt \in String /\ Tok.indefinite
          /\ pos' = pos + 1 /\ pc' = "chunk" /\ stack' = Marked /\ chunkOf' = Tok.mt
      BY <2>10 DEF IndefiniteString, Accepts, Advance
    <3>2. Fault(c) = "none"
      BY <2>4, <3>1 DEF String, Container
    <3>3. AfterHead(c, Tok) = Chunks(c, pos + 1, C(c)!Marked, Tok.mt)
      BY <1>2, <1>3, <3>1 DEF AfterHead, String, Container
    <3>4. Now(m)' = Chunks(Here, pos + 1, m \o Marked, Tok.mt)
      BY <1>6, <3>1
    <3> QED
      BY <1>5, <2>2, <2>3, <2>5, <3>2, <3>3, <3>4, Zenon DEF Goes
  <2>11. CASE Open
    <3>1. /\ Tok.mt \in Container /\ ~Empty /\ pos' = pos + 1 /\ pc' = "item"
          /\ stack' = Append(Marked, NewLevel)
      BY <2>11 DEF Open, Accepts, Advance
    <3>2. NewLevel \in Level
      <4>1. Tok \in Token
        BY <2>11, AcceptsAhead, TokenAhead DEF Open, IInv
      <4>2. pos \in Nat
        BY DEF IInv, TypeOK
      <4> QED
        BY <3>1, <4>1, <4>2, NewLevelGood DEF GoodLevel
    <3>3. Append(m \o Marked, NewLevel) = m \o Append(Marked, NewLevel)
      <4> DEFINE l == NewLevel
                 k == Marked
      <4>1. l \in Level /\ k \in Seq(Level) /\ m \in Seq(Level)
        BY <2>2, <3>2
      <4> HIDE DEF l, k
      <4>2. PICK r : r = Append(k, l)
        OBVIOUS
      <4>3. Append(m \o k, l) = m \o r
        BY ONLY <4>1, <4>2, ConcatAppend
      <4> QED
        BY <4>2, <4>3, Zenon DEF l, k
    <3>4. Fault(c) = "none"
      BY <2>4, <3>1 DEF String, Container
    <3>5. AfterHead(c, Tok) = Conf(c, pos + 1, "item", Append(C(c)!Marked, C(c)!NewLevel))
      BY <1>2, <1>3, <3>1 DEF AfterHead, String, Container
    <3>6. Now(m)' = Conf(Here, pos + 1, "item", m \o Append(Marked, NewLevel))
      BY <1>6, <3>1
    <3>7. Append(C(c)!Marked, C(c)!NewLevel) = m \o Append(Marked, NewLevel)
      BY <1>3, <2>2, <3>3
    <3> QED
      BY <1>5, <2>3, <2>5, <3>4, <3>5, <3>6, <3>7, Zenon DEF Goes
  <2>12. CASE OpenEmpty
    <3>1. Tok.mt \in Container /\ Empty /\ pos' = pos + 1 /\ pc' = "item_done" /\ stack' = Marked
      BY <2>12 DEF OpenEmpty, Accepts, Advance
    <3>2. Fault(c) = "none"
      BY <2>4, <3>1 DEF String, Container
    <3>3. AfterHead(c, Tok) = Conf(c, pos + 1, "item_done", C(c)!Marked)
      BY <1>2, <1>3, <3>1 DEF AfterHead, String, Container
    <3>4. Now(m)' = Conf(Here, pos + 1, "item_done", m \o Marked)
      BY <1>6, <3>1
    <3> QED
      BY <1>5, <2>2, <2>3, <2>5, <3>2, <3>3, <3>4, Zenon DEF Goes
  <2> QED
    BY <1>7, <2>6, <2>7, <2>8, <2>9, <2>10, <2>11, <2>12 DEF Next, BadHead, BadTag, BadText, Chunk, BadChunk,
       Return, ItemDone, Close, BadKeyOrder, Fail
<1>8. CASE pc = "chunk"
  <2>1. Chunk
    BY <1>8 DEF Next, BadHead, Break, Scalar, Tag, BadTag, DefiniteString, BadText, IndefiniteString,
       BadChunk, Open, OpenEmpty, Return, ItemDone, Close, BadKeyOrder, Accepts, Fail
  <2>2. /\ ChunkError = "none" /\ pos' = pos + 1 /\ pc' = (IF Tok.mt = "break" THEN "item_done" ELSE "chunk")
        /\ stack' = stack /\ chunkOf' = chunkOf
    BY <2>1 DEF Chunk, Advance
  <2> QED
    BY <1>2, <1>3, <1>5, <1>6, <1>8, <2>2 DEF After, Goes, Over, Fault, Exits
<1>9. CASE pc = "item_done"
  <2>1. CASE ItemDone \/ Close
    <3>1. /\ stack # << >> /\ ~OutOfOrder /\ pos' = pos
          /\ pc' = (IF Counted.remaining = 0 THEN "item_done" ELSE "item")
          /\ stack' = IF Counted.remaining = 0 THEN Pop ELSE Replace(stack, Counted)
      BY <2>1 DEF ItemDone, Close, Advance, IInv, TypeOK
    <3>2. /\ c.s # << >>
          /\ C(c)!Pop = o \o Pop
          /\ C(c)!OutOfOrder <=> OutOfOrder
          /\ C(c)!Counted.remaining = Counted.remaining
          /\ Counted.remaining # 0 => Replace(c.s, C(c)!Counted) = o \o Replace(stack, Counted)
      BY <1>1, <1>9, <3>1, LiftStack
    <3>3. ~Exits(c, Len(o))
      <4>1. Len(c.s) = Len(o) + Len(stack) /\ Len(o) \in Nat
        BY <1>2, ConcatElements DEF IInv, TypeOK
      <4>2. Len(stack) \in Nat \ {0}
        BY <3>1, PopSeq DEF IInv, TypeOK
      <4> QED
        BY <4>1, <4>2 DEF Exits
    <3>4. m = o
      BY <1>9
    <3>5. Goes(c)
      BY <1>2, <1>9, <3>1, <3>2 DEF Goes, Over, Fault
    <3>6. After(c) = IF Counted.remaining = 0 THEN Conf(c, pos, "item_done", o \o Pop)
                     ELSE Conf(c, pos, "item", o \o Replace(stack, Counted))
      BY <1>2, <1>9, <3>2 DEF After
    <3>7. Now(m)' = IF Counted.remaining = 0 THEN Conf(Here, pos, "item_done", o \o Pop)
                    ELSE Conf(Here, pos, "item", o \o Replace(stack, Counted))
      BY <1>6, <3>1, <3>4
    <3> QED
      BY <1>5, <3>3, <3>5, <3>6, <3>7
  <2> QED
    BY <1>9, <2>1 DEF Next, BadHead, Break, Scalar, Tag, BadTag, DefiniteString, BadText, IndefiniteString,
       Chunk, BadChunk, Open, OpenEmpty, Return, BadKeyOrder, Accepts, Fail, Advance
<1> QED
  <2>1. pc \in {"item", "chunk", "item_done"}
    BY DEF Next, BadHead, Break, Scalar, Tag, BadTag, DefiniteString, BadText, IndefiniteString,
       Chunk, BadChunk, Open, OpenEmpty, Return, ItemDone, Close, BadKeyOrder, Accepts
  <2> QED
    BY <1>7, <1>8, <1>9, <2>1

(* An iteration that returns an error.                                     *)
LEMMA LiftFails ==
  ASSUME IInv, NEW o \in Seq(Level), base = entry + Len(o), entry \in Nat, NEW c, c = Now(o),
         pc = "item" /\ stack = << >> => NoBreak(c),
         Next, pc' = "fail"
  PROVE  Fault(c) = err' /\ err' # "none" /\ ~Over(c) /\ ~Exits(c, Len(o))
<1>1. Lifts(c, o)
  BY NowLifts
<1>2. /\ c.in = in /\ c.p = pos /\ c.k = pc /\ c.s = o \o stack
      /\ pc = "chunk" => c.h = chunkOf
  BY <1>1 DEF Lifts
<1>3. /\ C(c)!Tok = Tok
      /\ C(c)!BadUtf8 <=> BadUtf8
      /\ C(c)!Untagged <=> Untagged
      /\ pc = "chunk" => C(c)!ChunkError = ChunkError
  BY <1>1, LiftReads
<1>4. CASE BadHead \/ BadTag \/ BadText
  <2>1. pc = "item"
    BY <1>4 DEF BadHead, BadTag, BadText, Accepts
  <2>2. C(c)!HeadError = HeadError
    BY <1>1, <2>1, LiftHead
  <2>3. ~Over(c) /\ ~Exits(c, Len(o))
    BY <1>2, <2>1 DEF Over, Exits
  <2>4. Fault(c) = err' /\ err' # "none"
    BY <1>2, <1>3, <1>4, <2>1, <2>2 DEF Fault, BadHead, BadTag, BadText, Accepts, Fail, String
  <2> QED
    BY <2>3, <2>4
<1>5. CASE BadChunk
  BY <1>2, <1>3, <1>5 DEF BadChunk, Fail, Fault, Over, Exits
<1>6. CASE BadKeyOrder
  <2>1. pc = "item_done" /\ stack # << >> /\ OutOfOrder /\ err' = "non_deterministic"
    BY <1>6 DEF BadKeyOrder, Fail
  <2>2. c.s # << >>
    BY <1>1, <2>1, LiftStack
  <2>3. C(c)!OutOfOrder
    BY <1>1, <2>1, LiftStack
  <2>4. ~Exits(c, Len(o))
    <3>1. Len(c.s) = Len(o) + Len(stack) /\ Len(o) \in Nat
      BY <1>2, ConcatElements DEF IInv, TypeOK
    <3>2. Len(stack) \in Nat \ {0}
      BY <2>1, PopSeq DEF IInv, TypeOK
    <3> QED
      BY <3>1, <3>2 DEF Exits
  <2> QED
    BY <1>2, <2>1, <2>2, <2>3, <2>4 DEF Fault, Over
<1> QED
  BY <1>4, <1>5, <1>6 DEF Next, Break, Scalar, Tag, DefiniteString, IndefiniteString,
     Chunk, Open, OpenEmpty, Return, ItemDone, Close, Advance

(* The call that succeeds.                                                 *)
LEMMA LiftEnds ==
  ASSUME Next, pc' = "ok"
  PROVE  /\ pc = "item_done" /\ stack = << >>
         /\ pos' = pos + 0 /\ UNCHANGED << depth, stack, err >>
<1>1. Return
  BY DEF Next, BadHead, Break, Scalar, Tag, BadTag, DefiniteString, BadText, IndefiniteString,
     Chunk, BadChunk, Open, OpenEmpty, ItemDone, Close, BadKeyOrder, Advance, Fail
<1> QED
  BY <1>1 DEF Return, Advance

(* The controls between which the loop moves.                              *)
LEMMA NextControls ==
  ASSUME Next
  PROVE  /\ pc \in {"item", "chunk", "item_done"} /\ pc' \in Controls
         /\ UNCHANGED << in, strict, base >>
         /\ pc' \in {"item", "chunk", "item_done"} => err' = err
<1>1. pc \in {"item", "chunk", "item_done"}
  BY DEF Next, BadHead, Break, Scalar, Tag, BadTag, DefiniteString, BadText, IndefiniteString,
     Chunk, BadChunk, Open, OpenEmpty, Return, ItemDone, Close, BadKeyOrder, Accepts
<1> QED
  BY <1>1 DEF Next, BadHead, Break, Scalar, Tag, BadTag, DefiniteString, BadText, IndefiniteString,
     Chunk, BadChunk, Open, OpenEmpty, Return, ItemDone, Close, BadKeyOrder, Accepts, Advance, Fail, Controls

(* Skip in the first phase: the whole item.                                *)
LEMMA SkipAgree ==
  ASSUME ReaderInv, AgreeInv, Skip, phase = "skip", ~Wide, ~LongTag
  PROVE  /\ pc' \in {"item", "chunk", "item_done"} => err' = "none" /\ Path(Begin, Now(<< >>), 0)'
         /\ pc' \in {"ok", "fail"} => Leads(Begin, Verdict(err, pos, depth))'
<1>1. /\ IInv /\ base = entry /\ entry \in Nat /\ Next /\ UNCHANGED << in, strict, entry >>
      /\ pc \in {"item", "chunk", "item_done"} /\ pc' \in Controls
  BY NextControls DEF ReaderInv, ReaderTypeOK, Skip, caller
<1>2. err = "none" /\ Path(Begin, Now(<< >>), 0)
  BY <1>1 DEF AgreeInv
<1>3. Here' = Here /\ Begin' = Begin
  BY <1>1 DEF Here, Begin
<1>4. PICK c : c = Now(<< >>)
  OBVIOUS
<1>5. Len(<< >>) = 0 /\ << >> \in Seq(Level)
  BY EmptySeq
<1>6. base = entry + Len(<< >>)
  BY <1>1, <1>5
<1>7. Lifts(c, << >>) /\ c.s = stack
  BY <1>1, <1>4, NowLifts, ConcatEmptySeq DEF Lifts, IInv, TypeOK
<1>8. stack = << >> => NoBreak(c) /\ C(c)!Marked = << >>
  BY <1>7 DEF NoBreak, C!MayBreak, C!Marked
<1>9. CASE pc' \in {"item", "chunk", "item_done"}
  <2>1. err' = "none"
    BY <1>1, <1>2, <1>9, NextControls
  <2>2. Goes(c) /\ After(c) = Now(<< >>)' /\ ~Exits(c, 0)
    BY <1>1, <1>3, <1>4, <1>5, <1>6, <1>8, <1>9, LiftGoes DEF Exits
  <2>3. Path(Begin, After(c), 0)
    BY <1>2, <1>4, <2>2, PathStep
  <2> QED
    BY <1>3, <1>9, <2>1, <2>2, <2>3
<1>10. CASE pc' = "fail"
  <2>1. Fault(c) = err' /\ err' # "none" /\ ~Over(c)
    BY <1>1, <1>4, <1>5, <1>6, <1>8, <1>10, LiftFails
  <2>2. \A p, d : Stops(c, Verdict(err', p, d))
    BY <2>1 DEF Stops, Verdict
  <2>3. Leads(Begin, Verdict(err', pos', depth'))
    BY <1>2, <1>4, <2>2, PathLeads
  <2> QED
    BY <1>3, <1>10, <2>3 DEF Verdict
<1>11. CASE pc' = "ok"
  <2>1. pc = "item_done" /\ stack = << >> /\ UNCHANGED << pos, depth, stack, err >>
    BY <1>1, <1>11, LiftEnds DEF IInv, TypeOK
  <2>2. Over(c) /\ c.p = pos /\ c.entry = entry
    BY <1>7, <2>1 DEF Over, Lifts
  <2>3. depth = entry
    BY <1>1, <1>5, <2>1 DEF IInv, DepthAccounting
  <2>4. Stops(c, Verdict("none", pos, depth))
    BY <2>2, <2>3 DEF Stops
  <2>5. Leads(Begin, Verdict("none", pos, depth))
    BY <1>2, <1>4, <2>4, PathLeads
  <2> QED
    BY <1>2, <1>3, <1>11, <2>1, <2>5 DEF Verdict
<1> QED
  BY <1>1, <1>9, <1>10, <1>11 DEF Controls

(* The mark of a key changes nothing else.                                 *)
LEMMA MarkedAtIs ==
  ASSUME NEW s \in Seq(Level), s # << >>, NEW q \in Nat
  PROVE  /\ MarkedAt(s, q) \in Seq(Level) /\ MarkedAt(s, q) # << >> /\ Len(MarkedAt(s, q)) = Len(s)
         /\ Len(s) \in Nat \ {0}
         /\ MarkedAt(s, q)[Len(s)].key_start = q
         /\ \A i \in 1 .. Len(s) - 1 : MarkedAt(s, q)[i] = s[i]
         /\ MarkedAt(s, q)[Len(s)].prev = s[Len(s)].prev
         /\ MarkedAt(s, q)[Len(s)].remaining = s[Len(s)].remaining
         /\ MarkedAt(s, q)[Len(s)].is_map <=> s[Len(s)].is_map
         /\ MarkedAt(s, q)[Len(s)].key_next <=> s[Len(s)].key_next
<1> DEFINE t == s[Len(s)]
           l == [s[Len(s)] EXCEPT !.key_start = q]
           r == MarkedAt(s, q)
<1>1. Len(s) \in Nat \ {0} /\ t \in Level
  BY PopSeq
<1>2. /\ l \in Level /\ l.key_start = q /\ l.prev = t.prev /\ l.remaining = t.remaining
      /\ l.is_map = t.is_map /\ l.key_next = t.key_next
  BY <1>1 DEF Level
<1>3. r = Replace(s, l)
  BY DEF MarkedAt
<1> HIDE DEF l, r, t
<1>4. r \in Seq(Level) /\ Len(r) = Len(s)
  BY <1>2, <1>3, ReplaceSeq
<1>5. \A i \in 1 .. Len(s) : r[i] = IF i = Len(s) THEN l ELSE s[i]
  <2>1. \A i \in 1 .. Len(s) : Replace(s, l)[i] = IF i = Len(s) THEN l ELSE s[i]
    BY <1>2, ReplaceSeq
  <2> QED
    BY <1>3, <2>1
<1>6. r # << >>
  BY <1>1, <1>4, EmptySeq
<1>7. r[Len(s)] = l
  BY <1>1, <1>5
<1>8. \A i \in 1 .. Len(s) - 1 : r[i] = s[i]
  <2> TAKE i \in 1 .. Len(s) - 1
  <2>1. i \in 1 .. Len(s) /\ i # Len(s)
    BY <1>1
  <2> QED
    BY <1>5, <2>1
<1> QED
  BY <1>1, <1>2, <1>4, <1>6, <1>7, <1>8 DEF t, r

(* Back at the items of the outermost container of the call, the loop has  *)
(* passed a tag; a break does not follow it.                               *)
LEMMA TagAhead ==
  ASSUME IInv, Next, pc' = "item", stack' = << >>
  PROVE  pos' < Len(in) /\ in[pos' + 1].mt # "break"
<1>1. CASE Tag
  <2>1. pos' = pos + 1 /\ ~(pos + 1 < Len(in) => in[pos + 2].mt = "break") /\ pos \in Nat
    BY <1>1 DEF Tag, Advance, Untagged, IInv, TypeOK
  <2>2. pos' + 1 = pos + 2
    BY <2>1
  <2> QED
    BY <2>1, <2>2
<1>2. CASE Open
  <2>1. stack' = Append(Marked, NewLevel) /\ Len(Marked) \in Nat /\ Marked \in Seq(GoodLevel(pos))
    BY <1>2, MarkedStack, LenProperties DEF Open, IInv, TypeOK
  <2>2. NewLevel \in GoodLevel(pos)
    <3>1. pos \in Nat /\ ~Empty /\ ~AtEnd /\ Tok.mt \in Container /\ TypeOK
      BY <1>2, AcceptsAhead DEF Open, IInv, TypeOK
    <3> QED
      BY <3>1, TokenAhead, NewLevelGood
  <2> DEFINE l == NewLevel
             k == Marked
             S == GoodLevel(pos)
  <2>3. k \in Seq(S) /\ l \in S /\ Append(k, l) = << >>
    BY <2>1, <2>2
  <2> HIDE DEF l, k, S
  <2> QED
    BY <2>3, AppendProperties
<1>3. CASE ItemDone
  <2>1. stack' = Replace(stack, Counted) /\ stack # << >> /\ stack \in Seq(Level)
    BY <1>3 DEF ItemDone, IInv, TypeOK
  <2>2. DOMAIN Replace(stack, Counted) = DOMAIN stack
    BY DEF Replace
  <2>3. DOMAIN stack = 1 .. Len(stack) /\ Len(stack) \in Nat \ {0}
    BY <2>1, PopSeq, LenProperties
  <2>4. DOMAIN << >> = {}
    OBVIOUS
  <2> QED
    BY <2>1, <2>2, <2>3, <2>4
<1> QED
  BY <1>1, <1>2, <1>3 DEF Next, BadHead, Break, Scalar, BadTag, DefiniteString, BadText, IndefiniteString,
     Chunk, BadChunk, OpenEmpty, Return, Close, BadKeyOrder, Advance, Fail

(* Skip inside a key.                                                      *)
LEMMA SkipKeyAgree ==
  ASSUME ReaderInv, AgreeInv, Skip, phase = "key", ~Wide, ~LongTag
  PROVE  (strict /\ Cur.is_map /\ Cur.key /\ \E s : KeyLook(s, Restored(saved)[1]))'
<1>1. /\ IInv /\ base = entry + Len(cursors) /\ entry \in Nat /\ Next
      /\ UNCHANGED << in, strict, entry, cursors, saved, skipped >>
      /\ pc \in {"item", "chunk", "item_done"} /\ pc' \in Controls
      /\ cursors # << >> /\ cursors \in Seq(Cursor)
  BY NextControls DEF ReaderInv, ReaderTypeOK, Skip, caller
<1>q. PICK q : q = Restored(saved)[1]
  OBVIOUS
<1>n. PICK n : n = Len(cursors)
  OBVIOUS
<1>2. PICK s : KeyLook(s, q)
  BY <1>q DEF AgreeInv
<1>3. strict /\ Cur.is_map /\ Cur.key
  BY DEF AgreeInv
<1>4. Here' = Here /\ q = Restored(saved)[1]' /\ n = Len(cursors)' /\ Cur' = Cur
  BY <1>1, <1>q, <1>n DEF Here, Restored, Cur
<1>c. PICK c0 : c0 = Conf(Here, q, "item", s)
  OBVIOUS
<1>r. PICK r : r = MarkedAt(s, q)
  OBVIOUS
<1>5. /\ Tracks(c0, Outer(cursors), skipped) /\ Len(s) = n /\ NoBreak(c0)
      /\ Held(s[n], Cur) /\ s[n].key_start = NoKey /\ s[n].prev = Cur.prev
  BY <1>2, <1>n, <1>c DEF KeyLook
<1>6. q \in Nat /\ s \in Seq(Level) /\ n \in Nat \ {0} /\ s # << >>
  <2>1. c0.p = q /\ c0.s = s /\ c0.in = in
    BY <1>c DEF Conf, Here
  <2>2. q \in 0 .. Len(in) /\ s \in Seq(Level)
    BY <1>5, <2>1 DEF Tracks
  <2>3. n \in Nat \ {0}
    BY <1>1, <1>n, PopSeq
  <2>4. s # << >>
    BY <1>5, <2>2, <2>3, EmptySeq
  <2> QED
    BY <2>2, <2>3, <2>4
<1>7. PICK o : /\ o = r \/ (o = s /\ pc = "item" /\ stack = << >> /\ pos = q)
               /\ Path(c0, Now(o), n) /\ Leads(Now(o), skipped)
               /\ pc = "item" /\ stack = << >> => NoBreak(Now(o))
  BY <1>1, <1>2, <1>n, <1>c, <1>r DEF KeyLook
<1>8. r \in Seq(Level) /\ r # << >> /\ Len(r) = n /\ r[n].key_start = q
  BY <1>5, <1>6, <1>r, MarkedAtIs
<1>9. PICK c : c = Now(o)
  OBVIOUS
<1>10. o \in Seq(Level) /\ Len(o) = n /\ base = entry + Len(o)
  BY <1>1, <1>5, <1>6, <1>7, <1>8, <1>n
<1>11. Lifts(c, o)
  BY <1>9, NowLifts
<1>12. PICK m : m = IF pc = "item" /\ stack = << >> THEN C(c)!Marked ELSE o
  OBVIOUS
<1>13. m = r
  <2>1. CASE pc = "item" /\ stack = << >>
    <3>1. c.s = o /\ c.p = pos /\ c.strict
      BY <1>3, <1>10, <1>11, <2>1, ConcatEmptySeq DEF Lifts
    <3>2. CASE o = s /\ pos = q
      <4>1. s[n].is_map /\ s[n].key_next
        BY <1>3, <1>5 DEF Held
      <4>2. C(c)!Top = s[Len(s)] /\ Len(s) = n
        BY <1>5, <3>1, <3>2 DEF C!Top
      <4> QED
        BY <1>5, <1>6, <1>12, <1>r, <2>1, <3>1, <3>2, <4>1, <4>2
           DEF C!Marked, C!NoKey, NoKey, C!Replace, Replace, MarkedAt
    <3>3. CASE o = r
      <4>1. C(c)!Top.key_start = q
        BY <1>8, <3>1, <3>3 DEF C!Top
      <4> QED
        BY <1>6, <1>12, <2>1, <3>1, <3>3, <4>1 DEF C!Marked, C!NoKey
    <3> QED
      BY <1>7, <3>2, <3>3
  <2>2. CASE ~(pc = "item" /\ stack = << >>)
    BY <1>7, <1>12, <2>2
  <2> QED
    BY <2>1, <2>2
<1>14. pc' \in {"item", "chunk", "item_done"} =>
         /\ Path(c0, Now(m)', n) /\ Leads(Now(m)', skipped)
         /\ pc' = "item" /\ stack' = << >> => NoBreak(Now(m))'
  <2> SUFFICES ASSUME pc' \in {"item", "chunk", "item_done"}
               PROVE  /\ Path(c0, Now(m)', n) /\ Leads(Now(m)', skipped)
                      /\ pc' = "item" /\ stack' = << >> => NoBreak(Now(m))'
    OBVIOUS
  <2>1. Goes(c) /\ After(c) = Now(m)' /\ ~Exits(c, n)
    BY <1>1, <1>4, <1>7, <1>9, <1>10, <1>12, LiftGoes
  <2>3. Path(c0, After(c), n)
    BY <1>7, <1>9, <2>1, PathStep
  <2>4. Leads(After(c), skipped)
    BY <1>7, <1>9, <2>1, LeadsStep
  <2>5. ASSUME pc' = "item", stack' = << >> PROVE NoBreak(Now(m))'
    <3>1. pos' < Len(in) /\ in[pos' + 1].mt # "break"
      BY <1>1, <2>5, TagAhead
    <3>2. Now(m).p' = pos' /\ Now(m).in' = in
      BY <1>4, <2>5 DEF Now, Conf, Here
    <3> QED
      BY <3>1, <3>2 DEF NoBreak
  <2> QED
    BY <2>1, <2>3, <2>4, <2>5
<1>15. pc' = "ok" => LET e == Conf(Here, pos', "item_done", r) IN Path(c0, e, n) /\ Leads(e, skipped)
  <2> SUFFICES ASSUME pc' = "ok"
               PROVE  Path(c0, Conf(Here, pos', "item_done", r), n) /\ Leads(Conf(Here, pos', "item_done", r), skipped)
    OBVIOUS
  <2>1. pc = "item_done" /\ stack = << >> /\ pos' = pos
    BY <1>1, LiftEnds DEF IInv, TypeOK
  <2>2. Now(o) = Conf(Here, pos, "item_done", r)
    BY <1>7, <1>8, <2>1, ConcatEmptySeq DEF Now
  <2> QED
    BY <1>7, <2>1, <2>2
<1>16. pc' = "fail" => \A k : Clean(c0, n, k)
  <2> SUFFICES ASSUME pc' = "fail", NEW k PROVE Clean(c0, n, k)
    OBVIOUS
  <2>1. Fault(c) # "none" /\ ~Exits(c, n)
    BY <1>1, <1>7, <1>9, <1>10, LiftFails
  <2> QED
    BY <1>7, <1>9, <2>1, PathFails
<1>17. KeyLook(s, q)'
  <2>1. Conf(Here, q, "item", s)' = c0 /\ MarkedAt(s, q)' = m
    BY <1>4, <1>13, <1>c, <1>r
  <2>2. Outer(cursors)' = Outer(cursors)
    BY <1>1
  <2>3. (pc \in {"item", "chunk", "item_done"} =>
           \E o1 : /\ o1 = MarkedAt(s, q) \/ (o1 = s /\ pc = "item" /\ stack = << >> /\ pos = q)
                   /\ Path(Conf(Here, q, "item", s), Now(o1), Len(cursors)) /\ Leads(Now(o1), skipped)
                   /\ pc = "item" /\ stack = << >> => NoBreak(Now(o1)))'
    BY <1>1, <1>4, <1>14, <2>1
  <2>4. (pc = "ok" => LET e == Conf(Here, pos, "item_done", MarkedAt(s, q))
                      IN  Path(Conf(Here, q, "item", s), e, Len(cursors)) /\ Leads(e, skipped))'
    BY <1>1, <1>4, <1>13, <1>15, <2>1
  <2>5. (pc = "fail" => \A k : Clean(Conf(Here, q, "item", s), Len(cursors), k))'
    BY <1>4, <1>16, <2>1
  <2> QED
    BY <1>1, <1>4, <1>5, <2>1, <2>2, <2>3, <2>4, <2>5 DEF KeyLook
<1> QED
  BY <1>1, <1>3, <1>4, <1>17

-----------------------------------------------------------------------------
(* The walk follows.                                                       *)

(* The mark at the top of the loop, at any control point.                  *)
LEMMA MarkedKeeps ==
  ASSUME NEW c, c.s \in Seq(Level), c.p \in Nat
  PROVE  /\ C(c)!Marked \in Seq(Level)
         /\ Len(C(c)!Marked) = Len(c.s)
         /\ \A i \in 1 .. Len(c.s) :
              /\ C(c)!Marked[i].is_map <=> c.s[i].is_map
              /\ C(c)!Marked[i].key_next <=> c.s[i].key_next
              /\ C(c)!Marked[i].remaining = c.s[i].remaining
              /\ C(c)!Marked[i].prev = c.s[i].prev
              /\ ~(c.s[i].is_map /\ c.s[i].key_next) => C(c)!Marked[i].key_start = c.s[i].key_start
<1> DEFINE m == C(c)!Marked
           s == c.s
           n == Len(c.s)
<1>1. CASE m = s
  BY <1>1
<1>2. CASE s # << >> /\ s[n].is_map /\ s[n].key_next /\ m = MarkedAt(s, c.p)
  <2>1. s \in Seq(Level) /\ s # << >> /\ c.p \in Nat
    BY <1>2
  <2> DEFINE r == MarkedAt(s, c.p)
  <2> HIDE DEF s
  <2>2. /\ r \in Seq(Level) /\ Len(r) = Len(s)
        /\ Len(s) \in Nat \ {0}
        /\ \A i \in 1 .. Len(s) - 1 : r[i] = s[i]
        /\ r[Len(s)].prev = s[Len(s)].prev
        /\ r[Len(s)].remaining = s[Len(s)].remaining
        /\ r[Len(s)].is_map <=> s[Len(s)].is_map
        /\ r[Len(s)].key_next <=> s[Len(s)].key_next
    BY <2>1, MarkedAtIs
  <2>3. m = r /\ n = Len(s)
    BY <1>2 DEF s
  <2> HIDE DEF m, n, r
  <2>4. ASSUME NEW i \in 1 .. n
        PROVE  /\ m[i].is_map <=> s[i].is_map
               /\ m[i].key_next <=> s[i].key_next
               /\ m[i].remaining = s[i].remaining
               /\ m[i].prev = s[i].prev
               /\ ~(s[i].is_map /\ s[i].key_next) => m[i].key_start = s[i].key_start
    <3>1. CASE i = n
      BY <1>2, <2>2, <2>3, <3>1
    <3>2. CASE i \in 1 .. n - 1
      BY <2>2, <2>3, <3>2
    <3> QED
      BY <2>2, <2>3, <3>1, <3>2
  <2> QED
    BY <2>2, <2>3, <2>4 DEF m, n, s
<1> QED
  BY <1>1, <1>2 DEF C!Marked, C!Top, C!Replace, Replace, MarkedAt

(* An iteration that does not complete an item leaves the containers that  *)
(* hold the cursors' items as they were.                                   *)
LEMMA Follow ==
  ASSUME NEW c, NEW cs, NEW v, Tracks(c, cs, v), Goes(c),
         NEW d, d = After(c), d.strict = c.strict, d.p \in 0 .. Len(d.in), d.s \in Seq(Level),
         Len(cs) <= Len(d.s), Len(cs) \in Nat,
         c.k = "item_done" => Len(cs) < Len(c.s),
         \A i \in 1 .. Len(cs) :
           /\ Held(d.s[i], cs[i])
           /\ cs[i].is_map /\ ~cs[i].key => d.s[i].key_start = c.s[i].key_start /\ d.s[i].prev = c.s[i].prev
  PROVE  Tracks(d, cs, v)
<1>1. Leads(d, v)
  BY LeadsStep DEF Tracks
<1>2. ASSUME NEW i \in 1 .. Len(cs) PROVE KeyHeld(d, i, cs[i])
  <2>1. KeyHeld(c, i, cs[i]) /\ Len(c.s) \in Nat
    BY LenProperties DEF Tracks
  <2>2. ~Exits(c, i)
    BY <2>1 DEF Exits
  <2>3. CASE c.strict /\ cs[i].is_map /\ cs[i].key
    <3>1. Clean(c, i, cs[i].prev)
      BY <2>1, <2>3 DEF KeyHeld
    <3>2. Clean(d, i, cs[i].prev)
      BY <2>2, <3>1, CleanStep
    <3> QED
      BY <2>3, <3>2 DEF KeyHeld
  <2>4. CASE ~(c.strict /\ cs[i].is_map /\ cs[i].key)
    BY <2>1, <2>4 DEF KeyHeld
  <2> QED
    BY <2>3, <2>4
<1> QED
  BY <1>1, <1>2 DEF Tracks

(* An iteration that reads a head and marks the key it belongs to.         *)
LEMMA FollowMarked ==
  ASSUME NEW c, NEW cs, NEW v, Tracks(c, cs, v), Goes(c), c.k = "item", Len(cs) \in Nat,
         NEW d, d = After(c), d.strict = c.strict, d.in = c.in, d.p \in 0 .. Len(c.in), d.s \in Seq(Level),
         Len(d.s) >= Len(c.s), \A i \in 1 .. Len(c.s) : d.s[i] = C(c)!Marked[i]
  PROVE  Tracks(d, cs, v)
<1>1. c.s \in Seq(Level) /\ c.p \in Nat /\ Len(cs) <= Len(c.s) /\ Len(c.s) \in Nat /\ Len(d.s) \in Nat
  BY LenProperties DEF Tracks
<1> DEFINE m == C(c)!Marked
<1>2. \A i \in 1 .. Len(c.s) :
        /\ m[i].is_map <=> c.s[i].is_map
        /\ m[i].key_next <=> c.s[i].key_next
        /\ m[i].remaining = c.s[i].remaining
        /\ m[i].prev = c.s[i].prev
        /\ ~(c.s[i].is_map /\ c.s[i].key_next) => m[i].key_start = c.s[i].key_start
  BY <1>1, MarkedKeeps
<1> HIDE DEF m
<1>3. ASSUME NEW i \in 1 .. Len(cs)
      PROVE  /\ Held(d.s[i], cs[i])
             /\ cs[i].is_map /\ ~cs[i].key => d.s[i].key_start = c.s[i].key_start /\ d.s[i].prev = c.s[i].prev
  <2>1. i \in 1 .. Len(c.s)
    BY <1>1
  <2>2. Held(c.s[i], cs[i])
    BY DEF Tracks
  <2>3. d.s[i] = m[i]
    BY <2>1 DEF m
  <2>4. /\ m[i].is_map <=> c.s[i].is_map
        /\ m[i].key_next <=> c.s[i].key_next
        /\ m[i].remaining = c.s[i].remaining
        /\ m[i].prev = c.s[i].prev
        /\ ~(c.s[i].is_map /\ c.s[i].key_next) => m[i].key_start = c.s[i].key_start
    BY <1>2, <2>1
  <2>5. Held(m[i], cs[i])
    BY <2>2, <2>4 DEF Held
  <2>6. cs[i].is_map /\ ~cs[i].key => m[i].key_start = c.s[i].key_start /\ m[i].prev = c.s[i].prev
    BY <2>2, <2>4 DEF Held
  <2> QED
    BY <2>3, <2>5, <2>6
<1>4. Len(cs) <= Len(d.s)
  BY <1>1
<1> QED
  BY <1>3, <1>4, Follow

(* The same where nothing but the mark is done to the stack.               *)
LEMMA MarkedTo ==
  ASSUME Usual, NEW p \in 0 .. Len(in), p # Len(in), NEW s, NEW cs \in Seq(Cursor), NEW v,
         NEW c, c = Conf(Here, p, "item", s), At(c, cs, v), Goes(c),
         NEW d, d = After(c), d.s = C(c)!Marked, d.in = in, d.strict = strict, d.p = p + 1
  PROVE  At(d, cs, v)
<1>1. Len(in) \in Nat /\ Len(cs) \in Nat
  BY LenProperties DEF Usual, ReaderTypeOK, IsInput
<1>2. c.in = in /\ c.strict = strict /\ c.p = p /\ c.k = "item" /\ c.s = s
  BY DEF Conf, Here
<1>3. Tracks(c, cs, v) /\ Len(c.s) = Len(cs) /\ c.s \in Seq(Level) /\ c.p \in Nat
  BY <1>1, <1>2 DEF At, Tracks
<1>4. C(c)!Marked \in Seq(Level) /\ Len(C(c)!Marked) = Len(c.s)
  BY <1>3, MarkedKeeps
<1>5. d.p \in 0 .. Len(c.in) /\ Len(d.s) >= Len(c.s)
  BY <1>1, <1>2, <1>3, <1>4
<1>6. Tracks(d, cs, v)
  BY <1>1, <1>2, <1>3, <1>4, <1>5, FollowMarked
<1> QED
  BY <1>3, <1>4, <1>6 DEF At

(* The head at p, and what is known of it.                                 *)
LEMMA HeadAt ==
  ASSUME Usual, NEW p \in 0 .. Len(in), p # Len(in)
  PROVE  /\ in[p + 1] \in Token /\ IsHead(in[p + 1])
         /\ p \in Nat /\ Len(in) \in Nat /\ p < Len(in) /\ p + 1 \in 0 .. Len(in)
         /\ in[p + 1].mt = "tag" /\ strict => in[p + 1].shortest
         /\ in[p + 1].mt = "map" => 2 * in[p + 1].value < W
<1>1. in \in Seq(Token) /\ Len(in) \in Nat /\ DOMAIN in = 1 .. Len(in)
  BY LenProperties DEF Usual, ReaderTypeOK, IsInput
<1>2. p + 1 \in 1 .. Len(in) /\ p \in Nat /\ p < Len(in) /\ p + 1 \in 0 .. Len(in)
  <2>1. PICK n \in Nat : n = Len(in)
    BY <1>1
  <2>2. p \in 0 .. n /\ p # n
    BY <2>1
  <2>3. p + 1 \in 1 .. n /\ p \in Nat /\ p < n /\ p + 1 \in 0 .. n
    BY ONLY <2>2, n \in Nat
  <2> QED
    BY <2>1, <2>3
<1>3. in[p + 1] \in Token
  BY <1>1, <1>2, ElementOfSeq
<1>4. IsHead(in[p + 1])
  BY <1>1, <1>2 DEF Usual
<1>5. in[p + 1].mt = "tag" /\ strict => in[p + 1].shortest
  BY <1>1, <1>2 DEF Usual, LongTag
<1>6. in[p + 1].mt = "map" => 2 * in[p + 1].value < W
  <2>1. in[p + 1].mt = "map" => ~(2 * in[p + 1].value >= W)
    BY <1>1, <1>2 DEF Usual, Wide
  <2>2. in[p + 1].value \in Nat /\ W \in Nat
    BY <1>3, WidthAssumption DEF Token
  <2> QED
    BY <2>1, <2>2
<1> QED
  BY <1>1, <1>2, <1>3, <1>4, <1>5, <1>6

(* The checks of the loop before that head.                                *)
LEMMA HeadErrorAt ==
  ASSUME Usual, NEW p \in 0 .. Len(in), p # Len(in), NEW s, NEW c, c = Conf(Here, p, "item", s),
         NEW t, t = in[p + 1], NoBreak(c)
  PROVE  /\ C(c)!Tok = t
         /\ C(c)!HeadError =
              IF t.cut = "head" THEN "truncated"
              ELSE IF t.mt = "break" \/ t.reserved THEN "malformed_item"
              ELSE IF strict /\ (t.indefinite \/ (~t.shortest /\ t.mt # "simple")) THEN "non_deterministic"
              ELSE IF t.mt = "simple" /\ ~t.valid THEN "malformed_item"
              ELSE IF t.mt = "simple" /\ strict /\ ~t.shortest THEN "non_deterministic"
              ELSE IF t.mt \in String /\ t.cut = "body" THEN "truncated"
              ELSE IF t.mt \in Container /\ entry + Len(s) >= MaxDepth THEN "depth_exceeded"
              ELSE "none"
<1>1. c.in = in /\ c.strict = strict /\ c.entry = entry /\ c.p = p /\ c.s = s
  BY DEF Conf, Here
<1>2. C(c)!Tok = t
  BY <1>1 DEF C!Tok
<1>3. p < Len(in)
  BY HeadAt
<1>4. t.mt = "break" => ~C(c)!MayBreak
  BY <1>1, <1>3 DEF NoBreak
<1>5. ~C(c)!AtEnd
  BY <1>1 DEF C!AtEnd
<1>6. C(c)!NotShortest <=> t.indefinite \/ (~t.shortest /\ t.mt # "simple")
  BY <1>2 DEF C!NotShortest
<1>7. C(c)!Full <=> entry + Len(s) >= MaxDepth
  BY <1>1 DEF C!Full
<1> QED
  BY <1>1, <1>2, <1>4, <1>5, <1>6, <1>7 DEF C!HeadError, C!String, String, C!Container, Container

(* A tag is passed, on both paths.                                         *)
LEMMA TagPass ==
  ASSUME Usual, NEW p \in 0 .. Len(in), NEW cs \in Seq(Cursor), NEW v, IsTag(p), AtValue(Here, p, cs, v)
  PROVE  p + 1 \in 0 .. Len(in) /\ AtValue(Here, p + 1, cs, v)
<1>1. p # Len(in) /\ Here.in = in
  BY DEF IsTag, Here
<1>2. PICK t : t = in[p + 1]
  OBVIOUS
<1>3. t.mt = "tag" /\ t.cut = "none" /\ ~t.reserved
  BY <1>2 DEF IsTag
<1>4. /\ IsHead(t) /\ p \in Nat /\ Len(in) \in Nat /\ p < Len(in) /\ p + 1 \in 0 .. Len(in)
      /\ strict => t.shortest
  BY <1>1, <1>2, <1>3, HeadAt
<1>5. ~t.indefinite
  BY <1>3, <1>4 DEF IsHead, String, Container
<1>6. ~Refused(Here, p, v)
  BY <1>1, <1>2, <1>3 DEF Refused
<1>7. PICK s : At(Conf(Here, p, "item", s), cs, v) /\ NoBreak(Conf(Here, p, "item", s))
  BY <1>6 DEF AtValue
<1>8. PICK c : c = Conf(Here, p, "item", s)
  OBVIOUS
<1>9. C(c)!Tok = t /\ C(c)!HeadError = "none"
  BY <1>1, <1>2, <1>3, <1>4, <1>5, <1>7, <1>8, HeadErrorAt DEF String, Container
<1>10. c.in = in /\ c.k = "item" /\ c.p = p /\ c.strict = strict
  BY <1>8 DEF Conf, Here
<1>11. C(c)!Untagged <=> (p + 1 < Len(in) => in[p + 2].mt = "break")
  BY <1>10 DEF C!Untagged
<1>12. CASE C(c)!Untagged
  <2>1. Fault(c) = IF p + 1 = Len(in) THEN "truncated" ELSE "malformed_item"
    BY <1>3, <1>9, <1>10, <1>12 DEF Fault
  <2>2. v.code = Fault(c)
    <3>1. Leads(c, v) /\ ~Goes(c) /\ ~Over(c)
      BY <1>7, <1>8, <1>10, <2>1 DEF At, Tracks, Goes, Over
    <3> QED
      BY <3>1, LeadsStops DEF Stops
  <2>3. p + 2 = (p + 1) + 1
    BY <1>4
  <2>4. Refused(Here, p + 1, v)
    BY <1>1, <1>4, <1>11, <1>12, <2>1, <2>2, <2>3 DEF Refused
  <2> QED
    BY <1>4, <2>4 DEF AtValue
<1>13. CASE ~C(c)!Untagged
  <2>1. Goes(c)
    BY <1>3, <1>9, <1>10, <1>13 DEF Goes, Over, Fault, String
  <2>2. PICK m : m = C(c)!Marked
    OBVIOUS
  <2>3. After(c) = Conf(Here, p + 1, "item", m)
    BY <1>3, <1>8, <1>9, <1>10, <2>2 DEF After, AfterHead, Conf
  <2>4. PICK d : d = Conf(Here, p + 1, "item", m)
    OBVIOUS
  <2>5. d.s = m /\ d.in = in /\ d.strict = strict /\ d.p = p + 1
    BY <2>4 DEF Conf, Here
  <2>6. At(d, cs, v)
    BY <1>1, <1>7, <1>8, <2>1, <2>2, <2>3, <2>4, <2>5, MarkedTo
  <2>7. NoBreak(d)
    <3>1. in[(p + 1) + 1].mt # "break"
      <4>1. p + 2 = (p + 1) + 1
        BY <1>4
      <4> QED
        BY <1>11, <1>13, <4>1
    <3> QED
      BY <2>5, <3>1 DEF NoBreak
  <2> QED
    BY <1>4, <2>4, <2>6, <2>7 DEF AtValue
<1> QED
  BY <1>12, <1>13

(* So are all the tags that item_head ignores.                             *)
LEMMA ToItem ==
  ASSUME Usual, NEW p \in 0 .. Len(in), NEW cs \in Seq(Cursor), NEW v, AtValue(Here, p, cs, v)
  PROVE  AtValue(Here, ItemAt(p), cs, v)
<1>1. Len(in) \in Nat /\ ReaderTypeOK
  BY LenProperties DEF Usual, ReaderTypeOK, IsInput
<1>2. CASE ~ignoring
  BY <1>2 DEF ItemAt
<1>3. CASE ignoring
  <2> DEFINE Q == {q \in p .. Len(in) : ~IsTag(q)}
             B == {q \in p .. ItemAt(p) : ~AtValue(Here, q, cs, v)}
  <2>1. Len(in) \in Q /\ Q \in SUBSET Nat
    BY <1>1 DEF IsTag
  <2>2. ItemAt(p) = Min(Q)
    BY <1>3 DEF ItemAt
  <2>3. Min(Q) \in Q /\ \A q \in Q : Min(Q) <= q
    <3> HIDE DEF Q
    <3> QED
      BY <2>1, MinOf
  <2>4. PICK j \in p .. Len(in) : j = ItemAt(p)
    BY <2>2, <2>3
  <2>5. \A q \in p .. j : q # j => IsTag(q)
    BY <1>1, <2>2, <2>3, <2>4
  <2>6. B = {}
    <3> SUFFICES ASSUME B # {} PROVE FALSE
      OBVIOUS
    <3>1. B \in SUBSET Nat
      BY <2>4
    <3>2. PICK q \in B : \A y \in B : q <= y
      <4> HIDE DEF B
      <4> QED
        BY <3>1, SmallestOf
    <3>3. q \in p .. j /\ ~AtValue(Here, q, cs, v)
      BY <2>4
    <3>4. q # p
      BY <3>3
    <3>5. PICK k \in p .. j : q = k + 1
      <4>1. q - 1 \in p .. j /\ q = (q - 1) + 1
        BY <1>1, <3>3, <3>4
      <4> QED
        BY <4>1
    <3>6. k \notin B
      BY <1>1, <3>2, <3>5
    <3>7. AtValue(Here, k, cs, v) /\ IsTag(k) /\ k \in 0 .. Len(in)
      BY <1>1, <2>4, <2>5, <3>3, <3>5, <3>6
    <3>8. AtValue(Here, k + 1, cs, v)
      BY <3>7, TagPass
    <3> QED
      BY <3>3, <3>5, <3>8
  <2> QED
    BY <1>1, <2>4, <2>6
<1> QED
  BY <1>2, <1>3

(* Where item_head refuses the item, skip_value did.                       *)
LEMMA ItemStops ==
  ASSUME Usual, NEW p \in 0 .. Len(in), NEW cs \in Seq(Cursor), NEW v, AtValue(Here, ItemAt(p), cs, v),
         ItemError(p) \notin {"none", "tag_mismatch"}
  PROVE  v.code = ItemError(p)
<1>1. PICK j \in 0 .. Len(in) : j = ItemAt(p)
  <2>1. ItemAt(p) \in p .. Len(in) /\ Len(in) \in Nat
    BY ItemAtBounds, LenProperties DEF Usual, ReaderTypeOK, IsInput
  <2> QED
    BY <2>1
<1>2. PICK t : t = in[j + 1]
  OBVIOUS
<1>3. ItemError(p) = IF j = Len(in) \/ t.cut = "head" THEN "truncated"
                     ELSE IF t.mt = "break" \/ t.reserved THEN "malformed_item"
                     ELSE IF t.mt = "tag" THEN "tag_mismatch"
                     ELSE IF t.mt = "simple" /\ ~t.valid THEN "malformed_item"
                     ELSE IF strict /\ (t.indefinite \/ (t.mt # "simple" /\ ~t.shortest)) THEN "non_deterministic"
                     ELSE "none"
  BY <1>1, <1>2 DEF ItemError, Item
<1>4. CASE Refused(Here, j, v)
  <2>1. CASE j = Len(in)
    BY <1>3, <1>4, <2>1 DEF Refused, Here
  <2>2. CASE j # Len(in)
    <3>1. IsHead(t)
      BY <1>2, <2>2, HeadAt
    <3>2. t.mt = "break" /\ v.code = "malformed_item"
      BY <1>2, <1>4, <2>2 DEF Refused, Here
    <3> QED
      BY <1>3, <2>2, <3>1, <3>2 DEF IsHead
  <2> QED
    BY <2>1, <2>2
<1>5. CASE ~Refused(Here, j, v)
  <2>1. PICK s : At(Conf(Here, j, "item", s), cs, v) /\ NoBreak(Conf(Here, j, "item", s))
    BY <1>1, <1>5 DEF AtValue
  <2>2. PICK c : c = Conf(Here, j, "item", s)
    OBVIOUS
  <2>3. c.in = in /\ c.p = j /\ c.k = "item"
    BY <2>2 DEF Conf, Here
  <2>4. C(c)!HeadError = ItemError(p)
    <3>1. CASE j = Len(in)
      BY <1>3, <2>3, <3>1 DEF C!HeadError, C!AtEnd
    <3>2. CASE j # Len(in)
      <4>1. IsHead(t)
        BY <1>2, <3>2, HeadAt
      <4>2. C(c)!HeadError =
              IF t.cut = "head" THEN "truncated"
              ELSE IF t.mt = "break" \/ t.reserved THEN "malformed_item"
              ELSE IF strict /\ (t.indefinite \/ (~t.shortest /\ t.mt # "simple")) THEN "non_deterministic"
              ELSE IF t.mt = "simple" /\ ~t.valid THEN "malformed_item"
              ELSE IF t.mt = "simple" /\ strict /\ ~t.shortest THEN "non_deterministic"
              ELSE IF t.mt \in String /\ t.cut = "body" THEN "truncated"
              ELSE IF t.mt \in Container /\ entry + Len(s) >= MaxDepth THEN "depth_exceeded"
              ELSE "none"
        BY <1>2, <2>1, <2>2, <3>2, HeadErrorAt
      <4> QED
        BY <1>3, <3>2, <4>1, <4>2 DEF IsHead
    <3> QED
      BY <3>1, <3>2
  <2>5. Fault(c) = ItemError(p) /\ ItemError(p) # "none" /\ ~Over(c)
    BY <2>3, <2>4 DEF Fault, Over
  <2>6. Leads(c, v) /\ ~Goes(c)
    BY <2>1, <2>2, <2>5 DEF At, Tracks, Goes
  <2> QED
    BY <2>5, <2>6, LeadsStops DEF Stops
<1> QED
  BY <1>4, <1>5

(* Where item_head accepts the item, the loop of skip_value is before it,  *)
(* and these checks are left.                                              *)
LEMMA ItemReady ==
  ASSUME Usual, NEW p \in 0 .. Len(in), NEW cs \in Seq(Cursor), NEW v, AtValue(Here, ItemAt(p), cs, v),
         ItemError(p) = "none", NEW j, j = ItemAt(p), NEW t, t = in[j + 1]
  PROVE  /\ j \in 0 .. Len(in) /\ j # Len(in) /\ t \in Token /\ IsHead(t)
         /\ t.mt \in {"uint", "nint", "simple"} \cup String \cup Container
         /\ ~(strict /\ t.indefinite) /\ (t.mt = "simple" => t.valid)
         /\ \E s : /\ At(Conf(Here, j, "item", s), cs, v)
                   /\ C(Conf(Here, j, "item", s))!Tok = t
                   /\ C(Conf(Here, j, "item", s))!HeadError =
                        IF t.mt = "simple" /\ strict /\ ~t.shortest THEN "non_deterministic"
                        ELSE IF t.mt \in String /\ t.cut = "body" THEN "truncated"
                        ELSE IF t.mt \in Container /\ entry + Len(cs) >= MaxDepth THEN "depth_exceeded"
                        ELSE "none"
<1>1. j \in 0 .. Len(in) /\ j # Len(in)
  <2>1. ItemAt(p) \in p .. Len(in) /\ Len(in) \in Nat
    BY ItemAtBounds, LenProperties DEF Usual, ReaderTypeOK, IsInput
  <2> QED
    BY <2>1 DEF ItemError
<1>2. t \in Token /\ IsHead(t)
  BY <1>1, HeadAt
<1>3. /\ t.cut # "head" /\ t.mt # "break" /\ ~t.reserved /\ t.mt # "tag" /\ (t.mt = "simple" => t.valid)
      /\ ~(strict /\ (t.indefinite \/ (t.mt # "simple" /\ ~t.shortest)))
  BY <1>1 DEF ItemError, Item
<1>4. t.mt \in {"uint", "nint", "simple"} \cup String \cup Container
  <2>1. t.mt \in Major
    BY <1>2, <1>3 DEF Token
  <2>2. Major \subseteq {"uint", "nint", "simple", "tag"} \cup String \cup Container
    <3>1. ASSUME NEW i \in 1 .. 8 PROVE MajorOrder[i] \in {"uint", "nint", "simple", "tag"} \cup String \cup Container
      <4>1. i = 1 \/ i = 2 \/ i = 3 \/ i = 4 \/ i = 5 \/ i = 6 \/ i = 7 \/ i = 8
        OBVIOUS
      <4> QED
        BY <4>1 DEF MajorOrder, String, Container
    <3> QED
      BY <3>1 DEF Major
  <2> QED
    BY <1>3, <2>1, <2>2
<1>5. ~Refused(Here, j, v)
  BY <1>1, <1>3 DEF Refused, Here
<1>6. PICK s : At(Conf(Here, j, "item", s), cs, v) /\ NoBreak(Conf(Here, j, "item", s))
  BY <1>5 DEF AtValue
<1>7. PICK c : c = Conf(Here, j, "item", s)
  OBVIOUS
<1>8. c.s = s /\ Len(s) = Len(cs)
  BY <1>6, <1>7 DEF Conf, At
<1>9. /\ C(c)!Tok = t
      /\ C(c)!HeadError =
           IF t.cut = "head" THEN "truncated"
           ELSE IF t.mt = "break" \/ t.reserved THEN "malformed_item"
           ELSE IF strict /\ (t.indefinite \/ (~t.shortest /\ t.mt # "simple")) THEN "non_deterministic"
           ELSE IF t.mt = "simple" /\ ~t.valid THEN "malformed_item"
           ELSE IF t.mt = "simple" /\ strict /\ ~t.shortest THEN "non_deterministic"
           ELSE IF t.mt \in String /\ t.cut = "body" THEN "truncated"
           ELSE IF t.mt \in Container /\ entry + Len(s) >= MaxDepth THEN "depth_exceeded"
           ELSE "none"
  BY <1>1, <1>6, <1>7, HeadErrorAt
<1>10. C(c)!HeadError =
           IF t.mt = "simple" /\ strict /\ ~t.shortest THEN "non_deterministic"
           ELSE IF t.mt \in String /\ t.cut = "body" THEN "truncated"
           ELSE IF t.mt \in Container /\ entry + Len(cs) >= MaxDepth THEN "depth_exceeded"
           ELSE "none"
  BY <1>3, <1>8, <1>9
<1> QED
  BY <1>1, <1>2, <1>3, <1>4, <1>6, <1>7, <1>9, <1>10

(* The loop ends with the error of the iteration it has come to.           *)
LEMMA FaultIs ==
  ASSUME NEW c, NEW cs, NEW v, Tracks(c, cs, v), c.k # "item_done", Fault(c) # "none"
  PROVE  v.code = Fault(c)
<1>1. Leads(c, v) /\ ~Goes(c) /\ ~Over(c)
  BY DEF Tracks, Goes, Over
<1> QED
  BY <1>1, LeadsStops DEF Stops

-----------------------------------------------------------------------------
(* Containers.                                                             *)

(* The cursors around the innermost one.                                   *)
LEMMA OuterIs ==
  ASSUME NEW cs \in Seq(Cursor), cs # << >>, NEW x \in Cursor
  PROVE  /\ Len(cs) \in Nat \ {0} /\ cs[Len(cs)] \in Cursor
         /\ Outer(cs) \in Seq(Cursor) /\ Len(Outer(cs)) = Len(cs) - 1
         /\ \A i \in 1 .. Len(cs) - 1 : Outer(cs)[i] = cs[i]
         /\ Replace(cs, x) \in Seq(Cursor) /\ Replace(cs, x) # << >> /\ Len(Replace(cs, x)) = Len(cs)
         /\ Replace(cs, x)[Len(cs)] = x
         /\ Outer(Replace(cs, x)) = Outer(cs)
<1> DEFINE r == Replace(cs, x)
           a == Outer(cs)
           b == Outer(r)
<1>1. Len(cs) \in Nat \ {0} /\ cs[Len(cs)] \in Cursor
  BY PopSeq
<1>2. a \in Seq(Cursor) /\ Len(a) = Len(cs) - 1 /\ \A i \in 1 .. Len(cs) - 1 : a[i] = cs[i]
  BY PopSeq DEF Outer
<1>3. r \in Seq(Cursor) /\ Len(r) = Len(cs)
  BY ReplaceSeq
<1>4. \A i \in 1 .. Len(cs) : r[i] = IF i = Len(cs) THEN x ELSE cs[i]
  BY ReplaceSeq
<1> HIDE DEF r
<1>5. r # << >> /\ r[Len(cs)] = x
  BY <1>1, <1>3, <1>4, EmptySeq
<1>6. b \in Seq(Cursor) /\ Len(b) = Len(r) - 1 /\ \A i \in 1 .. Len(r) - 1 : b[i] = r[i]
  BY <1>3, <1>5, PopSeq DEF Outer
<1> HIDE DEF a, b
<1>7. b = a
  <2>1. PICK k \in Nat : k = Len(cs) - 1
    BY <1>1
  <2>2. Len(a) = k /\ Len(b) = k /\ Len(cs) = k + 1
    BY <1>1, <1>2, <1>3, <1>6, <2>1
  <2>3. \A i \in 1 .. Len(a) : a[i] = b[i]
    <3> TAKE i \in 1 .. Len(a)
    <3>1. i \in 1 .. k /\ i \in 1 .. k + 1 /\ i # k + 1
      BY <2>2
    <3> QED
      BY <1>2, <1>3, <1>4, <1>6, <2>1, <2>2, <3>1
  <2> QED
    BY <1>2, <1>6, <2>2, <2>3, SeqEqual
<1> QED
  BY <1>1, <1>2, <1>3, <1>5, <1>7 DEF a, b, r

(* A new cursor goes inside the others.                                    *)
LEMMA OuterAppend ==
  ASSUME NEW cs \in Seq(Cursor), NEW x \in Cursor, NEW a, a = Append(cs, x)
  PROVE  /\ Len(cs) \in Nat
         /\ a \in Seq(Cursor) /\ a # << >> /\ Len(a) = Len(cs) + 1 /\ a[Len(a)] = x
         /\ Outer(a) = cs
<1>1. /\ a \in Seq(Cursor) /\ a # << >> /\ Len(a) = Len(cs) + 1 /\ Len(cs) \in Nat
      /\ \A i \in 1 .. Len(cs) : a[i] = cs[i]
      /\ a[Len(cs) + 1] = x
  BY AppendProperties, LenProperties
<1> DEFINE b == Outer(a)
<1>2. b \in Seq(Cursor) /\ Len(b) = Len(a) - 1 /\ \A i \in 1 .. Len(a) - 1 : b[i] = a[i]
  BY <1>1, PopSeq DEF Outer
<1> HIDE DEF b
<1>3. Len(a) - 1 = Len(cs)
  BY <1>1
<1>4. b = cs
  BY <1>1, <1>2, <1>3, SeqEqual
<1> QED
  BY <1>1, <1>4 DEF b

(* What is known of all the containers is known of the outer ones.         *)
LEMMA OuterTracks ==
  ASSUME NEW c, NEW cs \in Seq(Cursor), cs # << >>, NEW v, Tracks(c, cs, v)
  PROVE  Tracks(c, Outer(cs), v)
<1>1. /\ Len(cs) \in Nat \ {0} /\ Len(Outer(cs)) = Len(cs) - 1
      /\ \A i \in 1 .. Len(cs) - 1 : Outer(cs)[i] = cs[i]
  BY PopSeq DEF Outer
<1>2. Len(cs) <= Len(c.s) /\ Len(c.s) \in Nat
  BY LenProperties DEF Tracks
<1>3. Len(Outer(cs)) <= Len(c.s)
  BY <1>1, <1>2
<1>4. ASSUME NEW i \in 1 .. Len(Outer(cs)) PROVE Held(c.s[i], Outer(cs)[i]) /\ KeyHeld(c, i, Outer(cs)[i])
  <2>1. i \in 1 .. Len(cs) - 1 /\ i \in 1 .. Len(cs)
    BY <1>1
  <2>2. Held(c.s[i], cs[i]) /\ KeyHeld(c, i, cs[i])
    BY <2>1 DEF Tracks
  <2>3. Outer(cs)[i] = cs[i]
    BY <1>1, <2>1
  <2> QED
    BY <2>2, <2>3
<1> QED
  BY <1>3, <1>4 DEF Tracks

(* And back, with what is known of the innermost.                          *)
LEMMA TopHeld ==
  ASSUME NEW d, NEW cs \in Seq(Cursor), cs # << >>, NEW v, Tracks(d, Outer(cs), v), Len(d.s) = Len(cs),
         Held(d.s[Len(cs)], cs[Len(cs)]), KeyHeld(d, Len(cs), cs[Len(cs)])
  PROVE  At(d, cs, v)
<1>1. /\ Len(cs) \in Nat \ {0} /\ Len(Outer(cs)) = Len(cs) - 1
      /\ \A i \in 1 .. Len(cs) - 1 : Outer(cs)[i] = cs[i]
  BY PopSeq DEF Outer
<1>2. ASSUME NEW i \in 1 .. Len(cs) PROVE Held(d.s[i], cs[i]) /\ KeyHeld(d, i, cs[i])
  <2>1. CASE i = Len(cs)
    BY <2>1
  <2>2. CASE i # Len(cs)
    <3>1. i \in 1 .. Len(cs) - 1 /\ i \in 1 .. Len(Outer(cs))
      BY <1>1, <2>2
    <3>2. Held(d.s[i], Outer(cs)[i]) /\ KeyHeld(d, i, Outer(cs)[i])
      BY <3>1 DEF Tracks
    <3>3. Outer(cs)[i] = cs[i]
      BY <1>1, <3>1
    <3> QED
      BY <3>2, <3>3
  <2> QED
    BY <2>1, <2>2
<1>3. Len(cs) <= Len(d.s)
  BY <1>1
<1> QED
  BY <1>2, <1>3 DEF At, Tracks

(* The innermost level, one item on.                                       *)
LEMMA CountedAt ==
  ASSUME NEW c, c.s \in Seq(Level), c.s # << >>, c.p \in Nat, NEW l, l = c.s[Len(c.s)],
         NEW m, m = C(c)!Counted, c.strict /\ l.is_map /\ l.key_next => l.key_start \in Nat
  PROVE  /\ m \in Level /\ l \in Level
         /\ m.is_map <=> l.is_map
         /\ m.key_next <=> (l.is_map => ~l.key_next) /\ (~l.is_map => l.key_next)
         /\ m.remaining = IF l.remaining = Nullopt THEN Nullopt ELSE Decrement(l.remaining)
         /\ IF c.strict /\ l.is_map /\ l.key_next THEN m.key_start = NoKey /\ m.prev = << l.key_start, c.p >>
            ELSE m.key_start = l.key_start /\ m.prev = l.prev
<1>1. l \in Level
  BY PopSeq
<1>2. C(c)!Top = l
  BY DEF C!Top
<1>3. PICK k \in BOOLEAN : k <=> c.strict /\ l.is_map /\ l.key_next
  OBVIOUS
<1>4. C(c)!KeyDone <=> k
  BY <1>2, <1>3 DEF C!KeyDone
<1>5. m = [ l EXCEPT
            !.key_next  = IF l.is_map THEN ~@ ELSE @,
            !.remaining = IF @ = Nullopt THEN @ ELSE Decrement(@),
            !.prev      = IF k THEN << l.key_start, c.p >> ELSE @,
            !.key_start = IF k THEN NoKey ELSE @ ]
  BY <1>2, <1>4 DEF C!Counted, C!Nullopt, Nullopt, C!NoKey, NoKey, C!Decrement, Decrement
<1>6. l.remaining # Nullopt => Decrement(l.remaining) \in 0 .. W - 1
  BY <1>1, WidthArithmetic DEF Level
<1>7. k => << l.key_start, c.p >> \in Nat \X Nat
  BY <1>3
<1>8. m \in Level
  BY <1>1, <1>5, <1>6, <1>7 DEF Level
<1>9. /\ m.is_map = l.is_map
      /\ m.key_next = IF l.is_map THEN ~l.key_next ELSE l.key_next
      /\ m.remaining = IF l.remaining = Nullopt THEN Nullopt ELSE Decrement(l.remaining)
      /\ m.key_start = IF k THEN NoKey ELSE l.key_start
      /\ m.prev = IF k THEN << l.key_start, c.p >> ELSE l.prev
  BY <1>1, <1>5 DEF Level
<1> QED
  BY <1>1, <1>3, <1>8, <1>9

(* An item of the innermost container is complete: the container is, or    *)
(* goes on to its next item.                                               *)
LEMMA DoneOuter ==
  ASSUME Usual, NEW p \in 0 .. Len(in), NEW s, NEW cs \in Seq(Cursor), cs # << >>, NEW v,
         NEW c, c = Conf(Here, p, "item_done", s), At(c, cs, v), Goes(c),
         NEW l, l = s[Len(s)], strict /\ l.is_map /\ l.key_next => l.key_start \in Nat,
         NEW m, m = C(c)!Counted
  PROVE  /\ m.remaining = 0 => \E s2 : At(Conf(Here, p, "item_done", s2), Outer(cs), v)
         /\ m.remaining # 0 => \E s2 : /\ Tracks(Conf(Here, p, "item", s2), Outer(cs), v)
                                       /\ Len(s2) = Len(cs) /\ s2[Len(cs)] = m
<1>1. PICK n \in Nat \ {0} : n = Len(cs)
  BY PopSeq
<1>2. c.in = in /\ c.strict = strict /\ c.p = p /\ c.k = "item_done" /\ c.s = s
  BY DEF Conf, Here
<1>3. s \in Seq(Level) /\ Len(s) = n /\ Tracks(c, cs, v)
  BY <1>1, <1>2 DEF At, Tracks
<1>4. s # << >>
  BY <1>1, <1>3, EmptySeq
<1>5. m \in Level
  BY <1>2, <1>3, <1>4, CountedAt
<1>6. Tracks(c, Outer(cs), v) /\ Len(Outer(cs)) = n - 1
  BY <1>1, <1>3, OuterTracks, PopSeq DEF Outer
<1>7. PICK s2 : s2 = IF m.remaining = 0 THEN SubSeq(s, 1, Len(s) - 1) ELSE Replace(s, m)
  OBVIOUS
<1>8. PICK k : k = IF m.remaining = 0 THEN "item_done" ELSE "item"
  OBVIOUS
<1>9. PICK d : d = Conf(Here, p, k, s2)
  OBVIOUS
<1>10. d = After(c)
  BY <1>2, <1>7, <1>8, <1>9 DEF After, Conf, C!Pop
<1>11. d.in = in /\ d.strict = strict /\ d.p = p /\ d.s = s2
  BY <1>9 DEF Conf, Here
<1>12. /\ s2 \in Seq(Level) /\ Len(s2) = (IF m.remaining = 0 THEN n - 1 ELSE n)
       /\ \A i \in 1 .. n - 1 : s2[i] = s[i]
       /\ m.remaining # 0 => s2[n] = m
  <2>1. CASE m.remaining = 0
    BY <1>3, <1>4, <1>7, <2>1, PopSeq
  <2>2. CASE m.remaining # 0
    <3>1. s2 = Replace(s, m)
      BY <1>7, <2>2
    <3>2. s2 \in Seq(Level) /\ Len(s2) = n
      BY <1>3, <1>4, <1>5, <3>1, ReplaceSeq
    <3>3. \A i \in 1 .. Len(s) : Replace(s, m)[i] = IF i = Len(s) THEN m ELSE s[i]
      <4>1. s \in Seq(Level) /\ s # << >> /\ m \in Level
        BY <1>3, <1>4, <1>5
      <4> QED
        BY ONLY <4>1, ReplaceSeq
    <3>4. \A i \in 1 .. n : s2[i] = IF i = n THEN m ELSE s[i]
      BY <1>3, <3>1, <3>3
    <3> QED
      BY <2>2, <3>2, <3>4
  <2> QED
    BY <2>1, <2>2
<1>13. ASSUME NEW i \in 1 .. Len(Outer(cs))
       PROVE  /\ Held(d.s[i], Outer(cs)[i])
              /\ Outer(cs)[i].is_map /\ ~Outer(cs)[i].key =>
                   d.s[i].key_start = c.s[i].key_start /\ d.s[i].prev = c.s[i].prev
  <2>1. Held(c.s[i], Outer(cs)[i])
    BY <1>6 DEF Tracks
  <2>2. d.s[i] = c.s[i]
    BY <1>2, <1>6, <1>11, <1>12
  <2> QED
    BY <2>1, <2>2
<1>14. /\ Len(Outer(cs)) <= Len(d.s) /\ Len(Outer(cs)) \in Nat
       /\ c.k = "item_done" => Len(Outer(cs)) < Len(c.s)
       /\ d.p \in 0 .. Len(d.in)
  BY <1>2, <1>3, <1>6, <1>11, <1>12
<1>15. Tracks(d, Outer(cs), v)
  BY <1>2, <1>6, <1>10, <1>11, <1>12, <1>13, <1>14, Follow
<1>16. CASE m.remaining = 0
  <2>1. At(d, Outer(cs), v)
    BY <1>6, <1>11, <1>12, <1>15, <1>16 DEF At
  <2> QED
    BY <1>8, <1>9, <1>16, <2>1
<1>17. CASE m.remaining # 0
  BY <1>1, <1>8, <1>9, <1>12, <1>15, <1>17
<1> QED
  BY <1>16, <1>17

(* An item is decoded: a value follows a key, or the cursor is asked.      *)
LEMMA DecodedAgree ==
  ASSUME Usual, NEW p \in 0 .. Len(in), NEW s, NEW cs \in Seq(Cursor), NEW v,
         At(Conf(Here, p, "item_done", s), cs, v)
  PROVE  IF cs # << >> /\ cs[Len(cs)].key
         THEN AtValue(Here, p, Replace(cs, [cs[Len(cs)] EXCEPT !.key = FALSE]), v)
         ELSE AtNext(Here, p, cs, v)
<1>1. CASE ~(cs # << >> /\ cs[Len(cs)].key)
  BY <1>1 DEF AtNext
<1>2. CASE cs # << >> /\ cs[Len(cs)].key
  <2>1. PICK n \in Nat \ {0} : n = Len(cs)
    BY <1>2, PopSeq
  <2>2. PICK u \in Cursor : u = cs[n]
    BY <1>2, <2>1, PopSeq
  <2>3. PICK c : c = Conf(Here, p, "item_done", s)
    OBVIOUS
  <2>4. c.in = in /\ c.strict = strict /\ c.p = p /\ c.k = "item_done" /\ c.s = s
    BY <2>3 DEF Conf, Here
  <2>5. s \in Seq(Level) /\ Len(s) = n /\ Held(s[n], u) /\ KeyHeld(c, n, u)
    BY <2>1, <2>2, <2>3, <2>4 DEF At, Tracks
  <2>6. s # << >>
    BY <2>1, <2>5, EmptySeq
  <2>7. PICK l : l = s[n]
    OBVIOUS
  <2>8. u.key /\ u.is_map /\ l.is_map /\ l.key_next
    BY <1>2, <2>1, <2>2, <2>5, <2>7 DEF Held
  <2>9. strict => << l.key_start, p >> = u.prev /\ ~C(c)!OutOfOrder
    <3>1. strict => Clean(c, n, u.prev)
      BY <2>4, <2>5, <2>8 DEF KeyHeld
    <3>2. Exits(c, n)
      BY <2>4, <2>5 DEF Exits
    <3> QED
      BY <2>4, <2>7, <3>1, <3>2, CleanExit
  <2>10. ~C(c)!OutOfOrder
    BY <2>4, <2>9 DEF C!OutOfOrder, C!KeyDone
  <2>11. Goes(c)
    BY <2>4, <2>6, <2>10 DEF Goes, Over, Fault
  <2>12. strict => l.key_start \in Nat
    <3>1. u.prev \in Nat \X Nat
      BY DEF Cursor
    <3> QED
      BY <2>9, <3>1
  <2>13. PICK m : m = C(c)!Counted
    OBVIOUS
  <2>14. /\ m \in Level /\ l \in Level
         /\ m.is_map /\ ~m.key_next
         /\ m.remaining = IF l.remaining = Nullopt THEN Nullopt ELSE Decrement(l.remaining)
         /\ strict => m.key_start = NoKey /\ m.prev = u.prev
    <3>1. /\ c.s \in Seq(Level) /\ c.s # << >> /\ c.p \in Nat /\ l = c.s[Len(c.s)]
          /\ c.strict /\ l.is_map /\ l.key_next => l.key_start \in Nat
      BY <2>4, <2>5, <2>6, <2>7, <2>12
    <3>2. /\ m \in Level /\ l \in Level
          /\ m.is_map <=> l.is_map
          /\ m.key_next <=> (l.is_map => ~l.key_next) /\ (~l.is_map => l.key_next)
          /\ m.remaining = IF l.remaining = Nullopt THEN Nullopt ELSE Decrement(l.remaining)
          /\ IF c.strict /\ l.is_map /\ l.key_next THEN m.key_start = NoKey /\ m.prev = << l.key_start, c.p >>
             ELSE m.key_start = l.key_start /\ m.prev = l.prev
      BY <2>13, <3>1, CountedAt
    <3> QED
      BY <2>4, <2>8, <2>9, <3>2
  <2>15. m.remaining = IF u.remaining = Nullopt THEN Nullopt ELSE 2 * u.remaining + 1
    <3>1. l.remaining = IF u.remaining = Nullopt THEN Nullopt ELSE 2 * u.remaining + 2
      BY <2>5, <2>7, <2>8 DEF Held
    <3>2. CASE u.remaining = Nullopt
      BY <2>14, <3>1, <3>2
    <3>3. CASE u.remaining # Nullopt
      <4>1. u.remaining \in Nat
        BY <3>3 DEF Cursor
      <4> QED
        BY <2>14, <3>1, <3>3, <4>1 DEF Decrement, Nullopt
    <3> QED
      BY <3>2, <3>3
  <2>16. m.remaining # 0
    <3>1. u.remaining # Nullopt => u.remaining \in Nat
      BY DEF Cursor
    <3> QED
      BY <2>15, <3>1 DEF Nullopt
  <2>17. PICK s2 : Tracks(Conf(Here, p, "item", s2), Outer(cs), v) /\ Len(s2) = Len(cs) /\ s2[Len(cs)] = m
    BY <1>2, <2>3, <2>5, <2>7, <2>11, <2>12, <2>13, <2>16, DoneOuter
  <2>18. PICK w : w = [cs[Len(cs)] EXCEPT !.key = FALSE]
    OBVIOUS
  <2>19. w \in Cursor /\ w.is_map /\ ~w.key /\ w.remaining = u.remaining /\ w.prev = u.prev
    BY <2>1, <2>2, <2>8, <2>18 DEF Cursor
  <2>20. PICK ds : ds = Replace(cs, w)
    OBVIOUS
  <2>21. /\ ds \in Seq(Cursor) /\ ds # << >> /\ Len(ds) = n /\ ds[n] = w
         /\ Outer(ds) = Outer(cs)
    BY <1>2, <2>1, <2>19, <2>20, OuterIs
  <2>22. PICK d : d = Conf(Here, p, "item", s2)
    OBVIOUS
  <2>23. d.in = in /\ d.strict = strict /\ d.s = s2
    BY <2>22 DEF Conf, Here
  <2>24. Held(d.s[n], ds[n])
    BY <2>1, <2>14, <2>15, <2>17, <2>19, <2>21, <2>23 DEF Held
  <2>25. KeyHeld(d, n, ds[n])
    BY <2>1, <2>14, <2>17, <2>19, <2>21, <2>23 DEF KeyHeld
  <2>26. At(d, ds, v)
    BY <2>1, <2>17, <2>21, <2>22, <2>23, <2>24, <2>25, TopHeld
  <2>27. NoBreak(d)
    <3>1. C(d)!Top = m
      BY <2>1, <2>17, <2>23 DEF C!Top
    <3> QED
      BY <2>14, <3>1 DEF NoBreak, C!MayBreak
  <2>28. AtValue(Here, p, ds, v)
    BY <2>22, <2>26, <2>27 DEF AtValue
  <2> QED
    BY <1>2, <2>18, <2>20, <2>28
<1> QED
  BY <1>1, <1>2

(* Before next(): the container is complete, or has another item.          *)
LEMMA NextReady ==
  ASSUME Usual, NEW p \in 0 .. Len(in), NEW cs \in Seq(Cursor), cs # << >>, NEW v,
         AtNext(Here, p, cs, v), NEW u, u = cs[Len(cs)]
  PROVE  /\ u.remaining = 0 => \E s : At(Conf(Here, p, "item_done", s), Outer(cs), v)
         /\ u.remaining # 0 => \E s : /\ Tracks(Conf(Here, p, "item", s), Outer(cs), v)
                                      /\ Len(s) = Len(cs) /\ Ready(s[Len(cs)], u)
<1>1. PICK n \in Nat \ {0} : n = Len(cs)
  BY PopSeq
<1>2. u \in Cursor
  BY PopSeq
<1>3. ASSUME NEW s, At(Conf(Here, p, "item_done", s), cs, v), ~u.key
      PROVE  /\ u.remaining = 0 => \E s2 : At(Conf(Here, p, "item_done", s2), Outer(cs), v)
             /\ u.remaining # 0 => \E s2 : /\ Tracks(Conf(Here, p, "item", s2), Outer(cs), v)
                                           /\ Len(s2) = Len(cs) /\ Ready(s2[Len(cs)], u)
  <2>1. PICK c : c = Conf(Here, p, "item_done", s)
    OBVIOUS
  <2>2. c.in = in /\ c.strict = strict /\ c.p = p /\ c.k = "item_done" /\ c.s = s
    BY <2>1 DEF Conf, Here
  <2>3. s \in Seq(Level) /\ Len(s) = n /\ Held(s[n], u) /\ KeyHeld(c, n, u)
    BY <1>1, <1>3, <2>1, <2>2 DEF At, Tracks
  <2>4. s # << >>
    BY <1>1, <2>3, EmptySeq
  <2>5. PICK l : l = s[n]
    OBVIOUS
  <2>6. (l.is_map <=> u.is_map) /\ (l.key_next <=> ~u.is_map)
    BY <1>3, <2>3, <2>5 DEF Held
  <2>7. strict /\ u.is_map => l.key_start = NoKey /\ l.prev = u.prev
    BY <1>3, <2>2, <2>3, <2>5 DEF KeyHeld
  <2>8. C(c)!Top = l
    BY <2>2, <2>3, <2>5 DEF C!Top
  <2>9. Goes(c)
    BY <2>2, <2>4, <2>6, <2>8 DEF Goes, Over, Fault, C!OutOfOrder, C!KeyDone
  <2>10. PICK m : m = C(c)!Counted
    OBVIOUS
  <2>11. /\ m \in Level /\ l \in Level
         /\ m.is_map <=> l.is_map
         /\ m.key_next <=> (l.is_map => ~l.key_next) /\ (~l.is_map => l.key_next)
         /\ m.remaining = IF l.remaining = Nullopt THEN Nullopt ELSE Decrement(l.remaining)
         /\ IF c.strict /\ l.is_map /\ l.key_next THEN m.key_start = NoKey /\ m.prev = << l.key_start, c.p >>
            ELSE m.key_start = l.key_start /\ m.prev = l.prev
    <3>1. /\ c.s \in Seq(Level) /\ c.s # << >> /\ c.p \in Nat /\ l = c.s[Len(c.s)]
          /\ c.strict /\ l.is_map /\ l.key_next => l.key_start \in Nat
      BY <2>2, <2>3, <2>4, <2>5, <2>6
    <3> QED
      BY <2>10, <3>1, CountedAt
  <2>12. m.remaining = IF u.remaining = Nullopt THEN Nullopt
                       ELSE IF u.is_map THEN 2 * u.remaining ELSE u.remaining
    <3>1. l.remaining = IF u.remaining = Nullopt THEN Nullopt
                        ELSE IF u.is_map THEN 2 * u.remaining + 1 ELSE u.remaining + 1
      BY <1>3, <2>3, <2>5 DEF Held
    <3>2. CASE u.remaining = Nullopt
      BY <2>11, <3>1, <3>2
    <3>3. CASE u.remaining # Nullopt
      <4>1. u.remaining \in Nat
        BY <1>2, <3>3 DEF Cursor
      <4> QED
        BY <2>11, <3>1, <3>3, <4>1 DEF Decrement, Nullopt
    <3> QED
      BY <3>2, <3>3
  <2>13. m.remaining = 0 <=> u.remaining = 0
    <3>1. u.remaining # Nullopt => u.remaining \in Nat
      BY <1>2 DEF Cursor
    <3> QED
      BY <2>12, <3>1 DEF Nullopt
  <2>14. Ready(m, u)
    BY <1>3, <2>2, <2>6, <2>7, <2>11, <2>12 DEF Ready
  <2>15. /\ m.remaining = 0 => \E s2 : At(Conf(Here, p, "item_done", s2), Outer(cs), v)
         /\ m.remaining # 0 => \E s2 : /\ Tracks(Conf(Here, p, "item", s2), Outer(cs), v)
                                       /\ Len(s2) = Len(cs) /\ s2[Len(cs)] = m
    BY <1>3, <2>1, <2>3, <2>5, <2>6, <2>9, <2>10, DoneOuter
  <2> QED
    BY <2>13, <2>14, <2>15
<1>4. ASSUME NEW s, Tracks(Conf(Here, p, "item", s), Outer(cs), v), Len(s) = Len(cs), Fresh(s[Len(s)], u)
      PROVE  u.remaining # 0 /\ Ready(s[Len(cs)], u)
  BY <1>4 DEF Fresh, Ready
<1>5. CASE ~u.key /\ \E s : At(Conf(Here, p, "item_done", s), cs, v)
  BY <1>3, <1>5
<1>6. CASE \E s : Tracks(Conf(Here, p, "item", s), Outer(cs), v) /\ Len(s) = Len(cs) /\ Fresh(s[Len(s)], u)
  <2>1. PICK s : Tracks(Conf(Here, p, "item", s), Outer(cs), v) /\ Len(s) = Len(cs) /\ Fresh(s[Len(s)], u)
    BY <1>6
  <2>2. u.remaining # 0 /\ Ready(s[Len(cs)], u)
    BY <1>4, <2>1
  <2> QED
    BY <2>1, <2>2
<1>7. CASE u.remaining = 0 /\ \E s : At(Conf(Here, p, "item_done", s), Outer(cs), v)
  BY <1>7
<1> QED
  BY <1>5, <1>6, <1>7 DEF AtNext

-----------------------------------------------------------------------------
(* The calls.                                                              *)

(* A call that fails with the code skip_value had.                         *)
LEMMA EndsAgree ==
  ASSUME NEW e, NEW p, Ends(e, p), skipped.code = e, e # "none"
  PROVE  Kept'
<1>1. phase' = "done" /\ skipped' = skipped /\ walked' = Verdict(e, p, depth)
  BY DEF Ends, caller
<1>2. walked'.code = e
  BY <1>1 DEF Verdict
<1> QED
  BY <1>1, <1>2 DEF Kept, Agree

(* A call that decodes an item.                                            *)
LEMMA DecodedKept ==
  ASSUME Usual, phase = "walk", NEW cs \in Seq(Cursor), NEW p \in 0 .. Len(in), Decoded(cs, p),
         NEW s, At(Conf(Here, p, "item_done", s), cs, skipped)
  PROVE  Kept'
<1>1. /\ pos' = p /\ phase' = "walk" /\ skipped' = skipped
      /\ UNCHANGED << in, strict, entry >>
  BY DEF Decoded, caller
<1>2. Here' = Here
  BY <1>1 DEF Here
<1>3. CASE cs # << >> /\ cs[Len(cs)].key
  <2>1. AtValue(Here, p, Replace(cs, [cs[Len(cs)] EXCEPT !.key = FALSE]), skipped)
    BY <1>3, DecodedAgree
  <2>2. at' = "value" /\ cursors' = Replace(cs, [cs[Len(cs)] EXCEPT !.key = FALSE])
    BY <1>3 DEF Decoded
  <2>3. AtValue(Here, pos, cursors, skipped)'
    BY <1>1, <1>2, <2>1, <2>2
  <2> QED
    BY <1>1, <2>2, <2>3 DEF Kept, Follows
<1>4. CASE ~(cs # << >> /\ cs[Len(cs)].key)
  <2>1. AtNext(Here, p, cs, skipped)
    BY <1>4, DecodedAgree
  <2>2. at' = "next" /\ cursors' = cs
    BY <1>4 DEF Decoded
  <2>3. AtNext(Here, pos, cursors, skipped)'
    BY <1>1, <1>2, <2>1, <2>2
  <2> QED
    BY <1>1, <2>2, <2>3 DEF Kept, Follows
<1> QED
  BY <1>3, <1>4

(* Calls that only move to another head of the same item.                  *)
LEMMA MovedKept ==
  ASSUME phase = "walk", at = "value", NEW p, AtValue(Here, p, cursors, skipped), pos' = p,
         UNCHANGED << in, strict, entry, phase, at, cursors, skipped >>
  PROVE  Kept'
<1>1. Here' = Here
  BY DEF Here
<1>2. AtValue(Here, pos, cursors, skipped)'
  BY <1>1
<1> QED
  BY <1>2 DEF Kept, Follows

(* A call that fits no item: the reader stays before it.                   *)
LEMMA RefusedKept ==
  ASSUME Usual, phase = "walk", Follows, ExpectRefused
  PROVE  Kept'
<1>1. at = "value" /\ AtValue(Here, pos, cursors, skipped)
  BY DEF ExpectRefused, Walking, Follows
<1>2. pos \in 0 .. Len(in) /\ cursors \in Seq(Cursor)
  BY DEF Usual, ReaderTypeOK
<1>3. AtValue(Here, ItemAt(pos), cursors, skipped)
  BY <1>1, <1>2, ToItem
<1>4. pos' = ItemAt(pos) /\ UNCHANGED << in, strict, entry, phase, at, cursors, skipped >>
  BY DEF ExpectRefused, caller
<1> QED
  BY <1>1, <1>3, <1>4, MovedKept

(* A head that item_head refuses.                                          *)
LEMMA FailsKept ==
  ASSUME Usual, phase = "walk", Follows, ExpectFails
  PROVE  Kept'
<1>1. at = "value" /\ AtValue(Here, pos, cursors, skipped)
  BY DEF ExpectFails, Walking, Follows
<1>2. pos \in 0 .. Len(in) /\ cursors \in Seq(Cursor)
  BY DEF Usual, ReaderTypeOK
<1>3. AtValue(Here, ItemAt(pos), cursors, skipped)
  BY <1>1, <1>2, ToItem
<1>4. ItemError(pos) \notin {"none", "tag_mismatch"} /\ Ends(ItemError(pos), pos)
  BY DEF ExpectFails
<1>5. skipped.code = ItemError(pos)
  BY <1>2, <1>3, <1>4, ItemStops
<1> QED
  BY <1>4, <1>5, EndsAgree

(* A tag that the caller expects.                                          *)
LEMMA TagsKept ==
  ASSUME Usual, phase = "walk", Follows, ExpectTags
  PROVE  Kept'
<1>1. at = "value" /\ AtValue(Here, pos, cursors, skipped) /\ IsTag(pos)
  BY DEF ExpectTags, Walking, Follows
<1>2. pos \in 0 .. Len(in) /\ cursors \in Seq(Cursor)
  BY DEF Usual, ReaderTypeOK
<1>3. AtValue(Here, pos + 1, cursors, skipped)
  BY <1>1, <1>2, TagPass
<1>4. pos' = pos + 1 /\ UNCHANGED << in, strict, entry, phase, at, cursors, skipped >>
  BY DEF ExpectTags, caller
<1> QED
  BY <1>1, <1>3, <1>4, MovedKept

(* A number, a boolean, null, a float or another simple value.             *)
LEMMA ScalarKept ==
  ASSUME Usual, phase = "walk", Follows, ExpectScalar
  PROVE  Kept'
<1>1. at = "value" /\ AtValue(Here, pos, cursors, skipped) /\ ItemError(pos) = "none"
  BY DEF ExpectScalar, Fitting, Walking, Follows
<1>2. pos \in 0 .. Len(in) /\ cursors \in Seq(Cursor)
  BY DEF Usual, ReaderTypeOK
<1>3. AtValue(Here, ItemAt(pos), cursors, skipped)
  BY <1>1, <1>2, ToItem
<1>4. PICK j : j = ItemAt(pos)
  OBVIOUS
<1>5. PICK t : t = in[j + 1]
  OBVIOUS
<1>6. /\ j \in 0 .. Len(in) /\ j # Len(in) /\ t \in Token /\ IsHead(t)
      /\ t.mt \in {"uint", "nint", "simple"} \cup String \cup Container
      /\ t.mt = "simple" => t.valid
      /\ \E s : /\ At(Conf(Here, j, "item", s), cursors, skipped)
                /\ C(Conf(Here, j, "item", s))!Tok = t
                /\ C(Conf(Here, j, "item", s))!HeadError =
                     IF t.mt = "simple" /\ strict /\ ~t.shortest THEN "non_deterministic"
                     ELSE IF t.mt \in String /\ t.cut = "body" THEN "truncated"
                     ELSE IF t.mt \in Container /\ entry + Len(cursors) >= MaxDepth THEN "depth_exceeded"
                     ELSE "none"
  BY <1>1, <1>2, <1>3, <1>4, <1>5, ItemReady
<1>7. t.mt \in {"uint", "nint", "simple"}
  <2>1. Peek(t) \notin String \cup Container
    BY <1>4, <1>5 DEF ExpectScalar, Fitting, Item
  <2> QED
    BY <1>6, <2>1 DEF Peek
<1>8. t.mt \notin String /\ t.mt \notin Container /\ t.mt # "break" /\ t.mt # "tag"
  BY <1>7 DEF String, Container
<1>9. PICK s : /\ At(Conf(Here, j, "item", s), cursors, skipped)
               /\ C(Conf(Here, j, "item", s))!Tok = t
               /\ C(Conf(Here, j, "item", s))!HeadError =
                    IF t.mt = "simple" /\ strict /\ ~t.shortest THEN "non_deterministic" ELSE "none"
  BY <1>6, <1>8
<1>10. PICK c : c = Conf(Here, j, "item", s)
  OBVIOUS
<1>11. c.in = in /\ c.strict = strict /\ c.entry = entry /\ c.p = j /\ c.k = "item"
  BY <1>10 DEF Conf, Here
<1>12. /\ At(c, cursors, skipped) /\ C(c)!Tok = t
       /\ C(c)!HeadError = IF t.mt = "simple" /\ strict /\ ~t.shortest THEN "non_deterministic" ELSE "none"
  BY <1>9, <1>10
<1>13. CASE strict /\ IsFloat(t) /\ ~t.shortest
  <2>1. t.mt = "simple"
    BY <1>13 DEF IsFloat
  <2>2. Fault(c) = "non_deterministic"
    BY <1>11, <1>12, <1>13, <2>1 DEF Fault
  <2>3. skipped.code = "non_deterministic"
    BY <1>11, <1>12, <2>2, FaultIs DEF At
  <2>4. Ends("non_deterministic", j)
    BY <1>4, <1>5, <1>13 DEF ExpectScalar, Item
  <2> QED
    BY <2>3, <2>4, EndsAgree
<1>14. CASE ~(strict /\ IsFloat(t) /\ ~t.shortest)
  <2>1. C(c)!HeadError = "none"
    <3>1. ~t.reserved /\ t.cut # "head"
      BY <1>1, <1>4, <1>5 DEF ItemError, Item
    <3> QED
      BY <1>6, <1>12, <1>14, <3>1 DEF IsHead
  <2>2. Goes(c)
    BY <1>8, <1>11, <1>12, <2>1 DEF Goes, Over, Fault
  <2>3. PICK d : d = Conf(Here, j + 1, "item_done", C(c)!Marked)
    OBVIOUS
  <2>4. Conf(c, j + 1, "item_done", C(c)!Marked) = d
    BY <1>11, <2>3 DEF Conf, Here
  <2>5. d = After(c)
    BY <1>8, <1>11, <1>12, <2>4 DEF After, AfterHead
  <2>6. d.s = C(c)!Marked /\ d.in = in /\ d.strict = strict /\ d.p = j + 1
    BY <2>3 DEF Conf, Here
  <2>7. At(d, cursors, skipped)
    BY <1>2, <1>6, <1>10, <1>12, <2>2, <2>5, <2>6, MarkedTo
  <2>8. Decoded(cursors, j + 1)
    BY <1>4, <1>5, <1>14 DEF ExpectScalar, Item
  <2>9. j + 1 \in 0 .. Len(in)
    BY <1>6, HeadAt
  <2> QED
    BY <1>2, <2>3, <2>7, <2>8, <2>9, DecodedKept
<1> QED
  BY <1>13, <1>14

(* read_string, for expect_text and expect_bytes and behind the tag of a   *)
(* bignum or a typed array.                                                *)
LEMMA StringKept ==
  ASSUME Usual, phase = "walk", NEW p \in 0 .. Len(in), AtValue(Here, p, cursors, skipped),
         ItemError(p) = "none", Item(p).mt \in String, NEW u, ReadString(ItemAt(p), u)
  PROVE  Kept'
<1>1. cursors \in Seq(Cursor)
  BY DEF Usual, ReaderTypeOK
<1>2. AtValue(Here, ItemAt(p), cursors, skipped)
  BY <1>1, ToItem
<1>3. PICK j : j = ItemAt(p)
  OBVIOUS
<1>4. PICK t : t = in[j + 1]
  OBVIOUS
<1>5. /\ j \in 0 .. Len(in) /\ j # Len(in) /\ t \in Token /\ IsHead(t)
      /\ ~(strict /\ t.indefinite)
      /\ \E s : /\ At(Conf(Here, j, "item", s), cursors, skipped)
                /\ C(Conf(Here, j, "item", s))!Tok = t
                /\ C(Conf(Here, j, "item", s))!HeadError =
                     IF t.mt = "simple" /\ strict /\ ~t.shortest THEN "non_deterministic"
                     ELSE IF t.mt \in String /\ t.cut = "body" THEN "truncated"
                     ELSE IF t.mt \in Container /\ entry + Len(cursors) >= MaxDepth THEN "depth_exceeded"
                     ELSE "none"
  BY <1>1, <1>2, <1>3, <1>4, ItemReady
<1>6. t.mt \in String /\ t.mt \notin Container /\ t.mt \notin {"simple", "break", "tag"}
  BY <1>3, <1>4 DEF Item, String, Container
<1>7. PICK s : /\ At(Conf(Here, j, "item", s), cursors, skipped)
               /\ C(Conf(Here, j, "item", s))!Tok = t
               /\ C(Conf(Here, j, "item", s))!HeadError = IF t.cut = "body" THEN "truncated" ELSE "none"
  BY <1>5, <1>6
<1>8. PICK c : c = Conf(Here, j, "item", s)
  OBVIOUS
<1>9. c.in = in /\ c.strict = strict /\ c.entry = entry /\ c.p = j /\ c.k = "item"
  BY <1>8 DEF Conf, Here
<1>10. /\ At(c, cursors, skipped) /\ C(c)!Tok = t
       /\ C(c)!HeadError = IF t.cut = "body" THEN "truncated" ELSE "none"
  BY <1>7, <1>8
<1>11. C(c)!BadUtf8 <=> ValidateUtf8 /\ t.mt = "text" /\ ~t.valid
  BY <1>10 DEF C!BadUtf8
<1>12. j + 1 \in 0 .. Len(in)
  BY <1>5, HeadAt
<1>13. CASE t.indefinite
  <2>1. t.cut # "body"
    <3>1. ~t.reserved
      BY <1>3, <1>4, <1>5 DEF ItemError, Item
    <3> QED
      BY <1>5, <1>13, <3>1 DEF IsHead
  <2>2. Goes(c)
    BY <1>6, <1>9, <1>10, <1>13, <2>1 DEF Goes, Over, Fault
  <2>3. PICK m : m = C(c)!Marked
    OBVIOUS
  <2>4. PICK d : d = Chunks(Here, j + 1, m, t.mt)
    OBVIOUS
  <2>5. Chunks(c, j + 1, m, t.mt) = d
    BY <1>9, <2>4 DEF Chunks, Here
  <2>6. d = After(c)
    BY <1>6, <1>9, <1>10, <1>13, <2>3, <2>5 DEF After, AfterHead
  <2>7. d.s = C(c)!Marked /\ d.in = in /\ d.strict = strict /\ d.p = j + 1
    BY <2>3, <2>4 DEF Chunks, Here
  <2>8. At(d, cursors, skipped)
    BY <1>1, <1>5, <1>8, <1>10, <2>2, <2>6, <2>7, MarkedTo
  <2>9. /\ pos' = j + 1 /\ at' = "chunk" /\ chunkOf' = t.mt
        /\ UNCHANGED << in, strict, entry, phase, cursors, skipped >>
    BY <1>3, <1>4, <1>13 DEF ReadString, caller
  <2>10. Here' = Here
    BY <2>9 DEF Here
  <2>11. At(Chunks(Here', pos', m, chunkOf'), cursors', skipped')
    BY <2>4, <2>8, <2>9, <2>10
  <2>12. Follows'
    BY <2>9, <2>11 DEF Follows
  <2> QED
    BY <2>9, <2>12 DEF Kept
<1>14. CASE ~t.indefinite /\ t.cut = "body"
  <2>1. Fault(c) = "truncated"
    BY <1>9, <1>10, <1>14 DEF Fault
  <2>2. skipped.code = "truncated"
    BY <1>9, <1>10, <2>1, FaultIs DEF At
  <2>3. Ends("truncated", IF u = NoUndo THEN j ELSE u)
    BY <1>3, <1>4, <1>14 DEF ReadString
  <2> QED
    BY <2>2, <2>3, EndsAgree
<1>15. CASE ~t.indefinite /\ t.cut # "body" /\ C(c)!BadUtf8
  <2>1. Fault(c) = "invalid_utf8"
    BY <1>6, <1>9, <1>10, <1>15 DEF Fault
  <2>2. skipped.code = "invalid_utf8"
    BY <1>9, <1>10, <2>1, FaultIs DEF At
  <2>3. Ends("invalid_utf8", j + 1)
    BY <1>3, <1>4, <1>11, <1>15 DEF ReadString
  <2> QED
    BY <2>2, <2>3, EndsAgree
<1>16. CASE ~t.indefinite /\ t.cut # "body" /\ ~C(c)!BadUtf8
  <2>1. Goes(c)
    BY <1>6, <1>9, <1>10, <1>16 DEF Goes, Over, Fault
  <2>2. PICK d : d = Conf(Here, j + 1, "item_done", C(c)!Marked)
    OBVIOUS
  <2>3. Conf(c, j + 1, "item_done", C(c)!Marked) = d
    BY <1>9, <2>2 DEF Conf, Here
  <2>4. d = After(c)
    BY <1>6, <1>9, <1>10, <1>16, <2>3 DEF After, AfterHead
  <2>5. d.s = C(c)!Marked /\ d.in = in /\ d.strict = strict /\ d.p = j + 1
    BY <2>2 DEF Conf, Here
  <2>6. At(d, cursors, skipped)
    BY <1>1, <1>5, <1>8, <1>10, <2>1, <2>4, <2>5, MarkedTo
  <2>7. Decoded(cursors, j + 1)
    BY <1>3, <1>4, <1>11, <1>16 DEF ReadString
  <2> QED
    BY <1>1, <1>12, <2>2, <2>6, <2>7, DecodedKept
<1> QED
  BY <1>13, <1>14, <1>15, <1>16

(* A string that is read by itself, or behind a tag.                       *)
LEMMA StringsKept ==
  ASSUME Usual, phase = "walk", Follows, ExpectString \/ ExpectTaggedBytes
  PROVE  Kept'
<1>1. at = "value" /\ AtValue(Here, pos, cursors, skipped)
  BY DEF ExpectString, ExpectTaggedBytes, Fitting, Walking, Follows
<1>2. pos \in 0 .. Len(in) /\ cursors \in Seq(Cursor)
  BY DEF Usual, ReaderTypeOK
<1>3. CASE ExpectString
  <2>1. ItemError(pos) = "none" /\ Peek(Item(pos)) \in String /\ ReadString(ItemAt(pos), NoUndo)
    BY <1>3 DEF ExpectString, Fitting
  <2>2. Item(pos).mt \in String
    BY <2>1 DEF Peek, String
  <2> QED
    BY <1>1, <1>2, <2>1, <2>2, StringKept
<1>4. CASE ExpectTaggedBytes
  <2>1. IsTag(pos)
    BY <1>4 DEF ExpectTaggedBytes
  <2>2. pos + 1 \in 0 .. Len(in) /\ AtValue(Here, pos + 1, cursors, skipped)
    BY <1>1, <1>2, <2>1, TagPass
  <2>3. CASE ItemError(pos + 1) \notin {"none", "tag_mismatch"} /\ Ends(ItemError(pos + 1), pos)
    <3>1. AtValue(Here, ItemAt(pos + 1), cursors, skipped)
      BY <1>2, <2>2, ToItem
    <3>2. skipped.code = ItemError(pos + 1)
      BY <1>2, <2>2, <2>3, <3>1, ItemStops
    <3> QED
      BY <2>3, <3>2, EndsAgree
  <2>4. CASE ItemError(pos + 1) = "none" /\ Item(pos + 1).mt = "bytes" /\ ReadString(ItemAt(pos + 1), pos)
    <3>1. Item(pos + 1).mt \in String
      BY <2>4 DEF String
    <3> QED
      BY <2>2, <2>4, <3>1, StringKept
  <2> QED
    BY <1>4, <2>3, <2>4 DEF ExpectTaggedBytes
<1> QED
  BY <1>3, <1>4

(* The chunks of a string.                                                 *)
LEMMA ChunksKept ==
  ASSUME Usual, phase = "walk", Follows, ChunkFails \/ NextChunk
  PROVE  Kept'
<1>1. at = "chunk"
  BY DEF ChunkFails, NextChunk, Walking
<1>2. /\ pos \in 0 .. Len(in) /\ cursors \in Seq(Cursor) /\ Len(cursors) \in Nat /\ Len(in) \in Nat
      /\ chunkOf \in String
  BY LenProperties DEF Usual, ReaderTypeOK, IsInput
<1>3. PICK s : At(Chunks(Here, pos, s, chunkOf), cursors, skipped)
  BY <1>1 DEF Follows
<1>4. PICK c : c = Chunks(Here, pos, s, chunkOf)
  OBVIOUS
<1>5. /\ c.in = in /\ c.strict = strict /\ c.entry = entry /\ c.p = pos /\ c.k = "chunk" /\ c.s = s
      /\ c.h = chunkOf
  BY <1>4 DEF Chunks, Here
<1>6. At(c, cursors, skipped) /\ Tracks(c, cursors, skipped) /\ s \in Seq(Level) /\ Len(s) = Len(cursors)
  BY <1>3, <1>4, <1>5 DEF At, Tracks
<1>7. C(c)!ChunkError = ChunkError /\ C(c)!Tok = Tok
  BY <1>5 DEF C!ChunkError, ChunkError, C!AtEnd, AtEnd, C!Tok, Tok, C!BadUtf8, BadUtf8
<1>8. Fault(c) = ChunkError /\ ~Over(c)
  BY <1>5, <1>7 DEF Fault, Over
<1>9. CASE ChunkFails
  <2>1. ChunkError # "none" /\ Ends(ChunkError, IF undo = NoUndo THEN pos ELSE undo)
    BY <1>9 DEF ChunkFails
  <2>2. skipped.code = ChunkError
    BY <1>5, <1>6, <1>8, <2>1, FaultIs
  <2> QED
    BY <2>1, <2>2, EndsAgree
<1>10. CASE NextChunk
  <2>1. ChunkError = "none"
    BY <1>10 DEF NextChunk
  <2>2. Goes(c)
    BY <1>8, <2>1 DEF Goes
  <2>3. pos # Len(in) /\ pos + 1 \in 0 .. Len(in)
    BY <1>2, <2>1 DEF ChunkError, AtEnd
  <2>4. PICK d : d = After(c)
    OBVIOUS
  <2>5. d = IF Tok.mt = "break" THEN Conf(Here, pos + 1, "item_done", s) ELSE Chunks(Here, pos + 1, s, chunkOf)
    <3>1. /\ Conf(c, pos + 1, "item_done", s) = Conf(Here, pos + 1, "item_done", s)
          /\ Chunks(c, pos + 1, s, chunkOf) = Chunks(Here, pos + 1, s, chunkOf)
      BY <1>5 DEF Conf, Chunks, Here
    <3> QED
      BY <1>5, <1>7, <2>4, <3>1 DEF After
  <2>6. d.in = in /\ d.strict = strict /\ d.p = pos + 1 /\ d.s = s
    BY <2>5 DEF Conf, Chunks, Here
  <2>7. \A i \in 1 .. Len(cursors) : Held(c.s[i], cursors[i])
    BY <1>6 DEF Tracks
  <2>8. /\ d.strict = c.strict /\ d.p \in 0 .. Len(d.in) /\ d.s \in Seq(Level) /\ Len(cursors) <= Len(d.s)
        /\ c.k # "item_done" /\ d.s = c.s
    BY <1>2, <1>5, <1>6, <2>3, <2>6
  <2>9. Tracks(d, cursors, skipped)
    BY <1>2, <1>6, <2>2, <2>4, <2>7, <2>8, Follow
  <2>10. At(d, cursors, skipped)
    BY <1>6, <2>6, <2>9 DEF At
  <2>11. CASE Tok.mt = "break"
    <3>1. Decoded(cursors, pos + 1)
      BY <1>10, <2>11 DEF NextChunk
    <3> QED
      BY <1>2, <2>3, <2>5, <2>10, <2>11, <3>1, DecodedKept
  <2>12. CASE Tok.mt # "break"
    <3>1. pos' = pos + 1 /\ UNCHANGED << in, strict, entry, phase, at, cursors, skipped, chunkOf >>
      BY <1>10, <2>12 DEF NextChunk, caller
    <3>2. Here' = Here
      BY <3>1 DEF Here
    <3>3. At(Chunks(Here', pos', s, chunkOf'), cursors', skipped')
      BY <2>5, <2>10, <2>12, <3>1, <3>2
    <3>4. Follows'
      BY <1>1, <3>1, <3>3 DEF Follows
    <3> QED
      BY <3>1, <3>4 DEF Kept
  <2> QED
    BY <2>11, <2>12
<1> QED
  BY <1>9, <1>10

(* A container is entered.                                                 *)
LEMMA ContainerKept ==
  ASSUME Usual, phase = "walk", depth = entry + Len(cursors), Follows, ExpectContainer
  PROVE  Kept'
<1>1. at = "value" /\ AtValue(Here, pos, cursors, skipped) /\ ItemError(pos) = "none"
  BY DEF ExpectContainer, Fitting, Walking, Follows
<1>2. pos \in 0 .. Len(in) /\ cursors \in Seq(Cursor) /\ Len(cursors) \in Nat
  BY LenProperties DEF Usual, ReaderTypeOK
<1>3. AtValue(Here, ItemAt(pos), cursors, skipped)
  BY <1>1, <1>2, ToItem
<1>4. PICK j : j = ItemAt(pos)
  OBVIOUS
<1>5. PICK t : t = in[j + 1]
  OBVIOUS
<1>6. /\ j \in 0 .. Len(in) /\ j # Len(in) /\ t \in Token /\ IsHead(t)
      /\ \E s : /\ At(Conf(Here, j, "item", s), cursors, skipped)
                /\ C(Conf(Here, j, "item", s))!Tok = t
                /\ C(Conf(Here, j, "item", s))!HeadError =
                     IF t.mt = "simple" /\ strict /\ ~t.shortest THEN "non_deterministic"
                     ELSE IF t.mt \in String /\ t.cut = "body" THEN "truncated"
                     ELSE IF t.mt \in Container /\ entry + Len(cursors) >= MaxDepth THEN "depth_exceeded"
                     ELSE "none"
  BY <1>1, <1>2, <1>3, <1>4, <1>5, ItemReady
<1>7. t.mt \in Container /\ t.mt \notin String /\ t.mt \notin {"simple", "break", "tag"}
  <2>1. Peek(t) \in Container
    BY <1>4, <1>5 DEF ExpectContainer, Fitting, Item
  <2> QED
    BY <2>1 DEF Peek, String, Container
<1>8. PICK s : /\ At(Conf(Here, j, "item", s), cursors, skipped)
               /\ C(Conf(Here, j, "item", s))!Tok = t
               /\ C(Conf(Here, j, "item", s))!HeadError = IF Full THEN "depth_exceeded" ELSE "none"
  BY <1>6, <1>7 DEF Full
<1>9. PICK c : c = Conf(Here, j, "item", s)
  OBVIOUS
<1>10. c.in = in /\ c.strict = strict /\ c.entry = entry /\ c.p = j /\ c.k = "item" /\ c.s = s
  BY <1>9 DEF Conf, Here
<1>11. /\ At(c, cursors, skipped) /\ C(c)!Tok = t
       /\ C(c)!HeadError = IF Full THEN "depth_exceeded" ELSE "none"
  BY <1>8, <1>9
<1>12. Tracks(c, cursors, skipped) /\ s \in Seq(Level) /\ Len(s) = Len(cursors) /\ j \in Nat
  BY <1>10, <1>11 DEF At, Tracks
<1>13. j + 1 \in 0 .. Len(in) /\ (t.mt = "map" => 2 * t.value < W) /\ Len(in) \in Nat
  BY <1>5, <1>6, HeadAt
<1>14. CASE Full
  <2>1. Fault(c) = "depth_exceeded"
    BY <1>10, <1>11, <1>14 DEF Fault
  <2>2. skipped.code = "depth_exceeded"
    BY <1>10, <1>12, <2>1, FaultIs
  <2>3. Ends("depth_exceeded", j)
    BY <1>4, <1>14 DEF ExpectContainer
  <2> QED
    BY <2>2, <2>3, EndsAgree
<1>15. CASE ~Full
  <2>1. Goes(c)
    BY <1>7, <1>10, <1>11, <1>15 DEF Goes, Over, Fault
  <2>2. PICK w : w = NewCursor(t)
    OBVIOUS
  <2>3. /\ w.is_map <=> t.mt = "map"
        /\ w.remaining = IF t.indefinite THEN Nullopt ELSE t.value
        /\ ~w.key /\ w.prev = << 0, 0 >>
    BY <2>2 DEF NewCursor
  <2>4. t.value \in Nat /\ t.value \in 0 .. W - 1 /\ t.indefinite \in BOOLEAN /\ W \in Nat
    BY <1>6, WidthAssumption DEF Token
  <2>5. w \in Cursor
    BY <2>2, <2>4 DEF NewCursor, Cursor
  <2>6. PICK ds : ds = Append(cursors, w)
    OBVIOUS
  <2>7. /\ Len(cursors) \in Nat
        /\ ds \in Seq(Cursor) /\ ds # << >> /\ Len(ds) = Len(cursors) + 1 /\ ds[Len(ds)] = w
        /\ Outer(ds) = cursors
    BY <1>2, <2>5, <2>6, OuterAppend
  <2>8. /\ pos' = j + 1 /\ cursors' = ds /\ at' = "next"
        /\ UNCHANGED << in, strict, entry, phase, skipped >>
    BY <1>4, <1>5, <1>15, <2>2, <2>6 DEF ExpectContainer, Item, caller
  <2>9. Here' = Here
    BY <2>8 DEF Here
  <2>10. C(c)!Empty <=> t.value = 0 /\ ~t.indefinite
    BY <1>11 DEF C!Empty
  <2>11. PICK m : m = C(c)!Marked
    OBVIOUS
  <2>12. m \in Seq(Level) /\ Len(m) = Len(s)
    BY <1>10, <1>12, <2>11, MarkedKeeps
  <2>13. AtNext(Here, j + 1, ds, skipped)
    <3>1. CASE C(c)!Empty
      <4>1. PICK d : d = Conf(Here, j + 1, "item_done", m)
        OBVIOUS
      <4>2. Conf(c, j + 1, "item_done", m) = d
        BY <1>10, <4>1 DEF Conf, Here
      <4>3. d = After(c)
        BY <1>7, <1>10, <1>11, <2>11, <3>1, <4>2 DEF After, AfterHead
      <4>4. d.s = C(c)!Marked /\ d.in = in /\ d.strict = strict /\ d.p = j + 1
        BY <2>11, <4>1 DEF Conf, Here
      <4>5. At(d, cursors, skipped)
        BY <1>2, <1>6, <1>9, <1>11, <2>1, <4>3, <4>4, MarkedTo
      <4>6. ds[Len(ds)].remaining = 0 /\ ~ds[Len(ds)].key
        BY <2>3, <2>7, <2>10, <3>1
      <4> QED
        BY <2>7, <4>1, <4>5, <4>6 DEF AtNext
    <3>2. CASE ~C(c)!Empty
      <4>1. PICK l : l = C(c)!NewLevel
        OBVIOUS
      <4>2. /\ l.is_map <=> t.mt = "map"
            /\ l.key_next /\ l.key_start = NoKey /\ l.prev = << 0, 0 >>
            /\ l.remaining = IF t.indefinite THEN Nullopt ELSE IF t.mt = "map" THEN 2 * t.value ELSE t.value
        BY <1>11, <1>13, <4>1 DEF C!NewLevel, C!LevelCount, C!Doubled, C!Nullopt, Nullopt, C!NoKey, NoKey
      <4>3. l \in Level
        BY <1>11, <1>13, <2>4, <4>1
           DEF C!NewLevel, C!LevelCount, C!Doubled, C!Nullopt, Nullopt, C!NoKey, NoKey, Level
      <4>4. PICK a : a = Append(m, l)
        OBVIOUS
      <4>5. /\ a \in Seq(Level) /\ Len(a) = Len(s) + 1 /\ Len(s) \in Nat
            /\ \A i \in 1 .. Len(s) : a[i] = m[i]
            /\ a[Len(a)] = l
        BY <2>12, <4>3, <4>4, AppendProperties, LenProperties
      <4>6. PICK d : d = Conf(Here, j + 1, "item", a)
        OBVIOUS
      <4>7. Conf(c, j + 1, "item", a) = d
        BY <1>10, <4>6 DEF Conf, Here
      <4>8. d = After(c)
        BY <1>7, <1>10, <1>11, <2>11, <3>2, <4>1, <4>4, <4>7 DEF After, AfterHead
      <4>9. d.s = a /\ d.in = in /\ d.strict = strict /\ d.p = j + 1
        BY <4>6 DEF Conf, Here
      <4>10. /\ d.strict = c.strict /\ d.in = c.in /\ d.p \in 0 .. Len(c.in) /\ d.s \in Seq(Level)
             /\ Len(d.s) >= Len(c.s)
        BY <1>10, <1>13, <4>5, <4>9
      <4>11. \A i \in 1 .. Len(c.s) : d.s[i] = C(c)!Marked[i]
        BY <1>10, <2>11, <4>5, <4>9
      <4>12. Tracks(d, cursors, skipped)
        BY <1>2, <1>10, <1>12, <2>1, <4>8, <4>10, <4>11, FollowMarked
      <4>13. Fresh(a[Len(a)], w)
        <5>1. w.remaining # 0
          BY <2>3, <2>10, <3>2 DEF Nullopt
        <5>2. w.remaining # Nullopt <=> ~t.indefinite
          BY <2>3, <2>4 DEF Nullopt
        <5> QED
          BY <2>3, <4>2, <4>5, <5>1, <5>2 DEF Fresh
      <4> QED
        BY <1>12, <2>7, <4>5, <4>6, <4>12, <4>13 DEF AtNext
    <3> QED
      BY <3>1, <3>2
  <2>14. AtNext(Here, pos, cursors, skipped)'
    BY <2>8, <2>9, <2>13
  <2>15. Follows'
    BY <2>8, <2>14 DEF Follows
  <2> QED
    BY <2>8, <2>15 DEF Kept
<1> QED
  BY <1>14, <1>15

(* next() finds the end of the input instead of an item.                   *)
LEMMA CutKept ==
  ASSUME Usual, phase = "walk", Follows, NextCut
  PROVE  Kept'
<1>1. cursors # << >> /\ AtNext(Here, pos, cursors, skipped) /\ Cur.remaining # 0 /\ pos = Len(in)
  BY DEF NextCut, Asking, Walking, Follows, AtEnd
<1>2. pos \in 0 .. Len(in) /\ cursors \in Seq(Cursor)
  BY DEF Usual, ReaderTypeOK
<1>3. PICK s : Tracks(Conf(Here, pos, "item", s), Outer(cursors), skipped)
  BY <1>1, <1>2, NextReady DEF Cur
<1>4. PICK c : c = Conf(Here, pos, "item", s)
  OBVIOUS
<1>5. c.in = in /\ c.p = pos /\ c.k = "item"
  BY <1>4 DEF Conf, Here
<1>6. Fault(c) = "truncated"
  BY <1>1, <1>5 DEF Fault, C!HeadError, C!AtEnd
<1>7. skipped.code = "truncated"
  BY <1>3, <1>4, <1>5, <1>6, FaultIs
<1>8. Ends("truncated", pos)
  BY DEF NextCut
<1> QED
  BY <1>7, <1>8, EndsAgree

(* next() finds the end of the container: its count, or a break.           *)
LEMMA NextEndsKept ==
  ASSUME Usual, phase = "walk", Follows, NextEnds
  PROVE  Kept'
<1>1. cursors # << >> /\ AtNext(Here, pos, cursors, skipped)
  BY DEF NextEnds, Asking, Walking, Follows
<1>2. pos \in 0 .. Len(in) /\ cursors \in Seq(Cursor) /\ Len(in) \in Nat
  BY LenProperties DEF Usual, ReaderTypeOK, IsInput
<1>3. PICK n \in Nat \ {0} : n = Len(cursors)
  BY <1>1, <1>2, PopSeq
<1>4. Outer(cursors) \in Seq(Cursor) /\ Len(Outer(cursors)) = n - 1
  BY <1>1, <1>2, <1>3, PopSeq DEF Outer
<1>5. Decoded(Outer(cursors), IF Stop THEN pos + 1 ELSE pos) /\ (Cur.remaining = 0 \/ Stop)
  BY DEF NextEnds, Outer
<1>6. CASE ~Stop
  <2>1. Cur.remaining = 0
    BY <1>5, <1>6
  <2>2. PICK s : At(Conf(Here, pos, "item_done", s), Outer(cursors), skipped)
    BY <1>1, <1>2, <2>1, NextReady DEF Cur
  <2>3. Decoded(Outer(cursors), pos)
    BY <1>5, <1>6
  <2> QED
    BY <1>2, <1>4, <2>2, <2>3, DecodedKept
<1>7. CASE Stop
  <2>1. Cur.remaining = Nullopt /\ pos # Len(in) /\ in[pos + 1].mt = "break"
    BY <1>7 DEF Stop, AtEnd, Tok
  <2>2. Cur.remaining # 0
    BY <2>1 DEF Nullopt
  <2>3. PICK s : /\ Tracks(Conf(Here, pos, "item", s), Outer(cursors), skipped)
                 /\ Len(s) = n /\ Ready(s[n], Cur)
    BY <1>1, <1>2, <1>3, <2>2, NextReady DEF Cur
  <2>4. PICK c : c = Conf(Here, pos, "item", s)
    OBVIOUS
  <2>5. c.in = in /\ c.strict = strict /\ c.entry = entry /\ c.p = pos /\ c.k = "item" /\ c.s = s
    BY <2>4 DEF Conf, Here
  <2>6. Tracks(c, Outer(cursors), skipped) /\ s \in Seq(Level)
    BY <2>3, <2>4, <2>5 DEF Tracks
  <2>7. s # << >>
    BY <1>3, <2>3, <2>6, EmptySeq
  <2>8. C(c)!MayBreak
    <3>1. C(c)!Top = s[n]
      BY <2>3, <2>5 DEF C!Top
    <3> QED
      BY <2>1, <2>3, <2>5, <2>7, <3>1 DEF C!MayBreak, Ready, C!Nullopt, Nullopt
  <2>9. C(c)!Tok = in[pos + 1] /\ in[pos + 1].cut = "none" /\ pos + 1 \in 0 .. Len(in)
    <3>1. IsHead(in[pos + 1]) /\ pos + 1 \in 0 .. Len(in)
      BY <1>2, <2>1, HeadAt
    <3> QED
      BY <2>1, <2>5, <3>1 DEF IsHead, C!Tok
  <2>10. C(c)!HeadError = "none"
    BY <2>1, <2>5, <2>8, <2>9 DEF C!HeadError, C!AtEnd
  <2>11. Goes(c)
    BY <2>1, <2>5, <2>9, <2>10 DEF Goes, Over, Fault, String
  <2>12. PICK r : r = SubSeq(s, 1, Len(s) - 1)
    OBVIOUS
  <2>13. r \in Seq(Level) /\ Len(r) = n - 1 /\ \A i \in 1 .. n - 1 : r[i] = s[i]
    BY <2>3, <2>6, <2>7, <2>12, PopSeq
  <2>14. PICK d : d = Conf(Here, pos + 1, "item_done", r)
    OBVIOUS
  <2>15. Conf(c, pos + 1, "item_done", r) = d
    BY <2>5, <2>14 DEF Conf, Here
  <2>16. d = After(c)
    BY <2>1, <2>5, <2>9, <2>12, <2>15 DEF After, AfterHead, C!Pop
  <2>17. d.in = in /\ d.strict = strict /\ d.p = pos + 1 /\ d.s = r
    BY <2>14 DEF Conf, Here
  <2>18. ASSUME NEW i \in 1 .. Len(Outer(cursors))
         PROVE  /\ Held(d.s[i], Outer(cursors)[i])
                /\ Outer(cursors)[i].is_map /\ ~Outer(cursors)[i].key =>
                     d.s[i].key_start = c.s[i].key_start /\ d.s[i].prev = c.s[i].prev
    <3>1. Held(c.s[i], Outer(cursors)[i])
      BY <2>6 DEF Tracks
    <3>2. d.s[i] = c.s[i]
      BY <1>4, <2>5, <2>13, <2>17
    <3> QED
      BY <3>1, <3>2
  <2>19. /\ Len(Outer(cursors)) <= Len(d.s) /\ Len(Outer(cursors)) \in Nat
         /\ c.k # "item_done" /\ d.p \in 0 .. Len(d.in) /\ d.s \in Seq(Level) /\ d.strict = c.strict
    BY <1>3, <1>4, <2>5, <2>9, <2>13, <2>17
  <2>20. Tracks(d, Outer(cursors), skipped)
    BY <2>6, <2>11, <2>16, <2>18, <2>19, Follow
  <2>21. At(d, Outer(cursors), skipped)
    BY <1>4, <2>13, <2>17, <2>20 DEF At
  <2>22. Decoded(Outer(cursors), pos + 1)
    BY <1>5, <1>7
  <2> QED
    BY <1>4, <2>9, <2>14, <2>21, <2>22, DecodedKept
<1> QED
  BY <1>6, <1>7

(* Everything is read: the entry points look whether something follows.    *)
LEMMA FinishKept ==
  ASSUME Usual, phase = "walk", depth = entry + Len(cursors), Follows, Finish
  PROVE  Kept'
<1>1. cursors = << >> /\ AtNext(Here, pos, cursors, skipped)
  BY DEF Finish, Walking, Follows
<1>2. PICK s : At(Conf(Here, pos, "item_done", s), cursors, skipped)
  BY <1>1 DEF AtNext
<1>3. PICK c : c = Conf(Here, pos, "item_done", s)
  OBVIOUS
<1>4. c.entry = entry /\ c.p = pos /\ c.k = "item_done" /\ c.s = s
  BY <1>3 DEF Conf, Here
<1>5. s \in Seq(Level) /\ Len(s) = 0 /\ Leads(c, skipped)
  BY <1>1, <1>2, <1>3, <1>4 DEF At, Tracks
<1>6. Over(c)
  BY <1>4, <1>5, EmptySeq DEF Over
<1>7. skipped = Verdict("none", pos, entry)
  <2>1. Stops(c, skipped)
    BY <1>5, <1>6, LeadsStops DEF Goes
  <2> QED
    BY <1>4, <1>6, <2>1 DEF Stops
<1>8. entry \in Nat /\ depth = entry
  BY <1>1 DEF Usual, ReaderTypeOK
<1>9. /\ phase' = "done" /\ skipped' = skipped /\ UNCHANGED << in, entry >>
      /\ walked' = Verdict(IF entry = 0 /\ pos < Len(in) THEN "trailing_content" ELSE "none", pos, depth)
  BY DEF Finish, Ends, caller
<1>10. /\ skipped'.code = "none" /\ skipped'.pos = pos /\ skipped'.depth = entry
       /\ walked'.code = (IF entry = 0 /\ pos < Len(in) THEN "trailing_content" ELSE "none")
       /\ walked'.pos = pos /\ walked'.depth = entry
  BY <1>7, <1>8, <1>9 DEF Verdict
<1> QED
  BY <1>9, <1>10 DEF Kept, Agree

(* next() finds an item: it is decoded, or, before a key in deterministic  *)
(* mode, the validator runs over it first.                                 *)
LEMMA NextItemKept ==
  ASSUME Usual, phase = "walk", depth = entry + Len(cursors), stack = << >>, Follows, NextItem
  PROVE  \/ Kept'
         \/ phase' = "key" /\ (strict /\ Cur.is_map /\ Cur.key /\ \E s : KeyLook(s, Restored(saved)[1]))'
<1>1. /\ cursors # << >> /\ AtNext(Here, pos, cursors, skipped)
      /\ Cur.remaining # 0 /\ pos # Len(in)
      /\ Cur.remaining = Nullopt => in[pos + 1].mt # "break"
  BY DEF NextItem, Asking, Walking, Follows, AtEnd, Stop, Tok
<1>2. pos \in 0 .. Len(in) /\ cursors \in Seq(Cursor) /\ depth \in 0 .. MaxDepth /\ ReaderTypeOK
  BY DEF Usual, ReaderTypeOK
<1>3. PICK n \in Nat \ {0} : n = Len(cursors)
  BY <1>1, <1>2, PopSeq
<1>4. PICK u \in Cursor : u = Cur
  BY <1>1, <1>2, PopSeq DEF Cur
<1>5. PICK s : /\ Tracks(Conf(Here, pos, "item", s), Outer(cursors), skipped)
               /\ Len(s) = n /\ Ready(s[n], u)
  BY <1>1, <1>2, <1>3, <1>4, NextReady DEF Cur
<1>6. PICK c : c = Conf(Here, pos, "item", s)
  OBVIOUS
<1>7. c.in = in /\ c.strict = strict /\ c.p = pos /\ c.k = "item" /\ c.s = s
  BY <1>6 DEF Conf, Here
<1>8. Tracks(c, Outer(cursors), skipped) /\ s \in Seq(Level)
  BY <1>5, <1>6, <1>7 DEF Tracks
<1>9. PICK w : w = Taken(Cur.is_map)
  OBVIOUS
<1>10. /\ w.is_map = u.is_map /\ w.key = u.is_map /\ w.prev = u.prev
       /\ w.remaining = IF u.remaining = Nullopt THEN Nullopt ELSE u.remaining - 1
       /\ w \in Cursor
  <2>1. u.remaining # Nullopt => u.remaining - 1 \in 0 .. W - 1
    BY <1>1, <1>4, WidthAssumption DEF Cursor
  <2>2. u.is_map \in BOOLEAN
    BY DEF Cursor
  <2> QED
    BY <1>4, <1>9, <2>1, <2>2 DEF Taken, Cursor
<1>11. PICK ds : ds = Replace(cursors, w)
  OBVIOUS
<1>12. ds \in Seq(Cursor) /\ ds # << >> /\ Len(ds) = n /\ ds[n] = w /\ Outer(ds) = Outer(cursors)
  BY <1>1, <1>2, <1>3, <1>10, <1>11, OuterIs
<1>13. Held(s[n], w)
  <2>1. CASE u.remaining = Nullopt
    BY <1>5, <1>10, <2>1 DEF Ready, Held
  <2>2. CASE u.remaining # Nullopt
    <3>1. u.remaining \in Nat \ {0} /\ w.remaining = u.remaining - 1 /\ w.remaining # Nullopt
      BY <1>1, <1>4, <1>10, <2>2 DEF Cursor, Nullopt
    <3>2. s[n].remaining = IF w.is_map THEN 2 * w.remaining + 2 ELSE w.remaining + 1
      BY <1>5, <1>10, <2>2, <3>1 DEF Ready
    <3>3. (s[n].is_map <=> w.is_map) /\ s[n].key_next
      BY <1>5, <1>10 DEF Ready
    <3> QED
      BY <1>10, <3>1, <3>2, <3>3 DEF Held
  <2> QED
    BY <2>1, <2>2
<1>14. NoBreak(c)
  <2>1. C(c)!Top = s[n]
    BY <1>5, <1>7 DEF C!Top
  <2>2. s[n].remaining = Nullopt => in[pos + 1].mt # "break"
    <3>1. u.remaining # Nullopt => u.remaining \in Nat /\ 2 * u.remaining \in Nat
      BY DEF Cursor
    <3> QED
      BY <1>1, <1>4, <1>5, <3>1 DEF Ready, Nullopt
  <2> QED
    BY <1>7, <2>1, <2>2 DEF NoBreak, C!MayBreak, C!Nullopt, Nullopt
<1>15. cursors' = ds /\ UNCHANGED << in, strict, pos, depth, stack, entry, skipped >>
  BY <1>9, <1>11 DEF NextItem, caller
<1>16. Here' = Here
  BY <1>15 DEF Here
<1>17. CASE ~(Cur.is_map /\ strict)
  <2>1. KeyHeld(c, n, w)
    BY <1>4, <1>7, <1>10, <1>17 DEF KeyHeld
  <2>2. At(c, ds, skipped)
    BY <1>3, <1>5, <1>7, <1>8, <1>12, <1>13, <2>1, TopHeld
  <2>3. AtValue(Here, pos, ds, skipped)
    BY <1>6, <1>14, <2>2 DEF AtValue
  <2>4. phase' = "walk" /\ at' = "value"
    BY <1>17 DEF NextItem
  <2>5. AtValue(Here, pos, cursors, skipped)'
    BY <1>15, <1>16, <2>3
  <2> QED
    BY <2>4, <2>5 DEF Kept, Follows
<1>18. CASE Cur.is_map /\ strict
  <2>1. phase' = "key" /\ saved' = Saved(pos, depth) /\ pc' = "item"
    BY <1>18 DEF NextItem
  <2>2. Restored(saved)[1]' = pos
    <3>1. Restored(Saved(pos, depth))[1] = pos
      BY <1>2, RestoredSaved
    <3>2. Restored(saved') = Restored(Saved(pos, depth))
      BY <2>1
    <3> QED
      BY <3>1, <3>2
  <2>3. Cur' = w /\ Len(cursors)' = n /\ Outer(cursors)' = Outer(cursors)
    BY <1>12, <1>15 DEF Cur
  <2>4. (strict /\ Cur.is_map /\ Cur.key)'
    BY <1>4, <1>10, <1>15, <1>18, <2>3
  <2>5. PICK q : q = pos
    OBVIOUS
  <2>6. Now(s)' = c /\ Conf(Here, q, "item", s)' = c
    BY <1>6, <1>8, <1>15, <1>16, <2>1, <2>5, ConcatEmptySeq DEF Now
  <2>7. s[n].key_start = NoKey /\ s[n].prev = w.prev
    BY <1>4, <1>5, <1>10, <1>18 DEF Ready
  <2>8. Path(c, c, n) /\ Leads(c, skipped)
    BY <1>8, PathStart DEF Tracks
  <2>9. NoBreak(Now(s))'
    BY <1>14, <2>6
  <2>10. (\E o : /\ o = MarkedAt(s, q) \/ (o = s /\ pc = "item" /\ stack = << >> /\ pos = q)
                 /\ Path(Conf(Here, q, "item", s), Now(o), Len(cursors)) /\ Leads(Now(o), skipped)
                 /\ pc = "item" /\ stack = << >> => NoBreak(Now(o)))'
    <3>1. (/\ s = s /\ pc = "item" /\ stack = << >> /\ pos = q
           /\ Path(Conf(Here, q, "item", s), Now(s), Len(cursors)) /\ Leads(Now(s), skipped)
           /\ NoBreak(Now(s)))'
      BY <1>15, <2>1, <2>3, <2>5, <2>6, <2>8, <2>9
    <3> QED
      BY <3>1
  <2>11. KeyLook(s, q)'
    BY <1>5, <1>8, <1>13, <1>14, <1>15, <2>1, <2>3, <2>6, <2>7, <2>10 DEF KeyLook
  <2>12. (\E s1 : KeyLook(s1, Restored(saved)[1]))'
    BY <2>2, <2>5, <2>11
  <2> QED
    BY <2>1, <2>4, <2>12
<1> QED
  BY <1>17, <1>18

(* key_ahead, after its look at the key: the reader is back before it, and *)
(* the order of the keys is what skip_value finds it to be.                *)
LEMMA KeyAheadKept ==
  ASSUME ReaderInv, AgreeInv, phase = "key", ~Wide, ~LongTag, KeyAhead
  PROVE  Kept'
<1>1. /\ cursors # << >> /\ cursors \in Seq(Cursor) /\ pos \in 0 .. Len(in) /\ Len(in) \in Nat
      /\ pc \in {"ok", "fail"}
  BY LenProperties DEF ReaderInv, ReaderTypeOK, IsInput, KeyAhead
<1>2. PICK q : q = Restored(saved)[1]
  OBVIOUS
<1>3. PICK n \in Nat \ {0} : n = Len(cursors)
  BY <1>1, PopSeq
<1>4. PICK u \in Cursor : u = Cur
  BY <1>1, PopSeq DEF Cur
<1>5. strict /\ u.is_map /\ u.key
  BY <1>4 DEF AgreeInv
<1>6. PICK s : KeyLook(s, q)
  BY <1>2 DEF AgreeInv
<1>7. PICK c : c = Conf(Here, q, "item", s)
  OBVIOUS
<1>8. PICK r : r = MarkedAt(s, q)
  OBVIOUS
<1>9. PICK e : e = Conf(Here, pos, "item_done", r)
  OBVIOUS
<1>10. /\ Tracks(c, Outer(cursors), skipped) /\ Len(s) = n /\ NoBreak(c)
       /\ Held(s[n], u) /\ s[n].key_start = NoKey /\ s[n].prev = u.prev
       /\ pc = "ok" => Path(c, e, n) /\ Leads(e, skipped)
       /\ pc = "fail" => \A k : Clean(c, n, k)
  BY <1>3, <1>4, <1>6, <1>7, <1>8, <1>9 DEF KeyLook
<1>11. c.in = in /\ c.strict = strict /\ c.p = q /\ c.s = s
  BY <1>7 DEF Conf, Here
<1>12. q \in Nat /\ s \in Seq(Level)
  BY <1>10, <1>11 DEF Tracks
<1>13. s # << >>
  BY <1>3, <1>10, <1>12, EmptySeq
<1>14. /\ r \in Seq(Level) /\ r # << >> /\ Len(r) = n
       /\ r[n].key_start = q /\ r[n].prev = u.prev /\ r[n].is_map /\ r[n].key_next
  <2>1. s[n].is_map /\ s[n].key_next
    BY <1>5, <1>10 DEF Held
  <2>2. /\ r \in Seq(Level) /\ r # << >> /\ Len(r) = n /\ r[n].key_start = q
        /\ r[n].prev = s[n].prev /\ (r[n].is_map <=> s[n].is_map) /\ (r[n].key_next <=> s[n].key_next)
    BY <1>8, <1>10, <1>12, <1>13, MarkedAtIs
  <2> QED
    BY <1>10, <2>1, <2>2
<1>15. e.in = in /\ e.strict = strict /\ e.p = pos /\ e.k = "item_done" /\ e.s = r
  BY <1>9 DEF Conf, Here
<1>16. C(e)!OutOfOrder <=> u.prev # << 0, 0 >> /\ ~InOrder(KeyBytes(u.prev), KeyBytes(<< q, pos >>))
  <2>1. C(e)!Top = r[n]
    BY <1>14, <1>15 DEF C!Top
  <2>2. C(e)!KeyDone
    BY <1>5, <1>14, <1>15, <2>1 DEF C!KeyDone
  <2>3. C(e)!PreviousKey = KeyBytes(u.prev) /\ C(e)!CurrentKey = KeyBytes(<< q, pos >>)
    BY <1>14, <1>15, <2>1 DEF C!PreviousKey, C!CurrentKey, KeyBytes
  <2>4. C(e)!EncodedLess(C(e)!PreviousKey, C(e)!CurrentKey) <=> InOrder(KeyBytes(u.prev), KeyBytes(<< q, pos >>))
    BY <2>3, SameOrder DEF InOrder
  <2> QED
    BY <1>14, <2>1, <2>2, <2>4 DEF C!OutOfOrder
<1>17. pos' = q /\ UNCHANGED << in, strict, entry, skipped >>
  BY <1>2 DEF KeyAhead, caller
<1>18. Here' = Here
  BY <1>17 DEF Here
<1>19. ASSUME NEW ds, NEW w \in Cursor, ds = Replace(cursors, w), w.is_map, w.key, w.remaining = u.remaining,
              Clean(c, n, w.prev), cursors' = ds, phase' = "walk", at' = "value"
       PROVE  Kept'
  <2>1. ds \in Seq(Cursor) /\ ds # << >> /\ Len(ds) = n /\ ds[n] = w /\ Outer(ds) = Outer(cursors)
    BY <1>1, <1>3, <1>19, OuterIs
  <2>2. Held(s[n], w) /\ KeyHeld(c, n, w)
    BY <1>5, <1>10, <1>19 DEF Held, KeyHeld
  <2>3. At(c, ds, skipped)
    BY <1>10, <1>11, <2>1, <2>2, TopHeld
  <2>4. AtValue(Here, q, ds, skipped)
    BY <1>7, <1>10, <2>3 DEF AtValue
  <2>5. AtValue(Here, pos, cursors, skipped)'
    BY <1>17, <1>18, <1>19, <2>4
  <2> QED
    BY <1>19, <2>5 DEF Kept, Follows
<1>20. CASE pc = "ok" /\ C(e)!OutOfOrder
  <2>1. Fault(e) = "non_deterministic" /\ ~Over(e)
    BY <1>14, <1>15, <1>20 DEF Fault, Over
  <2>2. skipped.code = "non_deterministic"
    BY <1>10, <1>20, <2>1, LeadsStops DEF Goes, Stops
  <2>3. phase' = "done" /\ walked' = Verdict("non_deterministic", q, Restored(saved)[2])
    BY <1>2, <1>4, <1>16, <1>20 DEF KeyAhead
  <2>4. walked'.code = "non_deterministic"
    BY <2>3 DEF Verdict
  <2> QED
    BY <1>17, <2>2, <2>3, <2>4 DEF Kept, Agree
<1>21. CASE pc = "ok" /\ ~C(e)!OutOfOrder
  <2>1. Exits(e, n) /\ << e.s[n].key_start, e.p >> = << q, pos >>
    BY <1>14, <1>15 DEF Exits
  <2>2. Clean(c, n, << q, pos >>)
    BY <1>10, <1>21, <2>1, PathExits
  <2>3. PICK w : w = [Cur EXCEPT !.prev = << q, pos >>]
    OBVIOUS
  <2>4. w \in Cursor /\ w.is_map /\ w.key /\ w.remaining = u.remaining /\ w.prev = << q, pos >>
    <3>1. << q, pos >> \in Nat \X Nat
      BY <1>1, <1>12
    <3>2. PICK k \in Nat \X Nat : k = << q, pos >>
      BY <3>1
    <3>3. w = [u EXCEPT !.prev = k]
      BY <1>4, <2>3, <3>2
    <3> QED
      BY <1>5, <3>2, <3>3 DEF Cursor
  <2>5. cursors' = Replace(cursors, w) /\ phase' = "walk" /\ at' = "value"
    BY <1>2, <1>4, <1>16, <1>21, <2>3 DEF KeyAhead
  <2> QED
    BY <1>19, <2>2, <2>4, <2>5
<1>22. CASE pc = "fail"
  <2>1. cursors' = cursors /\ phase' = "walk" /\ at' = "value"
    BY <1>22 DEF KeyAhead
  <2>2. Clean(c, n, u.prev)
    BY <1>10, <1>22
  <2>3. cursors = Replace(cursors, u)
    <3>1. Replace(cursors, u) \in Seq(Cursor) /\ Len(Replace(cursors, u)) = Len(cursors)
      BY <1>1, ReplaceSeq
    <3>2. \A i \in 1 .. Len(cursors) : Replace(cursors, u)[i] = IF i = Len(cursors) THEN u ELSE cursors[i]
      BY <1>1, ReplaceSeq
    <3>3. \A i \in 1 .. Len(cursors) : cursors[i] = Replace(cursors, u)[i]
      BY <1>4, <3>2 DEF Cur
    <3> QED
      BY <1>1, <3>1, <3>3, SeqEqual
  <2> QED
    BY <1>5, <1>19, <2>1, <2>2, <2>3
<1> QED
  BY <1>1, <1>20, <1>21, <1>22

(* The reader is set back to the item, past a leading self-describe tag.   *)
LEMMA RewindKept ==
  ASSUME ReaderInv, AgreeInv, ~Wide, ~LongTag, Rewind
  PROVE  Kept'
<1>1. /\ phase = "skip" /\ pc \in {"ok", "fail"} /\ at = "value" /\ Leads(Begin, Verdict(err, pos, depth))
      /\ cursors = << >> /\ saved = Saved(0, entry) /\ entry \in 0 .. MaxDepth /\ ReaderTypeOK
  BY DEF ReaderInv, ReaderTypeOK, AgreeInv, Rewind
<1>2. Len(in) \in Nat /\ 0 \in 0 .. Len(in)
  BY <1>1, LenProperties DEF ReaderTypeOK, IsInput
<1>3. Restored(saved)[1] = 0 /\ Restored(saved)[2] = entry
  BY <1>1, <1>2, RestoredSaved
<1>4. PICK v : v = Verdict(err, pos, depth)
  OBVIOUS
<1>5. /\ skipped' = v /\ pos' = Start(entry) /\ phase' = "walk"
      /\ UNCHANGED << in, strict, entry, at, cursors >>
  <2>1. /\ skipped' = v /\ depth' = Restored(saved)[2] /\ pos' = Restored(saved)[1] + Start(depth')
        /\ phase' = "walk" /\ UNCHANGED << in, strict, entry, at, cursors >>
    BY <1>4 DEF Rewind
  <2>2. Start(depth') = Start(entry) /\ Start(entry) \in Nat
    BY <1>3, <2>1 DEF Start
  <2> QED
    BY <1>3, <2>1, <2>2
<1>6. Here' = Here
  BY <1>5 DEF Here
<1>7. PICK cs \in Seq(Cursor) : cs = << >>
  BY EmptySeq
<1>8. PICK c : c = Begin
  OBVIOUS
<1>9. c = Conf(Here, 0, "item", << >>) /\ c.in = in /\ c.p = 0 /\ c.s = << >>
  BY <1>8 DEF Begin, Conf, Here
<1>10. At(c, cs, v)
  <2>1. << >> \in Seq(Level) /\ Len(<< >>) = 0
    BY EmptySeq
  <2>2. Tracks(c, cs, v)
    <3>1. Leads(c, v) /\ c.p \in 0 .. Len(c.in)
      BY <1>1, <1>2, <1>4, <1>8, <1>9
    <3>2. Len(cs) = 0 /\ c.s \in Seq(Level) /\ Len(c.s) = 0
      BY <1>7, <1>9, <2>1
    <3>3. \A i \in 1 .. Len(cs) : FALSE
      BY <3>2
    <3> QED
      BY <3>1, <3>2, <3>3 DEF Tracks
  <2> QED
    BY <1>7, <1>9, <2>2 DEF At
<1>11. NoBreak(c)
  BY <1>9 DEF NoBreak, C!MayBreak
<1>12. AtValue(Here, 0, cs, v)
  BY <1>9, <1>10, <1>11 DEF AtValue
<1>13. AtValue(Here, Start(entry), cs, v)
  <2>1. CASE Start(entry) = 0
    BY <1>12, <2>1
  <2>2. CASE Start(entry) # 0
    <3>1. Start(entry) = 1 /\ in # << >> /\ in[1].cut = "none" /\ in[1].mt = "tag" /\ in[1].value = SelfDescribe
      BY <2>2 DEF Start
    <3>2. 0 < Len(in) /\ 1 \in DOMAIN in
      BY <1>1, <1>2, <3>1, EmptySeq, LenProperties DEF ReaderTypeOK, IsInput
    <3>3. IsHead(in[1])
      BY <3>2 DEF AgreeInv
    <3>4. ~in[1].reserved
      BY <3>1, <3>3, ArgumentAssumption, WidthAssumption DEF IsHead
    <3>5. IsTag(0)
      BY <3>1, <3>2, <3>4 DEF IsTag
    <3>6. Usual
      BY <1>1 DEF Usual, AgreeInv
    <3>7. AtValue(Here, 0 + 1, cs, v)
      BY <1>2, <1>12, <3>5, <3>6, TagPass
    <3> QED
      BY <3>1, <3>7
  <2> QED
    BY <2>1, <2>2
<1>14. AtValue(Here, pos, cursors, skipped)'
  BY <1>1, <1>5, <1>6, <1>7, <1>13
<1> QED
  BY <1>1, <1>5, <1>14 DEF Kept, Follows

-----------------------------------------------------------------------------
(* The invariant.                                                          *)

(* skip_value has not begun.                                               *)
LEMMA AgreeInit == ReaderInit => AgreeInv
<1> SUFFICES ASSUME ReaderInit PROVE AgreeInv
  OBVIOUS
<1>1. \A i \in DOMAIN in : IsHead(in[i])
  BY HeadsAssumption DEF ReaderInit, Init
<1>2. phase = "skip" /\ at = "value" /\ pc = "item" /\ err = "none" /\ stack = << >> /\ pos = 0
  BY DEF ReaderInit, Init
<1>3. << >> \o << >> = << >>
  BY EmptySeq, ConcatEmptySeq
<1>4. Now(<< >>) = Begin
  BY <1>2, <1>3 DEF Now, Begin
<1>5. Path(Begin, Now(<< >>), 0)
  BY <1>4, PathStart
<1> QED
  BY <1>1, <1>2, <1>5 DEF AgreeInv

(* Nothing changes the input or the mode.                                  *)
LEMMA InputStays ==
  ASSUME [ReaderNext]_readerVars
  PROVE  UNCHANGED << in, strict >>
<1>1. Next => UNCHANGED << in, strict >>
  BY DEF Next, BadHead, Break, Scalar, Tag, BadTag, DefiniteString, BadText, IndefiniteString, Chunk, BadChunk,
     Open, OpenEmpty, Return, ItemDone, Close, BadKeyOrder, Advance, Fail
<1>2. ASSUME NEW p, NEW u, ReadString(p, u) PROVE UNCHANGED << in, strict >>
  BY <1>2 DEF ReadString, Ends, Decoded
<1> QED
  BY <1>1, <1>2
     DEF ReaderNext, readerVars, vars, Skip, Rewind, ExpectRefused, ExpectFails, ExpectScalar, ExpectString,
         ChunkFails, NextChunk, ExpectTags, ExpectTaggedBytes, ExpectContainer, NextCut, NextEnds, NextItem,
         KeyAhead, Finish, Ends, Decoded

(* Every step of the reader keeps it.                                      *)
LEMMA AgreeStep == ReaderInv /\ AgreeInv /\ [ReaderNext]_readerVars => AgreeInv'
<1> SUFFICES ASSUME ReaderInv, AgreeInv, [ReaderNext]_readerVars PROVE AgreeInv'
  OBVIOUS
<1>1. UNCHANGED << in, strict >>
  BY InputStays
<1>2. (\A i \in DOMAIN in : IsHead(in[i]))'
  BY <1>1 DEF AgreeInv
<1>3. (Wide' <=> Wide) /\ (LongTag' <=> LongTag)
  BY <1>1 DEF Wide, LongTag
<1>4. CASE Wide \/ LongTag
  BY <1>2, <1>3, <1>4 DEF AgreeInv
<1>5. CASE ~Wide /\ ~LongTag
  <2>1. ASSUME Kept' PROVE AgreeInv'
    BY <1>2, <2>1 DEF AgreeInv, Kept
  <2>2. Usual
    BY <1>5 DEF Usual, ReaderInv, AgreeInv
  <2>3. phase = "walk" => Follows /\ depth = entry + Len(cursors) /\ stack = << >>
    BY <1>5 DEF ReaderInv, AgreeInv
  <2>4. CASE Skip
    <3>1. phase' = phase /\ at' = at /\ phase \in {"skip", "key"}
      BY <2>4 DEF Skip
    <3>2. CASE phase = "skip"
      <4>1. at = "value"
        BY <1>5, <3>2 DEF AgreeInv
      <4>2. /\ pc' \in {"item", "chunk", "item_done"} => err' = "none" /\ Path(Begin, Now(<< >>), 0)'
            /\ pc' \in {"ok", "fail"} => Leads(Begin, Verdict(err, pos, depth))'
        BY <1>5, <2>4, <3>2, SkipAgree
      <4> QED
        BY <1>2, <3>1, <3>2, <4>1, <4>2 DEF AgreeInv
    <3>3. CASE phase = "key"
      <4>1. (strict /\ Cur.is_map /\ Cur.key /\ \E s : KeyLook(s, Restored(saved)[1]))'
        BY <1>5, <2>4, <3>3, SkipKeyAgree
      <4> QED
        BY <1>2, <3>1, <3>3, <4>1 DEF AgreeInv
    <3> QED
      BY <3>1, <3>2, <3>3
  <2>5. CASE Rewind
    BY <1>5, <2>1, <2>5, RewindKept
  <2>6. CASE ExpectRefused
    BY <2>1, <2>2, <2>3, <2>6, RefusedKept DEF ExpectRefused, Walking
  <2>7. CASE ExpectFails
    BY <2>1, <2>2, <2>3, <2>7, FailsKept DEF ExpectFails, Walking
  <2>8. CASE ExpectScalar
    BY <2>1, <2>2, <2>3, <2>8, ScalarKept DEF ExpectScalar, Fitting, Walking
  <2>9. CASE ExpectString
    BY <2>1, <2>2, <2>3, <2>9, StringsKept DEF ExpectString, Fitting, Walking
  <2>10. CASE ChunkFails \/ NextChunk
    BY <2>1, <2>2, <2>3, <2>10, ChunksKept DEF ChunkFails, NextChunk, Walking
  <2>11. CASE ExpectTags
    BY <2>1, <2>2, <2>3, <2>11, TagsKept DEF ExpectTags, Walking
  <2>12. CASE ExpectTaggedBytes
    BY <2>1, <2>2, <2>3, <2>12, StringsKept DEF ExpectTaggedBytes, Walking
  <2>13. CASE ExpectContainer
    BY <2>1, <2>2, <2>3, <2>13, ContainerKept DEF ExpectContainer, Fitting, Walking
  <2>14. CASE NextCut
    BY <2>1, <2>2, <2>3, <2>14, CutKept DEF NextCut, Asking, Walking
  <2>15. CASE NextEnds
    BY <2>1, <2>2, <2>3, <2>15, NextEndsKept DEF NextEnds, Asking, Walking
  <2>16. CASE NextItem
    <3>1. \/ Kept'
          \/ phase' = "key" /\ (strict /\ Cur.is_map /\ Cur.key /\ \E s : KeyLook(s, Restored(saved)[1]))'
      BY <2>2, <2>3, <2>16, NextItemKept DEF NextItem, Asking, Walking
    <3> QED
      BY <1>2, <2>1, <3>1 DEF AgreeInv
  <2>17. CASE KeyAhead
    BY <1>5, <2>1, <2>17, KeyAheadKept DEF KeyAhead
  <2>18. CASE Finish
    BY <2>1, <2>2, <2>3, <2>18, FinishKept DEF Finish, Walking
  <2>19. CASE UNCHANGED readerVars
    BY <2>19 DEF AgreeInv, readerVars, vars, Wide, LongTag, Follows, KeyLook, Now, Begin, Here, Agree, Cur
  <2> QED
    BY <2>4, <2>5, <2>6, <2>7, <2>8, <2>9, <2>10, <2>11, <2>12, <2>13, <2>14, <2>15, <2>16, <2>17, <2>18, <2>19
       DEF ReaderNext
<1> QED
  BY <1>4, <1>5

(* skip_value and the typed operations agree, on every input without the   *)
(* two kinds of heads on which they part: for any limit on the depth and   *)
(* any depth of the call, in either mode, whether tags are ignored or      *)
(* expected, and whatever calls that do not fit the caller tries before:   *)
(* both accept and end at the same place, or both fail with the same code. *)
THEOREM SkipAgreesWithTyped == ReaderSpec => []PathsAgree
<1>1. ReaderInit => ReaderInv /\ AgreeInv
  BY ReaderInitInv, AgreeInit
<1>2. (ReaderInv /\ AgreeInv) /\ [ReaderNext]_readerVars => (ReaderInv /\ AgreeInv)'
  BY ReaderStepInv, AgreeStep
<1>3. ReaderInv /\ AgreeInv => PathsAgree
  BY DEF AgreeInv, PathsAgree
<1> QED
  BY <1>1, <1>2, <1>3, PTL DEF ReaderSpec

===============================================================================
