--------------------------- MODULE SinkClientProofs ---------------------------
(***************************************************************************)
(* Proofs about CborWriter under SinkClient, for every max_depth and chunk *)
(* size, all options, every set of keys and strings, and calls without a   *)
(* bound.                                                                  *)
(***************************************************************************)
EXTENDS SinkClient, CommonLemmas

(* What deterministic mode writes: any token but a break.  Its argument    *)
(* may be a count of items, which no width bounds here.                    *)
Tok ==
  [ mt : Major, value : Nat, data : Nat, indefinite : BOOLEAN, reserved : BOOLEAN,
    shortest : BOOLEAN, valid : BOOLEAN, cut : {"none", "head", "body"} ]

Entry == [start : Nat, key_end : Nat]

FrameSet ==
  [ is_map : BOOLEAN, buffered : BOOLEAN, indefinite : BOOLEAN,
    items : Nat, body : Seq(Tok), entries : Seq(Entry) ]

Places == {"item", "key", "inkey", "endkey", "value"}

(* What is above frame i, `top' being above the innermost one: a buffered  *)
(* frame, which will write to frame i when it is closed ("due"), another   *)
(* one ("under"), or "none".                                               *)
Above(fs, i, top) ==
  IF i = Len(fs) THEN top ELSE IF fs[i + 1].buffered THEN "due" ELSE "under"

(* A key of which the end is known, inside what was collected.             *)
Closed(f, k) == f.entries[k].start < f.entries[k].key_end /\ f.entries[k].key_end <= Len(f.body)

(* The entries of a buffered map before the last one.                      *)
FirstOK(f) ==
  LET n == Len(f.entries)
  IN  /\ n # 0 => f.entries[1].start = 0
      /\ \A k \in 1 .. n - 1 : Closed(f, k) /\ f.entries[k].key_end < f.entries[k + 1].start

(* The last one, while the caller is at `at': something follows its key,   *)
(* or is due; before the first entry nothing was collected.                *)
LastOK(f, at, above) ==
  LET n == Len(f.entries)
  IN  /\ at = "key" /\ n = 0 => Len(f.body) = 0 /\ above = "none"
      /\ at = "key" /\ n # 0 =>
           Closed(f, n) /\ (f.entries[n].key_end < Len(f.body) \/ above = "due")
      /\ at = "value" => n # 0 /\ Closed(f, n)
      /\ at = "inkey" => n # 0 /\ f.entries[n].key_end = 0 /\ f.entries[n].start <= Len(f.body)
      /\ at = "endkey" =>
           /\ n # 0 /\ f.entries[n].key_end = 0 /\ f.entries[n].start <= Len(f.body)
           /\ f.entries[n].start < Len(f.body) \/ above = "due"

FrameOK(f, at, above) ==
  /\ f \in FrameSet
  /\ at \in Places
  /\ f.buffered => opts.deterministic
  /\ f.indefinite => ~opts.deterministic
  /\ ~f.buffered => f.body = << >> /\ f.entries = << >>
  /\ f.is_map <=> at # "item"
  /\ f.buffered /\ f.is_map => FirstOK(f) /\ LastOK(f, at, above)

FramesOK(fs, ps, top) ==
  /\ IsSeq(fs) /\ IsSeq(ps) /\ Len(fs) = Len(ps)
  /\ \A i \in 1 .. Len(fs) : "at" \in DOMAIN ps[i] /\ FrameOK(fs[i], ps[i].at, Above(fs, i, top))

(* The inductive invariant.  EntriesDelimited alone is not inductive: that *)
(* a key is not empty, and that the next one starts after it, depends on   *)
(* what the frames above a map still have to write to it.                  *)
WriterInv ==
  /\ opts \in Options
  /\ err = "none" =>
       /\ IsSeq(out)
       /\ FramesOK(frames, plan, "none")
       /\ tagged /\ plan # << >> => Cur.at \in {"item", "value", "inkey"}

-----------------------------------------------------------------------------
(* The bytewise order of keys is a strict order.                           *)

(* The initial byte of a token orders it among eight major types.           *)
LEMMA RankType == \A t \in Tok : MajorRank(t) \in 1 .. 8
<1> TAKE t \in Tok
<1>1. \E i \in 1 .. 8 : MajorOrder[i] = t.mt
  <2>1. t.mt \in Major
    BY DEF Tok
  <2> QED
    BY <2>1 DEF Major
<1> QED
  BY <1>1, Zenon DEF MajorRank

(* Two tokens are compared as their bytes are: never less than itself,
   and transitively.                                                        *)
LEMMA TokenOrder ==
  ASSUME NEW a \in Tok, NEW b \in Tok, NEW c \in Tok
  PROVE  ~TokenLess(a, a) /\ (TokenLess(a, b) /\ TokenLess(b, c) => TokenLess(a, c))
<1>1. /\ MajorRank(a) \in 1 .. 8 /\ MajorRank(b) \in 1 .. 8 /\ MajorRank(c) \in 1 .. 8
      /\ a.value \in Nat /\ b.value \in Nat /\ c.value \in Nat
      /\ a.data \in Nat /\ b.data \in Nat /\ c.data \in Nat
  BY RankType DEF Tok
<1> QED
  BY <1>1 DEF TokenLess

(* Of the two positions that show s < t and t < u, the smaller one shows   *)
(* s < u.                                                                  *)
LEMMA EncodedOrder ==
  ASSUME NEW s \in Seq(Tok), NEW t \in Seq(Tok), NEW u \in Seq(Tok)
  PROVE  ~EncodedLess(s, s) /\ (EncodedLess(s, t) /\ EncodedLess(t, u) => EncodedLess(s, u))
<1>1. /\ Len(s) \in Nat /\ Len(t) \in Nat /\ Len(u) \in Nat
      /\ \A i \in 1 .. Len(s) : s[i] \in Tok
      /\ \A i \in 1 .. Len(t) : t[i] \in Tok
      /\ \A i \in 1 .. Len(u) : u[i] \in Tok
  OBVIOUS
<1>2. ~EncodedLess(s, s)
  <2> SUFFICES ASSUME NEW n \in 0 .. Len(s), n < Len(s), n = Len(s) \/ TokenLess(s[n + 1], s[n + 1])
               PROVE  FALSE
    BY DEF EncodedLess
  <2>1. n + 1 \in 1 .. Len(s)
    BY <1>1
  <2> QED
    BY <1>1, <2>1, TokenOrder
<1>3. ASSUME EncodedLess(s, t), EncodedLess(t, u)
      PROVE  EncodedLess(s, u)
  <2>1. PICK n \in 0 .. Len(s) : /\ n < Len(t)
                                 /\ \A i \in 1 .. n : s[i] = t[i]
                                 /\ n = Len(s) \/ TokenLess(s[n + 1], t[n + 1])
    BY <1>3, Zenon DEF EncodedLess
  <2>2. PICK m \in 0 .. Len(t) : /\ m < Len(u)
                                 /\ \A i \in 1 .. m : t[i] = u[i]
                                 /\ m = Len(t) \/ TokenLess(t[m + 1], u[m + 1])
    BY <1>3, Zenon DEF EncodedLess
  <2>3. CASE n < m
    <3>1. n < Len(u) /\ \A i \in 1 .. n : s[i] = u[i]
      BY <1>1, <2>1, <2>2, <2>3
    <3>2. t[n + 1] = u[n + 1]
      BY <1>1, <2>2, <2>3
    <3> QED
      BY <2>1, <3>1, <3>2 DEF EncodedLess
  <2>4. CASE m < n
    <3>1. m \in 0 .. Len(s) /\ m < Len(u) /\ m # Len(t) /\ \A i \in 1 .. m : s[i] = u[i]
      BY <1>1, <2>1, <2>2, <2>4
    <3>2. s[m + 1] = t[m + 1]
      BY <1>1, <2>1, <2>4
    <3> QED
      BY <2>2, <3>1, <3>2 DEF EncodedLess
  <2>5. CASE m = n
    <3>1. n < Len(u) /\ n # Len(t) /\ \A i \in 1 .. n : s[i] = u[i]
      BY <1>1, <2>1, <2>2, <2>5
    <3>2. n = Len(s) \/ TokenLess(s[n + 1], u[n + 1])
      <4> SUFFICES ASSUME n # Len(s) PROVE TokenLess(s[n + 1], u[n + 1])
        OBVIOUS
      <4>1. n + 1 \in 1 .. Len(s) /\ n + 1 \in 1 .. Len(t) /\ n + 1 \in 1 .. Len(u)
        BY <1>1, <2>1, <3>1
      <4> QED
        BY <1>1, <2>1, <2>2, <2>5, <3>1, <4>1, TokenOrder
    <3> QED
      BY <3>1, <3>2 DEF EncodedLess
  <2> QED
    BY <1>1, <2>3, <2>4, <2>5
<1> QED
  BY <1>2, <1>3

-----------------------------------------------------------------------------
(* What close() writes for a map.                                          *)

(* The slices are inside what was collected.                               *)
LEMMA SlicesInside ==
  ASSUME NEW f \in FrameSet, FirstOK(f), LastOK(f, "key", "none"), NEW i \in 1 .. Len(f.entries)
  PROVE  KeyOf(f, Slices(f)[i]) \in Seq(Tok) /\ EntryOf(f, Slices(f)[i]) \in Seq(Tok)
<1> DEFINE n == Len(f.entries)
           e == Slices(f)[i]
<1>1. /\ n \in Nat /\ DOMAIN f.entries = 1 .. n /\ Len(f.body) \in Nat
      /\ \A k \in 1 .. Len(f.body) : f.body[k] \in Tok
      /\ \A k \in 1 .. n : f.entries[k].start \in Nat /\ f.entries[k].key_end \in Nat
  <2>1. f.entries \in Seq(Entry) /\ f.body \in Seq(Tok)
    BY DEF FrameSet
  <2>2. \A k \in 1 .. n : f.entries[k] \in Entry
    BY <2>1
  <2> QED
    BY <2>1, <2>2 DEF Entry
<1>2. /\ e.start = f.entries[i].start /\ e.key_end = f.entries[i].key_end
      /\ e.end = IF i < n THEN f.entries[i + 1].start ELSE Len(f.body)
  BY <1>1 DEF Slices
<1>3. \A k \in 1 .. n : f.entries[k].start < f.entries[k].key_end /\ f.entries[k].key_end <= Len(f.body)
  <2> TAKE k \in 1 .. n
  <2>1. CASE k = n
    BY <1>1, <2>1 DEF LastOK, Closed
  <2>2. CASE k # n
    BY <1>1, <2>2 DEF FirstOK, Closed
  <2> QED
    BY <2>1, <2>2
<1>4. e.start \in Nat /\ e.key_end \in Nat /\ e.end \in Nat /\ e.key_end <= Len(f.body) /\ e.end <= Len(f.body)
  <2>1. CASE i < n
    <3>1. i + 1 \in 1 .. n
      BY <1>1, <2>1
    <3> QED
      BY <1>1, <1>2, <1>3, <2>1, <3>1
  <2>2. CASE ~(i < n)
    BY <1>1, <1>2, <1>3, <2>2
  <2> QED
    BY <2>1, <2>2
<1> HIDE DEF e
<1>5. /\ \A k \in e.start + 1 .. e.key_end : f.body[k] \in Tok
      /\ \A k \in e.start + 1 .. e.end : f.body[k] \in Tok
  BY <1>1, <1>4
<1>6. SubSeq(f.body, e.start + 1, e.key_end) \in Seq(Tok) /\ SubSeq(f.body, e.start + 1, e.end) \in Seq(Tok)
  BY <1>4, <1>5, SubSeqProperties
<1> QED
  BY <1>6 DEF KeyOf, EntryOf, e

(* The sort succeeds: there is an order of the entries in which no key     *)
(* follows a larger one.                                                   *)
LEMMA SortSucceeds ==
  ASSUME NEW f \in FrameSet, FirstOK(f), LastOK(f, "key", "none")
  PROVE  /\ KeyOrder(f) \in Bijection(DOMAIN f.entries, DOMAIN f.entries)
         /\ InKeyOrder(f, KeyOrder(f))
<1> DEFINE n      == Len(f.entries)
           key(i) == KeyOf(f, Slices(f)[i])
           R      == {ij \in (1 .. n) \X (1 .. n) : EncodedLess(key(ij[1]), key(ij[2]))}
<1>1. n \in Nat /\ DOMAIN f.entries = 1 .. n
  BY DEF FrameSet
<1>2. \A i \in 1 .. n : key(i) \in Seq(Tok)
  BY SlicesInside
<1>3. \A i, j \in 1 .. n : << i, j >> \in R <=> EncodedLess(key(i), key(j))
  OBVIOUS
<1> HIDE DEF key, R
<1>4. StrictOrder(R, 1 .. n)
  BY <1>2, <1>3, EncodedOrder DEF StrictOrder
<1>5. IsFiniteSet(1 .. n) /\ Cardinality(1 .. n) = n
  BY <1>1, FS_Interval
<1>6. PICK p : Arranges(p, 1 .. n, R)
  BY <1>4, <1>5, Arrangement
<1>7. p \in Bijection(1 .. n, 1 .. n) /\ \A i, j \in 1 .. n : i < j => << p[j], p[i] >> \notin R
  BY <1>5, <1>6 DEF Arranges
<1>8. p \in [1 .. n -> 1 .. n] /\ DOMAIN p = 1 .. n
  BY <1>7 DEF Bijection, Injection
<1>9. InKeyOrder(f, p)
  BY <1>3, <1>7, <1>8 DEF InKeyOrder, key
<1> QED
  BY <1>1, <1>7, <1>9, Zenon DEF KeyOrder

(* What make_head returns is a token of the output.                         *)
LEMMA HeadType ==
  ASSUME NEW m \in Major, NEW v \in Nat
  PROVE  MakeHead(m, v) \in Tok
  BY DEF MakeHead, Tok

(* One token and a sequence.                                               *)
LEMMA HeadAndBody ==
  ASSUME NEW t \in Tok, NEW s \in Seq(Tok)
  PROVE  << t >> \o s \in Seq(Tok) /\ Len(<< t >> \o s) >= 1
<1>1. << t >> \in Seq(Tok) /\ Len(<< t >>) = 1
  OBVIOUS
<1>2. Len(s) \in Nat
  OBVIOUS
<1> QED
  BY <1>1, <1>2, ConcatProperties

(* A map is written as a head and the entries.                             *)
LEMMA MapWritten ==
  ASSUME NEW f \in FrameSet, FirstOK(f), LastOK(f, "key", "none")
  PROVE  MapTokens(f) \in Seq(Tok) /\ Len(MapTokens(f)) >= 1
<1> DEFINE n == Len(f.entries)
           g == [i \in DOMAIN f.entries |-> EntryOf(f, Sorted(f)[i])]
<1>1. n \in Nat /\ DOMAIN f.entries = 1 .. n
  BY DEF FrameSet
<1>2. KeyOrder(f) \in [1 .. n -> 1 .. n]
  BY <1>1, SortSucceeds DEF Bijection, Injection
<1>3. \A i \in 1 .. n : EntryOf(f, Sorted(f)[i]) \in Seq(Tok)
  <2> TAKE i \in 1 .. n
  <2>1. Sorted(f)[i] = Slices(f)[KeyOrder(f)[i]]
    BY <1>1 DEF Sorted
  <2>2. KeyOrder(f)[i] \in 1 .. n
    BY <1>2
  <2> QED
    BY <2>1, <2>2, SlicesInside
<1>4. g \in [1 .. n -> Seq(Tok)]
  BY <1>1, <1>3
<1> HIDE DEF g
<1>5. FlattenSeq(g) \in Seq(Tok)
  BY <1>1, <1>4, FlattenIsSeq
<1>6. MakeHead("map", n) \in Tok
  <2>1. "map" \in Major
    BY DEF Major, MajorOrder
  <2> QED
    BY <1>1, <2>1, HeadType
<1> QED
  BY <1>5, <1>6, HeadAndBody DEF MapTokens, g

-----------------------------------------------------------------------------
(* Frames.                                                                 *)

Tops == {"none", "due", "under"}

Longer(f, ts) == [f EXCEPT !.body = @ \o ts]

(* A buffered frame below another one is appended to; what was due has     *)
(* come, unless nothing was written.                                       *)
LEMMA Grow ==
  ASSUME NEW f, NEW at, NEW a \in {"due", "under"}, FrameOK(f, at, a), f.buffered,
         NEW ts \in Seq(Tok), NEW b \in Tops, a = "due" /\ b # "due" => Len(ts) >= 1
  PROVE  FrameOK(Longer(f, ts), at, b) /\ Longer(f, ts).buffered
<1> DEFINE g == Longer(f, ts)
<1>1. /\ f \in FrameSet /\ f.body \in Seq(Tok) /\ f.entries \in Seq(Entry)
      /\ Len(f.body) \in Nat /\ Len(ts) \in Nat /\ Len(f.entries) \in Nat
  BY DEF FrameOK, FrameSet
<1>2. f.body \o ts \in Seq(Tok) /\ Len(f.body \o ts) = Len(f.body) + Len(ts)
  BY <1>1, ConcatProperties
<1>3. /\ g \in FrameSet /\ g.body = f.body \o ts /\ g.entries = f.entries
      /\ g.buffered = f.buffered /\ g.indefinite = f.indefinite /\ g.is_map = f.is_map
  BY <1>1, <1>2 DEF Longer, FrameSet
<1> HIDE DEF g
<1>4. Len(g.body) = Len(f.body) + Len(ts)
  BY <1>2, <1>3
<1>5. \A k \in 1 .. Len(f.entries) :
        f.entries[k].start \in Nat /\ f.entries[k].key_end \in Nat /\ (Closed(f, k) => Closed(g, k))
  <2> TAKE k \in 1 .. Len(f.entries)
  <2>1. f.entries[k] \in Entry
    BY <1>1
  <2> QED
    BY <1>1, <1>3, <1>4, <2>1 DEF Closed, Entry
<1>6. ASSUME f.is_map PROVE FirstOK(g) /\ LastOK(g, at, b)
  <2>1. FirstOK(f) /\ LastOK(f, at, a)
    BY <1>6 DEF FrameOK
  <2>2. FirstOK(g)
    BY <1>1, <1>3, <1>5, <2>1 DEF FirstOK
  <2> DEFINE n == Len(f.entries)
  <2>3. n # 0 => n \in 1 .. n
    BY <1>1
  <2>4. n = 0 => at # "key"
    BY <2>1 DEF LastOK
  <2>5. CASE at = "key"
    <3>1. n # 0 /\ Closed(g, n) /\ (f.entries[n].key_end < Len(f.body) \/ a = "due")
      BY <1>5, <2>1, <2>3, <2>4, <2>5 DEF LastOK
    <3>2. f.entries[n].key_end < Len(g.body) \/ b = "due"
      BY <1>1, <1>4, <1>5, <2>1, <2>3, <2>5, <3>1 DEF LastOK, Closed
    <3> QED
      BY <1>3, <2>2, <2>5, <3>1, <3>2 DEF LastOK
  <2>6. CASE at = "value"
    BY <1>3, <1>5, <2>1, <2>2, <2>3, <2>6 DEF LastOK
  <2>7. CASE at = "inkey"
    <3>1. n # 0 /\ f.entries[n].key_end = 0 /\ f.entries[n].start <= Len(f.body)
      BY <2>1, <2>7 DEF LastOK
    <3>2. f.entries[n].start <= Len(g.body)
      BY <1>1, <1>4, <1>5, <2>3, <3>1
    <3> QED
      BY <1>3, <2>2, <2>7, <3>1, <3>2 DEF LastOK
  <2>8. CASE at = "endkey"
    <3>1. n # 0 /\ f.entries[n].key_end = 0 /\ f.entries[n].start <= Len(f.body)
          /\ (f.entries[n].start < Len(f.body) \/ a = "due")
      BY <2>1, <2>8 DEF LastOK
    <3>2. f.entries[n].start <= Len(g.body) /\ (f.entries[n].start < Len(g.body) \/ b = "due")
      BY <1>1, <1>4, <1>5, <2>3, <3>1
    <3> QED
      BY <1>3, <2>2, <2>8, <3>1, <3>2 DEF LastOK
  <2>9. LastOK(g, at, b)
    BY <2>2, <2>5, <2>6, <2>7, <2>8 DEF LastOK
  <2> QED
    BY <2>2, <2>9
<1> QED
  BY <1>3, <1>6 DEF FrameOK, g

(* A frame that is not buffered has nothing due.                           *)
LEMMA Unbuffered ==
  ASSUME NEW f, NEW at, NEW a, FrameOK(f, at, a), ~f.buffered, NEW b
  PROVE  FrameOK(f, at, b)
  BY DEF FrameOK

(* The innermost buffered frame, if any.                                   *)
LEMMA Innermost ==
  ASSUME NEW fs, IsSeq(fs), Buffers(fs) # {}
  PROVE  /\ Max(Buffers(fs)) \in 1 .. Len(fs) /\ fs[Max(Buffers(fs))].buffered
         /\ \A i \in 1 .. Len(fs) : fs[i].buffered => i <= Max(Buffers(fs))
<1>1. Len(fs) \in Nat /\ DOMAIN fs = 1 .. Len(fs)
  BY LenProperties DEF IsSeq
<1>2. Buffers(fs) \in SUBSET Nat /\ \A i \in Buffers(fs) : i <= Len(fs)
  BY <1>1 DEF Buffers
<1>3. Max(Buffers(fs)) \in Buffers(fs) /\ \A i \in Buffers(fs) : Max(Buffers(fs)) >= i
  BY <1>1, <1>2, MaxOf
<1>4. Max(Buffers(fs)) \in Nat
  BY <1>2, <1>3
<1> QED
  BY <1>1, <1>3, <1>4 DEF Buffers

Assigned(s, m, x) == [s EXCEPT ![m] = x]

(* One frame of a sequence is replaced.                                    *)
LEMMA AssignAt ==
  ASSUME NEW s, IsSeq(s), NEW m \in 1 .. Len(s), NEW x
  PROVE  /\ IsSeq(Assigned(s, m, x))
         /\ Len(Assigned(s, m, x)) = Len(s)
         /\ \A i \in 1 .. Len(s) : Assigned(s, m, x)[i] = IF i = m THEN x ELSE s[i]
<1> DEFINE S == Range(s) \cup {x}
           r == [s EXCEPT ![m] = x]
<1>1. s \in Seq(S) /\ x \in S
  BY SeqMonotonic DEF IsSeq
<1> HIDE DEF S
<1>2. r \in Seq(S) /\ Len(r) = Len(s) /\ \A i \in 1 .. Len(s) : r[i] = IF i = m THEN x ELSE s[i]
  BY <1>1, ExceptSeq
<1> HIDE DEF r
<1>3. IsSeq(r)
  BY <1>2, SeqIsSeq
<1> QED
  BY <1>2, <1>3 DEF r, Assigned

(* append(): only the innermost buffered frame changes.                    *)
LEMMA WrittenFrames ==
  ASSUME NEW fs, IsSeq(fs), NEW ts
  PROVE  /\ IsSeq(Written(fs, ts)) /\ Len(Written(fs, ts)) = Len(fs) /\ Len(fs) \in Nat
         /\ \A i \in 1 .. Len(fs) :
              \/ Written(fs, ts)[i] = fs[i] /\ (fs[i].buffered => \E j \in i + 1 .. Len(fs) : fs[j].buffered)
              \/ /\ Written(fs, ts)[i] = Longer(fs[i], ts) /\ fs[i].buffered
                 /\ \A j \in i + 1 .. Len(fs) : ~fs[j].buffered
<1>1. Len(fs) \in Nat /\ DOMAIN fs = 1 .. Len(fs)
  BY LenProperties DEF IsSeq
<1>2. CASE Buffers(fs) = {}
  <2>1. Written(fs, ts) = fs
    BY <1>2 DEF Written
  <2>2. \A i \in 1 .. Len(fs) : ~fs[i].buffered
    BY <1>1, <1>2 DEF Buffers
  <2> QED
    BY <1>1, <2>1, <2>2
<1>3. CASE Buffers(fs) # {}
  <2> DEFINE m == Max(Buffers(fs))
             gs == Written(fs, ts)
  <2>1. m \in 1 .. Len(fs) /\ fs[m].buffered /\ \A i \in 1 .. Len(fs) : fs[i].buffered => i <= m
    BY <1>3, Innermost
  <2> HIDE DEF m
  <2>2. gs = Assigned(fs, m, Longer(fs[m], ts))
    BY <1>3 DEF Written, Longer, Assigned, m
  <2> HIDE DEF gs
  <2>3. /\ IsSeq(gs) /\ Len(gs) = Len(fs)
        /\ \A i \in 1 .. Len(fs) : gs[i] = IF i = m THEN Longer(fs[m], ts) ELSE fs[i]
    BY <2>1, <2>2, AssignAt
  <2>4. ASSUME NEW i \in 1 .. Len(fs)
        PROVE  \/ gs[i] = fs[i] /\ (fs[i].buffered => \E j \in i + 1 .. Len(fs) : fs[j].buffered)
               \/ /\ gs[i] = Longer(fs[i], ts) /\ fs[i].buffered
                  /\ \A j \in i + 1 .. Len(fs) : ~fs[j].buffered
    <3>1. CASE i = m
      <4>1. \A j \in i + 1 .. Len(fs) : ~fs[j].buffered
        BY <1>1, <2>1, <3>1
      <4> QED
        BY <2>1, <2>3, <3>1, <4>1
    <3>2. CASE i # m
      <4>1. fs[i].buffered => m \in i + 1 .. Len(fs)
        BY <1>1, <2>1, <3>2
      <4> QED
        BY <2>1, <2>3, <3>2, <4>1
    <3> QED
      BY <3>1, <3>2
  <2> QED
    BY <1>1, <2>3, <2>4 DEF gs
<1> QED
  BY <1>2, <1>3

(* append() below what is due, or under other frames.                      *)
LEMMA WrittenOK ==
  ASSUME NEW fs, NEW ps, NEW top \in {"due", "under"}, FramesOK(fs, ps, top),
         NEW ts, opts.deterministic => ts \in Seq(Tok),
         NEW b \in Tops, top = "due" /\ b # "due" => Len(ts) >= 1
  PROVE  FramesOK(Written(fs, ts), ps, b)
<1> DEFINE gs == Written(fs, ts)
           n  == Len(fs)
<1>1. IsSeq(fs) /\ IsSeq(ps) /\ Len(ps) = n
  BY DEF FramesOK
<1>2. /\ IsSeq(gs) /\ Len(gs) = n /\ n \in Nat
      /\ \A i \in 1 .. n :
           \/ gs[i] = fs[i] /\ (fs[i].buffered => \E j \in i + 1 .. n : fs[j].buffered)
           \/ /\ gs[i] = Longer(fs[i], ts) /\ fs[i].buffered
              /\ \A j \in i + 1 .. n : ~fs[j].buffered
  BY <1>1, WrittenFrames
<1> HIDE DEF gs
<1>3. \A i \in 1 .. n : "at" \in DOMAIN ps[i] /\ FrameOK(fs[i], ps[i].at, Above(fs, i, top))
  BY DEF FramesOK
<1>4. \A i \in 1 .. n : fs[i].buffered => ts \in Seq(Tok)
  BY <1>3 DEF FrameOK
<1>5. \A i \in 1 .. n : gs[i].buffered <=> fs[i].buffered
  <2> TAKE i \in 1 .. n
  <2>1. fs[i] \in FrameSet
    BY <1>3 DEF FrameOK
  <2>2. Longer(fs[i], ts).buffered <=> fs[i].buffered
    BY <2>1 DEF Longer, FrameSet
  <2> QED
    BY <1>2, <2>2
<1>6. ASSUME NEW i \in 1 .. n PROVE FrameOK(gs[i], ps[i].at, Above(gs, i, b))
  <2>0. FrameOK(fs[i], ps[i].at, Above(fs, i, top))
    BY <1>3
  <2>1. CASE i = n
    <3>1. Above(fs, i, top) = top /\ Above(gs, i, b) = b
      BY <1>2, <2>1 DEF Above
    <3>2. CASE fs[i].buffered
      <4>1. gs[i] = Longer(fs[i], ts)
        BY <1>2, <2>1, <3>2
      <4> QED
        BY <1>4, <2>0, <3>1, <3>2, <4>1, Grow
    <3>3. CASE ~fs[i].buffered
      <4>1. gs[i] = fs[i]
        BY <1>2, <3>3
      <4> QED
        BY <2>0, <3>3, <4>1, Unbuffered
    <3> QED
      BY <3>2, <3>3
  <2>2. CASE i # n
    <3>1. i + 1 \in 1 .. n /\ i + 1 \in i + 1 .. n
      BY <1>2, <2>2
    <3>2. Above(gs, i, b) = Above(fs, i, top) /\ Above(fs, i, top) \in {"due", "under"}
      BY <1>2, <1>5, <2>2, <3>1 DEF Above
    <3>3. CASE gs[i] = fs[i]
      BY <2>0, <3>2, <3>3
    <3>4. CASE gs[i] # fs[i]
      <4>1. gs[i] = Longer(fs[i], ts) /\ fs[i].buffered /\ ~fs[i + 1].buffered
        BY <1>2, <3>1, <3>4
      <4>2. Above(fs, i, top) = "under"
        BY <2>2, <4>1 DEF Above
      <4>3. "under" \in Tops
        BY DEF Tops
      <4> QED
        BY <1>4, <2>0, <3>2, <4>1, <4>2, <4>3, Grow
    <3> QED
      BY <3>3, <3>4
  <2> QED
    BY <2>1, <2>2
<1>7. FramesOK(gs, ps, b)
  BY <1>1, <1>2, <1>3, <1>6 DEF FramesOK
<1> QED
  BY <1>7 DEF gs

(* push_frame.                                                             *)
LEMMA PushOK ==
  ASSUME NEW fs, NEW ps, NEW top, FramesOK(fs, ps, top), NEW f, NEW p, "at" \in DOMAIN p,
         FrameOK(f, p.at, "none"), top = IF f.buffered THEN "due" ELSE "under"
  PROVE  FramesOK(Append(fs, f), Append(ps, p), "none")
<1> DEFINE gs == Append(fs, f)
           qs == Append(ps, p)
           n  == Len(fs)
<1>1. IsSeq(fs) /\ IsSeq(ps) /\ Len(ps) = n
  BY DEF FramesOK
<1>2. n \in Nat /\ IsSeq(gs) /\ Len(gs) = n + 1 /\ gs[n + 1] = f /\ \A i \in 1 .. n : gs[i] = fs[i]
  BY <1>1, AppendIsSeq
<1>3. IsSeq(qs) /\ Len(qs) = n + 1 /\ qs[n + 1] = p /\ \A i \in 1 .. n : qs[i] = ps[i]
  BY <1>1, AppendIsSeq
<1> HIDE DEF gs, qs
<1>4. ASSUME NEW i \in 1 .. n + 1
      PROVE  "at" \in DOMAIN qs[i] /\ FrameOK(gs[i], qs[i].at, Above(gs, i, "none"))
  <2>1. CASE i = n + 1
    BY <1>2, <1>3, <2>1 DEF Above
  <2>2. CASE i # n + 1
    <3>1. i \in 1 .. n
      BY <1>2, <2>2
    <3>2. "at" \in DOMAIN ps[i] /\ FrameOK(fs[i], ps[i].at, Above(fs, i, top))
      BY <3>1 DEF FramesOK
    <3>3. Above(gs, i, "none") = Above(fs, i, top)
      <4>1. CASE i = n
        BY <1>2, <4>1 DEF Above
      <4>2. CASE i # n
        <5>1. i + 1 \in 1 .. n
          BY <1>2, <3>1, <4>2
        <5> QED
          BY <1>2, <2>2, <4>2, <5>1 DEF Above
      <4> QED
        BY <4>1, <4>2
    <3> QED
      BY <1>2, <1>3, <3>1, <3>2, <3>3
  <2> QED
    BY <2>1, <2>2
<1>5. FramesOK(gs, qs, "none")
  BY <1>2, <1>3, <1>4 DEF FramesOK
<1> QED
  BY <1>5 DEF gs, qs

(* pop_back: a buffered frame leaves something due.                        *)
LEMMA PopOK ==
  ASSUME NEW fs, NEW ps, FramesOK(fs, ps, "none"), fs # << >>
  PROVE  /\ FramesOK(Front(fs), Front(ps), IF fs[Len(fs)].buffered THEN "due" ELSE "under")
         /\ FrameOK(fs[Len(fs)], ps[Len(ps)].at, "none")
<1> DEFINE gs == Front(fs)
           qs == Front(ps)
           n  == Len(fs)
           top == IF fs[n].buffered THEN "due" ELSE "under"
<1>1. IsSeq(fs) /\ IsSeq(ps) /\ Len(ps) = n
  BY DEF FramesOK
<1>2. n \in Nat \ {0} /\ IsSeq(gs) /\ Len(gs) = n - 1 /\ \A i \in 1 .. n - 1 : gs[i] = fs[i]
  BY <1>1, FrontIsSeq
<1>3. ps # << >>
  BY <1>1, <1>2
<1>4. IsSeq(qs) /\ Len(qs) = n - 1 /\ \A i \in 1 .. n - 1 : qs[i] = ps[i]
  BY <1>1, <1>3, FrontIsSeq
<1> HIDE DEF gs, qs
<1>5. ASSUME NEW i \in 1 .. n - 1
      PROVE  "at" \in DOMAIN qs[i] /\ FrameOK(gs[i], qs[i].at, Above(gs, i, top))
  <2>1. i \in 1 .. n
    BY <1>2
  <2>2. "at" \in DOMAIN ps[i] /\ FrameOK(fs[i], ps[i].at, Above(fs, i, "none"))
    BY <2>1 DEF FramesOK
  <2>3. Above(gs, i, top) = Above(fs, i, "none")
    <3>1. CASE i = n - 1
      BY <1>2, <3>1 DEF Above
    <3>2. CASE i # n - 1
      <4>1. i + 1 \in 1 .. n - 1
        BY <1>2, <3>2
      <4> QED
        BY <1>2, <3>2, <4>1 DEF Above
    <3> QED
      BY <3>1, <3>2
  <2> QED
    BY <1>2, <1>4, <2>2, <2>3
<1>6. FramesOK(gs, qs, top)
  BY <1>2, <1>4, <1>5 DEF FramesOK
<1>7. FrameOK(fs[n], ps[n].at, "none")
  BY <1>2 DEF FramesOK, Above
<1> QED
  BY <1>1, <1>6, <1>7 DEF gs, qs

Replaced(s, x) == [s EXCEPT ![Len(s)] = x]

(* ReplaceIsSeq, for what Replaced abbreviates.                            *)
LEMMA ReplacedIsSeq ==
  ASSUME NEW s, IsSeq(s), s # << >>, NEW x
  PROVE  /\ Len(s) \in Nat \ {0} /\ IsSeq(Replaced(s, x)) /\ Len(Replaced(s, x)) = Len(s)
         /\ \A i \in 1 .. Len(s) - 1 : Replaced(s, x)[i] = s[i]
         /\ Replaced(s, x)[Len(s)] = x
BY ReplaceIsSeq, Zenon DEF Replaced

(* A change of the innermost frame, and of the caller's place in it.       *)
LEMMA ReplaceOK ==
  ASSUME NEW fs, NEW ps, NEW a, FramesOK(fs, ps, a), fs # << >>, NEW f, NEW p, "at" \in DOMAIN p,
         NEW top, FrameOK(f, p.at, top), f.buffered <=> fs[Len(fs)].buffered
  PROVE  FramesOK(Replaced(fs, f), Replaced(ps, p), top)
<1> DEFINE gs == Replaced(fs, f)
           qs == Replaced(ps, p)
           n  == Len(fs)
<1>1. IsSeq(fs) /\ IsSeq(ps) /\ Len(ps) = n
  BY DEF FramesOK
<1>2. n \in Nat \ {0} /\ IsSeq(gs) /\ Len(gs) = n /\ gs[n] = f /\ \A i \in 1 .. n - 1 : gs[i] = fs[i]
  BY <1>1, ReplacedIsSeq
<1>3. ps # << >>
  BY <1>1, <1>2
<1>4. IsSeq(qs) /\ Len(qs) = n /\ qs[n] = p /\ \A i \in 1 .. n - 1 : qs[i] = ps[i]
  BY <1>1, <1>3, ReplacedIsSeq
<1> HIDE DEF gs, qs
<1>5. ASSUME NEW i \in 1 .. n
      PROVE  "at" \in DOMAIN qs[i] /\ FrameOK(gs[i], qs[i].at, Above(gs, i, top))
  <2>1. CASE i = n
    BY <1>2, <1>4, <2>1 DEF Above
  <2>2. CASE i # n
    <3>1. i \in 1 .. n - 1 /\ i + 1 \in 1 .. n
      BY <1>2, <2>2
    <3>2. "at" \in DOMAIN ps[i] /\ FrameOK(fs[i], ps[i].at, Above(fs, i, a))
      BY DEF FramesOK
    <3>3. gs[i + 1].buffered <=> fs[i + 1].buffered
      <4>1. CASE i + 1 = n
        BY <1>2, <4>1
      <4>2. CASE i + 1 # n
        <5>1. i + 1 \in 1 .. n - 1
          BY <1>2, <3>1, <4>2
        <5> QED
          BY <1>2, <5>1
      <4> QED
        BY <4>1, <4>2
    <3>4. Above(gs, i, top) = Above(fs, i, a)
      BY <1>2, <2>2, <3>3 DEF Above
    <3> QED
      BY <1>2, <1>4, <3>1, <3>2, <3>4
  <2> QED
    BY <2>1, <2>2
<1>6. FramesOK(gs, qs, top)
  BY <1>2, <1>4, <1>5 DEF FramesOK
<1> QED
  BY <1>6 DEF gs, qs

-----------------------------------------------------------------------------
(* One frame.                                                              *)

Taking == {"item", "value", "inkey"}

AfterValue(at) == IF at = "value" THEN "key" ELSE IF at = "inkey" THEN "endkey" ELSE at

Counted(f)     == [f EXCEPT !.items = @ + 1]
StartedIn(f)   == [f EXCEPT !.entries = Append(@, [start |-> Len(f.body), key_end |-> 0])]
PutIn(f, t)    == [f EXCEPT !.body = Append(@, t)]

(* item(): the value is counted, and due.                                  *)
LEMMA CountedOK ==
  ASSUME NEW f, NEW at \in Taking, FrameOK(f, at, "none")
  PROVE  FrameOK(Counted(f), AfterValue(at), "due") /\ Counted(f).buffered = f.buffered
<1> DEFINE g == Counted(f)
           a == AfterValue(at)
<1>1. f \in FrameSet
  BY DEF FrameOK
<1>2. /\ g \in FrameSet /\ g.body = f.body /\ g.entries = f.entries
      /\ g.buffered = f.buffered /\ g.indefinite = f.indefinite /\ g.is_map = f.is_map
  BY <1>1 DEF Counted, FrameSet
<1> HIDE DEF g
<1>3. a \in Places /\ (a # "item" <=> at # "item")
  BY DEF AfterValue, Taking, Places
<1>4. ASSUME f.buffered, f.is_map PROVE FirstOK(g) /\ LastOK(g, a, "due")
  <2>1. FirstOK(f) /\ LastOK(f, at, "none")
    BY <1>4 DEF FrameOK
  <2>2. FirstOK(g)
    BY <1>2, <2>1 DEF FirstOK, Closed
  <2>3. LastOK(g, a, "due")
    BY <1>2, <2>1 DEF LastOK, Closed, AfterValue, Taking
  <2> QED
    BY <2>2, <2>3
<1> QED
  BY <1>2, <1>3, <1>4 DEF FrameOK, g

(* A frame that is not buffered only knows whether it is a map.            *)
LEMMA PlaceOK ==
  ASSUME NEW f, NEW at, NEW a, FrameOK(f, at, a), ~f.buffered, at # "item",
         NEW at2 \in Places, at2 # "item", NEW b
  PROVE  FrameOK(f, at2, b)
  BY DEF FrameOK

(* key_start.                                                              *)
LEMMA StartedOK ==
  ASSUME NEW f, FrameOK(f, "key", "none"), f.buffered
  PROVE  FrameOK(StartedIn(f), "inkey", "none") /\ StartedIn(f).buffered
<1> DEFINE g == StartedIn(f)
           e == [start |-> Len(f.body), key_end |-> 0]
           n == Len(f.entries)
<1>1. f \in FrameSet /\ f.body \in Seq(Tok) /\ f.entries \in Seq(Entry) /\ f.is_map /\ FirstOK(f) /\ LastOK(f, "key", "none")
  BY DEF FrameOK, FrameSet
<1>2. Len(f.body) \in Nat /\ n \in Nat /\ e \in Entry
  BY <1>1 DEF Entry
<1>3. e.start = Len(f.body) /\ e.key_end = 0
  OBVIOUS
<1> HIDE DEF e
<1>4. /\ Append(f.entries, e) \in Seq(Entry) /\ Len(Append(f.entries, e)) = n + 1
      /\ Append(f.entries, e)[n + 1] = e /\ \A k \in 1 .. n : Append(f.entries, e)[k] = f.entries[k]
  BY <1>1, <1>2, AppendProperties
<1>5. /\ g \in FrameSet /\ g.body = f.body /\ g.entries = Append(f.entries, e)
      /\ g.buffered = f.buffered /\ g.indefinite = f.indefinite /\ g.is_map = f.is_map
  BY <1>1, <1>4 DEF StartedIn, FrameSet, e
<1> HIDE DEF g
<1>6. /\ Len(g.entries) = n + 1 /\ g.entries[n + 1] = e
      /\ \A k \in 1 .. n : g.entries[k] = f.entries[k] /\ f.entries[k] \in Entry
  BY <1>1, <1>4, <1>5
<1>7. LastOK(g, "inkey", "none")
  BY <1>2, <1>3, <1>5, <1>6 DEF LastOK
<1>8. CASE n = 0
  <2>1. Len(f.body) = 0
    BY <1>1, <1>8 DEF LastOK
  <2>2. FirstOK(g)
    BY <1>3, <1>6, <1>8, <2>1 DEF FirstOK
  <2> QED
    BY <1>1, <1>5, <1>7, <2>2 DEF FrameOK, Places, g
<1>9. CASE n # 0
  <2>1. n \in 1 .. n /\ 1 \in 1 .. n
    BY <1>2, <1>9
  <2>2. Closed(f, n) /\ f.entries[n].key_end < Len(f.body)
    BY <1>1, <1>9 DEF LastOK
  <2>3. g.entries[1].start = 0
    BY <1>1, <1>6, <1>9, <2>1 DEF FirstOK
  <2>4. ASSUME NEW k \in 1 .. n PROVE Closed(g, k) /\ g.entries[k].key_end < g.entries[k + 1].start
    <3>1. CASE k = n
      BY <1>3, <1>5, <1>6, <2>1, <2>2, <3>1 DEF Closed
    <3>2. CASE k # n
      <4>1. k \in 1 .. n - 1 /\ k + 1 \in 1 .. n
        BY <1>2, <3>2
      <4>2. Closed(f, k) /\ f.entries[k].key_end < f.entries[k + 1].start
        BY <1>1, <4>1 DEF FirstOK
      <4> QED
        BY <1>5, <1>6, <4>1, <4>2 DEF Closed
    <3> QED
      BY <3>1, <3>2
  <2>5. (n + 1) - 1 = n
    BY <1>2
  <2>6. FirstOK(g)
    BY <1>6, <2>3, <2>4, <2>5 DEF FirstOK
  <2> QED
    BY <1>1, <1>5, <1>7, <2>6 DEF FrameOK, Places, g
<1> QED
  BY <1>8, <1>9

(* The token of a key.                                                     *)
LEMMA PutOK ==
  ASSUME NEW f, FrameOK(f, "inkey", "none"), f.buffered, NEW t \in Tok
  PROVE  FrameOK(PutIn(f, t), "endkey", "none") /\ PutIn(f, t).buffered
<1> DEFINE g == PutIn(f, t)
           n == Len(f.entries)
<1>1. f \in FrameSet /\ f.body \in Seq(Tok) /\ f.entries \in Seq(Entry) /\ f.is_map /\ FirstOK(f) /\ LastOK(f, "inkey", "none")
  BY DEF FrameOK, FrameSet
<1>2. Append(f.body, t) \in Seq(Tok) /\ Len(Append(f.body, t)) = Len(f.body) + 1 /\ Len(f.body) \in Nat /\ n \in Nat
  BY <1>1
<1>3. /\ g \in FrameSet /\ g.body = Append(f.body, t) /\ g.entries = f.entries
      /\ g.buffered = f.buffered /\ g.indefinite = f.indefinite /\ g.is_map = f.is_map
  BY <1>1, <1>2 DEF PutIn, FrameSet
<1> HIDE DEF g
<1>4. \A k \in 1 .. n : f.entries[k].start \in Nat /\ f.entries[k].key_end \in Nat /\ (Closed(f, k) => Closed(g, k))
  <2> TAKE k \in 1 .. n
  <2>1. f.entries[k] \in Entry
    BY <1>1
  <2> QED
    BY <1>2, <1>3, <2>1 DEF Closed, Entry
<1>5. FirstOK(g)
  BY <1>1, <1>2, <1>3, <1>4 DEF FirstOK
<1>6. n # 0 /\ f.entries[n].key_end = 0 /\ f.entries[n].start <= Len(f.body)
  BY <1>1 DEF LastOK
<1>7. n \in 1 .. n
  BY <1>2, <1>6
<1>8. f.entries[n].start < Len(g.body) /\ f.entries[n].start <= Len(g.body)
  BY <1>2, <1>3, <1>4, <1>6, <1>7
<1>9. LastOK(g, "endkey", "none")
  BY <1>3, <1>6, <1>8 DEF LastOK
<1> QED
  BY <1>1, <1>3, <1>5, <1>9 DEF FrameOK, Places, g

(* key_end.                                                                *)
LEMMA EndedOK ==
  ASSUME NEW f, FrameOK(f, "endkey", "none"), f.buffered
  PROVE  FrameOK(KeyEnded(f), "value", "none") /\ KeyEnded(f).buffered
<1> DEFINE g == KeyEnded(f)
           n == Len(f.entries)
<1>1. f \in FrameSet /\ f.body \in Seq(Tok) /\ f.entries \in Seq(Entry) /\ f.is_map /\ FirstOK(f) /\ LastOK(f, "endkey", "none")
  BY DEF FrameOK, FrameSet
<1>2. Len(f.body) \in Nat /\ n \in Nat
  BY <1>1
<1>3. n # 0 /\ f.entries[n].start < Len(f.body)
  BY <1>1 DEF LastOK
<1>4. n \in 1 .. n
  BY <1>2, <1>3
<1>5. f.entries[n] \in Entry
  BY <1>1, <1>4
<1> DEFINE e  == [f.entries[n] EXCEPT !.key_end = Len(f.body)]
           es == [f.entries EXCEPT ![n] = e]
<1>6. e \in Entry /\ e.start = f.entries[n].start /\ e.key_end = Len(f.body)
  BY <1>2, <1>5 DEF Entry
<1> HIDE DEF e
<1>7. es \in Seq(Entry) /\ Len(es) = n /\ \A k \in 1 .. n : es[k] = IF k = n THEN e ELSE f.entries[k]
  BY <1>1, <1>4, <1>6, ExceptSeq
<1> HIDE DEF es
<1>8. g = [f EXCEPT !.entries = es]
  BY DEF KeyEnded, es, e
<1>9. /\ g \in FrameSet /\ g.body = f.body /\ g.entries = es
      /\ g.buffered = f.buffered /\ g.indefinite = f.indefinite /\ g.is_map = f.is_map
  BY <1>1, <1>7, <1>8 DEF FrameSet
<1> HIDE DEF g
<1>10. Closed(g, n)
  BY <1>2, <1>3, <1>4, <1>6, <1>7, <1>9 DEF Closed
<1>11. LastOK(g, "value", "none")
  BY <1>3, <1>7, <1>9, <1>10 DEF LastOK
<1>12. \A k \in 1 .. n : g.entries[k].start = f.entries[k].start
  BY <1>6, <1>7, <1>9
<1>13. ASSUME NEW k \in 1 .. n - 1 PROVE Closed(g, k) /\ g.entries[k].key_end < g.entries[k + 1].start
  <2>1. k \in 1 .. n /\ k + 1 \in 1 .. n /\ k # n
    BY <1>2
  <2>2. g.entries[k] = f.entries[k]
    BY <1>7, <1>9, <2>1
  <2>3. Closed(f, k) /\ f.entries[k].key_end < f.entries[k + 1].start
    BY <1>1 DEF FirstOK
  <2> QED
    BY <1>9, <1>12, <2>1, <2>2, <2>3 DEF Closed
<1>14. g.entries[1].start = 0
  BY <1>1, <1>2, <1>3, <1>12 DEF FirstOK
<1>15. FirstOK(g)
  BY <1>7, <1>9, <1>13, <1>14 DEF FirstOK
<1> QED
  BY <1>1, <1>9, <1>11, <1>15 DEF FrameOK, Places, g

-----------------------------------------------------------------------------
(* Steps of the same kind.  Each keeps the invariant.                      *)

Good == WriterInv'

(* The tokens of one call.                                                 *)
Puttable(ts) == IsSeq(ts) /\ (opts.deterministic => ts \in Seq(Tok))

(* The invariant after a step, said of the new values.                     *)
LEMMA Kept ==
  ASSUME opts \in Options, UNCHANGED opts, IsSeq(out'), FramesOK(frames', plan', "none"),
         tagged' /\ plan' # << >> => plan'[Len(plan')].at \in Taking
  PROVE  WriterInv'
<1>1. FramesOK(frames, plan, "none")'
  BY DEF FramesOK, FrameOK
<1> QED
  BY <1>1 DEF WriterInv, Cur, Taking

(* The output stays a sequence.                                            *)
LEMMA OutputIsSeq ==
  ASSUME IsSeq(out), NEW ts, IsSeq(ts), NEW fs
  PROVE  IsSeq(Output(fs, ts))
  BY ConcatIsSeq DEF Output

(* encode_error.                                                           *)
LEMMA ThrowStep ==
  ASSUME WriterInv, err = "none", NEW e, e # "none", NEW fs, Throw(e, fs)
  PROVE  Good
  BY DEF Good, WriterInv, Throw

(* A call that writes tokens and ends in good frames.                      *)
LEMMA EmitStep ==
  ASSUME WriterInv, err = "none", NEW ts, Puttable(ts), NEW fs, Emit(fs, ts),
         FramesOK(Written(fs, ts), plan', "none"),
         tagged' /\ plan' # << >> => plan'[Len(plan')].at \in Taking
  PROVE  Good
<1>1. IsSeq(out) /\ opts \in Options
  BY DEF WriterInv
<1>2. IsSeq(out')
  BY <1>1, OutputIsSeq DEF Emit, Puttable
<1>3. frames' = Written(fs, ts) /\ UNCHANGED opts
  BY DEF Emit
<1> QED
  BY <1>1, <1>2, <1>3, Kept DEF Good

(* No frame is open.                                                       *)
LEMMA EmptyOK ==
  ASSUME FramesOK(frames, plan, "none"), plan = << >> \/ frames = << >>
  PROVE  frames = << >> /\ plan = << >> /\ \A top : FramesOK(frames, plan, top)
<1>1. IsSeq(frames) /\ IsSeq(plan) /\ Len(frames) = Len(plan)
  BY DEF FramesOK
<1>2. Len(frames) = 0
  BY <1>1, EmptySeq
<1>3. frames = << >> /\ plan = << >>
  BY <1>1, <1>2, EmptySeq DEF IsSeq
<1>4. \A top : FramesOK(frames, plan, top)
  BY <1>1, <1>2 DEF FramesOK
<1> QED
  BY <1>3, <1>4

(* A frame is open.                                                        *)
LEMMA TopOK ==
  ASSUME FramesOK(frames, plan, "none"), plan # << >>
  PROVE  frames # << >> /\ "at" \in DOMAIN Cur /\ FrameOK(Top, Cur.at, "none")
<1>1. frames # << >>
  BY EmptyOK
<1>2. IsSeq(frames) /\ Len(frames) = Len(plan)
  BY DEF FramesOK
<1>3. Len(frames) \in Nat \ {0}
  BY <1>1, <1>2, EmptySeq, LenProperties DEF IsSeq
<1> QED
  BY <1>1, <1>2, <1>3 DEF FramesOK, Above, Top, Cur

(* Where a value may be written.                                           *)
LEMMA TakingPlace ==
  ASSUME WriterInv, err = "none", ValueNext
  PROVE  FramesOK(frames, plan, "none") /\ (plan = << >> \/ Cur.at \in Taking)
  BY DEF WriterInv, ValueNext, Taking

(* The caller and item() go on to the next value.                          *)
LEMMA FilledOK ==
  ASSUME FramesOK(frames, plan, "none"), plan = << >> \/ Cur.at \in Taking
  PROVE  FramesOK(Itemized, Filled, "due")
<1>1. CASE plan = << >>
  <2>1. frames = << >> /\ FramesOK(frames, plan, "due")
    BY <1>1, EmptyOK
  <2> QED
    BY <1>1, <2>1 DEF Itemized, Filled
<1>2. CASE plan # << >>
  <2> DEFINE p == CASE Cur.at = "item"  -> [Cur EXCEPT !.left = Less(@)]
                    [] Cur.at = "inkey" -> [Cur EXCEPT !.at = "endkey"]
                    [] Cur.at = "value" -> [Cur EXCEPT !.at = "key", !.left = Less(@)]
  <2>1. frames # << >> /\ "at" \in DOMAIN Cur /\ FrameOK(Top, Cur.at, "none")
    BY <1>2, TopOK
  <2>2. "at" \in DOMAIN p /\ p.at = AfterValue(Cur.at)
    BY <1>2, <2>1 DEF AfterValue, Taking
  <2>3. Filled = Replaced(plan, p)
    BY <1>2 DEF Filled, Replaced
  <2> HIDE DEF p
  <2>4. FrameOK(Counted(Top), p.at, "due") /\ (Counted(Top).buffered <=> Top.buffered)
    BY <1>2, <2>1, <2>2, CountedOK
  <2>5. Itemized = Replaced(frames, Counted(Top))
    BY <2>1 DEF Itemized, Replaced, Counted, Top
  <2>6. Counted(Top).buffered <=> frames[Len(frames)].buffered
    BY <2>4 DEF Top
  <2>7. FramesOK(Replaced(frames, Counted(Top)), Replaced(plan, p), "due")
    BY <2>1, <2>2, <2>4, <2>6, ReplaceOK
  <2> QED
    BY <2>3, <2>5, <2>7
<1> QED
  BY <1>1, <1>2

(* A value.                                                                *)
LEMMA ValueStep ==
  ASSUME WriterInv, err = "none", ValueNext, NEW ts, Puttable(ts), Len(ts) >= 1, Emit(Itemized, ts),
         plan' = Filled, tagged' = FALSE
  PROVE  Good
<1>1. FramesOK(Itemized, Filled, "due")
  BY TakingPlace, FilledOK
<1>2. FramesOK(Written(Itemized, ts), Filled, "none")
  BY <1>1, WrittenOK DEF Puttable, Tops
<1> QED
  BY <1>2, EmitStep

(* A container.                                                            *)
LEMMA PushedStep ==
  ASSUME WriterInv, err = "none", ValueNext, NEW ts, Puttable(ts), NEW f, Pushed(ts, f),
         f.buffered \/ Len(ts) >= 1, NEW at, FrameOK(f, at, "none"),
         NEW n, NEW o, plan' = Append(Filled, Opened(at, n, o)), tagged' = FALSE
  PROVE  Good
<1> DEFINE b == IF f.buffered THEN "due" ELSE "under"
           p == Opened(at, n, o)
<1>1. FramesOK(Itemized, Filled, "due")
  BY TakingPlace, FilledOK
<1>2. b \in Tops /\ (b # "due" => Len(ts) >= 1)
  BY DEF Tops
<1>3. FramesOK(Written(Itemized, ts), Filled, b)
  <2> HIDE DEF b
  <2> QED
    BY <1>1, <1>2, WrittenOK DEF Puttable
<1>4. "at" \in DOMAIN p /\ p.at = at
  BY DEF Opened
<1> HIDE DEF p
<1>5. FramesOK(Append(Written(Itemized, ts), f), Append(Filled, p), "none")
  BY <1>3, <1>4, PushOK
<1>6. IsSeq(out) /\ opts \in Options
  BY DEF WriterInv
<1>7. IsSeq(out')
  BY <1>6, OutputIsSeq DEF Pushed, Puttable
<1>8. FramesOK(frames', plan', "none") /\ UNCHANGED opts
  BY <1>5 DEF Pushed, p
<1> QED
  BY <1>6, <1>7, <1>8, Kept DEF Good

(* Nothing is written, the innermost frame and the place in it change.     *)
LEMMA TopStep ==
  ASSUME WriterInv, err = "none", plan # << >>, NEW f, NEW p, "at" \in DOMAIN p, FrameOK(f, p.at, "none"),
         f.buffered <=> Top.buffered, frames' = Replaced(frames, f), plan' = Replaced(plan, p),
         UNCHANGED << opts, out, err >>, ~tagged'
  PROVE  Good
<1>1. FramesOK(frames, plan, "none") /\ IsSeq(out) /\ opts \in Options
  BY DEF WriterInv
<1>2. frames # << >>
  BY <1>1, TopOK
<1>3. FramesOK(Replaced(frames, f), Replaced(plan, p), "none")
  BY <1>1, <1>2, ReplaceOK DEF Top
<1> QED
  BY <1>1, <1>3, Kept DEF Good

(* The same sequence.                                                      *)
LEMMA ReplacedSame ==
  ASSUME FramesOK(frames, plan, "none"), plan # << >>
  PROVE  Replaced(frames, Top) = frames
<1>1. frames # << >> /\ IsSeq(frames)
  BY TopOK DEF FramesOK
<1>2. frames = [i \in DOMAIN frames |-> frames[i]]
  BY <1>1 DEF IsSeq
<1> QED
  BY <1>2, Zenon DEF Replaced, Top

-----------------------------------------------------------------------------
(* The calls.                                                              *)

(* One token.                                                              *)
LEMMA OneToken ==
  ASSUME NEW t, opts.deterministic => t \in Tok
  PROVE  Puttable(<< t >>) /\ Len(<< t >>) >= 1
<1>1. << t >> \in Seq({t}) /\ Len(<< t >>) = 1
  OBVIOUS
<1>2. IsSeq(<< t >>)
  BY <1>1, SeqIsSeq
<1>3. opts.deterministic => << t >> \in Seq(Tok)
  OBVIOUS
<1> QED
  BY <1>1, <1>2, <1>3 DEF Puttable

(* Nothing at all.                                                         *)
LEMMA NoToken == Puttable(<< >>)
<1>1. << >> \in Seq(Tok)
  OBVIOUS
<1> QED
  BY <1>1, SeqIsSeq DEF Puttable

(* The major types the calls name are major types.                          *)
LEMMA MajorTypes == {"uint", "bytes", "text", "array", "map", "tag", "simple"} \subseteq Major
  BY DEF Major, MajorOrder

(* The token of a string.                                                  *)
LEMMA StringTokenType ==
  ASSUME NEW t \in Texts
  PROVE  StringToken(t) \in Tok
<1>1. t \in [mt : String, size : Nat, data : Nat, valid : BOOLEAN, bounds : SUBSET Nat]
  BY ClientAssumption
<1>2. t.mt \in Major /\ t.size \in Nat /\ t.data \in Nat /\ t.valid \in BOOLEAN
  BY <1>1, MajorTypes DEF String
<1>3. MakeHead(t.mt, t.size) \in Tok
  BY <1>2, HeadType
<1> QED
  BY <1>2, <1>3 DEF StringToken, Tok

(* The token of a float, in the width asked for or the shortest.           *)
LEMMA RealTokenType ==
  ASSUME NEW d \in Reals
  PROVE  RealToken(d) \in Tok
<1>1. d \in RealSet
  BY ClientAssumption
<1>2. d.data \in Nat /\ d.width \in 0 .. 3 /\ d.least \in [1 .. 3 -> 1 .. 3]
  BY <1>1 DEF RealSet
<1>3. 24 + RealWidth(d) \in Nat
  BY <1>2 DEF RealWidth, Preferred
<1>4. MakeHead("simple", 24 + RealWidth(d)) \in Tok
  BY <1>3, MajorTypes, HeadType
<1> QED
  BY <1>2, <1>4 DEF RealToken, Tok

(* A string in chunks, which deterministic mode does not make.             *)
LEMMA ChunksPut ==
  ASSUME WriterInv, NEW t \in Texts, ~opts.deterministic
  PROVE  LET ts == << IndefiniteHead(t.mt) >> \o Chunks(t) \o << BreakByte >>
         IN  Puttable(ts) /\ Len(ts) >= 1
<1> DEFINE h == << IndefiniteHead(t.mt) >>
           b == << BreakByte >>
           c == Chunks(t)
           k == (t.size + ChunkSize - 1) \div ChunkSize
<1>1. t.size \in Nat /\ ChunkSize \in Nat \ {0}
  BY ClientAssumption, WriterAssumption
<1>2. k \in Nat
  BY <1>1
<1>3. c \in [1 .. k -> Range(c)]
  BY DEF Chunks, Range
<1> HIDE DEF k
<1>4. IsSeq(c)
  BY <1>2, <1>3, SeqIsSeq
<1>5. IsSeq(h) /\ IsSeq(b) /\ Len(h) = 1 /\ Len(b) = 1
  BY OneToken DEF Puttable
<1> HIDE DEF h, b, c
<1>6. IsSeq(h \o c) /\ Len(h \o c) = Len(h) + Len(c) /\ Len(c) \in Nat
  BY <1>4, <1>5, ConcatIsSeq
<1>7. IsSeq((h \o c) \o b) /\ Len((h \o c) \o b) = Len(h \o c) + Len(b)
  BY <1>5, <1>6, ConcatIsSeq
<1> QED
  BY <1>5, <1>6, <1>7 DEF Puttable, h, b, c

(* One token that is an item.                                              *)
LEMMA TokenStep ==
  ASSUME WriterInv, err = "none", ValueNext, plan' = Filled, tagged' = FALSE,
         NEW t \in Tok, Value(t)
  PROVE  Good
<1>1. Puttable(<< t >>) /\ Len(<< t >>) >= 1
  BY OneToken
<1> QED
  BY <1>1, ValueStep DEF Value

(* null, boolean, uint, sint, negative.                                    *)
LEMMA WriteIntStep ==
  ASSUME WriterInv, WriteInt
  PROVE  Good
<1>1. MakeHead("uint", 0) \in Tok
  BY MajorTypes, HeadType
<1> QED
  BY <1>1, TokenStep DEF WriteInt, Call

(* real, simple, text, bytes and typed arrays.                             *)
LEMMA WriteStep ==
  ASSUME WriterInv, Write
  PROVE  Good
<1>1. err = "none" /\ ValueNext /\ plan' = Filled /\ tagged' = FALSE
  BY DEF Write, Call
<1>2. ASSUME NEW t \in Tok, Value(t) PROVE Good
  BY <1>1, <1>2, TokenStep
<1>3. MakeHead("tag", 1) \in Tok /\ MakeHead("simple", 0) \in Tok
  BY MajorTypes, HeadType
<1>4. ASSUME NEW d \in Reals, Real(d) PROVE Good
  <2>1. Throw("out_of_range", Itemized) \/ Value(RealToken(d))
    BY <1>4 DEF Real
  <2> QED
    BY <1>1, <1>2, <2>1, RealTokenType, ThrowStep
<1>5. ASSUME NEW t \in Texts, WriteRange(1, t) PROVE Good
  <2> DEFINE ts == << MakeHead("tag", 1), StringToken(t) >>
  <2>1. ts \in Seq(Tok) /\ Len(ts) >= 1
    BY <1>3, StringTokenType
  <2>2. Puttable(ts)
    BY <2>1, SeqIsSeq DEF Puttable
  <2>3. Emit(Itemized, ts)
    BY <1>5 DEF WriteRange
  <2> HIDE DEF ts
  <2> QED
    BY <1>1, <2>1, <2>2, <2>3, ValueStep
<1>6. ASSUME NEW r \in BOOLEAN, Simple(0, r) PROVE Good
  <2>1. Throw("unsupported_simple_value", frames) \/ Value(MakeHead("simple", 0))
    BY <1>6 DEF Simple
  <2> QED
    BY <1>1, <1>2, <1>3, <2>1, ThrowStep
<1>7. ASSUME NEW t \in Texts, NEW indef \in BOOLEAN, StringValue(t, indef) PROVE Good
  <2> DEFINE ts == << IndefiniteHead(t.mt) >> \o Chunks(t) \o << BreakByte >>
  <2>1. \/ Throw("invalid_utf8", Itemized)
        \/ ~opts.deterministic /\ Emit(Itemized, ts)
        \/ Value(StringToken(t))
    BY <1>7 DEF StringValue
  <2>2. ~opts.deterministic => Puttable(ts) /\ Len(ts) >= 1
    BY ChunksPut
  <2> HIDE DEF ts
  <2>3. CASE Throw("invalid_utf8", Itemized)
    BY <1>1, <2>3, ThrowStep
  <2>4. CASE ~opts.deterministic /\ Emit(Itemized, ts)
    BY <1>1, <2>2, <2>4, ValueStep
  <2>5. CASE Value(StringToken(t))
    BY <1>2, <2>5, StringTokenType
  <2> QED
    BY <2>1, <2>3, <2>4, <2>5
<1> QED
  BY <1>4, <1>5, <1>6, <1>7 DEF Write

(* A tag: the place of the caller is the same.                             *)
LEMMA TagStep ==
  ASSUME WriterInv, WriteTag
  PROVE  Good
<1> DEFINE ts == << MakeHead("tag", 1) >>
<1>1. err = "none" /\ ValueNext /\ plan' = plan /\ Emit(frames, ts)
  BY DEF WriteTag, Call, Tag
<1>2. Puttable(ts)
  BY MajorTypes, HeadType, OneToken
<1> HIDE DEF ts
<1>3. FramesOK(frames, plan, "none") /\ (plan = << >> \/ Cur.at \in Taking)
  BY <1>1, TakingPlace
<1>4. FramesOK(frames, plan, "under")
  <2>1. CASE plan = << >>
    BY <1>3, <2>1, EmptyOK
  <2>2. CASE plan # << >>
    <3>1. frames # << >> /\ "at" \in DOMAIN Cur /\ FrameOK(Top, Cur.at, "none")
      BY <1>3, <2>2, TopOK
    <3>2. FrameOK(Top, Cur.at, "under")
      BY <1>3, <2>2, <3>1 DEF FrameOK, LastOK, Taking
    <3>3. Len(frames) = Len(plan)
      BY <1>3 DEF FramesOK
    <3>4. ASSUME NEW i \in 1 .. Len(frames)
          PROVE  "at" \in DOMAIN plan[i] /\ FrameOK(frames[i], plan[i].at, Above(frames, i, "under"))
      <4>1. CASE i = Len(frames)
        BY <3>1, <3>2, <3>3, <4>1 DEF Above, Top, Cur
      <4>2. CASE i # Len(frames)
        BY <1>3, <4>2 DEF FramesOK, Above
      <4> QED
        BY <4>1, <4>2
    <3> QED
      BY <1>3, <3>4 DEF FramesOK
  <2> QED
    BY <2>1, <2>2
<1>5. FramesOK(Written(frames, ts), plan, "none")
  BY <1>2, <1>4, WrittenOK DEF Puttable, Tops
<1>6. plan' # << >> => plan'[Len(plan')].at \in Taking
  BY <1>1, <1>3 DEF Cur
<1> QED
  BY <1>1, <1>2, <1>5, <1>6, EmitStep

(* A frame that was just made.                                             *)
LEMMA NewFrameOK ==
  ASSUME NEW m \in BOOLEAN, NEW b \in BOOLEAN, NEW i \in BOOLEAN,
         b => opts.deterministic, i => ~opts.deterministic, NEW at \in {"item", "key"}, m <=> at = "key"
  PROVE  FrameOK(NewFrame(m, b, i), at, "none") /\ (NewFrame(m, b, i).buffered <=> b)
<1> DEFINE f == NewFrame(m, b, i)
<1>1. << >> \in Seq(Tok) /\ << >> \in Seq(Entry) /\ Len(<< >>) = 0
  OBVIOUS
<1>2. /\ f \in FrameSet /\ f.body = << >> /\ f.entries = << >>
      /\ f.is_map = m /\ f.buffered = b /\ f.indefinite = i
  BY <1>1 DEF NewFrame, FrameSet
<1> HIDE DEF f
<1>3. FirstOK(f) /\ (at = "key" => LastOK(f, at, "none"))
  BY <1>1, <1>2 DEF FirstOK, LastOK
<1>4. FrameOK(f, at, "none")
  BY <1>2, <1>3 DEF FrameOK, Places
<1> QED
  BY <1>2, <1>4 DEF f

(* A frame is pushed: a head is written unless the frame is buffered.      *)
LEMMA OpenStep ==
  ASSUME WriterInv, err = "none", ValueNext, NEW ts, NEW f, Pushed(ts, f),
         \/ ts = << >> /\ f.buffered
         \/ \E t : ts = << t >> /\ (opts.deterministic => t \in Tok),
         NEW at, FrameOK(f, at, "none"),
         NEW n, NEW o, plan' = Append(Filled, Opened(at, n, o)), tagged' = FALSE
  PROVE  Good
<1>1. Puttable(ts) /\ (f.buffered \/ Len(ts) >= 1)
  BY NoToken, OneToken
<1> QED
  BY <1>1, PushedStep

(* open().                                                                 *)
LEMMA BeginStep ==
  ASSUME WriterInv, err = "none", ValueNext, NEW n \in Sizes, tagged' = FALSE,
         NEW m \in {"array", "map"}, Begin(m, n), NEW k, NEW o,
         plan' = Append(Filled, Opened(IF m = "map" THEN "key" ELSE "item", k, o))
  PROVE  Good
<1> DEFINE at == IF m = "map" THEN "key" ELSE "item"
<1>1. /\ at \in {"item", "key"} /\ (m = "map" <=> at = "key") /\ (m = "map") \in BOOLEAN
      /\ opts.deterministic \in BOOLEAN
  BY WriterAssumption DEF WriterInv
<1> HIDE DEF at
<1>2. n # Nullopt => MakeHead(m, n) \in Tok
  BY MajorTypes, HeadType, ClientAssumption DEF Sizes
<1>3. CASE Throw("depth_exceeded", Itemized)
  BY <1>3, ThrowStep
<1>4. CASE opts.deterministic /\ Pushed(<< >>, NewFrame(m = "map", TRUE, FALSE))
  <2> DEFINE f == NewFrame(m = "map", TRUE, FALSE)
  <2>1. FrameOK(f, at, "none") /\ f.buffered
    BY <1>1, <1>4, NewFrameOK
  <2> HIDE DEF f
  <2> QED
    BY <1>4, <2>1, OpenStep DEF at, f
<1>5. CASE opts.deterministic /\ m = "array" /\ n # Nullopt /\ Pushed(<< MakeHead(m, n) >>, NewFrame(FALSE, FALSE, FALSE))
  <2> DEFINE f == NewFrame(FALSE, FALSE, FALSE)
  <2>1. FrameOK(f, at, "none")
    BY <1>1, <1>5, NewFrameOK
  <2> HIDE DEF f
  <2> QED
    BY <1>2, <1>5, <2>1, OpenStep DEF at, f
<1>6. CASE n # Nullopt /\ Pushed(<< MakeHead(m, n) >>, NewFrame(m = "map", FALSE, FALSE))
  <2> DEFINE f == NewFrame(m = "map", FALSE, FALSE)
  <2>1. FrameOK(f, at, "none")
    BY <1>1, NewFrameOK
  <2> HIDE DEF f
  <2> QED
    BY <1>2, <1>6, <2>1, OpenStep DEF at, f
<1>7. CASE ~opts.deterministic /\ Pushed(<< IndefiniteHead(m) >>, NewFrame(m = "map", FALSE, TRUE))
  <2> DEFINE f == NewFrame(m = "map", FALSE, TRUE)
  <2>1. FrameOK(f, at, "none")
    BY <1>1, <1>7, NewFrameOK
  <2> HIDE DEF f
  <2> QED
    BY <1>7, <2>1, OpenStep DEF at, f
<1> QED
  BY <1>3, <1>4, <1>5, <1>6, <1>7 DEF Begin

(* begin_map, begin_array, begin_map_ordered.                              *)
LEMMA ContainerStep ==
  ASSUME WriterInv, BeginContainer
  PROVE  Good
<1>1. err = "none" /\ ValueNext /\ tagged' = FALSE
  BY DEF BeginContainer, Call
<1>2. PICK n \in Sizes, indef \in BOOLEAN :
        \/ BeginField("array", n, indef) /\ plan' = Append(Filled, Opened("item", n, FALSE))
        \/ BeginField("map", n, indef) /\ plan' = Append(Filled, Opened("key", n, FALSE))
        \/ ~indef /\ BeginOrdered(n) /\ plan' = Append(Filled, Opened("key", n, TRUE))
  BY DEF BeginContainer
<1> DEFINE k == IF indef /\ ~opts.deterministic THEN Nullopt ELSE n
<1>3. k \in Sizes
  BY DEF Sizes
<1> HIDE DEF k
<1>4. CASE BeginField("array", n, indef) /\ plan' = Append(Filled, Opened("item", n, FALSE))
  <2>1. Begin("array", k)
    BY <1>4 DEF BeginField, k
  <2> QED
    BY <1>1, <1>3, <1>4, <2>1, BeginStep
<1>5. CASE BeginField("map", n, indef) /\ plan' = Append(Filled, Opened("key", n, FALSE))
  <2>1. Begin("map", k)
    BY <1>5 DEF BeginField, k
  <2> QED
    BY <1>1, <1>3, <1>5, <2>1, BeginStep
<1>6. CASE BeginOrdered(n) /\ plan' = Append(Filled, Opened("key", n, TRUE))
  <2> DEFINE f == NewFrame(TRUE, FALSE, FALSE)
  <2>1. \/ Throw("depth_exceeded", Itemized)
        \/ n # Nullopt /\ Pushed(<< MakeHead("map", n) >>, f)
        \/ Begin("map", n)
    BY <1>6 DEF BeginOrdered
  <2>2. FrameOK(f, "key", "none")
    BY NewFrameOK
  <2> HIDE DEF f
  <2>3. n # Nullopt => MakeHead("map", n) \in Tok
    BY MajorTypes, HeadType, ClientAssumption DEF Sizes
  <2>4. CASE Throw("depth_exceeded", Itemized)
    BY <1>1, <2>4, ThrowStep
  <2>5. CASE n # Nullopt /\ Pushed(<< MakeHead("map", n) >>, f)
    BY <1>1, <1>6, <2>2, <2>3, <2>5, OpenStep
  <2>6. CASE Begin("map", n)
    BY <1>1, <1>6, <2>6, BeginStep
  <2> QED
    BY <2>1, <2>4, <2>5, <2>6
<1> QED
  BY <1>2, <1>4, <1>5, <1>6

(* Where a key may be written.                                             *)
LEMMA KeyPlace ==
  ASSUME WriterInv, err = "none", KeyNext
  PROVE  /\ FramesOK(frames, plan, "none") /\ plan # << >> /\ ~tagged /\ frames # << >>
         /\ "at" \in DOMAIN Cur /\ Cur.at = "key" /\ FrameOK(Top, "key", "none")
<1>1. FramesOK(frames, plan, "none") /\ plan # << >> /\ ~tagged /\ Cur.at = "key"
  BY DEF WriterInv, KeyNext
<1> QED
  BY <1>1, TopOK

(* key and prepared_key.                                                   *)
LEMMA OneKeyStep ==
  ASSUME WriterInv, err = "none", KeyNext, NEW t \in Tok, Key(t), UNCHANGED tagged,
         NEW p, "at" \in DOMAIN p, p.at = "value", plan' = Replaced(plan, p)
  PROVE  Good
<1>1. /\ FramesOK(frames, plan, "none") /\ plan # << >> /\ ~tagged /\ frames # << >>
      /\ FrameOK(Top, "key", "none")
  BY KeyPlace
<1>2. ~tagged'
  BY <1>1
<1>3. CASE Top.buffered
  <2> DEFINE f == KeyEnded(PutIn(StartedIn(Top), t))
  <2>1. FrameOK(StartedIn(Top), "inkey", "none") /\ StartedIn(Top).buffered
    BY <1>1, <1>3, StartedOK
  <2>2. FrameOK(PutIn(StartedIn(Top), t), "endkey", "none") /\ PutIn(StartedIn(Top), t).buffered
    BY <2>1, PutOK
  <2>3. FrameOK(f, "value", "none") /\ f.buffered
    BY <2>2, EndedOK
  <2>4. frames' = Replaced(frames, f) /\ UNCHANGED << opts, out, err >>
    BY <1>3 DEF Key, Replaced, KeyStarted, StartedIn, PutIn
  <2> HIDE DEF f
  <2> QED
    BY <1>1, <1>2, <1>3, <2>3, <2>4, TopStep
<1>4. CASE ~Top.buffered
  <2>1. Emit(frames, << t >>)
    BY <1>4 DEF Key
  <2>2. FrameOK(Top, "value", "under")
    BY <1>1, <1>4, PlaceOK DEF Places
  <2>3. FramesOK(Replaced(frames, Top), Replaced(plan, p), "under")
    BY <1>1, <2>2, ReplaceOK DEF Top
  <2>4. FramesOK(frames, plan', "under")
    BY <1>1, <2>3, ReplacedSame
  <2>5. Puttable(<< t >>)
    BY OneToken
  <2>6. FramesOK(Written(frames, << t >>), plan', "none")
    BY <2>4, <2>5, WrittenOK DEF Puttable, Tops
  <2> QED
    BY <1>2, <2>1, <2>5, <2>6, EmitStep
<1> QED
  BY <1>3, <1>4

(* Keys of one token.                                                      *)
LEMMA KeyStep ==
  ASSUME WriterInv, WriteKey \/ WriteTextKey
  PROVE  Good
<1>1. err = "none" /\ KeyNext /\ UNCHANGED tagged
  BY DEF WriteKey, WriteTextKey, Call
<1>2. "at" \in DOMAIN Cur
  BY <1>1, KeyPlace
<1>3. CASE WriteKey
  <2>1. PICK t \in KeyHeads : Key(t) /\ plan' = [plan EXCEPT ![Len(plan)] = [Cur EXCEPT !.at = "value", !.last = t]]
    BY <1>3 DEF WriteKey
  <2> DEFINE p == [Cur EXCEPT !.at = "value", !.last = t]
  <2>2. "at" \in DOMAIN p /\ p.at = "value"
    BY <1>2
  <2>3. plan' = Replaced(plan, p)
    BY <2>1 DEF Replaced
  <2> HIDE DEF p
  <2>4. t \in Tok
    BY ClientAssumption DEF Token, Tok
  <2> QED
    BY <1>1, <2>1, <2>2, <2>3, <2>4, OneKeyStep
<1>4. CASE WriteTextKey
  <2>1. PICK t \in Texts : StringKey(t)
    BY <1>4 DEF WriteTextKey
  <2>2. plan' = [plan EXCEPT ![Len(plan)].at = "value"]
    BY <1>4 DEF WriteTextKey
  <2> DEFINE p == [Cur EXCEPT !.at = "value"]
  <2>3. "at" \in DOMAIN p /\ p.at = "value"
    BY <1>2
  <2>4. plan' = Replaced(plan, p)
    BY <2>2 DEF Replaced, Cur
  <2> HIDE DEF p
  <2>5. Throw("invalid_utf8", AtKey) \/ Key(StringToken(t))
    BY <2>1 DEF StringKey
  <2> QED
    BY <1>1, <2>3, <2>4, <2>5, StringTokenType, OneKeyStep, ThrowStep
<1> QED
  BY <1>3, <1>4

(* begin_key and end_key.                                                  *)
LEMMA LongKeyStep ==
  ASSUME WriterInv, BeginKey \/ EndKey
  PROVE  Good
<1>1. err = "none" /\ UNCHANGED tagged
  BY DEF BeginKey, EndKey, Call
<1>2. CASE BeginKey
  <2>1. /\ FramesOK(frames, plan, "none") /\ plan # << >> /\ ~tagged
        /\ "at" \in DOMAIN Cur /\ FrameOK(Top, "key", "none")
    BY <1>1, <1>2, KeyPlace DEF BeginKey
  <2> DEFINE p == [Cur EXCEPT !.at = "inkey"]
             f == IF Top.buffered THEN StartedIn(Top) ELSE Top
  <2>2. "at" \in DOMAIN p /\ p.at = "inkey" /\ plan' = Replaced(plan, p)
    BY <1>2, <2>1 DEF BeginKey, Replaced, Cur
  <2>3. FrameOK(f, "inkey", "none") /\ (f.buffered <=> Top.buffered)
    BY <2>1, StartedOK, PlaceOK DEF Places
  <2>4. frames' = Replaced(frames, f) /\ UNCHANGED << opts, out, err >>
    <3>1. CASE Top.buffered
      BY <1>2, <3>1 DEF BeginKey, KeyStart, AtKey, KeyStarted, StartedIn, Replaced
    <3>2. CASE ~Top.buffered
      BY <1>2, <2>1, <3>2, ReplacedSame DEF BeginKey, KeyStart, AtKey
    <3> QED
      BY <3>1, <3>2
  <2> HIDE DEF p, f
  <2> QED
    BY <1>1, <2>1, <2>2, <2>3, <2>4, TopStep
<1>3. CASE EndKey
  <2>1. FramesOK(frames, plan, "none") /\ plan # << >> /\ Cur.at = "endkey" /\ ~tagged
    BY <1>1, <1>3 DEF EndKey, WriterInv
  <2>2. "at" \in DOMAIN Cur /\ FrameOK(Top, "endkey", "none")
    BY <2>1, TopOK
  <2> DEFINE p == [Cur EXCEPT !.at = "value"]
             f == IF Top.buffered THEN KeyEnded(Top) ELSE Top
  <2>3. "at" \in DOMAIN p /\ p.at = "value" /\ plan' = Replaced(plan, p)
    BY <1>3, <2>2 DEF EndKey, Replaced, Cur
  <2>4. FrameOK(f, "value", "none") /\ (f.buffered <=> Top.buffered)
    BY <2>2, EndedOK, PlaceOK DEF Places
  <2>5. frames' = Replaced(frames, f) /\ UNCHANGED << opts, out, err >>
    <3>1. CASE Top.buffered
      BY <1>3, <3>1 DEF EndKey, KeyEnd, Replaced
    <3>2. CASE ~Top.buffered
      BY <1>3, <2>1, <3>2, ReplacedSame DEF EndKey, KeyEnd
    <3> QED
      BY <3>1, <3>2
  <2> HIDE DEF p, f
  <2> QED
    BY <1>1, <2>1, <2>3, <2>4, <2>5, TopStep
<1> QED
  BY <1>2, <1>3

(* close(): what was collected in a buffered frame goes to the next one    *)
(* outward, where it was due, and it is never empty.                       *)
LEMMA EndStep ==
  ASSUME WriterInv, EndContainer
  PROVE  Good
<1> DEFINE rest == Front(frames)
           top  == IF Top.buffered THEN "due" ELSE "under"
<1>1. /\ err = "none" /\ plan # << >> /\ Cur.at \in {"item", "key"} /\ End
      /\ plan' = Front(plan) /\ ~tagged'
  BY DEF EndContainer, Call
<1>2. FramesOK(frames, plan, "none")
  BY <1>1 DEF WriterInv
<1>3. frames # << >> /\ FrameOK(Top, Cur.at, "none")
  BY <1>1, <1>2, TopOK
<1>4. FramesOK(rest, plan', top)
  BY <1>1, <1>2, <1>3, PopOK DEF Top
<1>5. top \in {"due", "under"} /\ (top = "due" <=> Top.buffered) /\ Top \in FrameSet
  BY <1>3 DEF FrameOK
<1> HIDE DEF rest, top
<1>6. ASSUME NEW ts, Puttable(ts), Top.buffered => Len(ts) >= 1, Emit(rest, ts) PROVE Good
  <2>1. FramesOK(Written(rest, ts), plan', "none")
    BY <1>4, <1>5, <1>6, WrittenOK DEF Puttable, Tops
  <2> QED
    BY <1>1, <1>6, <2>1, EmitStep
<1>7. CASE Top.indefinite /\ Emit(rest, << BreakByte >>)
  <2>1. ~opts.deterministic
    BY <1>3, <1>7 DEF FrameOK
  <2>2. Puttable(<< BreakByte >>) /\ Len(<< BreakByte >>) >= 1
    BY <2>1, OneToken
  <2> QED
    BY <1>6, <1>7, <2>2
<1>8. CASE ~Top.buffered /\ Emit(rest, << >>)
  BY <1>6, <1>8, NoToken
<1>9. CASE Emit(rest, << MakeHead("array", Top.items) >> \o Top.body)
  <2> DEFINE ts == << MakeHead("array", Top.items) >> \o Top.body
  <2>1. Top.items \in Nat /\ Top.body \in Seq(Tok)
    BY <1>5 DEF FrameSet
  <2>2. ts \in Seq(Tok) /\ Len(ts) >= 1
    BY <2>1, MajorTypes, HeadType, HeadAndBody
  <2> HIDE DEF ts
  <2>3. Puttable(ts)
    BY <2>2, SeqIsSeq DEF Puttable
  <2> QED
    BY <1>6, <1>9, <2>2, <2>3 DEF ts
<1>10. CASE Throw("duplicate_key", rest)
  BY <1>1, <1>10, ThrowStep
<1>11. CASE Top.buffered /\ Top.is_map /\ Emit(rest, MapTokens(Top))
  <2>1. FirstOK(Top) /\ LastOK(Top, "key", "none")
    BY <1>1, <1>3, <1>11 DEF FrameOK
  <2>2. MapTokens(Top) \in Seq(Tok) /\ Len(MapTokens(Top)) >= 1
    BY <1>5, <2>1, MapWritten
  <2>3. Puttable(MapTokens(Top))
    BY <2>2, SeqIsSeq DEF Puttable
  <2> QED
    BY <1>6, <1>11, <2>2, <2>3
<1> QED
  BY <1>1, <1>7, <1>8, <1>9, <1>10, <1>11 DEF End, rest

-----------------------------------------------------------------------------
(* The theorems.                                                           *)

(* A new writer.                                                           *)
LEMMA WriterStart == Init => WriterInv
<1> SUFFICES ASSUME Init PROVE WriterInv
  OBVIOUS
<1>1. opts \in Options /\ out = << >> /\ frames = << >> /\ plan = << >>
  BY DEF Init, WriterInit
<1>2. IsSeq(<< >>) /\ Len(<< >>) = 0
  BY NoToken DEF Puttable
<1>3. FramesOK(frames, plan, "none")
  BY <1>1, <1>2 DEF FramesOK
<1> QED
  BY <1>1, <1>2, <1>3 DEF WriterInv

(* Every call keeps the invariant, and the output.                         *)
LEMMA WriterStep ==
  ASSUME WriterInv, Next
  PROVE  Good
  BY WriteIntStep, WriteStep, TagStep, ContainerStep, KeyStep, LongKeyStep, EndStep DEF Next

(* Nothing changes.                                                        *)
LEMMA WriterStutters ==
  ASSUME WriterInv, UNCHANGED vars
  PROVE  WriterInv'
<1>1. UNCHANGED << opts, out, frames, err, plan, tagged >>
  BY DEF vars, writer
<1>2. (FramesOK(frames, plan, "none") /\ IsSeq(out))' <=> FramesOK(frames, plan, "none") /\ IsSeq(out)
  BY <1>1 DEF FramesOK, FrameOK
<1> QED
  BY <1>1, <1>2 DEF WriterInv, Cur

(* The entries of every buffered map tile what it has collected.           *)
LEMMA InvDelimits == WriterInv => EntriesDelimited
<1> SUFFICES ASSUME WriterInv, err = "none"
             PROVE  /\ Len(frames) = Len(plan)
                    /\ \A i \in DOMAIN frames :
                         IF ~frames[i].buffered THEN frames[i].body = << >> /\ frames[i].entries = << >>
                         ELSE frames[i].is_map => Delimited(frames[i], plan[i].at \in {"inkey", "endkey"})
  BY DEF EntriesDelimited
<1>1. FramesOK(frames, plan, "none")
  BY DEF WriterInv
<1>2. Len(frames) = Len(plan) /\ DOMAIN frames = 1 .. Len(frames)
  BY <1>1, LenProperties DEF FramesOK, IsSeq
<1>3. ASSUME NEW i \in DOMAIN frames, frames[i].buffered, frames[i].is_map
      PROVE  Delimited(frames[i], plan[i].at \in {"inkey", "endkey"})
  <2> DEFINE f == frames[i]
             n == Len(f.entries)
             at == plan[i].at
  <2>1. FrameOK(f, at, Above(frames, i, "none"))
    BY <1>1, <1>2 DEF FramesOK
  <2>2. /\ f.entries \in Seq(Entry) /\ at \in Places /\ at # "item"
        /\ FirstOK(f) /\ LastOK(f, at, Above(frames, i, "none"))
    BY <1>3, <2>1 DEF FrameOK, FrameSet
  <2> HIDE DEF f, at
  <2>3. n \in Nat /\ DOMAIN f.entries = 1 .. n
    BY <2>2
  <2>4. f.entries # << >> => f.entries[1].start = 0
    <3>1. f.entries # << >> => n # 0
      BY <2>2, EmptySeq
    <3> QED
      BY <2>2, <3>1 DEF FirstOK
  <2>5. ASSUME NEW k \in 1 .. n
        PROVE  Closed(f, k) \/ (at \in {"inkey", "endkey"} /\ k = n /\ f.entries[k].key_end = 0)
    <3>1. CASE k # n
      <4>1. k \in 1 .. n - 1
        BY <2>3, <3>1
      <4> QED
        BY <2>2, <4>1 DEF FirstOK
    <3>2. CASE k = n
      <4>1. n # 0
        BY <2>3, <3>2
      <4> QED
        BY <2>2, <3>2, <4>1 DEF LastOK, Places
    <3> QED
      BY <3>1, <3>2
  <2>6. \A k \in 1 .. n - 1 : f.entries[k].key_end < f.entries[k + 1].start
    BY <2>2 DEF FirstOK
  <2>7. Delimited(f, at \in {"inkey", "endkey"})
    BY <2>3, <2>4, <2>5, <2>6 DEF Delimited, Closed
  <2> QED
    BY <2>7 DEF f, at
<1>4. ASSUME NEW i \in DOMAIN frames, ~frames[i].buffered
      PROVE  frames[i].body = << >> /\ frames[i].entries = << >>
  BY <1>1, <1>2, <1>4 DEF FramesOK, FrameOK
<1> QED
  BY <1>2, <1>3, <1>4

(* However a caller nests containers, and whatever it writes as keys, what *)
(* close() sorts is whole entries and what it compares is whole keys: the  *)
(* entries recorded by key_start and key_end tile the body of their frame. *)
THEOREM EntriesWhole == Spec => []EntriesDelimited
<1>1. WriterInv /\ [Next]_vars => WriterInv'
  BY WriterStep, WriterStutters DEF Good
<1> QED
  BY <1>1, WriterStart, InvDelimits, PTL DEF Spec

===============================================================================
