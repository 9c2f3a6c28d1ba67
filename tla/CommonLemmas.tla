----------------------------- MODULE CommonLemmas -----------------------------
(***************************************************************************)
(* Facts that the proofs of several components use.  About natural         *)
(* numbers: smallest and largest elements, which is also how an induction  *)
(* is done (a property that fails somewhere has a smallest                 *)
(* counterexample).  About finite sets: how a count grows with a bound.    *)
(* About sequences of anything: push_back, pop_back, back() = x, append    *)
(* and the concatenation of several.  About orders: that sorting succeeds. *)
(***************************************************************************)
EXTENDS Integers, SequencesExt, FiniteSetsExt, FiniteSetTheorems, SequenceTheorems,
        WellFoundedInduction, TLAPS

(* Every nonempty set of natural numbers has a smallest element.           *)
LEMMA SmallestOf ==
  ASSUME NEW S \in SUBSET Nat, S # {}
  PROVE  \E m \in S : \A x \in S : m <= x
<1> DEFINE R == {ss \in Nat \X Nat : ss[1] < ss[2]}
<1>1. IsWellFoundedOn(R, Nat)
  BY NatLessThanWellFounded DEF OpToRel
<1>2. \A x, y \in Nat : x < y => << x, y >> \in R
  OBVIOUS
<1> HIDE DEF R
<1>3. PICK m \in S : \A y \in S : << y, m >> \notin R
  BY <1>1, WFMin
<1>4. \A y \in S : ~(y < m)
  BY <1>2, <1>3
<1> QED
  BY <1>4

(* Min is that element.                                                    *)
LEMMA MinOf ==
  ASSUME NEW S \in SUBSET Nat, S # {}
  PROVE  Min(S) \in S /\ \A x \in S : Min(S) <= x
<1>1. PICK m \in S : \A x \in S : m <= x
  BY SmallestOf
<1> QED
  BY <1>1, Zenon DEF Min

(* A nonempty set of natural numbers below a bound has a largest element,  *)
(* and Max is it.                                                          *)
LEMMA MaxOf ==
  ASSUME NEW S \in SUBSET Nat, S # {}, NEW b \in Nat, \A x \in S : x <= b
  PROVE  Max(S) \in S /\ \A x \in S : Max(S) >= x
<1> DEFINE U == {u \in Nat : \A x \in S : x <= u}
<1>1. U \in SUBSET Nat /\ U # {}
  OBVIOUS
<1>2. PICK u \in U : \A v \in U : u <= v
  <2> HIDE DEF U
  <2> QED
    BY <1>1, SmallestOf
<1>3. u \in Nat /\ \A x \in S : x <= u
  OBVIOUS
<1>4. u \in S
  <2> SUFFICES ASSUME u \notin S PROVE FALSE
    OBVIOUS
  <2>1. \A x \in S : x <= u - 1
    BY <1>3
  <2>2. u # 0
    <3>1. PICK x \in S : TRUE
      OBVIOUS
    <3> QED
      BY <1>3, <3>1
  <2>3. u - 1 \in U
    BY <1>3, <2>1, <2>2
  <2> QED
    BY <1>2, <1>3, <2>3
<1>5. \E x \in S : \A y \in S : x >= y
  BY <1>3, <1>4
<1> QED
  BY <1>5, Zenon DEF Max

-----------------------------------------------------------------------------
(* Counting.                                                               *)

(* The members of a set below a bound, and below the next one.             *)
LEMMA CountNext ==
  ASSUME NEW A, NEW n \in Nat
  PROVE  /\ Cardinality((1 .. n) \cap A) \in Nat
         /\ Cardinality((1 .. n + 1) \cap A)
              = Cardinality((1 .. n) \cap A) + (IF n + 1 \in A THEN 1 ELSE 0)
<1> DEFINE C(k) == (1 .. k) \cap A
<1>1. IsFiniteSet(1 .. n)
  BY FS_Interval
<1>2. IsFiniteSet(C(n))
  BY <1>1, FS_Subset
<1>3. Cardinality(C(n)) \in Nat
  BY <1>2, FS_CardinalityType
<1>4. CASE n + 1 \in A
  <2>1. C(n + 1) = C(n) \cup {n + 1} /\ n + 1 \notin C(n)
    BY <1>4
  <2> HIDE DEF C
  <2>2. Cardinality(C(n) \cup {n + 1}) = Cardinality(C(n)) + 1
    BY <1>2, <2>1, FS_AddElement
  <2>3. Cardinality(C(n + 1)) = Cardinality(C(n)) + 1
    BY <2>1, <2>2
  <2> QED
    BY <1>3, <1>4, <2>3 DEF C
<1>5. CASE n + 1 \notin A
  <2>1. C(n + 1) = C(n)
    BY <1>5
  <2> QED
    BY <1>3, <1>5, <2>1
<1> QED
  BY <1>4, <1>5

-----------------------------------------------------------------------------
(* Sequences of anything.                                                  *)

IsSeq(s) == s \in Seq(Range(s))

(* A sequence over some set is one over its own elements.                  *)
LEMMA SeqIsSeq ==
  ASSUME NEW S, NEW s \in Seq(S)
  PROVE  IsSeq(s) /\ Len(s) \in Nat /\ DOMAIN s = 1 .. Len(s)
<1>1. Len(s) \in Nat /\ DOMAIN s = 1 .. Len(s) /\ s \in [1 .. Len(s) -> S]
  BY LenProperties
<1>2. s \in [1 .. Len(s) -> Range(s)]
  BY <1>1 DEF Range
<1> QED
  BY <1>1, <1>2 DEF IsSeq

(* pop_back: a shorter sequence with the same elements.                    *)
LEMMA PopSeq ==
  ASSUME NEW S, NEW s \in Seq(S), s # << >>
  PROVE  /\ Len(s) \in Nat \ {0}
         /\ s[Len(s)] \in S
         /\ SubSeq(s, 1, Len(s) - 1) \in Seq(S)
         /\ Len(SubSeq(s, 1, Len(s) - 1)) = Len(s) - 1
         /\ \A i \in 1 .. Len(s) - 1 : SubSeq(s, 1, Len(s) - 1)[i] = s[i]
<1>1. Len(s) \in Nat \ {0}
  BY EmptySeq
<1>2. \A i \in 1 .. Len(s) : s[i] \in S
  BY ElementOfSeq
<1>3. \A i \in 1 .. Len(s) - 1 : s[i] \in S
  BY <1>1, <1>2
<1>4. PICK n \in Nat : Len(s) = n + 1
  BY <1>1
<1>5. Len(s) - 1 = n
  BY <1>4
<1>6. \A i \in 1 .. n : s[i] \in S
  BY <1>3, <1>5
<1>7. /\ SubSeq(s, 1, n) \in Seq(S)
      /\ Len(SubSeq(s, 1, n)) = IF 1 <= n THEN n - 1 + 1 ELSE 0
      /\ \A i \in 1 .. n - 1 + 1 : SubSeq(s, 1, n)[i] = s[1 + i - 1]
  BY <1>6, SubSeqProperties
<1>8. Len(SubSeq(s, 1, n)) = n
  BY <1>7
<1>9. \A i \in 1 .. n : SubSeq(s, 1, n)[i] = s[i]
  <2> TAKE i \in 1 .. n
  <2>1. i \in 1 .. n - 1 + 1 /\ 1 + i - 1 = i
    OBVIOUS
  <2> QED
    BY <2>1, <1>7
<1>10. s[Len(s)] \in S
  BY <1>1, <1>2
<1> QED
  BY <1>1, <1>5, <1>7, <1>8, <1>9, <1>10

(* push_back.                                                              *)
LEMMA AppendIsSeq ==
  ASSUME NEW s, IsSeq(s), NEW x
  PROVE  /\ Len(s) \in Nat
         /\ IsSeq(Append(s, x)) /\ Append(s, x) # << >>
         /\ Len(Append(s, x)) = Len(s) + 1
         /\ \A i \in 1 .. Len(s) : Append(s, x)[i] = s[i]
         /\ Append(s, x)[Len(s) + 1] = x
<1> DEFINE S == Range(s) \cup {x}
<1>1. s \in Seq(S) /\ x \in S
  BY SeqMonotonic DEF IsSeq
<1> HIDE DEF S
<1>2. /\ Append(s, x) \in Seq(S) /\ Append(s, x) # << >>
      /\ Len(Append(s, x)) = Len(s) + 1
      /\ \A i \in 1 .. Len(s) : Append(s, x)[i] = s[i]
      /\ Append(s, x)[Len(s) + 1] = x
  BY <1>1, AppendProperties
<1> QED
  BY <1>1, <1>2, SeqIsSeq

(* pop_back.                                                               *)
LEMMA FrontIsSeq ==
  ASSUME NEW s, IsSeq(s), s # << >>
  PROVE  /\ Len(s) \in Nat \ {0}
         /\ IsSeq(Front(s))
         /\ Len(Front(s)) = Len(s) - 1
         /\ \A i \in 1 .. Len(s) - 1 : Front(s)[i] = s[i]
<1> DEFINE S == Range(s)
<1>1. s \in Seq(S)
  BY DEF IsSeq
<1> HIDE DEF S
<1>2. /\ Len(s) \in Nat \ {0} /\ Front(s) \in Seq(S) /\ Len(Front(s)) = Len(s) - 1
      /\ \A i \in 1 .. Len(s) - 1 : Front(s)[i] = s[i]
  BY <1>1, PopSeq DEF Front
<1> QED
  BY <1>1, <1>2, SeqIsSeq

(* An assignment to back().                                                *)
LEMMA ReplaceIsSeq ==
  ASSUME NEW s, IsSeq(s), s # << >>, NEW x
  PROVE  /\ Len(s) \in Nat \ {0}
         /\ IsSeq([s EXCEPT ![Len(s)] = x]) /\ [s EXCEPT ![Len(s)] = x] # << >>
         /\ Len([s EXCEPT ![Len(s)] = x]) = Len(s)
         /\ \A i \in 1 .. Len(s) - 1 : [s EXCEPT ![Len(s)] = x][i] = s[i]
         /\ [s EXCEPT ![Len(s)] = x][Len(s)] = x
<1> DEFINE S == Range(s) \cup {x}
           r == [s EXCEPT ![Len(s)] = x]
<1>1. s \in Seq(S) /\ x \in S
  BY SeqMonotonic DEF IsSeq
<1> HIDE DEF S
<1>2. Len(s) \in Nat \ {0}
  BY <1>1, EmptySeq
<1>3. r \in Seq(S) /\ Len(r) = Len(s) /\ \A i \in 1 .. Len(s) : r[i] = IF i = Len(s) THEN x ELSE s[i]
  BY <1>1, <1>2, ExceptSeq
<1> HIDE DEF r
<1>4. r # << >> /\ IsSeq(r)
  BY <1>2, <1>3, EmptySeq, SeqIsSeq
<1>5. r[Len(s)] = x /\ \A i \in 1 .. Len(s) - 1 : r[i] = s[i]
  BY <1>2, <1>3
<1> QED
  BY <1>2, <1>3, <1>4, <1>5 DEF r

(* append() of a range.                                                    *)
LEMMA ConcatIsSeq ==
  ASSUME NEW s, IsSeq(s), NEW t, IsSeq(t)
  PROVE  /\ IsSeq(s \o t)
         /\ Len(s \o t) = Len(s) + Len(t)
         /\ Len(s) \in Nat /\ Len(t) \in Nat
         /\ IsPrefix(s, s \o t)
<1> DEFINE S == Range(s) \cup Range(t)
           r == s \o t
<1>1. s \in Seq(S) /\ t \in Seq(S)
  BY SeqMonotonic DEF IsSeq
<1> HIDE DEF S
<1>2. Len(s) \in Nat /\ Len(t) \in Nat
  BY <1>1, LenProperties
<1>3. r \in Seq(S) /\ Len(r) = Len(s) + Len(t) /\ \A i \in 1 .. Len(s) : r[i] = s[i]
  BY <1>1, <1>2, ConcatProperties
<1> HIDE DEF r
<1>4. SubSeq(s, 1, Len(s)) = SubSeq(r, 1, Len(s))
  BY <1>2, <1>3 DEF SubSeq
<1>5. IsSeq(r)
  BY <1>3, SeqIsSeq
<1>6. IsPrefix(s, r)
  BY <1>2, <1>3, <1>4 DEF IsPrefix
<1> QED
  BY <1>2, <1>3, <1>5, <1>6 DEF r

-----------------------------------------------------------------------------
(* Sorting: a strict order of a finite set, given as a set of pairs, has   *)
(* an arrangement in which nothing is followed by something smaller.  The  *)
(* order need not be total.                                                *)

StrictOrder(R, S) ==
  /\ \A x \in S : << x, x >> \notin R
  /\ \A x, y, z \in S : << x, y >> \in R /\ << y, z >> \in R => << x, z >> \in R

(* Something is not smaller than anything: what has most elements below.   *)
LEMMA MaximalOf ==
  ASSUME NEW S, IsFiniteSet(S), S # {}, NEW R, StrictOrder(R, S)
  PROVE  \E x \in S : \A y \in S : << x, y >> \notin R
<1> DEFINE Pre(x) == {y \in S : << y, x >> \in R}
           C      == {Cardinality(Pre(x)) : x \in S}
<1>1. \A x \in S : IsFiniteSet(Pre(x)) /\ Cardinality(Pre(x)) \in Nat /\ Cardinality(Pre(x)) <= Cardinality(S)
  <2> TAKE x \in S
  <2>1. Pre(x) \in SUBSET S
    OBVIOUS
  <2> HIDE DEF Pre
  <2> QED
    BY <2>1, FS_Subset, FS_CardinalityType
<1>2. Cardinality(S) \in Nat
  BY FS_CardinalityType
<1>3. C \in SUBSET Nat /\ C # {} /\ \A c \in C : c <= Cardinality(S)
  BY <1>1
<1>4. Max(C) \in C /\ \A c \in C : Max(C) >= c
  <2> HIDE DEF C
  <2> QED
    BY <1>2, <1>3, MaxOf
<1>5. PICK x \in S : Cardinality(Pre(x)) = Max(C)
  BY <1>4
<1>6. SUFFICES ASSUME NEW y \in S, << x, y >> \in R PROVE FALSE
  BY <1>5
<1>7. Pre(x) \cup {x} \in SUBSET Pre(y) /\ x \notin Pre(x)
  BY <1>6 DEF StrictOrder
<1>8. Cardinality(Pre(y)) \in C
  OBVIOUS
<1> HIDE DEF Pre, C
<1>9. Cardinality(Pre(x) \cup {x}) = Cardinality(Pre(x)) + 1
  BY <1>1, <1>5, <1>7, FS_AddElement
<1>10. Cardinality(Pre(x) \cup {x}) <= Cardinality(Pre(y))
  BY <1>1, <1>7, FS_Subset
<1> QED
  BY <1>1, <1>4, <1>5, <1>8, <1>9, <1>10

Arranges(p, T, R) ==
  /\ p \in Bijection(1 .. Cardinality(T), T)
  /\ \A i, j \in 1 .. Cardinality(T) : i < j => << p[j], p[i] >> \notin R

(* The smallest set without an arrangement would have one: that of the     *)
(* others, followed by a maximal element.                                  *)
LEMMA Arrangement ==
  ASSUME NEW S, IsFiniteSet(S), NEW R, StrictOrder(R, S)
  PROVE  \E p : Arranges(p, S, R)
<1> DEFINE Bad == {T \in SUBSET S : ~ \E p : Arranges(p, T, R)}
           C   == {Cardinality(T) : T \in Bad}
<1> SUFFICES ASSUME Bad # {} PROVE FALSE
  OBVIOUS
<1>1. \A T \in SUBSET S : IsFiniteSet(T) /\ Cardinality(T) \in Nat
  BY FS_Subset, FS_CardinalityType
<1>2. C \in SUBSET Nat /\ C # {}
  BY <1>1
<1>3. PICK m \in C : \A c \in C : m <= c
  <2> HIDE DEF C
  <2> QED
    BY <1>2, SmallestOf
<1>4. PICK T \in SUBSET S : Cardinality(T) = m /\ ~ \E p : Arranges(p, T, R)
  BY <1>3
<1>5. m \in Nat /\ IsFiniteSet(T)
  BY <1>1, <1>4
<1>6. T # {}
  <2> SUFFICES ASSUME T = {} PROVE FALSE
    OBVIOUS
  <2>1. Cardinality(T) = 0
    BY FS_EmptySet
  <2>2. [i \in 1 .. 0 |-> i] \in Bijection(1 .. 0, {})
    BY DEF Bijection, Injection, Surjection, IsInjective
  <2>3. Arranges([i \in 1 .. 0 |-> i], T, R)
    BY <2>1, <2>2 DEF Arranges
  <2> QED
    BY <1>4, <2>3
<1>7. StrictOrder(R, T)
  BY DEF StrictOrder
<1>8. PICK x \in T : \A y \in T : << x, y >> \notin R
  BY <1>5, <1>6, <1>7, MaximalOf
<1>9. Cardinality(T \ {x}) = m - 1 /\ m # 0
  BY <1>4, <1>5, <1>6, FS_RemoveElement, FS_EmptySet
<1>10. PICK q : Arranges(q, T \ {x}, R)
  <2>1. T \ {x} \in SUBSET S
    OBVIOUS
  <2>2. T \ {x} \notin Bad
    <3> SUFFICES ASSUME T \ {x} \in Bad PROVE FALSE
      OBVIOUS
    <3>1. m - 1 \in C
      BY <1>9
    <3> HIDE DEF C, Bad
    <3> QED
      BY <1>3, <1>5, <3>1
  <2> QED
    BY <2>1, <2>2
<1> DEFINE p == [i \in 1 .. m |-> IF i = m THEN x ELSE q[i]]
<1>11. /\ q \in [1 .. m - 1 -> T \ {x}]
       /\ \A i, j \in 1 .. m - 1 : q[i] = q[j] => i = j
       /\ \A t \in T \ {x} : \E i \in 1 .. m - 1 : q[i] = t
       /\ \A i, j \in 1 .. m - 1 : i < j => << q[j], q[i] >> \notin R
  BY <1>9, <1>10 DEF Arranges, Bijection, Injection, Surjection, IsInjective
<1>12. \A i \in 1 .. m : i = m \/ i \in 1 .. m - 1
  BY <1>5
<1>13. p \in [1 .. m -> T] /\ p[m] = x /\ \A i \in 1 .. m - 1 : p[i] = q[i] /\ p[i] \in T \ {x}
  BY <1>5, <1>9, <1>11, <1>12
<1> HIDE DEF p
<1>14. \A i, j \in 1 .. m : p[i] = p[j] => i = j
  BY <1>11, <1>12, <1>13
<1>15. \A t \in T : \E i \in 1 .. m : p[i] = t
  <2> TAKE t \in T
  <2>1. CASE t = x
    BY <1>5, <1>9, <1>13, <2>1
  <2>2. CASE t # x
    <3>1. PICK i \in 1 .. m - 1 : q[i] = t
      BY <1>11, <2>2
    <3> QED
      BY <1>5, <1>13, <3>1
  <2> QED
    BY <2>1, <2>2
<1>16. \A i, j \in 1 .. m : i < j => << p[j], p[i] >> \notin R
  <2> TAKE i, j \in 1 .. m
  <2> HAVE i < j
  <2>1. i \in 1 .. m - 1
    BY <1>5
  <2>2. CASE j = m
    BY <1>8, <1>13, <2>1, <2>2
  <2>3. CASE j \in 1 .. m - 1
    BY <1>11, <1>13, <2>1, <2>3
  <2> QED
    BY <1>12, <2>2, <2>3
<1>17. p \in Bijection(1 .. m, T)
  BY <1>13, <1>14, <1>15 DEF Bijection, Injection, Surjection, IsInjective
<1> QED
  BY <1>4, <1>16, <1>17 DEF Arranges

-----------------------------------------------------------------------------
(* Concatenation.                                                          *)

(* FlattenSeq is defined by a recursive function; this is its equation.    *)
Flattens(h, g, m) == h = [i \in 1 .. m |-> IF i = 1 THEN g[i] ELSE h[i - 1] \o g[i]]

(* The equation has a solution: where it first had none, one more          *)
(* concatenation gives one.                                                *)
LEMMA FlattenExists ==
  ASSUME NEW g, NEW n \in Nat \ {0}
  PROVE  \E h : Flattens(h, g, n)
<1> DEFINE Bad == {m \in Nat \ {0} : ~ \E h : Flattens(h, g, m)}
<1> SUFFICES ASSUME Bad # {} PROVE FALSE
  OBVIOUS
<1>1. PICK m \in Bad : \A k \in Bad : m <= k
  <2>1. Bad \in SUBSET Nat
    OBVIOUS
  <2> HIDE DEF Bad
  <2> QED
    BY <2>1, SmallestOf
<1>2. m \in Nat \ {0} /\ ~ \E h : Flattens(h, g, m)
  OBVIOUS
<1>3. m # 1
  <2> SUFFICES ASSUME m = 1 PROVE FALSE
    OBVIOUS
  <2> DEFINE h == [i \in 1 .. m |-> g[i]]
  <2>1. h = [i \in 1 .. m |-> IF i = 1 THEN g[i] ELSE h[i - 1] \o g[i]]
    OBVIOUS
  <2> HIDE DEF h
  <2> QED
    BY <1>2, <2>1 DEF Flattens
<1>4. m - 1 \in Nat \ {0} /\ m - 1 \notin Bad
  <2>1. m - 1 \in Nat \ {0} /\ m - 1 < m
    BY <1>2, <1>3
  <2> HIDE DEF Bad
  <2> QED
    BY <1>1, <1>2, <2>1
<1>5. PICK q : Flattens(q, g, m - 1)
  BY <1>4
<1> DEFINE h == [i \in 1 .. m |-> IF i = m THEN q[m - 1] \o g[m] ELSE q[i]]
<1>6. \A i \in 1 .. m : h[i] = IF i = 1 THEN g[i] ELSE h[i - 1] \o g[i]
  <2> TAKE i \in 1 .. m
  <2>1. CASE i = m
    <3>1. m - 1 \in 1 .. m /\ m - 1 # m /\ m \in 1 .. m
      BY <1>4
    <3>2. h[m - 1] = q[m - 1] /\ h[m] = q[m - 1] \o g[m]
      BY <3>1
    <3> HIDE DEF h
    <3> QED
      BY <1>3, <2>1, <3>2
  <2>2. CASE i # m
    <3>1. i \in 1 .. m - 1
      BY <1>2, <2>2
    <3>2. q[i] = IF i = 1 THEN g[i] ELSE q[i - 1] \o g[i]
      BY <1>5, <3>1 DEF Flattens
    <3>3. h[i] = q[i]
      BY <2>2
    <3>4. CASE i = 1
      BY <3>2, <3>3, <3>4
    <3>5. CASE i # 1
      <4>1. i - 1 \in 1 .. m /\ i - 1 # m
        BY <1>2, <3>1, <3>5
      <4>2. h[i - 1] = q[i - 1]
        BY <4>1
      <4> HIDE DEF h
      <4> QED
        BY <3>2, <3>3, <3>5, <4>2
    <3> QED
      BY <3>4, <3>5
  <2> QED
    BY <2>1, <2>2
<1>7. h = [i \in 1 .. m |-> h[i]]
  OBVIOUS
<1> HIDE DEF h
<1>8. Flattens(h, g, m)
  BY <1>6, <1>7 DEF Flattens
<1> QED
  BY <1>2, <1>8

(* The concatenation of sequences over S is one.                           *)
LEMMA FlattenIsSeq ==
  ASSUME NEW S, NEW n \in Nat, NEW g \in [1 .. n -> Seq(S)]
  PROVE  FlattenSeq(g) \in Seq(S)
<1>1. g \in Seq(Seq(S)) /\ Len(g) = n
  OBVIOUS
<1>2. CASE n = 0
  <2>1. FlattenSeq(g) = g
    BY <1>1, <1>2 DEF FlattenSeq
  <2>2. g = << >>
    BY <1>1, <1>2, EmptySeq
  <2> QED
    BY <2>1, <2>2
<1>3. CASE n # 0
  <2> DEFINE h == CHOOSE h : Flattens(h, g, n)
  <2>1. Flattens(h, g, n)
    BY <1>3, FlattenExists, Zenon
  <2>2. FlattenSeq(g) = h[n]
    BY <1>1, <1>3, Zenon DEF FlattenSeq, Flattens
  <2> HIDE DEF h
  <2> DEFINE Bad == {i \in 1 .. n : h[i] \notin Seq(S)}
  <2> SUFFICES ASSUME Bad # {} PROVE FALSE
    BY <1>3, <2>2
  <2>3. PICK m \in Bad : \A k \in Bad : m <= k
    <3>1. Bad \in SUBSET Nat
      OBVIOUS
    <3> HIDE DEF Bad
    <3> QED
      BY <3>1, SmallestOf
  <2>4. m \in 1 .. n /\ h[m] \notin Seq(S)
    OBVIOUS
  <2>5. h[m] = IF m = 1 THEN g[m] ELSE h[m - 1] \o g[m]
    BY <2>1, <2>4 DEF Flattens
  <2>6. m # 1 /\ g[m] \in Seq(S)
    BY <2>4, <2>5
  <2>7. m - 1 \in 1 .. n /\ ~(m <= m - 1)
    BY <2>4, <2>6
  <2>8. h[m - 1] \in Seq(S)
    BY <2>3, <2>7
  <2> QED
    BY <2>4, <2>5, <2>6, <2>8, ConcatProperties
<1> QED
  BY <1>2, <1>3

===============================================================================
