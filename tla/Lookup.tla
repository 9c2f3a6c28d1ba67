-------------------------------- MODULE Lookup --------------------------------
(***************************************************************************)
(* How a member is found by its key: the hash table over names             *)
(* (core/lookup.hpp), the dense or sorted table over integer keys          *)
(* (core/keys.hpp), and the suggestion for a name that is not there.       *)
(***************************************************************************)
EXTENDS Integers, Sequences, SequencesExt, FiniteSetsExt

CONSTANTS
  LinearScanLimit,  \* linear_scan_limit (8)
  Seeds,            \* the seeds tried, 1 .. Seeds (63)
  DenseSpan,        \* keys spanning less than this get a dense table (256)
  KeyMax            \* INT64_MAX

ASSUME LookupAssumption ==
  LinearScanLimit \in Nat /\ Seeds \in Nat \ {0} /\ DenseSpan \in Nat /\ KeyMax \in Nat

NotFound == 0    \* npos; indexes count from 1 here

-----------------------------------------------------------------------------
(* Names.  Entries are [key, index]; hash[seed][key] is any function to    *)
(* numbers, the low bits of which select a bucket.                         *)

RECURSIVE PowerAbove(_, _)
PowerAbove(m, n) == IF m < n THEN PowerAbove(2 * m, n) ELSE m

Bucket(hash, seed, key, m) == hash[seed][key] % m

(* The fullest bucket under a seed.                                        *)
Worst(entries, hash, seed, m) ==
  Max({ Cardinality({i \in DOMAIN entries : Bucket(hash, seed, entries[i].key, m) = b}) : b \in 0 .. m - 1 })

(* The first seed that is best; the search stops at a perfect one.         *)
BestSeed(entries, hash, m) ==
  LET best == Min({Worst(entries, hash, s, m) : s \in 1 .. Seeds})
  IN  Min({s \in 1 .. Seeds : Worst(entries, hash, s, m) = best})

Linear(entries) == [entries |-> entries, starts |-> << >>, buckets |-> 0, seed |-> 0]

(* Mutant: a bucket starts behind its entries.                             *)
StartsLate(at, m) == [b \in 1 .. m + 1 |-> Cardinality({i \in DOMAIN at : at[i] <= b - 1})]

(* With the buckets of the sorted entries: where each bucket starts, and   *)
(* the end.                                                                *)
Starts(at, m) == [b \in 1 .. m + 1 |-> Cardinality({i \in DOMAIN at : at[i] < b - 1})]

BuildLookup(entries, hash) ==
  LET m         == PowerAbove(1, 2 * Len(entries))
      seed      == BestSeed(entries, hash, m)
      bucket(k) == Bucket(hash, seed, k, m)
      before(x, y) == bucket(x.key) < bucket(y.key) \/ (bucket(x.key) = bucket(y.key) /\ x.index < y.index)
      sorted    == SortSeq(entries, before)
  IN  IF Len(entries) <= LinearScanLimit THEN Linear(entries)
      ELSE [entries |-> sorted, starts |-> Starts([i \in DOMAIN sorted |-> bucket(sorted[i].key)], m), buckets |-> m, seed |-> seed]

(* The index of the first of entries from .. to with that key.             *)
FindIn(entries, from, to, key) ==
  LET i == SelectInSubSeq(entries, from, to, LAMBDA e : e.key = key)
  IN  IF i = 0 THEN NotFound ELSE entries[i].index

Find(t, hash, key) ==
  IF t.buckets = 0 THEN FindIn(t.entries, 1, Len(t.entries), key)
  ELSE LET b == Bucket(hash, t.seed, key, t.buckets)
       IN  FindIn(t.entries, t.starts[b + 1] + 1, t.starts[b + 2], key)

-----------------------------------------------------------------------------
(* Integer keys.  keys[i] is the key of member i.                          *)

BuildKeyTable(keys) ==
  LET entries == SortSeq([i \in DOMAIN keys |-> [key |-> keys[i], index |-> i]], LAMBDA x, y : x.key < y.key)
      lo      == entries[1].key
      hi      == entries[Len(entries)].key
  IN  IF keys = << >> THEN [dense |-> FALSE, base |-> 0, slots |-> << >>, sorted |-> << >>]
      ELSE IF hi - lo < DenseSpan
           THEN [ dense |-> TRUE, base |-> lo, sorted |-> << >>,
                  slots |-> [j \in 1 .. hi - lo + 1 |->
                     LET at == {i \in DOMAIN keys : keys[i] = lo + j - 1} IN IF at = {} THEN NotFound ELSE Max(at)] ]
      ELSE [dense |-> FALSE, base |-> 0, slots |-> << >>, sorted |-> entries]

(* The lower bound once the middle is too small (from 0).                  *)
Beyond(mid) == mid + 1

RECURSIVE Bisect(_, _, _, _)
Bisect(sorted, lo, hi, k) ==
  LET mid == (lo + hi) \div 2
  IN  IF lo >= hi THEN NotFound
      ELSE IF sorted[mid + 1].key < k THEN Bisect(sorted, Beyond(mid), hi, k)
      ELSE IF sorted[mid + 1].key > k THEN Bisect(sorted, lo, mid, k)
      ELSE sorted[mid + 1].index

(* Signed overflow of k - base is undefined: it may pass for any slot.     *)
AnySlot == -1

FindKey(t, k) ==
  IF t.dense
  THEN IF k < t.base THEN NotFound
       ELSE IF k - t.base > KeyMax THEN AnySlot
       ELSE IF k - t.base >= Len(t.slots) THEN NotFound
       ELSE t.slots[k - t.base + 1]
  ELSE Bisect(t.sorted, 0, Len(t.sorted), k)

-----------------------------------------------------------------------------
(* Suggestions.                                                            *)

Cost(x, y) == IF x = y THEN 0 ELSE 1

(* The next row of the table of distances, for character c.                *)
NextRow(a, prev, j, c) ==
  LET cur[i \in 0 .. Len(a)] ==
        IF i = 0 THEN j
        ELSE Min({prev[i] + 1, cur[i - 1] + 1, prev[i - 1] + Cost(a[i], c)})
  IN  [i \in 0 .. Len(a) |-> cur[i]]

Levenshtein(x, y) ==
  LET a == IF Len(x) > Len(y) THEN y ELSE x
      b == IF Len(x) > Len(y) THEN x ELSE y
      rows[j \in 0 .. Len(b)] == IF j = 0 THEN [i \in 0 .. Len(a) |-> i] ELSE NextRow(a, rows[j - 1], j, b[j])
  IN  rows[Len(b)][Len(a)]

(* The first of the names at the least distance, if that is at most max;   *)
(* NotFound otherwise.  Members not deserialized are left out.             *)
Suggest(key, names, skipped, max) ==
  LET d(i) == Levenshtein(key, names[i])
      near == {i \in DOMAIN names \ skipped : d(i) <= max}
  IN  IF near = {} THEN NotFound ELSE Min({i \in near : \A j \in near : d(i) <= d(j)})

===============================================================================
