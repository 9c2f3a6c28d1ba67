------------------------------ MODULE CborWriter ------------------------------
(***************************************************************************)
(* cbor::writer of cbor/write.hpp: a sink that turns calls into tokens.    *)
(* Each operation below is one call of the sink, made from this state; who *)
(* calls it, and in which order, is up to the module that extends this     *)
(* one.                                                                    *)
(*                                                                         *)
(* In deterministic mode a map, and an array whose size is not known, is   *)
(* collected in the body of its frame and written when it is closed, with  *)
(* its entries sorted: to the body of the next buffered frame outward, or  *)
(* to the output.                                                          *)
(***************************************************************************)
EXTENDS CborTokens, SequencesExt, FiniteSetsExt

CONSTANTS
  Options,    \* the options writers are made with
  MaxDepth,   \* options::max_depth
  ChunkSize   \* chunk_size, in bytes

ASSUME WriterAssumption ==
  /\ MaxDepth \in Nat
  /\ Options \subseteq [deterministic : BOOLEAN, indefinite : BOOLEAN, validate_utf8 : BOOLEAN]
  /\ \A o \in Options : ~(o.deterministic /\ o.indefinite)
  /\ ChunkSize \in Nat \ {0}

VARIABLES
  opts,     \* Opts: the writer's options
  out,      \* out_: the tokens written so far
  frames,   \* frames_: the open containers
  err       \* the encode_error thrown, "none" so far

writer == << opts, out, frames, err >>

Nullopt == -1    \* a container whose size is not known

WriterInit ==
  /\ opts \in Options
  /\ out = << >> /\ frames = << >> /\ err = "none"

NewFrame(is_map, buffered, indefinite) ==
  [ is_map |-> is_map, buffered |-> buffered, indefinite |-> indefinite,
    items |-> 0, body |-> << >>, entries |-> << >> ]

-----------------------------------------------------------------------------
(* cur(), and appending to it.                                             *)

Buffers(fs) == {i \in DOMAIN fs : fs[i].buffered}

Written(fs, ts) ==
  IF Buffers(fs) = {} THEN fs ELSE [fs EXCEPT ![Max(Buffers(fs))].body = @ \o ts]

Output(fs, ts) == IF Buffers(fs) = {} THEN out \o ts ELSE out

Emit(fs, ts) ==
  /\ frames' = Written(fs, ts)
  /\ out' = Output(fs, ts)
  /\ UNCHANGED << opts, err >>

Throw(e, fs) ==
  /\ err' = e
  /\ frames' = fs
  /\ UNCHANGED << opts, out >>

(* Mutant: no call of item().                                              *)
NotItemized == frames

(* item(): one more item of the innermost container.                       *)
Itemized == IF frames = << >> THEN frames ELSE [frames EXCEPT ![Len(frames)].items = @ + 1]

-----------------------------------------------------------------------------
(* Values.                                                                 *)

(* null, boolean, uint, sint, negative.                                    *)
Value(t) == Emit(Itemized, << t >>)

(* A tag prefixes an item and is none.                                     *)
Tag(n) == Emit(frames, << MakeHead("tag", n) >>)

(* A simple value with a representation of its own is refused first.       *)
Simple(v, reserved) ==
  IF reserved THEN Throw("unsupported_simple_value", frames)
  ELSE Value(MakeHead("simple", v))

(***************************************************************************)
(* real, with or without a member's float_width: width is the one that or  *)
(* the options ask for, 1, 2 and 3 for half, single and double, or         *)
(* Preferred.  Of the number itself counts in which width it is first in   *)
(* range, and, for each width, the shortest one that holds what it is      *)
(* there after rounding.  The width asked for is the one written, in       *)
(* deterministic mode too.                                                 *)
(***************************************************************************)
Preferred == 0

RealSet == [data : Nat, range : 1 .. 3, least : [1 .. 3 -> 1 .. 3], width : 0 .. 3]

RealWidth(d) == IF d.width = Preferred THEN d.least[3] ELSE d.width

RealToken(d) ==
  [ MakeHead("simple", 24 + RealWidth(d)) EXCEPT
      !.data = d.data,
      !.shortest = (d.least[RealWidth(d)] = RealWidth(d)) ]

(* write_real.                                                             *)
Real(d) ==
  IF d.width # Preferred /\ d.width < d.range THEN Throw("out_of_range", Itemized)
  ELSE Value(RealToken(d))

(***************************************************************************)
(* A string: its major type, size in bytes, the rank of its bytes among    *)
(* strings of that size, whether it is UTF-8, and the offsets at which a   *)
(* character starts or the string ends.                                    *)
(***************************************************************************)
StringToken(t) == [MakeHead(t.mt, t.size) EXCEPT !.data = t.data, !.valid = t.valid]

BadUtf8(t) == opts.validate_utf8 /\ t.mt = "text" /\ ~t.valid

ChunkStart(i)  == (i - 1) * ChunkSize
ChunkEnd(t, i) == IF i * ChunkSize < t.size THEN i * ChunkSize ELSE t.size

Chunk(t, i) ==
  [ MakeHead(t.mt, ChunkEnd(t, i) - ChunkStart(i)) EXCEPT
      !.data = t.data,
      !.valid = t.valid /\ {ChunkStart(i), ChunkEnd(t, i)} \subseteq t.bounds ]

Chunks(t) == [i \in 1 .. (t.size + ChunkSize - 1) \div ChunkSize |-> Chunk(t, i)]

(* text, bytes, and their hooks: `indef' is the member's annotation.       *)
StringValue(t, indef) ==
  IF BadUtf8(t) THEN Throw("invalid_utf8", Itemized)
  ELSE IF indef /\ ~opts.deterministic
  THEN Emit(Itemized, << IndefiniteHead(t.mt) >> \o Chunks(t) \o << BreakByte >>)
  ELSE Value(StringToken(t))

(* write_range: a typed array is a tag and a byte string, one item.        *)
WriteRange(n, t) == Emit(Itemized, << MakeHead("tag", n), StringToken(t) >>)

-----------------------------------------------------------------------------
(* Keys.                                                                   *)

Top == frames[Len(frames)]

KeyStarted == [Top EXCEPT !.entries = Append(@, [start |-> Len(Top.body), key_end |-> 0])]

AtKey == IF Top.buffered THEN [frames EXCEPT ![Len(frames)] = KeyStarted] ELSE frames

(* begin_key.                                                              *)
KeyStart ==
  /\ frames' = AtKey
  /\ UNCHANGED << opts, out, err >>

(* Mutant: the end of a key is where it started.                           *)
KeyEndedAtStart(f) == [f EXCEPT !.entries[Len(f.entries)].key_end = f.entries[Len(f.entries)].start]

KeyEnded(f) == [f EXCEPT !.entries[Len(f.entries)].key_end = Len(f.body)]

(* end_key.                                                                *)
KeyEnd ==
  /\ frames' = IF Top.buffered THEN [frames EXCEPT ![Len(frames)] = KeyEnded(Top)] ELSE frames
  /\ UNCHANGED << opts, out, err >>

(* key and prepared_key: key_start, the token, key_end.                    *)
Key(t) ==
  IF Top.buffered
  THEN /\ frames' = [frames EXCEPT ![Len(frames)] = KeyEnded([KeyStarted EXCEPT !.body = Append(@, t)])]
       /\ UNCHANGED << opts, out, err >>
  ELSE Emit(frames, << t >>)

(* The text is looked at when the entry has been made.                     *)
StringKey(t) == IF BadUtf8(t) THEN Throw("invalid_utf8", AtKey) ELSE Key(StringToken(t))

-----------------------------------------------------------------------------
(* Containers.                                                             *)

(* Mutant: the depth is not looked at.                                     *)
FullNever == FALSE

Full == Len(frames) >= MaxDepth

(* head, then push_frame.                                                  *)
Pushed(ts, f) ==
  /\ frames' = Append(Written(Itemized, ts), f)
  /\ out' = Output(Itemized, ts)
  /\ UNCHANGED << opts, err >>

(* item(), open(): n is the size, or Nullopt.                              *)
Begin(m, n) ==
  IF Full THEN Throw("depth_exceeded", Itemized)
  ELSE IF opts.deterministic
  THEN IF m = "map" \/ n = Nullopt
       THEN Pushed(<< >>, NewFrame(m = "map", TRUE, FALSE))
       ELSE Pushed(<< MakeHead(m, n) >>, NewFrame(FALSE, FALSE, FALSE))
  ELSE IF n # Nullopt /\ ~opts.indefinite
       THEN Pushed(<< MakeHead(m, n) >>, NewFrame(m = "map", FALSE, FALSE))
       ELSE Pushed(<< IndefiniteHead(m) >>, NewFrame(m = "map", FALSE, TRUE))

(* begin_array<F>, begin_map<F>: the member's annotation drops the size.   *)
BeginField(m, n, indef) == Begin(m, IF indef /\ ~opts.deterministic THEN Nullopt ELSE n)

(* begin_map_ordered: the caller's keys are in canonical order.            *)
BeginOrdered(n) ==
  IF n # Nullopt /\ (opts.deterministic \/ ~opts.indefinite)
  THEN IF Full THEN Throw("depth_exceeded", Itemized)
       ELSE Pushed(<< MakeHead("map", n) >>, NewFrame(TRUE, FALSE, FALSE))
  ELSE Begin("map", n)

(* The entries of a buffered map: where each starts, where its key ends    *)
(* and where it ends.                                                      *)
Slices(f) ==
  [ i \in DOMAIN f.entries |->
      [ start   |-> f.entries[i].start,
        key_end |-> f.entries[i].key_end,
        end     |-> IF i < Len(f.entries) THEN f.entries[i + 1].start ELSE Len(f.body) ] ]

KeyOf(f, e)   == SubSeq(f.body, e.start + 1, e.key_end)
EntryOf(f, e) == SubSeq(f.body, e.start + 1, e.end)

(* Mutant: the entries in the order they were written.                     *)
Unsorted(f) == Slices(f)

(* An order of the entries in which no key follows a larger one.           *)
InKeyOrder(f, p) ==
  \A i, j \in DOMAIN p : i < j => ~EncodedLess(KeyOf(f, Slices(f)[p[j]]), KeyOf(f, Slices(f)[p[i]]))

KeyOrder(f) == CHOOSE p \in Bijection(DOMAIN f.entries, DOMAIN f.entries) : InKeyOrder(f, p)

Sorted(f) == LET p == KeyOrder(f) IN [i \in DOMAIN f.entries |-> Slices(f)[p[i]]]

Repeated(f) == \E i \in 2 .. Len(f.entries) : KeyOf(f, Sorted(f)[i - 1]) = KeyOf(f, Sorted(f)[i])

(* Mutant: the keys are moved and the values stay where they are.          *)
MapTokensOfKeys(f) ==
  << MakeHead("map", Len(f.entries)) >>
    \o FlattenSeq([i \in DOMAIN f.entries |->
         KeyOf(f, Sorted(f)[i]) \o SubSeq(f.body, Slices(f)[i].key_end + 1, Slices(f)[i].end)])

MapTokens(f) ==
  << MakeHead("map", Len(f.entries)) >>
    \o FlattenSeq([i \in DOMAIN f.entries |-> EntryOf(f, Sorted(f)[i])])

(* close().                                                                *)
End ==
  LET rest == Front(frames)
  IN  IF Top.indefinite THEN Emit(rest, << BreakByte >>)
      ELSE IF ~Top.buffered THEN Emit(rest, << >>)
      ELSE IF ~Top.is_map THEN Emit(rest, << MakeHead("array", Top.items) >> \o Top.body)
      ELSE IF Repeated(Top) THEN Throw("duplicate_key", rest)
      ELSE Emit(rest, MapTokens(Top))

===============================================================================
