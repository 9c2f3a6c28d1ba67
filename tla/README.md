# A formal model of v-codec

v-codec (`src/include/vcodec/`) is a header-only C++26 library. It reflects over a
program's types at compile time and encodes values to, and decodes them from, JSON
and CBOR. This directory holds TLA+ modules that model its run-time parts, TLC
configurations that check them on small instances, and TLAPS proofs.

Nothing in the library is concurrent and nothing is persisted: each call is a
sequential computation over one input or one value. What makes it hard is the
*length* of the legal call sequences. A reader rewinds and goes over the same bytes
twice, an error is built up while a stack of frames returns, a writer has buffers
inside buffers, an explicit stack has to stay in agreement with a counter, and
hostile input reaches all of it.

## 1. Inventory

| Component (source) | State | Operations | What makes it correct |
|---|---|---|---|
| CBOR validator (`cbor/read.hpp`, `skip_value`, `read_string`) | position, `depth_`, a vector of open containers, start and extent of keys | one step per head or chunk, item completion, early returns | accepts exactly well-formed items (and, in deterministic mode, exactly core deterministic encoding); never past the end; `depth_` restored |
| CBOR typed reader (`cbor/read.hpp`) | position, `depth_`, previous key | `expect_*`, cursors, `save`/`restore`, tags | agrees with the validator on what an item is |
| JSON reader (`json/read.hpp`) | position, `depth_`, scratch buffer | the same operations over text | as above |
| Construction (`core/build.hpp`) | the call stack, the seen set of each struct, the value, `collected_` | `decode_value` and one function per kind of type; recovery in collect mode | the value is the one the input denotes; errors lie where their path says; recovery neither loses nor repeats errors |
| Errors (`error.hpp`) | a block on the heap: steps of a path (at most `max_path_steps`), truncation flag, the strings key steps refer to | `push` (also after `finalize`), `finalize`, copy, move, destruction | errors are values: what one of them says depends on what was done to it alone; the path locates the error |
| CBOR writer (`cbor/write.hpp`, `core/model.hpp`) | output, a frame per open container with body and entries | one per kind of scalar, tag, begin, key, end | one well-formed item; deterministic when asked; it means what the calls said |
| Traversal (`core/traverse.hpp`, `cbor/traits.hpp`) | the call stack | `encode_value` and one function per kind of type | drives the sink as it expects; the output is the encoding of the value; exceptions carry the right path |
| JSON writer (`json/write.hpp`) | output, separators, indentation | as the CBOR writer | well-formed text |
| CBOR heads (`cbor/head.hpp`) | none | `parse_head`, `make_head` | inverse of each other, shortest form |
| Numbers, escapes, UTF-8, base64, hex, half floats (`json/number.hpp`, `json/escape.hpp`, `core/lower.hpp`) | none | pure conversions | round trips, rejection of non-canonical forms |
| Member lookup (`core/lookup.hpp`, `core/keys.hpp`) | tables built at compile time | find, by text or integer | agrees with a linear search |
| CBOR time points (`cbor/tags.hpp`) | none | epoch seconds, RFC 3339 | round trips |
| Schema and audit (`core/schema.hpp`, `core/diagnose.hpp`, ...) | compile-time | reflection | out of scope, see section 8 |
| Error rendering, public interface, option structs | none | forwarding, formatting | - |

Interactions. `core/build.hpp` is a template over a reader; it calls `peek`,
`expect_*`, opens cursors whose `next` moves the same position and depth as every
nested cursor, calls `skip_value` for what it does not want, and `save`/`restore` to
go back. Two components thus share `pos_` and `depth_`, and an error abandons both
wherever it happens. `core/traverse.hpp` is a template over a sink and calls one
operation after another; the sink throws `encode_error`, and the traversal's handlers
add the steps of the path as the exception passes. Custom codecs call readers and
sinks in place of the library's own functions.

`PROJECT.json` lists the components with their status and the *hazards*: the places
where a test would hardly reach what can go wrong, each with the properties that
would show it.

## 2. Modules

```
CborTokens --+-- CborSkip --+--------------------- CborSkipProofs
             |              +-- MCCborSkip -- (CborGrammar)
             |              +-- CborReader ------- MCCborReader, CborReaderProofs -- CborAgreeProofs
             +-- CborGrammar     (grammar by recursion: TLC only)
             +-- CborWriter --+-- SinkClient ----- MCSinkClient, SinkClientProofs
                              +-- Encode --------- MCEncode
Decode ------------------------------------------- MCDecode, DecodeProofs
JsonTokens --+-- JsonReader --+-- Json ----------- MCJson, JsonProofs
             +-- JsonWriter --+
ErrorPromise == ErrorPath --+--------------------- MCErrorPath
   (INSTANCE ... WITH)      +--------------------- ErrorPathProofs
Lower ----- JsonText --+
            CborHeads -+-- Conversions ----------- MCConversions
            Lookup ----+
CommonLemmas (sequences, minima, counting, sorting): extended by every module of proofs
```

**CborTokens** is the data both CBOR sides share. A token is a head as `parse_head`
returns it plus the payload of a definite string; fields say what the code
distinguishes: reserved additional information, indefinite, shortest form, valid
UTF-8, cut off by the end of the input. `W` stands for 2^64, the number of values of
an argument, so that doubling a count can wrap. Two encodings compare bytewise as
their token sequences compare lexicographically, because encodings of tokens are
prefix-free.

**CborSkip** is `reader::skip_value`: `pos`, `depth`, `stack` are `pos_`, `depth_` and
the local vector; `pc` names the three places of the loop (top, chunk loop of
`read_string`, label `item_done`) and the two ways out. One action per kind of head,
per early return and per way through `item_done`; `HeadError` and `ChunkError` list the
checks in the code's order.

**CborGrammar** is the reference for it: `ItemEnd`, where the item at a position ends,
by recursion over the grammar of RFC 8949, and `Deterministic`. It shares nothing with
CborSkip but the tokens and the order of keys.

**CborReader** is the typed path of `cbor::reader` over the same tokens. It extends CborSkip,
so that the look ahead of `key_ahead` over a key is the validator itself, run on the reader's
own `pos` and `depth`. A behaviour is a call of `skip_value` and, from the same place, the
operations of any codec that follows `peek` (`test/support/dom.hpp` is one): every `expect_*`
with its tags, both cursors, the chunk loop, forms of a value tried and undone through
`save`/`restore`. `save` packs two numbers into one word with fields of limited width, as the
code does. `skipped` and `walked` are how the two ended, to be compared.

**ErrorPromise** is what an error promises: a handle holds a path, a text, truncated or not;
copying, moving and destroying affect the handles named and nothing else. **ErrorPath** is
`error.hpp`: a handle owns a block, the steps of a block are names of members or views of
strings that some block owns, a copy copies the views and then rebinds them, `finalize`
reverses the steps. In ErrorPromise a full path keeps what it has, as documented (`Add`); the one
exception, a push onto a path that is full *and* finalized (`sealed`), is an action of its own
(`Displace`), enabled nowhere else. `Uses` limits what callers do (copies of errors that are finalized, for
one). `ImplementsPromise` is the refinement: the path of ErrorPromise is what is read
through the views. `encode_error` has the same steps and copies them member by member.

**Decode** is the decode side of `core/build.hpp` over a reader of either format. Every
active call of a recursive function is a frame with its type, cursor state, seen set
and saved position; `ctl` says whether a call, an iteration of a loop or a return comes
next. A token is an opening, an end, a key or a scalar; running out of tokens stands
for every syntax error. The value built is the set of assigned scalars with their paths,
which is enough to tell which occurrence of a key each came from. Types are data
(`Types`), standing for what reflection produces. The key of a CBOR map may be any item,
so a container that stands in the place of a key is part of the input too. A behaviour calls `decode` on an
input and then `decode_all` on the same one, so that invariants can compare the two.

**CborWriter** has one operator per call of the sink: `frames` is `frames_`, `out` is
`out_`, an exception sets `err`. The `std::sort` of `close` is any arrangement of the entries
in which a later key never precedes an earlier one (`KeyOrder`). It has no Next of its own; two modules drive it:

- **SinkClient**, any caller that keeps to what a sink expects, which covers custom
  codecs (and begin_key/end_key, which the library itself never calls). A float comes with the
  width asked for (preferred, or pinned by an annotation or `options::floats`), which the writer
  honours in deterministic mode too. `said` is a history variable: what the calls said, in their
  order;
- **Encode**, `core/traverse.hpp`. A frame is an active call and the parts it has left
  to do; `Unwind` is the exception passing one handler.

**JsonTokens**, **JsonReader**, **JsonWriter** and **Json** are the two ends of JSON. A text is
brackets, separators, whitespace and lexemes, each lexeme with what its scan finds.
JsonReader has the loop of `json::reader::skip_value` (`state`, `is_object`, its local
variables; one action per branch of the switch, each from the loop's `skip_ws`) and the
typed path: `peek`, `expect_*`, the `next` of the two cursors and `key_text`, in the order
in which a decoder of any value calls them (`test/support/dom.hpp` is one). JsonWriter has
one operator per call of `json::writer`, with `after_key_`, `depth_` and the array `first_`.
Json composes them: a caller writes a value and the text is read back, or a text from
elsewhere is read, by `skip_value` first and after a `restore` by the typed path.

**Lower** (UTF-8, base64, hex, half floats), **JsonText** (escapes, string scan, numbers),
**CborHeads** (the bytes of heads; typed arrays, whose floats are numbers with a mantissa and an
exponent, so that the casts of `typed_array_into` round and overflow) and **Lookup** (the table of member names,
that of integer keys, the suggestion for a misspelt name) are pure operators, one per function
of the source. **Conversions** applies each of them once to an input; MCConversions has the
inputs, on both sides of every limit, and reference definitions that share nothing with the
operators.

The **MC** modules define small inputs, types and values, and the properties that need
recursion over them (what a path leads to, the encoding of a value by structural
recursion, the faults of a value).

Definitions whose comment starts with `Mutant:` are deliberate faults. Nothing uses
them; each is a variant of the definition it precedes with which a property of a run
fails.

## 3. Runs

All runs but those of Encode set `CHECK_DEADLOCK FALSE`: each behaviour is a call (or two) that
returns, and a returned call has no next step. Termination is a property of its own (`Returns`,
`ReadingEnds`). In Encode a call that has returned, by value or by exception, takes the step `Done`; TLC
checks that no other state is without a next step.

| Run | What it shows |
|---|---|
| `cbor_skip` | Every input of up to 4 tokens over 15 kinds of heads (5 over containers alone), cut off anywhere, at every depth at the call: `depth_` and the stack agree, maps do not end between key and value, acceptance and `truncated` agree with the grammar, the position never goes back, every call returns. With `require_deterministic`, inputs of up to 6 tokens: acceptance is exactly core deterministic encoding, with maps as keys of maps, and what is compared is whole keys. |
| `decode` | `decode`, then `decode_all`, on three types. *Nested* (`duplicate_key::error`): nested structs with aliases, denied unknown fields and `skip_deserializing`, sequences of structs, maps. *Kitchen* (`last_wins`): tuples, optionals, transparent structs, variants of both layouts, defaults. *Keyed* (`first_wins`, a depth limit that is reached): integer keys, keys above INT64_MAX, keys of the wrong kind. The reader stays in step with the frames through all rewinds, every error lies where its path says, the first error of `decode_all` is the error of `decode`, nothing is reported twice and every other error of a member is recovered from, except where the reader itself refuses the value (section 7), missing members are exact, each policy for duplicates keeps the occurrence it names. Both calls return: above all, the second pass over a variant starts once. |
| `writer` | Any caller of the sink. Deterministic mode, up to 8 calls: entries tile the body of their frame, the output is one well-formed item, deterministic but for floats whose width was pinned (section 7). Otherwise, up to 6 calls: counts, chunks and breaks make one well-formed item. In both, typed arrays among the calls, the item means what the calls said (`OutputMeansCalls`: read back and put in canonical form it is the canonical form of `said`), so that nothing is lost, repeated or moved behind another key by buffering and sorting. |
| `encode` | Some 3,700 values under three sets of options (deterministic; plain; indefinite and without UTF-8 checks): the output equals the encoding defined by recursion, in canonical order where asked; `encode` throws exactly when a part cannot be encoded, and the path names that part (bad UTF-8, an unknown enumerator, a pinned width the float does not fit, depth, ...); on cyclic pointers too `max_depth` bounds the calls that are active (`StackBounded`). |
| `json` | Values written with up to 8 calls, compact and pretty, and texts: everything of up to 2 tokens, and every document of up to 9 tokens with one token replaced, removed, added or cut off after, at every depth at the call. `skip_value` accepts exactly the values of the JSON grammar within the depth limit; the typed path ends at the same place with the same depth or fails with the same code at the same offset; what was written is read back as the calls that wrote it; both paths come to an end. |
| `cbor_reader` | On every input of up to 4 tokens, and in deterministic mode up to 6, from every depth: whatever wrong calls a codec tries on the way, `depth_` is the number of cursors it holds, and the typed path and `skip_value` accept the same inputs, end at the same byte and refuse with the same code. Two heads on which they part are excluded by name (`Wide`, `LongTag`, section 7). This is the oracle of `fuzz/fuzz_cbor_skip.cpp`. |
| `error_path` | Two errors made, pushed to, finalized, copied, moved and destroyed in any order, in up to 7 calls: no path exceeds its limit, every block has one owner, and errors behave as values (`ImplementsPromise`), a full path keeping the steps nearest the leaf unless it was finalized before. |
| `conversions` | Every conversion on its inputs: `validate_utf8` accepts exactly the encodings of scalar values; what base64, hex and escapes write is read back; a typed array arrives as the same numbers, rounded to the nearest where the member's floats are narrower, and is refused where an integer does not fit or the kind does not match; rounding to a half float is to the nearest, ties to even; a numeral is accepted, exact, rounded, zero or refused as RFC 8259 and the width say; heads are the shortest and sort as their values do; both lookup tables agree with a search. |

Four further runs end in a violation: they state what a document, a comment or a test
says and show that the code does otherwise (section 7).

### Bounds and why they are enough

- `W = 8` (validator) and 32 (writer, encoder): only the wrap at W / 2 matters to the
  validator, and counts up to 7 put it within reach; the other two need keys and simple
  values up to 23, floats (25 to 27) and tag numbers as values.
- `MaxDepth` 2 or 3: the code treats the innermost container and the one around it; 2
  is enough for a container in a container and for refusing a third. `base` ranges over
  all depths at the call, so the limit is met with an empty stack too.
- `MaxTokens`: 4 tokens reach a container inside a container with one item after it;
  5 (containers only) and 6 (strict, keys only) reach the completion of two levels by
  one item and a map of two keys that are themselves maps. For Decode 9 or 10 tokens
  give a struct with up to three entries, one of which is a nested struct, a sequence or
  a variant with its tag and its value. An input is every prefix of a complete one, and complete ones followed by a token.
- `MaxPathSteps` 2 (16 in the code): shorter than the longest paths of the types and the
  values, so that paths of every length up to the limit and truncated ones occur.
- `MaxShort` 2, `MaxDoc` 9, `MaxCalls` 8 (JSON): an object of two members, or one whose value
  is a container, with damage in any place; the writer returns to a depth it used before.
- `CallBounds` 8 and 6, `MaxSize` 2: two keys in a map, a map inside a map or inside a key,
  each closed. `MaxOthers` 1: all values but one are the integer 0, and that one may be any
  string, float, simple value or typed array, in any place; values do not
  influence each other.
- CborReader: `W = 96` holds all tag numbers the reader treats specially (`BytesTags` 2, 3, 64
  and `SelfDescribe` 90, standing for 55799) below and above `IntMax` = W / 2 - 1; `PosLimit` 8
  and `DepthLimit` 4 are the widths of the two fields of `save`, just above the longest input
  and the deepest nesting (`PackingAssumption`).
- ErrorPath: two handles and three blocks are a copy with its source and a block to replace; 7
  calls make, fill, finalize, copy and push again; two keys can be exchanged; paths of
  `MaxPathSteps` 2 are full and lose a step.
- Conversions keep the shape of the formats and make the widths small: half floats with 2 bits
  of mantissa and 8 exponents, integers up to 15, heads with 3 inline values and bytes of base 4
  (24 and 256 in the code), doubles between 10^-1 and 10^2, decimal exponents that saturate from
  `ExpLimit` = 2 on (100000 in the code), tables that are searched linearly up
  to 2 names with 2 seeds and any hash function, dense key tables up to a span of 4 among keys
  from -8 to 7. UTF-8, base64, hex and escapes have their real characters, at the edges of every
  range.
- `ChunkSize` 2 (4096 in the code) with strings of up to 3 bytes: a full and a partial chunk.

### Fairness

`CborSkip` and `Decode` assume `WF_vars(Next)` and nothing else: a call is a
sequential computation of the thread that made it, and it goes on as long as it has a
step to take. No action waits for another party. `Json` assumes `WF_vars(Read)`, of the reader alone: its
caller may stop writing at any call, and SinkClient, for the same reason, states no
fairness. CborReader, ErrorPath and Conversions state none either: their codec or caller may
stop, or try calls that fail for ever, and their properties are safety properties. Nor does Encode: `StackBounded` and
the deadlock check are safety properties.

## 4. Proofs

### CborSkipProofs

`CborSkipProofs` proves five theorems about `CborSkip` for every set of inputs, every
`max_depth`, both options and every even width `W`:

| Theorem | Statement |
|---|---|
| `TypeCorrect` | `[]TypeOK`: the position stays within the input, `depth_` between 0 and `max_depth` |
| `DepthCounts` | `[]DepthAccounting`: `depth_` is the depth at the call plus the open containers, and back to it on success |
| `MapsPaired` | `[]MapPairing`: the parity of the count left tells keys from values, although the count may wrap |
| `KeysDelimited` | `[]KeyExtents`: the byte ranges compared for key order are whole keys, at every nesting |
| `MovesForward` | `NeverRewinds`: the position never moves back and each head is consumed once |

Assumptions: `WidthAssumption` (W even and above 2; 2^64 is), `InputsAssumption` (inputs
are token sequences and only the last token is cut off), `DepthAssumption`,
`OptionAssumption`. TLC evaluates all of them in the runs of `MCCborSkip`.

The argument. `TypeOK` is not inductive: that `depth_` does not become negative when a
container closes needs `DepthAccounting`, and that the extent recorded for a completed
key is one needs its start to have been recorded. `IInv` therefore adds that each level
on the stack is a `GoodLevel` for the current position (count parity and extents), that
every level below the innermost one has the start of its current key recorded, and that
the innermost one has too while an item of it is being read or has just been completed.
Lemmas on the stack (`PopSeq`, `ReplaceSeq`, `GoodLater`, `MarkedStack`), on the
arithmetic modulo W, and on the three kinds of steps (`FailStep`, `ConsumeStep`,
`PopStep`) leave one short case per action.

### ErrorPathProofs

| Theorem | Statement |
|---|---|
| `PathsBounded` | `[]TypeOK`: no path has more than `max_path_steps` steps and every live block has exactly one owner, whatever callers do |
| `ErrorsAreValues` | `ImplementsPromise`: `error.hpp` implements ErrorPromise, for any handles, names and limits, if no error is copied after `finalize` |

Assumptions: `PathAssumption` (the limit is a positive number), `NamesAssumption` (member names
and keys differ), `BlocksAssumption` (0 is no block), all evaluated by TLC, and
in the second theorem `ValueUsesOnly`: the uses allowed are copies of errors that are not
finalized and late pushes.

The argument. What is read through a view depends on a block the step need not be in, so the
refinement needs that it is: `RInv` says of every live block that it is `Good`, i.e. its key steps refer to
strings of the block itself, in the order in which they were pushed while the path is still
leaf first (the n-th key step has the n-th string: `KeysTo` counts), and it owns as many strings as it has
key steps unless it is full. From `Good` the text of a path is read off its block alone
(so that freeing or refilling another block cannot change it), and each operation maps to one
step of ErrorPromise (a push to `Add`, or to `Displace` exactly when the block is finalized and
full; `finalize` to `Seal`); for `finalize`, that reading and reversing commute; for a copy, that
rebinding in order of strings gives every step its own name. The last holds because `KeysTo` does:
`finalize` is what loses it, which is why copies after it are left out, and `error_copy` shows
that they have to be.

### CborReaderProofs

| Theorem | Statement |
|---|---|
| `ReaderInBounds` | `[]ReaderTypeOK`: the position stays inside the input, wherever the caller reads, rewinds or goes back to |
| `DepthStaysInStep` | `[]DepthInStep`: `depth_` is the number of cursors held, plus the containers the validator has open while it runs over a key |

Further assumptions: `PackingAssumption` (inputs and depths fit the two fields of the word that
`save` returns) and `ArgumentAssumption` (the tags and integers the reader treats specially).
The argument. The validator runs on the reader's own `pos` and `depth`, twice: over the whole
value, and over each key. `ReaderInv` carries its invariant `IInv` through both, for the depth
at which it was called, so that the step lemmas of CborSkipProofs apply as they are; while it
runs, the word saved unpacks to a place inside the input and the depth before the call
(`RestoredSaved`: division and remainder undo the packing). Outside, the stack is empty.

### CborAgreeProofs

| Theorem | Statement |
|---|---|
| `SkipAgreesWithTyped` | `[]PathsAgree` of CborReader: `skip_value` and the typed operations both accept and end at the same byte and depth, or both fail with the same code |

It holds for every input without the two heads excluded by name (`Wide`, `LongTag`: `cbor_reader_strict`
shows that the second has to be), every `max_depth`, every depth at the call, both modes, tags ignored or
expected, and whatever calls that do not fit the caller tries on the way. Besides the assumptions
above it needs `HeadsAssumption` (a head is one that `parse_head` can return: a reserved one has no
argument, only strings and containers are indefinite, and so on) and, in `ArgumentAssumption`, that the
self-describe tag is not 0 (it is 55799), so that a reserved head is not taken for it.

The argument. The typed operations run when `skip_value` has returned, and share nothing with it but its
verdict. As in JsonProofs the loop is therefore followed along: a control point of `skip_value` is a
record (`Conf`, `Chunks`), the definitions of CborSkip are instantiated at such a record (`C(c)`), `After` is the
next one and `Fault` the error an iteration returns. `Leads(c, v)` says that the loop, from c on, ends with
the verdict v: c is in a set that is closed under `After` and whose members stop with nothing but v. No induction is
needed to use it, and `Path` and `Clean` are defined in the same way.

`AgreeInv` is the inductive invariant. While `skip_value` runs, there is a path from its first iteration to
where it is, so that its verdict, once it is there, is one its first iteration leads to. While
the typed operations run, `Follows` has a control point that leads to the verdict, and relates the
levels on its stack to the cursors of the caller (`Held`): a level counts the items left, twice as many for a map, and the item being
read with them; a cursor counts the pairs left without the one being read. It needs three cases before a `next` (`AtNext`),
since the loop closes a container as soon as its last item is complete and the cursor only when it is asked; and a
case for a tag that nothing follows (`Refused`), which `skip_value` refuses at the tag and the typed
operations behind it.

Deterministic mode is the hard part. The typed reader runs the validator over a key before it is decoded and
compares the key with the previous one at once; `skip_value` compares when it has read the key. `KeyLook`
follows the validator in the key twice: as the call it is, and (`Lifts`) as the same iterations inside the
stack of the outer loop. When it is through, the outer loop is known to come to the end of that key with the same
extent and the same comparison, or to fail inside it (`Clean`); that is remembered while the key is decoded, and
used when it is complete (`DoneOuter`, `DecodedAgree`).

### DecodeProofs

| Theorem | Statement |
|---|---|
| `ReaderInStep` | `[]InStep`: `depth_` counts the containers being iterated, and the position is inside exactly as many, in `decode` and `decode_all` alike |
| `FirstErrorIsDecodes` | `[]FirstErrorAgrees`: the first error of `decode_all` is the error of `decode`, its path included; without an error both build the same value |

Assumption: `ConstantsAssumption` (what the types, inputs and options are). There is no
restriction on the input: it may end anywhere or be no value at all.

The argument for `ReaderInStep`. `InStep` compares
`depth_`, the frames and the input, and all three are set back when a member has failed and when
a variant is read a second time. `DecodeInv` therefore says, of every frame, that it was called
where the input is at the level of the containers held below it (`Level` counts openings
and ends before a place), and, of a struct with a member in progress, that the position it saved
is at its own level. That a
skip lands at the level it started from is `SkipLevel`: the first place at which the level has come back, found as a minimum.
The rest is one lemma for each function of `core/build.hpp`.

The argument for `FirstErrorIsDecodes`. It compares two runs, one after the other, of a
computation that has no bound. `After(c)` is the state of `decode` after a state `c`, as
a function on states (position, depth, frames, what happens next, status, value), and one lemma for each
action shows that it takes `Now` to `After(Now)` as long as nothing is recorded (`CallNow` to
`ReturnNow`). `Leads(c, v)` says that from `c` the
computation can only end in the outcome `v`: some set that contains `c` is closed under `After`, and whatever
member of it is a last state has the outcome `v`. No induction is needed for what is used of it: one step
changes nothing (`LeadsOn`), a last state has its own outcome (`LeadsEnd`), and it depends on the
input and the options only (`LeadsFixed`). The inductive invariant `AgreeInv` then says:

- in `decode`, the outcome of the present state is that of the first one, so that when it returns
  its outcome is what the first state leads to;
- in `decode_all`, as long as nothing is recorded, the present state leads to what `decode`
  returned;
- once something is recorded, there is a state `c` of `decode` that is behind (`Behind`): it returns the
  first error recorded, through the `k` frames that were active around the place where `decode_all` went on. Those
  frames have not changed since, their marks are 0, so that each adds its step to
  the first error as it returns, and `c` returns through it at the same time. All
  other frames have no step or a mark of at least 1, and leave the first error alone.

`decode_all` may record more errors meanwhile, rewind, skip, or end in an error of its own; nothing is
assumed of that. The last case of the proof is that `k` is 0 when `decode_all` returns, and the outcome of `c` is
its finalized error. That the members missing form a sequence is a fact about `SelectSeq`, which the
backend provides.

Two defects of the model showed up in the first of these proofs and were repaired: a container in
the place of a CBOR key was passed over as if it were one token, and two actions could be taken on it although
the code refuses such a key first. Work on the second showed that the run `decode` had no value
among its inputs that the reader itself refuses; with such values, two of its invariants failed, and now
name what happens to them (section 7).

### SinkClientProofs

| Theorem | Statement |
|---|---|
| `EntriesWhole` | `[]EntriesDelimited`: where `close` cuts a buffered map, every slice is a whole key and its value |

Assumptions: `WriterAssumption`, `WidthAssumption` and `ClientAssumption` (sizes are numbers, keys are heads
of tokens and not breaks). Calls are not bounded by anything. The argument. A
container that is buffered writes nothing to the frame around it until it is closed, so "the key
of the last entry is not empty" is false for a while when the key is itself a map: `WriterInv`
says of each frame where the caller stands in it and whether the frame above it still owes it something
(`"due"`), in which case the missing bytes may yet come. `PushOK`, `PopOK` and `WrittenOK` move the debt when a
container is opened, closed or written to. That `close` always has an arrangement to choose is `SortSucceeds`, from `EncodedOrder`
(comparing keys bytewise is a strict order) and `Arrangement` of CommonLemmas.

### JsonProofs

| Theorem | Statement |
|---|---|
| `SkipAgreesWithWalk` | `[]PathsAgree` of Json: `skip_value` and the typed path end at the same place, or fail with the same code at the same offset |
| `WrittenIsReadBack` | `[]RoundTrip`: what `json::writer` wrote, compact or pretty, the typed path reads back as exactly the calls that wrote it |

Assumptions: `DepthAssumption` (`max_depth` is a number) and `InputsAssumption` (texts are
sequences of tokens; the scalars written are scalars). Neither the length of a text, nor the nesting, nor the number
of calls of the sink is bounded.

The first argument. The two paths run one after the other and keep different state: `state` and
`is_object` on one side, a cursor per container on the other. An iteration of the loop of
`skip_value` is written as a relation between two of its configurations (`Goes`) or between one
and a result (`Stops`), and `Leads` says that a configuration is led by such iterations to the
result the first path had. While the typed path runs, `JsonInv` has one of three cases: it is where a
configuration leads to that result (`Follows`); or it stands right behind an opening bracket, one
step ahead of an iteration that also looks at the next token (`Entered`); or it has met the
bracket that closes nothing after a comma, which `skip_value` refuses at once and the typed path when
it wants a value or a key (`Refused`). The iterations are deterministic, so
each step of the typed path either carries this on or ends with the same result.

The second argument. `Wrote` splits the text of a writer call by call: each call put
the separator its place asks for (`Lead`) and then its token, and left the plan of the caller as
`Hist` records it. `WritesNow` says so of the text while it is being written. While it is read,
`Synced` says that the typed path stands between two of these calls: its
cursors are the containers the caller had open there, the events are the calls up to there, and the rest of the text is
what the remaining calls wrote (`Rest`). The separator that a writer puts is the one a
cursor asks for, `BlankSkips` passes the whitespace of a pretty writer, and the depth
is below `max_depth` since the writer refuses the deeper container first.

### CommonLemmas

Minima and maxima of sets of numbers, counting up to a place, sequences under `Append`, `Front`,
`\o` and replacement, that a strict order of a finite set has a sorted arrangement, and that the
fold of `FlattenSeq` is defined and yields a sequence. The last two are inductions, by the smallest
counterexample: the least number for which a statement fails is found with `SmallestOf`, and the
statement for its predecessor contradicts it. The library's induction theorems are not used.

## 5. Only model-checked

- Liveness (`Returns`, `ReadingEnds`): needs fairness and ENABLED, which the prover does not do.
- Agreement with recursive definitions (`SkipsWellFormed`, `AcceptsDeterministic`,
  `OutputWellFormed`, `OutputDeterministic`, `OutputMeansCalls`, `EncodesValue`, `ErrorsLocated`,
  `PathsLocate`, `SkipsValues`, ...): the reference is a RECURSIVE operator, and a module that
  reaches one cannot be proved about.
- What the errors of Decode are, each for itself (`NoRepeats`, `MissingExact`, `MemberErrorsRecover`,
  `DuplicatesResolved`): an invariant would have to say of every recorded error which part of the input
  it came from. That the first of them is the error of `decode` is proved.
- The conversions: most of them are folds or recursive functions over their input.

## 6. Abstractions

- Payloads are model values: a string is its rank in bytewise order, whether it is UTF-8
  and where its characters start; a number is a token value or how it fares. The conversions
  themselves are in Lower, JsonText, CborHeads and Lookup, where text is characters and a head
  is bytes. What a double is for a numeral is left at "zero" and "rounded"; in a typed array a
  float is a number, of a few bits. In CborWriter and Encode a float is the width asked for,
  the narrowest one it is in range of, and, for each width, the shortest that holds what it is there
  after rounding.
- The hash of the member table is any function, so what is shown holds for the one used.
- Messages of errors, and the "present keys" note of `missing_field`, are left out. The
  scan that gathers the note is between a save and a restore and leaves no trace.
- In Decode the reader is abstract: that cursors, tags and skips of the CBOR reader behave as
  Decode assumes is what `cbor_reader` checks, and `json` for JSON. Typed arrays and custom
  codecs are not in Decode.
- In CborReader the payload of a string and the values of doubles are not there; a typed array is
  the tag and the byte string it is read from.
- In Encode a smart pointer points into `Heap`, so that a cyclic structure is a value.

## 7. Findings

The runs that end in a violation, with the line of the code; `PROJECT.json` quotes the
text each one contradicts.

1. `error_copy` (`error.hpp:186`): a copy of a finalized error shows its keys in the opposite
   order.
2. `cbor_reader_strict` (`cbor/read.hpp:462`): with `require_deterministic` the typed path decodes
   tags in a longer form than the shortest, and keys behind such tags in any order;
   `skip_value` refuses them.
3. `writer_chunks` (`cbor/write.hpp:88`): a chunked text may be cut inside a character,
   and the reader then refuses the chunk.
4. `encode_wrap` (`core/traverse.hpp:212`): a transparent struct drops the tags of its
   member, which its decoder requires.

Met while modelling, without a run of their own:

- a chunk head with reserved additional information passes as an empty chunk
  (`cbor/read.hpp:557`);
- the count of a definite map is doubled in 64 bits and wraps from 2^63 pairs on
  (`cbor/read.hpp:382`), so that the validator leaves the map early and the typed path does not;
- a member whose value the reader itself refuses (`non_deterministic`, or a JSON number beyond
  double) is recorded, and then refused again by the skip that follows the rewind
  (`core/build.hpp:677`): the same value is reported once for every struct around it and the run of `decode_all`
  ends there, where `docs/errors.md:683-686` has it go on with the next key. `NoRepeats` and `MemberErrorsRecover` name the case;
- `decode` in collect mode returns the error that ended the run, where there is one
  (`json/read.hpp:537`, `cbor/read.hpp:658`), where the comment at `json/read.hpp:530` says the
  first one collected;
- under `last_wins` a repeated struct member is decoded over the earlier value, and members of
  both occurrences mix (`core/build.hpp:653`);
- a step pushed after `finalize` onto a full path drops the step nearest the root and takes its
  place (`error.hpp:174-175`), so that a step further from the leaf displaces a nearer one, where
  `docs/errors.md:117-118` has it "keep the 16 steps nearest the leaf". `Displace` of ErrorPromise is this case;
- a width pinned with `cbor::float_width` or `options::floats` is written in deterministic mode as well
  (`cbor/write.hpp:75-81`, `257-276`; `test/cbor/encode.cpp:163-169` and `docs/cbor.md:550-551` expect
  it), so the output need not pass `require_deterministic`, where `docs/cbor.md:268-269` and `docs/compatibility.md:84`
  say that every deterministic output does, and the comment at `cbor/write.hpp:1-4` promises
  preferred floats. `OutputDeterministic` names the case;
- elements of a typed array read into floats are cast (`cbor/read.hpp:612`, `617`, `623`): a double is rounded to
  a `float` and becomes infinite beyond its range, an integer is rounded, all without an error, while an integer
  that does not fit an integer element is `out_of_range`. `TypedArrayTravels` says so;
- a cycle through pointers in which every struct is transparent opens no container, so that `max_depth`
  does not stop it (`core/traverse.hpp:208-214`), where `docs/types.md:234-235` says encoding recurses until
  `max_depth`. No value of the run `encode` has such a cycle;
- `encode_error` is copied member by member, so the names of its key steps refer to strings of the
  error copied from, and it has no case for late pushes, where the comment at `error.hpp:199-200` has
  it follow the same rule as `error`;
- a numeral too small for a double, with a fraction of many zeros and a positive exponent, is refused as
  `out_of_range` instead of read as zero: the estimate of its magnitude leaves the fraction out
  (`json/number.hpp:111-113`). The same happens to an integer with more digits than the exponent
  of the estimate can outweigh, since that stops growing once it is 100000 or more (`json/number.hpp:109`). `Misjudged` names both;
- `k - base` in the dense key table overflows for keys 2^63 or more above a negative base
  (`core/keys.hpp:49`);
- the error of `typed_array_into` leaves the position behind the array, and an `expect_*` that
  fails behind ignored tags has passed them, where the header says that a failed `expect_*`
  consumes nothing;
- a denied integer key above INT64_MAX in the outermost struct ends `decode_all` at once
  (`core/build.hpp:584`), where `docs/errors.md:687` says it is recorded;
- `cbor::indefinite` on an array or map member makes it indefinite
  (`cbor/write.hpp:108`), where `docs/annotations.md:634` says it does nothing;
- tags on a type are written (`cbor/traits.hpp:118-124`), where `docs/cbor.md:405-406` and
  `docs/annotations.md:608` say that `cbor::tag` has no effect on a type; and they are written at the top
  level and before members, not before elements (`core/traverse.hpp:281`), where the comment at
  `cbor/traits.hpp:118` says wherever the type appears. `EncodesValue` holds for what the code does: its
  reference has the tag (`TypeTags`), and would have none if the documents were right;
- the path of the mismatch for a discriminator that is not text stops at the variant
  (`core/build.hpp:748`), unlike that of `no_variant_alternative`.

## 8. Not modelled

- Schema, audit and annotations: reflection that runs in the compiler. Its results are the
  `Types` of Decode and the members of the values of Encode.
- Rendering of errors, option structs and forwarding overloads: formatting, no state.
- CBOR time points: numeric conversion.
- Which of its buffers a reader keeps a text in (`json/read.hpp:204`): `docs/customization.md:401`
  promises such a text until the next call only, and the library's own callers compare or copy a
  key before they make one.
- The digits of doubles (`std::from_chars`, `std::to_chars`) and `fits_single`: a library call
  and a cast.
- Custom codecs and typed arrays inside Decode and Encode; as callers of readers and sinks
  they are in CborReader and SinkClient.

## 9. Plan

Done, in this order: tokens and validator with its grammar; construction; writer and its
most general client; traversal; the proofs about the validator; the structure of JSON texts
on both sides; errors and the refinement with its proof; the typed CBOR reader; the pure
conversions; the proofs about the typed CBOR reader, construction, the CBOR writer and both ends of
JSON; the agreement of the two paths of the CBOR reader, and of `decode` with `decode_all`.

What could follow:

1. Proofs: `NoRepeats` of Decode, with the part of the input each recorded error came from.
2. The sink protocol as a specification that Encode implements (the frames of Encode mapped to
   the plan of SinkClient), and the reader as `core/build.hpp` sees it, implemented by
   CborReader and JsonReader (`PathsAgree` is the first part of it for both).
3. CBOR time points.
