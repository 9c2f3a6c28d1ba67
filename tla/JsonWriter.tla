------------------------------ MODULE JsonWriter ------------------------------
(***************************************************************************)
(* json::writer: one operator per call of the sink.  What distinguishes a  *)
(* run of whitespace (how far newline() indents) is left out.              *)
(***************************************************************************)
EXTENDS JsonTokens

VARIABLES
  out,        \* out_
  wdepth,     \* depth_
  after_key,  \* after_key_
  first,      \* first_: the container at each depth has no item yet
  pretty,     \* options::pretty
  thrown      \* the code of the encode_error thrown, or "none"

writer == << out, wdepth, after_key, first, pretty, thrown >>

WriterInit ==
  /\ out = << >> /\ wdepth = 0 /\ after_key = FALSE
  /\ first = [d \in 0 .. MaxDepth + 1 |-> FALSE]
  /\ pretty \in BOOLEAN /\ thrown = "none"

Space == IF pretty THEN << Mark("ws") >> ELSE << >>

(* before_value: what it writes, and the flags after it.                   *)
Separator ==
  IF after_key \/ wdepth = 0 THEN << >>
  ELSE (IF first[wdepth] THEN << >> ELSE << Mark(",") >>) \o Space

(* Mutant: the flag of the outer container is cleared.                     *)
StartedOuter == IF after_key \/ wdepth = 0 THEN first ELSE [first EXCEPT ![wdepth - 1] = FALSE]

Started == IF after_key \/ wdepth = 0 THEN first ELSE [first EXCEPT ![wdepth] = FALSE]

(* null, boolean, uint, sint, real, bytes and, for what is UTF-8, text: a  *)
(* lexeme.  A number that is not finite is the literal null; bytes, and    *)
(* integers of as_string members, are strings.                             *)
WriteScalar(k) ==
  /\ out' = out \o Separator \o << Mark(k) >>
  /\ first' = Started
  /\ after_key' = FALSE
  /\ UNCHANGED << wdepth, pretty, thrown >>

(* write_string validates first, after before_value has written.           *)
WriteBadText ==
  /\ out' = out \o Separator
  /\ first' = Started
  /\ after_key' = FALSE
  /\ thrown' = "invalid_utf8"
  /\ UNCHANGED << wdepth, pretty >>

(* key: text, integers as strings, and prepared_key.                       *)
WriteKey ==
  /\ out' = out \o Separator \o << Mark("text"), Mark(":") >> \o Space
  /\ first' = Started
  /\ after_key' = TRUE
  /\ UNCHANGED << wdepth, pretty, thrown >>

(* open: the separator is written before the depth is checked.             *)
Open(c) ==
  IF wdepth >= MaxDepth
  THEN /\ out' = out \o Separator
       /\ first' = Started
       /\ after_key' = FALSE
       /\ thrown' = "depth_exceeded"
       /\ UNCHANGED << wdepth, pretty >>
  ELSE /\ out' = out \o Separator \o << Mark(c) >>
       /\ first' = [Started EXCEPT ![wdepth + 1] = TRUE]
       /\ after_key' = FALSE
       /\ wdepth' = wdepth + 1
       /\ UNCHANGED << pretty, thrown >>

Close(c) ==
  /\ out' = out \o (IF first[wdepth] THEN << >> ELSE Space) \o << Mark(Closing(c)) >>
  /\ wdepth' = wdepth - 1
  /\ UNCHANGED << after_key, first, pretty, thrown >>

===============================================================================
