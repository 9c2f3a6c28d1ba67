------------------------------ MODULE JsonTokens ------------------------------
(***************************************************************************)
(* A JSON text as the reader and the writer of v-codec see it: brackets,   *)
(* commas, colons, a run of whitespace, any other character, and lexemes   *)
(* (a literal, a number, a string), each with what scanning it finds: "ok" *)
(* or the code of the error.  A literal that is cut off ("truncated") and  *)
(* a string without its closing quote ("unterminated_string") reach to the *)
(* end of the text.  UTF-8 is validated, the default, on both sides.       *)
(***************************************************************************)
EXTENDS Integers, Sequences, SequencesExt, FiniteSetsExt

CONSTANT MaxDepth   \* options::max_depth, of the reader and of the writer

ASSUME DepthAssumption == MaxDepth \in Nat

Tk(k, v) == [k |-> k, v |-> v]
Mark(k)  == Tk(k, "ok")

Opening    == {"[", "{"}
Closing(c) == IF c = "{" THEN "}" ELSE "]"
Scalar     == {"null", "boolean", "number", "text"}

(* What scanning a lexeme of kind k may find.                              *)
Outcomes(k) ==
  CASE k = "text"   -> {"ok", "unterminated_string", "invalid_escape", "invalid_utf8", "unexpected_token"}
    [] k = "number" -> {"ok", "invalid_number", "out_of_range"}
    [] OTHER        -> {"ok", "truncated", "unexpected_token"}

Token ==
  {Mark(k) : k \in Opening \cup {"]", "}", ",", ":", "ws", "other"}}
    \cup UNION {{Tk(k, v) : v \in Outcomes(k)} : k \in Scalar}

(* Only the last lexeme reaches to the end, and no number follows another  *)
(* directly: its digits would belong to it.  (The other characters are     *)
(* those that do not continue a number.)                                   *)
IsText(s) ==
  /\ s \in Seq(Token)
  /\ \A i \in 1 .. Len(s) - 1 :
       /\ s[i].v \notin {"truncated", "unterminated_string"}
       /\ ~(s[i].k = "number" /\ s[i + 1].k = "number")

(* A key, as an event of a reader and as a call of a writer.               *)
KeyEvent == Mark("key")

===============================================================================
