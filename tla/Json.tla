--------------------------------- MODULE Json ---------------------------------
(***************************************************************************)
(* The two ends of JSON together: a caller writes a value through the sink *)
(* and the text is read back, or a text from elsewhere is read.            *)
(***************************************************************************)
EXTENDS JsonReader, JsonWriter

CONSTANTS
  Inputs,     \* texts from elsewhere
  Kinds,      \* kinds of scalars written
  MaxCalls    \* bound: calls of the sink

ASSUME InputsAssumption == (\A s \in Inputs : IsText(s)) /\ Kinds \subseteq Scalar

VARIABLES
  plan,   \* the containers the caller has open: "[", or where it is in an object
  calls   \* the calls it made, as events of a reader

vars == << reader, writer, plan, calls >>

Writing == reading = "write" /\ thrown = "none" /\ Len(calls) < MaxCalls

(* A value may be written: at the top one, in an object after a key.       *)
ValueNext == IF plan = << >> THEN calls = << >> ELSE Last(plan) # "key"

Filled == IF plan # << >> /\ Last(plan) = "value" THEN Append(Front(plan), "key") ELSE plan

PutScalar ==
  /\ Writing /\ ValueNext
  /\ \E k \in Kinds : WriteScalar(k) /\ calls' = Append(calls, Mark(k))
  /\ plan' = Filled
  /\ UNCHANGED reader

(* A text or a key that is not UTF-8.                                      *)
PutBadText ==
  /\ Writing
  /\ ValueNext \/ plan # << >>
  /\ WriteBadText
  /\ UNCHANGED << reader, plan, calls >>

PutKey ==
  /\ Writing /\ plan # << >> /\ Last(plan) = "key"
  /\ WriteKey
  /\ plan' = Append(Front(plan), "value")
  /\ calls' = Append(calls, KeyEvent)
  /\ UNCHANGED reader

Begin ==
  /\ Writing /\ ValueNext
  /\ \E c \in Opening :
       /\ Open(c)
       /\ plan' = Append(Filled, IF c = "[" THEN "[" ELSE "key")
       /\ calls' = Append(calls, Mark(c))
  /\ UNCHANGED reader

End ==
  /\ Writing /\ plan # << >> /\ Last(plan) # "value"
  /\ LET c == IF Last(plan) = "[" THEN "[" ELSE "{"
     IN  Close(c) /\ calls' = Append(calls, Mark(Closing(c)))
  /\ plan' = Front(plan)
  /\ UNCHANGED reader

(* encode has returned; a reader is made for the text.                     *)
ReadBack ==
  /\ reading = "write" /\ thrown = "none" /\ plan = << >> /\ calls # << >>
  /\ in' = out
  /\ reading' = "skip"
  /\ UNCHANGED << pos, depth, base, skip, typed, skipped, walked, writer, plan, calls >>

Read == ReadNext /\ UNCHANGED << writer, plan, calls >>

Init ==
  /\ WriterInit /\ plan = << >> /\ calls = << >>
  /\ Reset
  /\ pos = 1
  /\ \/ in = << >> /\ base = 0 /\ reading = "write"
     \/ in \in Inputs /\ base \in 0 .. MaxDepth /\ reading = "skip" /\ ~pretty
  /\ depth = base

Next == PutScalar \/ PutBadText \/ PutKey \/ Begin \/ End \/ ReadBack \/ Read

(* A reader is a sequential computation and runs to its end; a caller of   *)
(* the sink need not go on.                                                *)
Spec == Init /\ [][Next]_vars /\ WF_vars(Read)

-----------------------------------------------------------------------------
(* Properties.                                                             *)

Outcome(v) == IF v.code = "none" THEN v ELSE [code |-> v.code, at |-> v.at]

(* skip_value and the typed path agree on every text and at every depth:   *)
(* the same value ends at the same place and with depth_ as it was, or     *)
(* both refuse with the same code at the same offset.                      *)
PathsAgree == reading = "none" => Outcome(skipped) = Outcome(walked)

(* What was written is read back: the whole text is one value, and the     *)
(* typed path meets exactly the calls that wrote it.                       *)
RoundTrip ==
  reading = "none" /\ calls # << >> =>
    /\ walked.code = "none"
    /\ SkipWs(walked.pos) = Len(in) + 1
    /\ events = calls

(* A reader comes to an end of both paths, on every text.                  *)
ReadingEnds == reading = "skip" ~> reading = "none"

===============================================================================
