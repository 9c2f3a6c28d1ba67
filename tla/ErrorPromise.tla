----------------------------- MODULE ErrorPromise ------------------------------
(***************************************************************************)
(* What error.hpp promises to those who hold errors: an error is a value.  *)
(* A step is put in front of its path and of no other error's; copying,    *)
(* moving and dropping one error change no other; finalizing leaves the    *)
(* path in root-first order as it is.  A full path keeps the steps nearest *)
(* the leaf (docs/errors.md:117-118), but not when the error was finalized *)
(* before the push: Displace says what the code does then.                 *)
(***************************************************************************)
EXTENDS Naturals, Sequences

CONSTANTS
  Handles,        \* variables of type error
  Names,          \* steps: members, indexes and keys
  MaxPathSteps    \* max_path_steps

VARIABLES
  value,   \* the error each handle holds, as a set of at most one value
  call     \* the last call, with its arguments

Value == [path : Seq(Names), truncated : BOOLEAN, sealed : BOOLEAN]

Fresh == [path |-> << >>, truncated |-> FALSE, sealed |-> FALSE]

Put(h, v) == value' = [value EXCEPT ![h] = v]

Init == value = [h \in Handles |-> {}] /\ call = << "none" >>

Make(h) == value[h] = {} /\ Put(h, {Fresh}) /\ call' = << "make", h >>

Room(v) == Len(v.path) < MaxPathSteps

(* The documented rule: while there is room a step goes in front, and a    *)
(* full path keeps what it has and says that it is cut off.                *)
Kept(v, s) ==
  IF Room(v) THEN [v EXCEPT !.path = << s >> \o @] ELSE [v EXCEPT !.truncated = TRUE]

Add(h, s) ==
  /\ call' = << "push", h, s >>
  /\ \E v \in value[h] : (Room(v) \/ ~v.sealed) /\ Put(h, {Kept(v, s)})

(* Only an error that is finalized and full departs from it: the new step  *)
(* takes the place of the one nearest the root, which was nearer the leaf  *)
(* (error.hpp:174-175).                                                    *)
Displace(h, s) ==
  /\ call' = << "push", h, s >>
  /\ \E v \in value[h] :
       /\ ~Room(v) /\ v.sealed
       /\ Put(h, {[v EXCEPT !.path = << s >> \o Tail(@), !.truncated = TRUE]})

Copy(h, g) == value[h] # {} /\ Put(g, value[h]) /\ call' = << "copy", h, g >>

Move(h, g) ==
  /\ value[h] # {} /\ h # g
  /\ value' = [value EXCEPT ![g] = value[h], ![h] = {}]
  /\ call' = << "move", h, g >>

Drop(h) == value[h] # {} /\ Put(h, {}) /\ call' = << "drop", h >>

Seal(h) ==
  /\ \E v \in value[h] : Put(h, {[v EXCEPT !.sealed = TRUE]})
  /\ call' = << "finalize", h >>

Next ==
  \E h \in Handles :
    \/ Make(h) \/ Drop(h) \/ Seal(h)
    \/ \E s \in Names : Add(h, s) \/ Displace(h, s)
    \/ \E g \in Handles : Copy(h, g) \/ Move(h, g)

Spec == Init /\ [][Next]_<< value, call >>

===============================================================================
