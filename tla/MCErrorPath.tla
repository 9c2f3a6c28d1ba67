------------------------------ MODULE MCErrorPath ------------------------------
(* What callers do with errors, for ErrorPath.                             *)
EXTENDS ErrorPath

(* Errors are copied while they are built and pushed to after they were    *)
(* finalized (a codec that calls decode itself).                           *)
ValueUses == {<< "error", "copy" >>, << "error", "late_push" >>}

(* Callers copy the error a decode returned.                               *)
CopyUses == {<< "error", "copy_final" >>}

===============================================================================
