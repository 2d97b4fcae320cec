--------------------------- MODULE WriteContract ---------------------------
(***************************************************************************)
(* What the desktop promises of the writes the user types into it, with    *)
(* nothing said of timers, promises, frames or connections: a write is     *)
(* asked for once, is judged any number of times while it is shown, is     *)
(* called applied only if the app has had it, and once it is no longer     *)
(* shown it never comes back.                                              *)
(***************************************************************************)
CONSTANT Request

VARIABLES
  told,  \* what the user is told of each request
  had    \* the requests whose effect the app has had

vars == <<told, had>>

Shown == {"pending", "applied", "failed", "superseded"}
Verdict == Shown \cup {"none", "cleared", "gone"}

\* What may become of what is told: nothing goes back to "pending", only an applied
\* write is cleared as done, and a write that lost against another value or failed may
\* still turn out to have been applied.
Move ==
  {"pending"} \X {"applied", "failed", "superseded"} \cup
  {"applied"} \X {"superseded", "failed", "cleared"} \cup
  {"superseded"} \X {"applied", "failed"} \cup
  {<<"failed", "applied">>} \cup
  (Shown \cup {"cleared"}) \X {"gone"}

Init == told = [r \in Request |-> "none"] /\ had \subseteq Request

Asks(r) ==
  /\ told[r] = "none"
  /\ \E v \in {"pending", "failed"} : told' = [told EXCEPT ![r] = v]
  /\ UNCHANGED had

Happens ==
  /\ had' \in SUBSET Request /\ had \subseteq had'
  /\ UNCHANGED told

Judges ==
  /\ told' \in [Request -> Verdict]
  /\ \A r \in Request : told'[r] # told[r] => <<told[r], told'[r]>> \in Move
  /\ \A r \in Request : (told'[r] # told[r] /\ told'[r] = "applied") => r \in had
  /\ UNCHANGED had

Next == (\E r \in Request : Asks(r)) \/ Happens \/ Judges

Spec == Init /\ [][Next]_vars

=============================================================================
