----------------------------- MODULE LoginPromise -----------------------------
(***************************************************************************)
(* What a device login promises to the user who started it and to whoever  *)
(* reads the credential: one login of an Environment is open at a time, it  *)
(* ends once, and the credential of the Environment is replaced in the very *)
(* step that completes a login, and in no other.                            *)
(***************************************************************************)
CONSTANTS Flows, NoFlow

VARIABLES
  outcome,    \* of each login: none, open, completed or ended
  credential  \* the login that produced the stored credential

vars == <<outcome, credential>>

Init == outcome = [f \in Flows |-> "none"] /\ credential = NoFlow

Open(f) ==
  /\ outcome[f] = "none" /\ \A g \in Flows : outcome[g] # "open"
  /\ outcome' = [outcome EXCEPT ![f] = "open"]
  /\ UNCHANGED credential

Complete(f) ==
  /\ outcome[f] = "open"
  /\ outcome' = [outcome EXCEPT ![f] = "completed"]
  /\ credential' = f

End(f) ==
  /\ outcome[f] = "open"
  /\ outcome' = [outcome EXCEPT ![f] = "ended"]
  /\ UNCHANGED credential

Next == \E f \in Flows : Open(f) \/ Complete(f) \/ End(f)

Spec == Init /\ [][Next]_vars
=============================================================================
