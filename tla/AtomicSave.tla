----------------------------- MODULE AtomicSave -----------------------------
(***************************************************************************)
(* What a save promises: the target stays as it is until one step replaces *)
(* it by a validated document, and a save that fails or is cut off before  *)
(* that step has changed nothing.                                          *)
(***************************************************************************)
CONSTANTS Save, Initial

VARIABLES target, outcome

vars == <<target, outcome>>

Becomes(s, new) == outcome' = [outcome EXCEPT ![s] = new]

Init ==
  /\ target \in Initial
  /\ outcome = [s \in Save |-> "idle"]

Begin(s) == outcome[s] = "idle" /\ Becomes(s, "saving") /\ UNCHANGED target

Publish(s) ==
  /\ outcome[s] = "saving"
  /\ target' = [owner |-> s, sound |-> TRUE]
  /\ Becomes(s, "published")

Succeed(s) == outcome[s] = "published" /\ Becomes(s, "success") /\ UNCHANGED target

Fail(s) == outcome[s] = "saving" /\ Becomes(s, "failure") /\ UNCHANGED target

Crash(s) ==
  /\ outcome[s] \in {"saving", "published"}
  /\ Becomes(s, "crashed")
  /\ UNCHANGED target

Next == \E s \in Save : Begin(s) \/ Publish(s) \/ Succeed(s) \/ Fail(s) \/ Crash(s)

Spec == Init /\ [][Next]_vars
=============================================================================
