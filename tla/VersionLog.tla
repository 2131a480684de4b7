----------------------------- MODULE VersionLog -----------------------------
(***************************************************************************)
(* What a version history promises its user: a log of recorded contents    *)
(* that forgets its oldest entries once it is full and counts what it      *)
(* forgot.  Nothing is said of ids, objects, deltas or their collection.   *)
(***************************************************************************)
EXTENDS Integers, Sequences

CONSTANTS Entry, Limit, MaxDropped

VARIABLES entries, dropped

Init ==
  /\ entries \in Seq(Entry)
  /\ Len(entries) <= Limit
  /\ dropped \in 0..MaxDropped

Newest(log) ==
  IF Len(log) <= Limit THEN log
  ELSE SubSeq(log, Len(log) - Limit + 1, Len(log))

Add(entry) ==
  LET log == Append(entries, entry)
  IN /\ entries' = Newest(log)
     /\ dropped' = dropped + (Len(log) - Len(entries'))
     /\ dropped' <= MaxDropped

Next == \E entry \in Entry : Add(entry)

Spec == Init /\ [][Next]_<<entries, dropped>>
=============================================================================
