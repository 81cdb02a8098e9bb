-------------------------- MODULE OneUseDisclosure --------------------------
(***************************************************************************)
(* What one disclosure of approved wording promises, as if no call between *)
(* the two phases could be interrupted.  Phase I keeps the disclosure,     *)
(* Phase II its result.  Wording is consumed once, and a result published  *)
(* for it once, while it is consumed.  A refusal is final: nothing is      *)
(* published for a disclosure Phase I refused, and Phase I neither opens,  *)
(* consumes nor confirms a disclosure whose result Phase II refused.       *)
(***************************************************************************)
CONSTANT Attempt

VARIABLES disclosure, result

vars == <<disclosure, result>>

Init ==
  /\ disclosure = [a \in Attempt |-> "unused"]
  /\ result = [a \in Attempt |-> "none"]

DisclosureBecomes(a, from, to) ==
  /\ disclosure[a] \in from /\ disclosure' = [disclosure EXCEPT ![a] = to]
  /\ UNCHANGED result

ResultBecomes(a, to) ==
  /\ result[a] = "none" /\ result' = [result EXCEPT ![a] = to]
  /\ UNCHANGED disclosure

Open(a)    == result[a] = "none" /\ DisclosureBecomes(a, {"unused"}, "open")
Consume(a) == result[a] = "none" /\ DisclosureBecomes(a, {"open"}, "consuming")
Confirm(a) == result[a] = "published" /\ DisclosureBecomes(a, {"consuming"}, "confirmed")
RefuseDisclosure(a) ==
  /\ result[a] # "published"
  /\ DisclosureBecomes(a, {"unused", "open", "consuming"}, "refused")

Publish(a)      == disclosure[a] = "consuming" /\ ResultBecomes(a, "published")
RefuseResult(a) == disclosure[a] # "confirmed" /\ ResultBecomes(a, "refused")

\* A store is restored from a backup; from here on nothing is promised.
LoseTrack ==
  /\ disclosure' = [a \in Attempt |-> "unknown"]
  /\ result' = [a \in Attempt |-> "unknown"]

Next ==
  \/ \E a \in Attempt :
       \/ Open(a) \/ Consume(a) \/ Confirm(a) \/ RefuseDisclosure(a)
       \/ Publish(a) \/ RefuseResult(a)
  \/ LoseTrack

Spec == Init /\ [][Next]_vars
=============================================================================
