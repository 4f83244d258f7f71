----------------------------- MODULE AtomicLink ------------------------------
(***************************************************************************)
(* A symbolic link that several processes set.  A call takes effect at one *)
(* moment between its start and its end, or not at all if it fails or its  *)
(* process dies; the link, once it is there, is never missing.             *)
(***************************************************************************)
CONSTANTS Proc, Target, None

VARIABLES
  link,   \* what a reader finds
  stage,  \* "idle", "called", "done" or "failed"
  wanted  \* the target of the call

Init ==
  /\ link \in Target \cup {None}
  /\ stage = [p \in Proc |-> "idle"]
  /\ wanted \in [Proc -> Target]

Call(p, t) ==
  /\ stage[p] = "idle"
  /\ stage' = [stage EXCEPT ![p] = "called"]
  /\ wanted' = [wanted EXCEPT ![p] = t]
  /\ UNCHANGED link

Apply(p) ==
  /\ stage[p] = "called"
  /\ link' = wanted[p]
  /\ stage' = [stage EXCEPT ![p] = "done"]
  /\ UNCHANGED wanted

Fail(p) ==
  /\ stage[p] = "called"
  /\ stage' = [stage EXCEPT ![p] = "failed"]
  /\ UNCHANGED <<link, wanted>>

\* The answer is taken, or there is nobody left to take it.
End(p) ==
  /\ stage' = [stage EXCEPT ![p] = "idle"]
  /\ UNCHANGED <<link, wanted>>

Next == \E p \in Proc : (\E t \in Target : Call(p, t)) \/ Apply(p) \/ Fail(p) \/ End(p)

Spec == Init /\ [][Next]_<<link, stage, wanted>>
===============================================================================
