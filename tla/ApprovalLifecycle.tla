-------------------------- MODULE ApprovalLifecycle --------------------------
(***************************************************************************)
(* What the approval queue promises for each request: it waits at most     *)
(* once, it is approved only while it waits and not after its deadline,    *)
(* and an approved or dropped request never waits again.  A restart may    *)
(* drop a request only at or after its deadline.                           *)
(***************************************************************************)
EXTENDS Integers

CONSTANT Requests

VARIABLES
  stage,     \* absent, waiting, approved or dropped
  deadline,  \* last instant of a request
  clock

vars == <<stage, deadline, clock>>

Init ==
  /\ stage = [r \in Requests |-> "absent"]
  /\ deadline = [r \in Requests |-> 0]
  /\ clock = 0

\* Requests that time has run out for may be dropped along with any step.
Lapse(lapsed, others) ==
  /\ \A r \in lapsed : stage[r] = "waiting" /\ deadline[r] <= clock
  /\ stage' = [r \in Requests |-> IF r \in lapsed THEN "dropped" ELSE others[r]]
  /\ UNCHANGED clock

Submit(r) ==
  /\ stage[r] = "absent"
  /\ deadline'[r] >= clock
  /\ deadline' = [deadline EXCEPT ![r] = deadline'[r]]
  /\ \E lapsed \in SUBSET (Requests \ {r}) :
       Lapse(lapsed, [stage EXCEPT ![r] = "waiting"])

Approve(r) ==
  /\ stage[r] = "waiting"
  /\ clock <= deadline[r]
  /\ stage' = [stage EXCEPT ![r] = "approved"]
  /\ UNCHANGED <<deadline, clock>>

Reject(r) ==
  /\ stage[r] = "waiting"
  /\ stage' = [stage EXCEPT ![r] = "dropped"]
  /\ UNCHANGED <<deadline, clock>>

DropAll ==
  /\ stage' = [r \in Requests |-> IF stage[r] = "waiting" THEN "dropped" ELSE stage[r]]
  /\ UNCHANGED <<deadline, clock>>

DropLapsed ==
  /\ \E lapsed \in SUBSET Requests : Lapse(lapsed, stage)
  /\ UNCHANGED deadline

Wait ==
  /\ clock' = clock + 1
  /\ UNCHANGED <<stage, deadline>>

Next ==
  \/ \E r \in Requests : Submit(r) \/ Approve(r) \/ Reject(r)
  \/ DropAll
  \/ DropLapsed
  \/ Wait

Spec == Init /\ [][Next]_vars
==============================================================================
