-------------------------- MODULE ApprovalPromise ---------------------------
(***************************************************************************)
(* What the copilot's approval circuit promises, without calls, locks or   *)
(* roles (docs/architecture/adr/0010-ai-copilot.md, tools.py:121): a       *)
(* sensitive action runs once, in the step that brings the last of the     *)
(* signatures it needs, or it never runs.                                  *)
(***************************************************************************)
EXTENDS Naturals, FiniteSets

CONSTANTS
  Users,       \* who may sign
  Requests     \* the actions asked for

VARIABLES
  phase,       \* phase[r]       : unasked, open, ran or stopped
  destructive, \* destructive[r] : whether two signatures are needed
  signers      \* signers[r]     : who has signed

Need(r) == IF destructive[r] THEN 2 ELSE 1
Enough(r, S) == Cardinality(S) >= Need(r)

Init ==
  /\ phase = [r \in Requests |-> "unasked"]
  /\ destructive = [r \in Requests |-> FALSE]
  /\ signers = [r \in Requests |-> {}]

\* An action is asked for: nothing happens yet.
Ask(r, d) ==
  /\ phase[r] = "unasked"
  /\ phase' = [phase EXCEPT ![r] = "open"]
  /\ destructive' = [destructive EXCEPT ![r] = d]
  /\ UNCHANGED signers

\* One more person signs, and that is not enough.
Sign(r, u) ==
  /\ phase[r] = "open"
  /\ u \notin signers[r]
  /\ signers' = [signers EXCEPT ![r] = @ \cup {u}]
  /\ ~Enough(r, signers[r] \cup {u})
  /\ UNCHANGED <<phase, destructive>>

\* The last signature: the action runs, or is refused for good.
Conclude(r, u) ==
  /\ phase[r] = "open"
  /\ u \notin signers[r]
  /\ signers' = [signers EXCEPT ![r] = @ \cup {u}]
  /\ Enough(r, signers[r] \cup {u})
  /\ phase' = [phase EXCEPT ![r] = "ran"] \/ phase' = [phase EXCEPT ![r] = "stopped"]
  /\ UNCHANGED destructive

\* Open requests are withdrawn: one is rejected, or all those of an account go
\* with it.
Withdraw(R) ==
  /\ \A r \in R : phase[r] = "open"
  /\ phase' = [r \in Requests |-> IF r \in R THEN "stopped" ELSE phase[r]]
  /\ UNCHANGED <<destructive, signers>>

Next ==
  \/ \E R \in SUBSET Requests : Withdraw(R)
  \/ \E r \in Requests, d \in BOOLEAN : Ask(r, d)
  \/ \E r \in Requests, u \in Users : Sign(r, u) \/ Conclude(r, u)

Spec == Init /\ [][Next]_<<phase, destructive, signers>>
=============================================================================
