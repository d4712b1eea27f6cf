--------------------------- MODULE ActionApproval ---------------------------
(***************************************************************************)
(* The approval circuit of the AI copilot (ai_copilot/tools.py).           *)
(*                                                                         *)
(* A write tool is never run when it is asked for: the executor files an   *)
(* AIActionRequest, and ActionApprovalService runs the tool later, when    *)
(* enough distinct people have approved.  Every call is two steps, because *)
(* the caller's rights are read before the row lock is taken: `pending     *)
(* calls' are HTTP requests between those two steps, any number of them,   *)
(* of the same person or not (double click, retry, two tabs).              *)
(***************************************************************************)
EXTENDS Naturals, FiniteSets

CONSTANTS
  Users,       \* accounts that may request, approve or reject
  Requests,    \* primary keys of AIActionRequest
  Calls,       \* HTTP calls to approve/ or reject/ that may be in flight
  Nobody,      \* NULL in a foreign key to an account
  NoRequest    \* no request at all

ASSUME NullAssumption == Nobody \notin Users /\ NoRequest \notin Requests

VARIABLES
  entitled,    \* accounts for which can_use(tool, user) holds today
  accounts,    \* accounts that exist
  status,      \* status[r]      : AIActionRequest.status, or none / deleted
  requester,   \* requester[r]   : AIActionRequest.user
  destructive, \* destructive[r] : AIActionRequest.destructive
  approvedBy,  \* approvedBy[r]  : approvers whose decision is APPROVED
  rejectedBy,  \* rejectedBy[r]  : approvers whose decision is REJECTED
  call,        \* call[c]        : what call c is doing
  runs         \* runs[r]        : how often the handler ran for r

vars == <<entitled, accounts, status, requester, destructive,
          approvedBy, rejectedBy, call, runs>>
rows == <<status, requester, destructive, approvedBy, rejectedBy, runs>>

Statuses == {"none", "pending", "rejected", "executed", "failed", "deleted"}
Terminal == {"rejected", "executed", "failed", "deleted"}

Idle == [kind |-> "idle", by |-> Nobody, on |-> NoRequest]
CallStates ==
  {Idle} \cup [kind : {"approve", "reject"}, by : Users, on : Requests]

\* Tool.confirmations: two people for a destructive tool, one otherwise.
Confirmations(r) == IF destructive[r] THEN 2 ELSE 1

\* can_use(tool, user), every write tool having the same required_roles.
CanUse(u) == u \in entitled

-----------------------------------------------------------------------------
Init ==
  /\ entitled \in SUBSET Users
  /\ accounts = Users
  /\ status = [r \in Requests |-> "none"]
  /\ requester = [r \in Requests |-> Nobody]
  /\ destructive = [r \in Requests |-> FALSE]
  /\ approvedBy = [r \in Requests |-> {}]
  /\ rejectedBy = [r \in Requests |-> {}]
  /\ call = [c \in Calls |-> Idle]
  /\ runs = [r \in Requests |-> 0]

\* PermissionAwareToolExecutor.execute on a tool that needs an approval:
\* nothing is run, a request is filed.
Execute(u, r, d) ==
  /\ u \in accounts
  /\ CanUse(u)
  /\ status[r] = "none"
  /\ status' = [status EXCEPT ![r] = "pending"]
  /\ requester' = [requester EXCEPT ![r] = u]
  /\ destructive' = [destructive EXCEPT ![r] = d]
  /\ UNCHANGED <<entitled, accounts, approvedBy, rejectedBy, call, runs>>

\* The views find the request and the service checks the caller's role,
\* outside any transaction; a refused caller changes nothing.
Begin(c, kind, u, r) ==
  /\ call[c] = Idle
  /\ u \in accounts
  /\ status[r] \notin {"none", "deleted"}
  /\ CanUse(u)
  /\ call' = [call EXCEPT ![c] = [kind |-> kind, by |-> u, on |-> r]]
  /\ UNCHANGED <<entitled, accounts, rows>>

\* select_for_update().get(pk) followed by the status test.
OpenUnchecked(r) == status[r] \notin {"none", "deleted"}  \* mutant: no test
Open(r) == status[r] = "pending"

\* This person has not decided yet: the 4-eyes test of approve(), and
\* UniqueConstraint(request, approver) behind both.
Fresh(r, u) == u \notin approvedBy[r] \cup rejectedBy[r]

\* confirmations < req.required_confirmations, negated.
EnoughButOne(r, signers) ==  \* mutant: the approval is counted twice
  Cardinality(signers) + 1 >= Confirmations(r)
Enough(r, signers) == Cardinality(signers) >= Confirmations(r)

\* The right of the REQUESTER, read again just before the handler runs.
StillAllowedUnchecked(r) == TRUE  \* mutant: no second look
StillAllowed(r) == CanUse(requester[r])

\* What the handler leaves behind it.
OutcomesApproved == {"approved", "failed"}  \* mutant: the unused status
Outcomes == {"executed", "failed"}

\* ToolError (not pending, already approved), DoesNotExist, or IntegrityError
\* on the unique constraint: the transaction rolls back.
Refuse(c) ==
  LET r == call[c].on
      u == call[c].by
  IN  /\ call[c] # Idle
      /\ \/ ~Open(r)
         \/ ~Fresh(r, u)
         \/ u \notin accounts
      /\ call' = [call EXCEPT ![c] = Idle]
      /\ UNCHANGED <<entitled, accounts, rows>>

\* approve(): the locked section, one transaction.  The approval is recorded;
\* then either confirmations are still missing, or the requester has lost the
\* right, or the handler runs and succeeds or fails.
Approve(c) ==
  LET r == call[c].on
      u == call[c].by
      all == approvedBy[r] \cup {u}
  IN  /\ call[c].kind = "approve"
      /\ Open(r)
      /\ Fresh(r, u)
      /\ u \in accounts
      /\ approvedBy' = [approvedBy EXCEPT ![r] = all]
      /\ \/ /\ ~Enough(r, all)
            /\ UNCHANGED <<status, runs>>
         \/ /\ Enough(r, all)
            /\ ~StillAllowed(r)
            /\ status' = [status EXCEPT ![r] = "failed"]
            /\ UNCHANGED runs
         \/ /\ Enough(r, all)
            /\ StillAllowed(r)
            /\ \E outcome \in Outcomes :
                 status' = [status EXCEPT ![r] = outcome]
            /\ runs' = [runs EXCEPT ![r] = @ + 1]
      /\ call' = [call EXCEPT ![c] = Idle]
      /\ UNCHANGED <<entitled, accounts, requester, destructive, rejectedBy>>

\* reject(): the locked section.
Reject(c) ==
  LET r == call[c].on
      u == call[c].by
  IN  /\ call[c].kind = "reject"
      /\ Open(r)
      /\ Fresh(r, u)
      /\ u \in accounts
      /\ rejectedBy' = [rejectedBy EXCEPT ![r] = @ \cup {u}]
      /\ status' = [status EXCEPT ![r] = "rejected"]
      /\ call' = [call EXCEPT ![c] = Idle]
      /\ UNCHANGED <<entitled, accounts, requester, destructive, approvedBy,
                     runs>>

\* An administrator grants or revokes a role in the meantime.
ChangeRole(u) ==
  /\ u \in accounts
  /\ entitled' = IF u \in entitled THEN entitled \ {u} ELSE entitled \cup {u}
  /\ UNCHANGED <<accounts, call, rows>>

\* An account is deleted: its requests go with it (on_delete=CASCADE); the
\* approvals it gave stay, without their author (on_delete=SET_NULL), and go
\* on counting.
DeleteAccount(u) ==
  /\ u \in accounts
  /\ accounts' = accounts \ {u}
  /\ entitled' = entitled \ {u}
  /\ status' = [r \in Requests |->
                  IF requester[r] = u THEN "deleted" ELSE status[r]]
  /\ UNCHANGED <<requester, destructive, approvedBy, rejectedBy, call, runs>>

Next ==
  \/ \E u \in Users, r \in Requests, d \in BOOLEAN : Execute(u, r, d)
  \/ \E c \in Calls, k \in {"approve", "reject"}, u \in Users, r \in Requests :
       Begin(c, k, u, r)
  \/ \E c \in Calls : Refuse(c) \/ Approve(c) \/ Reject(c)
  \/ \E u \in Users : ChangeRole(u) \/ DeleteAccount(u)

Spec == Init /\ [][Next]_vars

-----------------------------------------------------------------------------
\* Type correctness of the circuit's tables and of the calls in flight.
TypeOK ==
  /\ entitled \subseteq Users
  /\ accounts \subseteq Users
  /\ status \in [Requests -> Statuses]
  /\ requester \in [Requests -> Users \cup {Nobody}]
  /\ destructive \in [Requests -> BOOLEAN]
  /\ approvedBy \in [Requests -> SUBSET Users]
  /\ rejectedBy \in [Requests -> SUBSET Users]
  /\ call \in [Calls -> CallStates]
  /\ runs \in [Requests -> Nat]

\* A handler runs at most once per request, and never for a request still open
\* or rejected, whatever calls were in flight together
\* (tools.py:152 « empêche la double-exécution (retry/double-clic) »).
RunsAtMostOnce ==
  \A r \in Requests :
    /\ runs[r] <= 1
    /\ runs[r] = 1 => status[r] \in {"executed", "failed", "deleted"}
    /\ status[r] = "executed" => runs[r] = 1

\* Four eyes: what ran was approved by as many DISTINCT people as the tool
\* demands, two for a destructive one (models.py:168), and rejected by nobody;
\* and no one's signature ever counts on both sides of one request.
FourEyes ==
  \A r \in Requests :
    /\ runs[r] > 0 => /\ Cardinality(approvedBy[r]) >= Confirmations(r)
                      /\ rejectedBy[r] = {}
    /\ approvedBy[r] \cap rejectedBy[r] = {}

\* A handler only starts on behalf of a requester who still holds the right at
\* that very step (tools.py:170), however long the approvals took.
RunsForEntitledRequester ==
  [][\A r \in Requests :
       runs'[r] > runs[r] => requester[r] \in entitled \cap accounts]_vars

\* A decided request is never reopened, nor decided otherwise; only the removal
\* of its requester's account may still take it away.
DecisionsAreFinal ==
  [][\A r \in Requests :
       status[r] \in Terminal => status'[r] \in {status[r], "deleted"}]_vars

-----------------------------------------------------------------------------
\* What the promise calls the state of a request.
phase ==
  [r \in Requests |->
     IF runs[r] > 0 THEN "ran"
     ELSE IF status[r] = "none" THEN "unasked"
     ELSE IF status[r] = "pending" THEN "open"
     ELSE "stopped"]

Promise == INSTANCE ApprovalPromise WITH signers <- approvedBy

\* The circuit keeps the promise of the copilot's governance: every step of it
\* is a step of ApprovalPromise or leaves the promise's state alone.
KeepsPromise == Promise!Spec
=============================================================================
