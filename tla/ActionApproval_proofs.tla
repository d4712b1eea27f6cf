----------------------- MODULE ActionApproval_proofs ------------------------
(***************************************************************************)
(* Proofs about ActionApproval, for every set of people, requests and      *)
(* calls.                                                                  *)
(***************************************************************************)
EXTENDS ActionApproval, FiniteSetTheorems, TLAPS

\* A request that does not exist yet carries nothing: no run, no decision.
BlankUntilAsked ==
  \A r \in Requests :
    status[r] = "none" => /\ runs[r] = 0
                          /\ approvedBy[r] = {}
                          /\ rejectedBy[r] = {}
                          /\ requester[r] = Nobody
                          /\ ~destructive[r]

\* An open request has not run, and nobody has rejected it.
OpenHasNotRun ==
  \A r \in Requests :
    status[r] = "pending" => runs[r] = 0 /\ rejectedBy[r] = {}

\* A deleted account holds no role.
EntitledExist == entitled \subseteq accounts

\* The inductive invariant.
IInv == /\ TypeOK
        /\ BlankUntilAsked
        /\ OpenHasNotRun
        /\ RunsAtMostOnce
        /\ FourEyes
        /\ EntitledExist

-----------------------------------------------------------------------------
\* The inductive invariant holds at the start.
LEMMA InitIInv == Init => IInv
BY NullAssumption DEF Init, IInv, TypeOK, BlankUntilAsked, OpenHasNotRun,
   RunsAtMostOnce, FourEyes, EntitledExist, Statuses,
   CallStates

\* The variables of a request are all that IInv speaks of, so a call in flight
\* knows its request and its author.
LEMMA CallTyped ==
  ASSUME TypeOK, NEW c \in Calls, call[c] # Idle
  PROVE  call[c].on \in Requests /\ call[c].by \in Users
BY DEF TypeOK, CallStates

\* Every step keeps the types.
LEMMA TypeStep == TypeOK /\ [Next]_vars => TypeOK'
<1> SUFFICES ASSUME TypeOK, [Next]_vars PROVE TypeOK'
  OBVIOUS
<1>1. ASSUME NEW u \in Users, NEW r \in Requests, NEW d \in BOOLEAN,
             Execute(u, r, d)
      PROVE  TypeOK'
  BY <1>1 DEF TypeOK, Execute, Statuses
<1>2. ASSUME NEW c \in Calls, NEW k \in {"approve", "reject"}, NEW u \in Users,
             NEW r \in Requests, Begin(c, k, u, r)
      PROVE  TypeOK'
  BY <1>2 DEF TypeOK, Begin, CallStates, rows
<1>3. ASSUME NEW c \in Calls, Refuse(c)
      PROVE  TypeOK'
  BY <1>3 DEF TypeOK, Refuse, CallStates, rows
<1>4. ASSUME NEW c \in Calls, Approve(c)
      PROVE  TypeOK'
  <2>1. call[c].on \in Requests /\ call[c].by \in Users
    BY <1>4, CallTyped DEF Approve, Idle
  <2>2. approvedBy' \in [Requests -> SUBSET Users]
    BY <1>4, <2>1 DEF TypeOK, Approve
  <2>3. status' \in [Requests -> Statuses]
    BY <1>4, <2>1 DEF TypeOK, Approve, Statuses, Outcomes
  <2>4. runs' \in [Requests -> Nat]
    BY <1>4, <2>1 DEF TypeOK, Approve
  <2>5. call' \in [Calls -> CallStates]
    BY <1>4 DEF TypeOK, Approve, CallStates
  <2> QED
    BY <1>4, <2>2, <2>3, <2>4, <2>5 DEF TypeOK, Approve
<1>5. ASSUME NEW c \in Calls, Reject(c)
      PROVE  TypeOK'
  <2>1. call[c].on \in Requests /\ call[c].by \in Users
    BY <1>5, CallTyped DEF Reject, Idle
  <2> QED
    BY <1>5, <2>1 DEF TypeOK, Reject, Statuses, CallStates
<1>6. ASSUME NEW u \in Users, ChangeRole(u)
      PROVE  TypeOK'
  BY <1>6 DEF TypeOK, ChangeRole, rows
<1>7. ASSUME NEW u \in Users, DeleteAccount(u)
      PROVE  TypeOK'
  BY <1>7 DEF TypeOK, DeleteAccount, Statuses
<1>8. CASE UNCHANGED vars
  BY <1>8 DEF TypeOK, vars
<1> QED
  BY <1>1, <1>2, <1>3, <1>4, <1>5, <1>6, <1>7, <1>8 DEF Next

\* Type correctness of the approval circuit.
THEOREM TypeCorrect == Spec => []TypeOK
<1>1. Init => TypeOK
  BY InitIInv DEF IInv
<1> QED
  BY <1>1, TypeStep, PTL DEF Spec

-----------------------------------------------------------------------------
\* The only step that runs a handler, seen from the request it runs for.
LEMMA ApproveRow ==
  ASSUME IInv, NEW c \in Calls, Approve(c), NEW r \in Requests
  PROVE  \/ r # call[c].on /\ UNCHANGED <<status[r], runs[r], approvedBy[r]>>
         \/ /\ r = call[c].on
            /\ status[r] = "pending"
            /\ runs[r] = 0
            /\ approvedBy'[r] = approvedBy[r] \cup {call[c].by}
            /\ call[c].by \in Users \ (approvedBy[r] \cup rejectedBy[r])
            /\ \/ status'[r] = "pending" /\ runs'[r] = 0
                  /\ ~(Cardinality(approvedBy'[r]) >= Confirmations(r))
               \/ status'[r] = "failed" /\ runs'[r] = 0
                  /\ Cardinality(approvedBy'[r]) >= Confirmations(r)
               \/ status'[r] \in {"executed", "failed"} /\ runs'[r] = 1
                  /\ Cardinality(approvedBy'[r]) >= Confirmations(r)
                  /\ requester[r] \in entitled
<1>1. call[c].on \in Requests /\ call[c].by \in Users
  BY CallTyped DEF IInv, Approve, Idle
<1>2. CASE r # call[c].on
  BY <1>1, <1>2 DEF IInv, TypeOK, Approve
<1>3. CASE r = call[c].on
  <2> DEFINE all == approvedBy[r] \cup {call[c].by}
  <2>1. /\ status[r] = "pending"
        /\ runs[r] = 0
        /\ call[c].by \in Users \ (approvedBy[r] \cup rejectedBy[r])
    BY <1>1, <1>3 DEF IInv, OpenHasNotRun, Approve, Open, Fresh
  <2>2. approvedBy'[r] = all
    BY <1>1, <1>3 DEF IInv, TypeOK, Approve
  <2>3. CASE ~Enough(r, all)
    <3>1. status'[r] = "pending" /\ runs'[r] = 0
      BY <1>3, <2>1, <2>3 DEF Approve
    <3> QED
      BY <1>3, <2>1, <2>2, <2>3, <3>1 DEF Enough
  <2>4. CASE Enough(r, all) /\ ~StillAllowed(r)
    <3>1. status'[r] = "failed" /\ runs'[r] = 0
      BY <1>1, <1>3, <2>1, <2>4 DEF IInv, TypeOK, Approve
    <3> QED
      BY <1>3, <2>1, <2>2, <2>4, <3>1 DEF Enough
  <2>5. CASE Enough(r, all) /\ StillAllowed(r)
    <3>1. status'[r] \in Outcomes /\ runs'[r] = 1
      BY <1>1, <1>3, <2>1, <2>5 DEF IInv, TypeOK, Approve
    <3> QED
      BY <1>3, <2>1, <2>2, <2>5, <3>1 DEF Enough, StillAllowed, CanUse, Outcomes
  <2> QED
    BY <2>3, <2>4, <2>5
<1> QED
  BY <1>2, <1>3

\* Every step keeps the inductive invariant.
LEMMA StepIInv == IInv /\ [Next]_vars => IInv'
<1> SUFFICES ASSUME IInv, [Next]_vars PROVE IInv'
  OBVIOUS
<1>0. TypeOK'
  BY TypeStep DEF IInv
<1> DEFINE Rest == /\ BlankUntilAsked
                   /\ OpenHasNotRun
                   /\ RunsAtMostOnce
                   /\ FourEyes
                   /\ EntitledExist
<1> USE DEF BlankUntilAsked, OpenHasNotRun, RunsAtMostOnce, FourEyes,
           EntitledExist
<1>1. ASSUME NEW u \in Users, NEW r \in Requests, NEW d \in BOOLEAN,
             Execute(u, r, d)
      PROVE  Rest'
  BY <1>1 DEF IInv, TypeOK, Execute, Confirmations
<1>2. ASSUME NEW c \in Calls, NEW k \in {"approve", "reject"}, NEW u \in Users,
             NEW r \in Requests, Begin(c, k, u, r)
      PROVE  Rest'
  BY <1>2 DEF IInv, Begin, rows, Confirmations
<1>3. ASSUME NEW c \in Calls, Refuse(c)
      PROVE  Rest'
  BY <1>3 DEF IInv, Refuse, rows, Confirmations
<1>4. ASSUME NEW c \in Calls, Approve(c)
      PROVE  Rest'
  <2>1. UNCHANGED <<requester, destructive, rejectedBy, entitled, accounts>>
    BY <1>4 DEF Approve
  <2>2. SUFFICES ASSUME NEW r \in Requests
        PROVE /\ status'[r] # "none"  \/ UNCHANGED <<status[r], runs[r], approvedBy[r]>>
              /\ status'[r] = "pending" => runs'[r] = 0 /\ rejectedBy'[r] = {}
              /\ runs'[r] <= 1
              /\ runs'[r] = 1 => status'[r] \in {"executed", "failed", "deleted"}
              /\ status'[r] = "executed" => runs'[r] = 1
              /\ runs'[r] > 0 => /\ Cardinality(approvedBy'[r]) >= Confirmations(r)'
                                 /\ rejectedBy[r] = {}
              /\ approvedBy'[r] \cap rejectedBy'[r] = {}
    BY <2>1 DEF IInv
  <2>3. Confirmations(r)' = Confirmations(r)
    BY <2>1 DEF Confirmations
  <2>4. CASE r # call[c].on
    <3>1. UNCHANGED <<status[r], runs[r], approvedBy[r]>>
      BY <1>4, <2>4, ApproveRow
    <3> QED
      BY <2>1, <2>3, <3>1 DEF IInv
  <2>5. CASE r = call[c].on
    <3>1. /\ approvedBy'[r] = approvedBy[r] \cup {call[c].by}
          /\ call[c].by \notin rejectedBy[r]
          /\ status[r] = "pending"
      BY <1>4, <2>5, ApproveRow
    <3>2. rejectedBy'[r] = {} /\ rejectedBy[r] = {}
      BY <2>1, <3>1 DEF IInv
    <3>3. \/ status'[r] = "pending" /\ runs'[r] = 0
          \/ status'[r] = "failed" /\ runs'[r] = 0
          \/ /\ status'[r] \in {"executed", "failed"}
             /\ runs'[r] = 1
             /\ Cardinality(approvedBy'[r]) >= Confirmations(r)
      BY <1>4, <2>5, ApproveRow
    <3> QED
      BY <2>3, <3>2, <3>3
  <2> QED
    BY <2>4, <2>5
<1>5. ASSUME NEW c \in Calls, Reject(c)
      PROVE  Rest'
  <2>1. call[c].on \in Requests /\ call[c].by \in Users
    BY <1>5, CallTyped DEF IInv, Reject, Idle
  <2> QED
    BY <1>5, <2>1 DEF IInv, TypeOK, Reject, Open, Fresh, Confirmations
<1>6. ASSUME NEW u \in Users, ChangeRole(u)
      PROVE  Rest'
  BY <1>6 DEF IInv, ChangeRole, rows, Confirmations
<1>7. ASSUME NEW u \in Users, DeleteAccount(u)
      PROVE  Rest'
  <2>1. UNCHANGED <<runs, approvedBy, rejectedBy, requester, destructive>>
    BY <1>7 DEF DeleteAccount
  <2>2. \A r \in Requests : status'[r] \in {status[r], "deleted"}
    BY <1>7 DEF DeleteAccount
  <2>3. \A r \in Requests : Confirmations(r)' = Confirmations(r)
    BY <2>1 DEF Confirmations
  <2>4. (BlankUntilAsked /\ OpenHasNotRun)'
    BY <2>1, <2>2 DEF IInv
  <2>5. (RunsAtMostOnce /\ FourEyes)'
    <3>1. SUFFICES ASSUME NEW r \in Requests
          PROVE /\ runs[r] <= 1
                /\ runs[r] = 1 => status'[r] \in {"executed", "failed", "deleted"}
                /\ status'[r] = "executed" => runs[r] = 1
                /\ runs[r] > 0 => /\ Cardinality(approvedBy[r]) >= Confirmations(r)
                                  /\ rejectedBy[r] = {}
                /\ approvedBy[r] \cap rejectedBy[r] = {}
      BY <2>1, <2>3
    <3> QED
      BY <2>2 DEF IInv
  <2>6. (entitled \subseteq accounts)'
    BY <1>7 DEF IInv, DeleteAccount
  <2> QED
    BY <2>4, <2>5, <2>6
<1>8. CASE UNCHANGED vars
  <2>1. \A r \in Requests : Confirmations(r)' = Confirmations(r)
    BY <1>8 DEF vars, Confirmations
  <2>2. UNCHANGED <<status, requester, destructive, approvedBy, rejectedBy,
                    runs, entitled, accounts>>
    BY <1>8 DEF vars
  <2>3. (BlankUntilAsked /\ OpenHasNotRun)'
    BY <2>2 DEF IInv
  <2>4. (RunsAtMostOnce /\ EntitledExist)'
    BY <2>2 DEF IInv
  <2>5. FourEyes'
    BY <2>1, <2>2 DEF IInv
  <2> QED
    BY <1>0, <2>3, <2>4, <2>5 DEF IInv
<1> HIDE DEF BlankUntilAsked, OpenHasNotRun, RunsAtMostOnce, FourEyes,
            EntitledExist
<1> QED
  BY <1>0, <1>1, <1>2, <1>3, <1>4, <1>5, <1>6, <1>7, <1>8 DEF Next, IInv

\* The inductive invariant always holds.
LEMMA Invariance == Spec => []IInv
  BY InitIInv, StepIInv, PTL DEF Spec

\* No request's handler ever runs twice, nor for an open or a rejected request.
THEOREM NoDoubleExecution == Spec => []RunsAtMostOnce
<1>1. IInv => RunsAtMostOnce
  BY DEF IInv
<1> QED
  BY <1>1, Invariance, PTL

\* What ran had all the signatures its tool demands, from distinct people, and
\* no rejection.
THEOREM FourEyesPrinciple == Spec => []FourEyes
<1>1. IInv => FourEyes
  BY DEF IInv
<1> QED
  BY <1>1, Invariance, PTL

\* Whenever a handler starts, the requester it acts for still holds the right.
THEOREM RunsAreEntitled == Spec => RunsForEntitledRequester
<1> DEFINE Claim == \A r \in Requests :
                      runs'[r] > runs[r] => requester[r] \in entitled \cap accounts
<1>1. IInv /\ [Next]_vars => [Claim]_vars
  <2> SUFFICES ASSUME IInv, Next, NEW r \in Requests, runs'[r] > runs[r]
               PROVE  requester[r] \in entitled \cap accounts
    OBVIOUS
  <2>1. runs[r] \in Nat /\ entitled \subseteq accounts
    BY DEF IInv, TypeOK, EntitledExist
  <2>2. PICK c \in Calls : Approve(c)
    BY <2>1 DEF Next, Execute, Begin, Refuse, Reject, ChangeRole, DeleteAccount,
       rows
  <2>3. requester[r] \in entitled
    BY <2>1, <2>2, ApproveRow
  <2> QED
    BY <2>1, <2>3
<1> QED
  BY <1>1, Invariance, PTL DEF Spec, RunsForEntitledRequester

\* A decision is never taken back nor changed into another.
THEOREM Finality == Spec => DecisionsAreFinal
<1> DEFINE Claim == \A r \in Requests :
                      status[r] \in Terminal => status'[r] \in {status[r], "deleted"}
<1>1. IInv /\ [Next]_vars => [Claim]_vars
  <2> SUFFICES ASSUME IInv, Next, NEW r \in Requests, status[r] \in Terminal
               PROVE  status'[r] \in {status[r], "deleted"}
    OBVIOUS
  <2>1. status \in [Requests -> Statuses]
    BY DEF IInv, TypeOK
  <2>2. ASSUME NEW c \in Calls, Approve(c) PROVE status'[r] = status[r]
    BY <2>2, ApproveRow DEF Terminal
  <2>3. ASSUME NEW c \in Calls, Reject(c) PROVE status'[r] = status[r]
    BY <2>1, <2>3 DEF Reject, Open, Terminal
  <2>4. ASSUME NEW u \in Users, NEW q \in Requests, NEW d \in BOOLEAN,
               Execute(u, q, d)
        PROVE  status'[r] = status[r]
    BY <2>1, <2>4 DEF Execute, Terminal
  <2> QED
    BY <2>2, <2>3, <2>4 DEF Next, Begin, Refuse, ChangeRole, DeleteAccount, rows
<1> QED
  BY <1>1, Invariance, PTL DEF Spec, DecisionsAreFinal

-----------------------------------------------------------------------------
\* What the refinement mapping makes of one request.
LEMMA PhaseOf ==
  ASSUME NEW r \in Requests
  PROVE  phase[r] = IF runs[r] > 0 THEN "ran"
                    ELSE IF status[r] = "none" THEN "unasked"
                    ELSE IF status[r] = "pending" THEN "open"
                    ELSE "stopped"
BY DEF phase

\* Both modules count with the same Cardinality.
LEMMA SameCount == \A S : Promise!Cardinality(S) = Cardinality(S)
BY Zenon DEF Promise!Cardinality, Cardinality, Promise!IsFiniteSet, IsFiniteSet

\* A step that touches one request changes the phase of that one alone.
LEMMA OnePhase ==
  ASSUME NEW r \in Requests,
         \A q \in Requests \ {r} : UNCHANGED <<status[q], runs[q]>>
  PROVE  phase' = [phase EXCEPT ![r] = phase'[r]]
<1>1. \A q \in Requests \ {r} : phase'[q] = phase[q]
  BY DEF phase
<1>2. phase = [q \in Requests |-> phase[q]] /\ phase' = [q \in Requests |-> phase'[q]]
  BY DEF phase
<1> QED
  BY <1>1, <1>2

\* A step of the circuit is a step of what it promises, or none.
LEMMA StepKeepsPromise ==
  IInv /\ IInv' /\ [Next]_vars
    => [Promise!Next]_<<phase, destructive, approvedBy>>
<1> SUFFICES ASSUME IInv, IInv', Next
             PROVE  Promise!Next \/ UNCHANGED <<phase, destructive, approvedBy>>
  BY DEF vars, phase
<1>1. ASSUME NEW u \in Users, NEW r \in Requests, NEW d \in BOOLEAN,
             Execute(u, r, d)
      PROVE  Promise!Ask(r, d)
  <2>1. runs[r] = 0 /\ status[r] = "none" /\ UNCHANGED runs
    BY <1>1 DEF Execute, IInv, BlankUntilAsked
  <2>2. phase[r] = "unasked"
    BY <2>1, PhaseOf
  <2>3. status'[r] = "pending" /\ \A q \in Requests \ {r} : UNCHANGED status[q]
    BY <1>1 DEF Execute, IInv, TypeOK
  <2>4. phase'[r] = "open"
    BY <2>1, <2>3 DEF phase
  <2>5. phase' = [phase EXCEPT ![r] = "open"]
    BY <2>1, <2>3, <2>4, OnePhase
  <2> QED
    BY <1>1, <2>2, <2>5 DEF Execute, Promise!Ask
<1>2. ASSUME NEW c \in Calls, Approve(c)
      PROVE  Promise!Sign(call[c].on, call[c].by) \/ Promise!Conclude(call[c].on, call[c].by)
  <2> DEFINE r == call[c].on
             u == call[c].by
  <2>1. r \in Requests /\ u \in Users
    BY <1>2, CallTyped DEF IInv, Approve, Idle
  <2>2. UNCHANGED destructive /\ approvedBy' = [approvedBy EXCEPT ![r] = @ \cup {u}]
    BY <1>2 DEF Approve
  <2>3. status[r] = "pending" /\ runs[r] = 0 /\ u \notin approvedBy[r]
    BY <1>2, <2>1, ApproveRow
  <2>4. phase[r] = "open"
    BY <2>1, <2>3, PhaseOf
  <2>5. \A q \in Requests \ {r} : UNCHANGED <<status[q], runs[q]>>
    BY <1>2, <2>1, ApproveRow
  <2>6. Promise!Enough(r, approvedBy[r] \cup {u})
          <=> Cardinality(approvedBy'[r]) >= Confirmations(r)
    <3>1. approvedBy'[r] = approvedBy[r] \cup {u}
      BY <1>2, <2>1, ApproveRow
    <3>2. Confirmations(r) = Promise!Need(r)
      BY DEF Confirmations, Promise!Need
    <3>3. Promise!Cardinality(approvedBy[r] \cup {u}) = Cardinality(approvedBy'[r])
      BY <3>1, SameCount
    <3> QED
      BY <3>2, <3>3 DEF Promise!Enough
  <2>7. CASE /\ status'[r] = "pending" /\ runs'[r] = 0
             /\ ~(Cardinality(approvedBy'[r]) >= Confirmations(r))
    <3>1. UNCHANGED phase
      <4>1. phase'[r] = phase[r]
        BY <2>3, <2>7, <2>1 DEF phase
      <4> QED
        BY <2>1, <2>5, <4>1, OnePhase DEF phase
    <3> QED
      BY <2>1, <2>2, <2>3, <2>4, <2>6, <2>7, <3>1 DEF Promise!Sign
  <2>8. CASE /\ status'[r] \in {"executed", "failed"} /\ runs'[r] \in {0, 1}
             /\ Cardinality(approvedBy'[r]) >= Confirmations(r)
    <3>1. phase' = [phase EXCEPT ![r] = "ran"] \/ phase' = [phase EXCEPT ![r] = "stopped"]
      <4>1. phase'[r] \in {"ran", "stopped"}
        BY <2>1, <2>8 DEF phase
      <4> QED
        BY <2>1, <2>5, <4>1, OnePhase
    <3> QED
      BY <2>1, <2>2, <2>3, <2>4, <2>6, <2>8, <3>1 DEF Promise!Conclude
  <2>9. \/ status'[r] = "pending" /\ runs'[r] = 0
           /\ ~(Cardinality(approvedBy'[r]) >= Confirmations(r))
        \/ status'[r] \in {"executed", "failed"} /\ runs'[r] \in {0, 1}
           /\ Cardinality(approvedBy'[r]) >= Confirmations(r)
    BY <1>2, <2>1, ApproveRow
  <2> QED
    BY <2>7, <2>8, <2>9
<1>3. ASSUME NEW c \in Calls, Reject(c)
      PROVE  Promise!Withdraw({call[c].on})
  <2> DEFINE r == call[c].on
  <2>1. r \in Requests
    BY <1>3, CallTyped DEF IInv, Reject, Idle
  <2>2. /\ status[r] = "pending" /\ runs[r] = 0
        /\ status' = [status EXCEPT ![r] = "rejected"]
        /\ UNCHANGED <<runs, destructive, approvedBy>>
    BY <1>3, <2>1 DEF Reject, Open, IInv, OpenHasNotRun
  <2>3. phase[r] = "open"
    BY <2>1, <2>2, PhaseOf
  <2>4. phase' = [q \in Requests |-> IF q \in {r} THEN "stopped" ELSE phase[q]]
    BY <2>1, <2>2 DEF phase, IInv, TypeOK
  <2> QED
    BY <2>2, <2>3, <2>4 DEF Promise!Withdraw
<1>4. ASSUME NEW u \in Users, DeleteAccount(u)
      PROVE  Promise!Withdraw({r \in Requests : requester[r] = u /\ phase[r] = "open"})
  <2> DEFINE R == {r \in Requests : requester[r] = u /\ phase[r] = "open"}
  <2>1. UNCHANGED <<runs, destructive, approvedBy>>
    BY <1>4 DEF DeleteAccount
  <2>2. ASSUME NEW r \in Requests
        PROVE  phase'[r] = IF r \in R THEN "stopped" ELSE phase[r]
    <3>1. CASE requester[r] # u
      <4>1. status'[r] = status[r]
        BY <1>4, <3>1 DEF DeleteAccount
      <4> QED
        BY <2>1, <3>1, <4>1 DEF phase
    <3>2. CASE requester[r] = u
      <4>1. status'[r] = "deleted"
        BY <1>4, <3>2 DEF DeleteAccount
      <4>2. status[r] # "none"
        BY <3>2, NullAssumption DEF IInv, BlankUntilAsked
      <4>3. phase'[r] = IF runs[r] > 0 THEN "ran" ELSE "stopped"
        BY <2>1, <4>1 DEF phase
      <4>4. status[r] = "pending" => runs[r] = 0
        BY DEF IInv, OpenHasNotRun
      <4>5. runs[r] \in Nat
        BY DEF IInv, TypeOK
      <4>6. phase[r] = IF runs[r] > 0 THEN "ran"
                       ELSE IF status[r] = "pending" THEN "open" ELSE "stopped"
        BY <4>2 DEF phase
      <4> QED
        BY <3>2, <4>3, <4>4, <4>5, <4>6
    <3> QED
      BY <3>1, <3>2
  <2>3. phase' = [r \in Requests |-> IF r \in R THEN "stopped" ELSE phase[r]]
    BY <2>2 DEF phase
  <2> QED
    BY <2>1, <2>3 DEF Promise!Withdraw
<1>5. ASSUME NEW c \in Calls, Refuse(c)
      PROVE  UNCHANGED <<phase, destructive, approvedBy>>
  BY <1>5 DEF Refuse, rows, phase
<1>6. ASSUME NEW c \in Calls, NEW k \in {"approve", "reject"}, NEW u \in Users,
             NEW r \in Requests, Begin(c, k, u, r)
      PROVE  UNCHANGED <<phase, destructive, approvedBy>>
  BY <1>6 DEF Begin, rows, phase
<1>7. ASSUME NEW u \in Users, ChangeRole(u)
      PROVE  UNCHANGED <<phase, destructive, approvedBy>>
  BY <1>7 DEF ChangeRole, rows, phase
<1> QED
  <2>1. ASSUME NEW c \in Calls, Approve(c) PROVE Promise!Next
    <3>1. call[c].on \in Requests /\ call[c].by \in Users
      BY <2>1, CallTyped DEF IInv, Approve, Idle
    <3> QED
      BY <1>2, <2>1, <3>1 DEF Promise!Next
  <2>2. ASSUME NEW c \in Calls, Reject(c) PROVE Promise!Next
    <3>1. call[c].on \in Requests
      BY <2>2, CallTyped DEF IInv, Reject, Idle
    <3>2. {call[c].on} \in SUBSET Requests
      BY <3>1
    <3> QED
      BY <1>3, <2>2, <3>2 DEF Promise!Next
  <2>3. ASSUME NEW u \in Users, DeleteAccount(u) PROVE Promise!Next
    BY <1>4, <2>3 DEF Promise!Next
  <2>4. ASSUME NEW u \in Users, NEW r \in Requests, NEW d \in BOOLEAN,
               Execute(u, r, d)
        PROVE  Promise!Next
    BY <1>1, <2>4 DEF Promise!Next
  <2> QED
    BY <1>5, <1>6, <1>7, <2>1, <2>2, <2>3, <2>4 DEF Next

\* The circuit implements the promise of the copilot's governance.
THEOREM Implements == Spec => KeepsPromise
<1>1. Init => Promise!Init
  BY DEF Init, Promise!Init, phase
<1> QED
  BY <1>1, StepKeepsPromise, Invariance, PTL DEF Spec, KeepsPromise, Promise!Spec
=============================================================================
