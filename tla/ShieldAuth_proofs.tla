------------------------- MODULE ShieldAuth_proofs -------------------------
(***************************************************************************)
(* Proofs about ShieldAuth, for any workers, threads and disruptions; and, *)
(* for one worker, that no refresh token is presented twice.               *)
(***************************************************************************)
EXTENDS ShieldAuth, TLAPS

\* What a thread presents is a token.
PresentsToken == \A t \in Threads : pc[t] = "present" => held[t] \in Tokens

\* Every step keeps the variables in their types.
LEMMA TypeStep ==
  ASSUME TypeOK, PresentsToken, [Next]_vars
  PROVE TypeOK'
<1> USE ProcAssumption, KindAssumption, NullAssumption, FaultAssumption
<1> USE DEF TypeOK, Configs, Causes, Verdicts, NoConfig, None, Steps, Inside, Goto, shield, secrets, memory, Threads
<1>1. ASSUME NEW t \in Threads, Begin(t) PROVE TypeOK'
  <2>1. pc' \in [Threads -> Steps] /\ force' \in [Threads -> BOOLEAN]
        BY <1>1 DEF Begin
  <2>2. UNCHANGED <<shield, secrets, config, mutex, conf, held, got, how, faults, marks>>
        BY <1>1 DEF Begin
  <2> QED BY <2>1, <2>2
<1>2. ASSUME NEW t \in Threads, Lock(t) PROVE TypeOK'
      BY <1>2 DEF Lock, Enters
<1>3. ASSUME NEW t \in Threads, AlreadyRenewed(t) PROVE TypeOK'
      BY <1>3 DEF AlreadyRenewed, End
<1>4. ASSUME NEW t \in Threads, NoRefresh(t) PROVE TypeOK'
      BY <1>4 DEF NoRefresh, End
<1>5. ASSUME NEW t \in Threads, Read(t) PROVE TypeOK'
      BY <1>5 DEF Read
<1>6. ASSUME NEW t \in Threads, Renewed(t) PROVE TypeOK'
      BY <1>6 DEF Renewed, Issue, Unheld, Forget, NoFault, Fault
<1>7. ASSUME NEW t \in Threads, RenewedUnheard(t) PROVE TypeOK'
      BY <1>7 DEF RenewedUnheard, Fault, Forget
<1>8. ASSUME NEW t \in Threads, RefreshRefused(t) PROVE TypeOK'
      BY <1>8 DEF RefreshRefused, Forget, PresentsToken
<1>9. ASSUME NEW t \in Threads, Unanswered(t) PROVE TypeOK'
      BY <1>9 DEF Unanswered, Fault, Forget
<1>10. ASSUME NEW t \in Threads, Condemn(t) PROVE TypeOK'
      BY <1>10 DEF Condemn
<1>11. ASSUME NEW t \in Threads, RefusedForGood(t) PROVE TypeOK'
      BY <1>11 DEF RefusedForGood, MemoAndEnd, End
<1>12. ASSUME NEW t \in Threads, FailPassing(t) PROVE TypeOK'
      BY <1>12 DEF FailPassing, MemoAndEnd, End
<1>13. ASSUME NEW t \in Threads, LoginAccepted(t) PROVE TypeOK'
      BY <1>13 DEF LoginAccepted, Issue, Unheld, NoFault, Fault
<1>14. ASSUME NEW t \in Threads, LoginRejected(t) PROVE TypeOK'
      BY <1>14 DEF LoginRejected
<1>15. ASSUME NEW t \in Threads, FailLogin(t) PROVE TypeOK'
      BY <1>15 DEF FailLogin, MemoAndEnd, End
<1>16. ASSUME NEW t \in Threads, StoreAccess(t) PROVE TypeOK'
      BY <1>16 DEF StoreAccess
<1>17. ASSUME NEW t \in Threads, StoreRefresh(t) PROVE TypeOK'
      BY <1>17 DEF StoreRefresh
<1>18. ASSUME NEW t \in Threads, Memorise(t) PROVE TypeOK'
      BY <1>18 DEF Memorise, MemoAndEnd, End, Success
<1>19. ASSUME NEW t \in Threads, BeginEnrol(t) PROVE TypeOK'
      BY <1>19 DEF BeginEnrol, Enters
<1>20. ASSUME NEW t \in Threads, EnrolRefused(t) PROVE TypeOK'
      BY <1>20 DEF EnrolRefused, End
<1>21. ASSUME NEW t \in Threads, StoreEmail(t) PROVE TypeOK'
      BY <1>21 DEF StoreEmail
<1>22. ASSUME NEW t \in Threads, StorePassword(t) PROVE TypeOK'
      BY <1>22 DEF StorePassword
<1>23. ASSUME NEW t \in Threads, BeginPaste(t) PROVE TypeOK'
  <2>1. PICK k \in Tokens : /\ held' = [held EXCEPT ![t] = k] /\ spent' = spent \ {k} /\ refused' = refused \ {k}
                           /\ fresh' \in {fresh \cup {k}, fresh \ {k}}
        BY <1>23 DEF BeginPaste
  <2>2. marks' \in [overlap : BOOLEAN, assumed : BOOLEAN]
        BY <1>23 DEF BeginPaste, Enters
  <2>3. pc' \in [Threads -> Steps] /\ conf' \in [Threads -> Configs] /\ held' \in [Threads -> Tokens \cup {NoToken}]
        BY <1>23, <2>1 DEF BeginPaste
  <2>4. UNCHANGED <<account, secrets, config, mutex, force, got, how, faults>>
        BY <1>23 DEF BeginPaste
  <2> QED BY <2>1, <2>2, <2>3, <2>4
<1>24. ASSUME NEW t \in Threads, PasteRefused(t) PROVE TypeOK'
      BY <1>24 DEF PasteRefused, End
<1>25. CASE Expire
      BY <1>25 DEF Expire
<1>26. CASE Revoke
      BY <1>26 DEF Revoke, Fault
<1>27. CASE ChangeAccount
      BY <1>27 DEF ChangeAccount, Fault
<1>28. ASSUME NEW p \in Procs, Crash(p) PROVE TypeOK'
   <2>1. pc' \in [Threads -> Steps] /\ force' \in [Threads -> BOOLEAN]
         BY <1>28 DEF Crash
   <2>2. conf' \in [Threads -> Configs]
         BY <1>28 DEF Crash
   <2>3. held' \in [Threads -> Tokens \cup {NoToken}]
         BY <1>28 DEF Crash
   <2>4. got' \in [Threads -> Tokens \cup {NoToken}]
         BY <1>28 DEF Crash
   <2>5. how' \in [Threads -> {None, "refresh", "login", "deposit"}]
         BY <1>28 DEF Crash
   <2>6. mutex' \in [Procs -> Threads \cup {NoThread}] /\ faults' \in 0..MaxFaults
         BY <1>28 DEF Crash, Fault
   <2>7. UNCHANGED <<marks, shield, secrets, config>>
         BY <1>28 DEF Crash
   <2> QED BY <2>1, <2>2, <2>3, <2>4, <2>5, <2>6, <2>7
<1>29. CASE UNCHANGED vars
      BY <1>29 DEF vars
<1> QED BY <1>1, <1>2, <1>3, <1>4, <1>5, <1>6, <1>7, <1>8, <1>9, <1>10,
           <1>11, <1>12, <1>13, <1>14, <1>15, <1>16, <1>17, <1>18, <1>19, <1>20,
           <1>21, <1>22, <1>23, <1>24, <1>25, <1>26, <1>27, <1>28, <1>29
        DEF Next, Renewal, Form

\* The token presented is read from the database, inside the lock.
LEMMA PresentStep ==
  ASSUME TypeOK, PresentsToken, [Next]_vars
  PROVE PresentsToken'
<1> USE ProcAssumption, KindAssumption, NullAssumption, FaultAssumption
<1> USE DEF PresentsToken, TypeOK, Goto, shield, secrets, memory, Threads
<1>1. ASSUME NEW t \in Threads, Begin(t) PROVE PresentsToken'
      BY <1>1 DEF Begin
<1>2. ASSUME NEW t \in Threads, Lock(t) PROVE PresentsToken'
      BY <1>2 DEF Lock
<1>3. ASSUME NEW t \in Threads, AlreadyRenewed(t) PROVE PresentsToken'
      BY <1>3 DEF AlreadyRenewed, End
<1>4. ASSUME NEW t \in Threads, NoRefresh(t) PROVE PresentsToken'
      BY <1>4 DEF NoRefresh, End
<1>5. ASSUME NEW t \in Threads, Read(t) PROVE PresentsToken'
      BY <1>5 DEF Read
<1>6. ASSUME NEW t \in Threads, Renewed(t) PROVE PresentsToken'
      BY <1>6 DEF Renewed, Issue, Unheld, Forget, NoFault, Fault
<1>7. ASSUME NEW t \in Threads, RenewedUnheard(t) PROVE PresentsToken'
      BY <1>7 DEF RenewedUnheard, Fault, Forget
<1>8. ASSUME NEW t \in Threads, RefreshRefused(t) PROVE PresentsToken'
      BY <1>8 DEF RefreshRefused, Forget
<1>9. ASSUME NEW t \in Threads, Unanswered(t) PROVE PresentsToken'
      BY <1>9 DEF Unanswered, Fault, Forget
<1>10. ASSUME NEW t \in Threads, Condemn(t) PROVE PresentsToken'
      BY <1>10 DEF Condemn
<1>11. ASSUME NEW t \in Threads, RefusedForGood(t) PROVE PresentsToken'
      BY <1>11 DEF RefusedForGood, MemoAndEnd, End
<1>12. ASSUME NEW t \in Threads, FailPassing(t) PROVE PresentsToken'
      BY <1>12 DEF FailPassing, MemoAndEnd, End
<1>13. ASSUME NEW t \in Threads, LoginAccepted(t) PROVE PresentsToken'
      BY <1>13 DEF LoginAccepted, Issue, Unheld, NoFault, Fault
<1>14. ASSUME NEW t \in Threads, LoginRejected(t) PROVE PresentsToken'
      BY <1>14 DEF LoginRejected
<1>15. ASSUME NEW t \in Threads, FailLogin(t) PROVE PresentsToken'
      BY <1>15 DEF FailLogin, MemoAndEnd, End
<1>16. ASSUME NEW t \in Threads, StoreAccess(t) PROVE PresentsToken'
      BY <1>16 DEF StoreAccess
<1>17. ASSUME NEW t \in Threads, StoreRefresh(t) PROVE PresentsToken'
      BY <1>17 DEF StoreRefresh
<1>18. ASSUME NEW t \in Threads, Memorise(t) PROVE PresentsToken'
      BY <1>18 DEF Memorise, MemoAndEnd, End, Success
<1>19. ASSUME NEW t \in Threads, BeginEnrol(t) PROVE PresentsToken'
      BY <1>19 DEF BeginEnrol
<1>20. ASSUME NEW t \in Threads, EnrolRefused(t) PROVE PresentsToken'
      BY <1>20 DEF EnrolRefused, End
<1>21. ASSUME NEW t \in Threads, StoreEmail(t) PROVE PresentsToken'
      BY <1>21 DEF StoreEmail
<1>22. ASSUME NEW t \in Threads, StorePassword(t) PROVE PresentsToken'
      BY <1>22 DEF StorePassword
<1>23. ASSUME NEW t \in Threads, BeginPaste(t) PROVE PresentsToken'
      BY <1>23 DEF BeginPaste, Unheld
<1>24. ASSUME NEW t \in Threads, PasteRefused(t) PROVE PresentsToken'
      BY <1>24 DEF PasteRefused, End
<1>25. CASE Expire
      BY <1>25 DEF Expire
<1>26. CASE Revoke
      BY <1>26 DEF Revoke, Fault
<1>27. CASE ChangeAccount
      BY <1>27 DEF ChangeAccount, Fault
<1>28. ASSUME NEW p \in Procs, Crash(p) PROVE PresentsToken'
      BY <1>28 DEF Crash, Fault
<1>29. CASE UNCHANGED vars
      BY <1>29 DEF vars
<1> QED BY <1>1, <1>2, <1>3, <1>4, <1>5, <1>6, <1>7, <1>8, <1>9, <1>10,
           <1>11, <1>12, <1>13, <1>14, <1>15, <1>16, <1>17, <1>18, <1>19, <1>20,
           <1>21, <1>22, <1>23, <1>24, <1>25, <1>26, <1>27, <1>28, <1>29
        DEF Next, Renewal, Form

\* The initial states are well typed.
LEMMA TypeInit == Init => TypeOK
<1> USE ProcAssumption, NullAssumption, FaultAssumption
<1> USE DEF Configs, Causes, Verdicts, NoConfig, None, Steps, Inside
<1> SUFFICES ASSUME Init PROVE TypeOK
    OBVIOUS
<1>1. PICK k \in Tokens, email \in BOOLEAN :
        /\ fresh \in {{}, {k}} /\ spent = {} /\ refused = {}
        /\ account \in IF "account" \in Disruptions THEN {"ok", "refused", "mfa"} ELSE {"ok"}
        /\ usable \in BOOLEAN /\ dRefresh \in {NoToken, k} /\ dPassword = email
        /\ config = [NoConfig EXCEPT !.email = email]
      BY DEF Init
<1>2. config \in Configs
      BY <1>1
<1>3. /\ mutex \in [Procs -> Threads \cup {NoThread}]
      /\ pc \in [Threads -> Steps]
      /\ force \in [Threads -> BOOLEAN]
      /\ conf \in [Threads -> Configs]
      BY DEF Init
<1>4. /\ held \in [Threads -> Tokens \cup {NoToken}]
      /\ got \in [Threads -> Tokens \cup {NoToken}]
      /\ how \in [Threads -> {None, "refresh", "login", "deposit"}]
      /\ faults \in 0..MaxFaults
      BY DEF Init
<1>5. marks \in [overlap : BOOLEAN, assumed : BOOLEAN]
      BY DEF Init
<1> QED BY <1>1, <1>2, <1>3, <1>4, <1>5 DEF TypeOK

\* Every variable keeps its type in every execution of the renewals and the forms.
THEOREM TypeCorrect == Spec => []TypeOK
<1>1. Init => TypeOK /\ PresentsToken
      BY TypeInit DEF Init, PresentsToken
<1>2. TypeOK /\ PresentsToken /\ [Next]_vars => (TypeOK /\ PresentsToken)'
      BY TypeStep, PresentStep
<1> QED BY <1>1, <1>2, PTL DEF Spec
-----------------------------------------------------------------------------
\* One worker process, that does not crash.
OneLastingWorker ==
  /\ \A t, u \in Callers : ProcOf[t] = ProcOf[u]
  /\ "crash" \notin Disruptions

\* A caller inside the lock is the one the lock was given to; administrators'
\* threads stay out of the renewal and callers out of the forms.
LockIsMine ==
  \A t \in Threads :
    /\ t \in Callers /\ pc[t] \in Inside => mutex[ProcOf[t]] = t
    /\ t \in Admins => pc[t] \in {"idle", "enrol", "email", "password", "paste",
                                  "access", "refresh", "memo"}
    /\ t \in Callers => pc[t] \notin {"enrol", "email", "password", "paste"}

\* A thread holds an answer of Shield only until its memo is written, and a form
\* that stores an account got its answer from a login.
Storing == {"email", "password", "access", "refresh"}
GotClean ==
  \A t \in Threads :
    /\ pc[t] \notin Storing \cup {"memo"} => got[t] = NoToken
    /\ pc[t] \in {"email", "password"} => how[t] = "login"

\* Refresh tokens that thread t alone knows: issued to it, or pasted by its
\* operator, and not stored yet.
IssuedTo(t, k) == pc[t] \in Storing /\ got[t] = k
PastedBy(t, k) ==
  /\ held[t] = k
  /\ \/ pc[t] = "paste"
     \/ pc[t] \in {"access", "refresh"} /\ how[t] = "deposit" /\ got[t] = NoToken
Alone(t, k) ==
  /\ k \notin spent /\ k # dRefresh
  /\ \A u \in Threads \ {t} : k # held[u] /\ k # got[u]
OwnTokens ==
  \A t \in Threads, k \in Tokens : IssuedTo(t, k) \/ PastedBy(t, k) => Alone(t, k)

\* The stored refresh token is spent only while the caller that spent it is about
\* to store the one it got in exchange.
SpentIsReplaced ==
  dRefresh \in spent =>
    \E t \in Callers : pc[t] \in {"access", "refresh"} /\ got[t] # NoToken

\* Only the caller that was given the lock moves inside it.
LEMMA LockStep ==
  ASSUME TypeOK, LockIsMine, [Next]_vars
  PROVE LockIsMine'
<1> USE ProcAssumption, KindAssumption, NullAssumption, FaultAssumption
<1> USE DEF LockIsMine, TypeOK, Inside, Goto, shield, secrets, memory, Threads
<1>1. ASSUME NEW t \in Threads, Begin(t) PROVE LockIsMine'
      BY <1>1 DEF Begin
<1>2. ASSUME NEW t \in Threads, Lock(t) PROVE LockIsMine'
      BY <1>2 DEF Lock
<1>3. ASSUME NEW t \in Threads, AlreadyRenewed(t) PROVE LockIsMine'
      BY <1>3 DEF AlreadyRenewed, End
<1>4. ASSUME NEW t \in Threads, NoRefresh(t) PROVE LockIsMine'
      BY <1>4 DEF NoRefresh, End
<1>5. ASSUME NEW t \in Threads, Read(t) PROVE LockIsMine'
      BY <1>5 DEF Read
<1>6. ASSUME NEW t \in Threads, Renewed(t) PROVE LockIsMine'
      BY <1>6 DEF Renewed, Issue, Unheld, Forget, NoFault, Fault
<1>7. ASSUME NEW t \in Threads, RenewedUnheard(t) PROVE LockIsMine'
      BY <1>7 DEF RenewedUnheard, Fault, Forget
<1>8. ASSUME NEW t \in Threads, RefreshRefused(t) PROVE LockIsMine'
      BY <1>8 DEF RefreshRefused, Forget
<1>9. ASSUME NEW t \in Threads, Unanswered(t) PROVE LockIsMine'
      BY <1>9 DEF Unanswered, Fault, Forget
<1>10. ASSUME NEW t \in Threads, Condemn(t) PROVE LockIsMine'
      BY <1>10 DEF Condemn
<1>11. ASSUME NEW t \in Threads, RefusedForGood(t) PROVE LockIsMine'
      BY <1>11 DEF RefusedForGood, MemoAndEnd, End
<1>12. ASSUME NEW t \in Threads, FailPassing(t) PROVE LockIsMine'
      BY <1>12 DEF FailPassing, MemoAndEnd, End
<1>13. ASSUME NEW t \in Threads, LoginAccepted(t) PROVE LockIsMine'
      BY <1>13 DEF LoginAccepted, Issue, Unheld, NoFault, Fault
<1>14. ASSUME NEW t \in Threads, LoginRejected(t) PROVE LockIsMine'
      BY <1>14 DEF LoginRejected
<1>15. ASSUME NEW t \in Threads, FailLogin(t) PROVE LockIsMine'
      BY <1>15 DEF FailLogin, MemoAndEnd, End
<1>16. ASSUME NEW t \in Threads, StoreAccess(t) PROVE LockIsMine'
      BY <1>16 DEF StoreAccess
<1>17. ASSUME NEW t \in Threads, StoreRefresh(t) PROVE LockIsMine'
      BY <1>17 DEF StoreRefresh
<1>18. ASSUME NEW t \in Threads, Memorise(t) PROVE LockIsMine'
      BY <1>18 DEF Memorise, MemoAndEnd, End, Success
<1>19. ASSUME NEW t \in Threads, BeginEnrol(t) PROVE LockIsMine'
      BY <1>19 DEF BeginEnrol
<1>20. ASSUME NEW t \in Threads, EnrolRefused(t) PROVE LockIsMine'
      BY <1>20 DEF EnrolRefused, End
<1>21. ASSUME NEW t \in Threads, StoreEmail(t) PROVE LockIsMine'
      BY <1>21 DEF StoreEmail
<1>22. ASSUME NEW t \in Threads, StorePassword(t) PROVE LockIsMine'
      BY <1>22 DEF StorePassword
<1>23. ASSUME NEW t \in Threads, BeginPaste(t) PROVE LockIsMine'
      BY <1>23 DEF BeginPaste, Unheld
<1>24. ASSUME NEW t \in Threads, PasteRefused(t) PROVE LockIsMine'
      BY <1>24 DEF PasteRefused, End
<1>25. CASE Expire
      BY <1>25 DEF Expire
<1>26. CASE Revoke
      BY <1>26 DEF Revoke, Fault
<1>27. CASE ChangeAccount
      BY <1>27 DEF ChangeAccount, Fault
<1>28. ASSUME NEW p \in Procs, Crash(p) PROVE LockIsMine'
      BY <1>28 DEF Crash, Fault
<1>29. CASE UNCHANGED vars
      BY <1>29 DEF vars
<1> QED BY <1>1, <1>2, <1>3, <1>4, <1>5, <1>6, <1>7, <1>8, <1>9, <1>10,
           <1>11, <1>12, <1>13, <1>14, <1>15, <1>16, <1>17, <1>18, <1>19, <1>20,
           <1>21, <1>22, <1>23, <1>24, <1>25, <1>26, <1>27, <1>28, <1>29
        DEF Next, Renewal, Form

\* An answer of Shield is held from its arrival to the memo.
LEMMA GotStep ==
  ASSUME TypeOK, LockIsMine, GotClean, [Next]_vars
  PROVE GotClean'
<1> USE ProcAssumption, KindAssumption, NullAssumption, FaultAssumption
<1> USE DEF GotClean, LockIsMine, Storing, TypeOK, Inside, Goto, shield, secrets, memory, Threads
<1>1. ASSUME NEW t \in Threads, Begin(t) PROVE GotClean'
      BY <1>1 DEF Begin
<1>2. ASSUME NEW t \in Threads, Lock(t) PROVE GotClean'
      BY <1>2 DEF Lock
<1>3. ASSUME NEW t \in Threads, AlreadyRenewed(t) PROVE GotClean'
      BY <1>3 DEF AlreadyRenewed, End
<1>4. ASSUME NEW t \in Threads, NoRefresh(t) PROVE GotClean'
      BY <1>4 DEF NoRefresh, End
<1>5. ASSUME NEW t \in Threads, Read(t) PROVE GotClean'
      BY <1>5 DEF Read
<1>6. ASSUME NEW t \in Threads, Renewed(t) PROVE GotClean'
      BY <1>6 DEF Renewed, Issue, Unheld, Forget, NoFault, Fault
<1>7. ASSUME NEW t \in Threads, RenewedUnheard(t) PROVE GotClean'
      BY <1>7 DEF RenewedUnheard, Fault, Forget
<1>8. ASSUME NEW t \in Threads, RefreshRefused(t) PROVE GotClean'
      BY <1>8 DEF RefreshRefused, Forget
<1>9. ASSUME NEW t \in Threads, Unanswered(t) PROVE GotClean'
      BY <1>9 DEF Unanswered, Fault, Forget
<1>10. ASSUME NEW t \in Threads, Condemn(t) PROVE GotClean'
      BY <1>10 DEF Condemn
<1>11. ASSUME NEW t \in Threads, RefusedForGood(t) PROVE GotClean'
      BY <1>11 DEF RefusedForGood, MemoAndEnd, End
<1>12. ASSUME NEW t \in Threads, FailPassing(t) PROVE GotClean'
      BY <1>12 DEF FailPassing, MemoAndEnd, End
<1>13. ASSUME NEW t \in Threads, LoginAccepted(t) PROVE GotClean'
      BY <1>13 DEF LoginAccepted, Issue, Unheld, NoFault, Fault
<1>14. ASSUME NEW t \in Threads, LoginRejected(t) PROVE GotClean'
      BY <1>14 DEF LoginRejected
<1>15. ASSUME NEW t \in Threads, FailLogin(t) PROVE GotClean'
      BY <1>15 DEF FailLogin, MemoAndEnd, End
<1>16. ASSUME NEW t \in Threads, StoreAccess(t) PROVE GotClean'
      BY <1>16 DEF StoreAccess
<1>17. ASSUME NEW t \in Threads, StoreRefresh(t) PROVE GotClean'
      BY <1>17 DEF StoreRefresh
<1>18. ASSUME NEW t \in Threads, Memorise(t) PROVE GotClean'
      BY <1>18 DEF Memorise, MemoAndEnd, End, Success
<1>19. ASSUME NEW t \in Threads, BeginEnrol(t) PROVE GotClean'
      BY <1>19 DEF BeginEnrol
<1>20. ASSUME NEW t \in Threads, EnrolRefused(t) PROVE GotClean'
      BY <1>20 DEF EnrolRefused, End
<1>21. ASSUME NEW t \in Threads, StoreEmail(t) PROVE GotClean'
      BY <1>21 DEF StoreEmail
<1>22. ASSUME NEW t \in Threads, StorePassword(t) PROVE GotClean'
      BY <1>22 DEF StorePassword
<1>23. ASSUME NEW t \in Threads, BeginPaste(t) PROVE GotClean'
      BY <1>23 DEF BeginPaste, Unheld
<1>24. ASSUME NEW t \in Threads, PasteRefused(t) PROVE GotClean'
      BY <1>24 DEF PasteRefused, End
<1>25. CASE Expire
      BY <1>25 DEF Expire
<1>26. CASE Revoke
      BY <1>26 DEF Revoke, Fault
<1>27. CASE ChangeAccount
      BY <1>27 DEF ChangeAccount, Fault
<1>28. ASSUME NEW p \in Procs, Crash(p) PROVE GotClean'
      BY <1>28 DEF Crash, Fault
<1>29. CASE UNCHANGED vars
      BY <1>29 DEF vars
<1> QED BY <1>1, <1>2, <1>3, <1>4, <1>5, <1>6, <1>7, <1>8, <1>9, <1>10,
           <1>11, <1>12, <1>13, <1>14, <1>15, <1>16, <1>17, <1>18, <1>19, <1>20,
           <1>21, <1>22, <1>23, <1>24, <1>25, <1>26, <1>27, <1>28, <1>29
        DEF Next, Renewal, Form

\* A token issued or pasted stays with its thread until it is stored.
LEMMA OwnStep ==
  ASSUME OneLastingWorker, TypeOK, LockIsMine, GotClean, OwnTokens, [Next]_vars
  PROVE OwnTokens'
<1> USE ProcAssumption, KindAssumption, NullAssumption, FaultAssumption
<1> USE DEF OwnTokens, Alone, IssuedTo, PastedBy, GotClean, Storing, OneLastingWorker, TypeOK, Goto,
            shield, secrets, memory, Threads
<1>1. ASSUME NEW t \in Threads, Begin(t) PROVE OwnTokens'
      BY <1>1 DEF Begin
<1>2. ASSUME NEW t \in Threads, Lock(t) PROVE OwnTokens'
      BY <1>2 DEF Lock
<1>3. ASSUME NEW t \in Threads, AlreadyRenewed(t) PROVE OwnTokens'
      BY <1>3 DEF AlreadyRenewed, End
<1>4. ASSUME NEW t \in Threads, NoRefresh(t) PROVE OwnTokens'
      BY <1>4 DEF NoRefresh, End
<1>5. ASSUME NEW t \in Threads, Read(t) PROVE OwnTokens'
      BY <1>5 DEF Read
<1>6. ASSUME NEW t \in Threads, Renewed(t) PROVE OwnTokens'
      BY <1>6 DEF Renewed, Issue, Unheld, Forget, NoFault, Fault
<1>7. ASSUME NEW t \in Threads, RenewedUnheard(t) PROVE OwnTokens'
      BY <1>7 DEF RenewedUnheard, Fault, Forget
<1>8. ASSUME NEW t \in Threads, RefreshRefused(t) PROVE OwnTokens'
      BY <1>8 DEF RefreshRefused, Forget
<1>9. ASSUME NEW t \in Threads, Unanswered(t) PROVE OwnTokens'
      BY <1>9 DEF Unanswered, Fault, Forget
<1>10. ASSUME NEW t \in Threads, Condemn(t) PROVE OwnTokens'
      BY <1>10 DEF Condemn
<1>11. ASSUME NEW t \in Threads, RefusedForGood(t) PROVE OwnTokens'
      BY <1>11 DEF RefusedForGood, MemoAndEnd, End
<1>12. ASSUME NEW t \in Threads, FailPassing(t) PROVE OwnTokens'
      BY <1>12 DEF FailPassing, MemoAndEnd, End
<1>13. ASSUME NEW t \in Threads, LoginAccepted(t) PROVE OwnTokens'
      BY <1>13 DEF LoginAccepted, Issue, Unheld, NoFault, Fault
<1>14. ASSUME NEW t \in Threads, LoginRejected(t) PROVE OwnTokens'
      BY <1>14 DEF LoginRejected
<1>15. ASSUME NEW t \in Threads, FailLogin(t) PROVE OwnTokens'
      BY <1>15 DEF FailLogin, MemoAndEnd, End
<1>16. ASSUME NEW t \in Threads, StoreAccess(t) PROVE OwnTokens'
      BY <1>16 DEF StoreAccess
<1>17. ASSUME NEW t \in Threads, StoreRefresh(t) PROVE OwnTokens'
      BY <1>17 DEF StoreRefresh
<1>18. ASSUME NEW t \in Threads, Memorise(t) PROVE OwnTokens'
      BY <1>18 DEF Memorise, MemoAndEnd, End, Success
<1>19. ASSUME NEW t \in Threads, BeginEnrol(t) PROVE OwnTokens'
      BY <1>19 DEF BeginEnrol
<1>20. ASSUME NEW t \in Threads, EnrolRefused(t) PROVE OwnTokens'
      BY <1>20 DEF EnrolRefused, End
<1>21. ASSUME NEW t \in Threads, StoreEmail(t) PROVE OwnTokens'
      BY <1>21 DEF StoreEmail
<1>22. ASSUME NEW t \in Threads, StorePassword(t) PROVE OwnTokens'
      BY <1>22 DEF StorePassword
<1>23. ASSUME NEW t \in Threads, BeginPaste(t) PROVE OwnTokens'
      BY <1>23 DEF BeginPaste, Unheld
<1>24. ASSUME NEW t \in Threads, PasteRefused(t) PROVE OwnTokens'
      BY <1>24 DEF PasteRefused, End
<1>25. CASE Expire
      BY <1>25 DEF Expire
<1>26. CASE Revoke
      BY <1>26 DEF Revoke, Fault
<1>27. CASE ChangeAccount
      BY <1>27 DEF ChangeAccount, Fault
<1>28. ASSUME NEW p \in Procs, Crash(p) PROVE OwnTokens'
      BY <1>28 DEF Crash, Fault
<1>29. CASE UNCHANGED vars
      BY <1>29 DEF vars
<1> QED BY <1>1, <1>2, <1>3, <1>4, <1>5, <1>6, <1>7, <1>8, <1>9, <1>10,
           <1>11, <1>12, <1>13, <1>14, <1>15, <1>16, <1>17, <1>18, <1>19, <1>20,
           <1>21, <1>22, <1>23, <1>24, <1>25, <1>26, <1>27, <1>28, <1>29
        DEF Next, Renewal, Form

\* A spent token in the database is replaced by the caller that spent it.
LEMMA ReplacedStep ==
  ASSUME OneLastingWorker, TypeOK, LockIsMine, GotClean, OwnTokens, SpentIsReplaced, [Next]_vars
  PROVE SpentIsReplaced'
<1> USE ProcAssumption, KindAssumption, NullAssumption, FaultAssumption
<1> USE DEF SpentIsReplaced, OwnTokens, Alone, IssuedTo, PastedBy, GotClean, Storing, LockIsMine, Inside,
            OneLastingWorker, TypeOK, Goto, shield, secrets, memory, Threads
<1>1. ASSUME NEW t \in Threads, Begin(t) PROVE SpentIsReplaced'
      BY <1>1 DEF Begin
<1>2. ASSUME NEW t \in Threads, Lock(t) PROVE SpentIsReplaced'
      BY <1>2 DEF Lock
<1>3. ASSUME NEW t \in Threads, AlreadyRenewed(t) PROVE SpentIsReplaced'
      BY <1>3 DEF AlreadyRenewed, End
<1>4. ASSUME NEW t \in Threads, NoRefresh(t) PROVE SpentIsReplaced'
      BY <1>4 DEF NoRefresh, End
<1>5. ASSUME NEW t \in Threads, Read(t) PROVE SpentIsReplaced'
      BY <1>5 DEF Read
<1>6. ASSUME NEW t \in Threads, Renewed(t) PROVE SpentIsReplaced'
      BY <1>6 DEF Renewed, Issue, Unheld, Forget, NoFault, Fault
<1>7. ASSUME NEW t \in Threads, RenewedUnheard(t) PROVE SpentIsReplaced'
      BY <1>7 DEF RenewedUnheard, Fault, Forget
<1>8. ASSUME NEW t \in Threads, RefreshRefused(t) PROVE SpentIsReplaced'
      BY <1>8 DEF RefreshRefused, Forget
<1>9. ASSUME NEW t \in Threads, Unanswered(t) PROVE SpentIsReplaced'
      BY <1>9 DEF Unanswered, Fault, Forget
<1>10. ASSUME NEW t \in Threads, Condemn(t) PROVE SpentIsReplaced'
      BY <1>10 DEF Condemn
<1>11. ASSUME NEW t \in Threads, RefusedForGood(t) PROVE SpentIsReplaced'
      BY <1>11 DEF RefusedForGood, MemoAndEnd, End
<1>12. ASSUME NEW t \in Threads, FailPassing(t) PROVE SpentIsReplaced'
      BY <1>12 DEF FailPassing, MemoAndEnd, End
<1>13. ASSUME NEW t \in Threads, LoginAccepted(t) PROVE SpentIsReplaced'
      BY <1>13 DEF LoginAccepted, Issue, Unheld, NoFault, Fault
<1>14. ASSUME NEW t \in Threads, LoginRejected(t) PROVE SpentIsReplaced'
      BY <1>14 DEF LoginRejected
<1>15. ASSUME NEW t \in Threads, FailLogin(t) PROVE SpentIsReplaced'
      BY <1>15 DEF FailLogin, MemoAndEnd, End
<1>16. ASSUME NEW t \in Threads, StoreAccess(t) PROVE SpentIsReplaced'
      BY <1>16 DEF StoreAccess
<1>17. ASSUME NEW t \in Threads, StoreRefresh(t) PROVE SpentIsReplaced'
      BY <1>17 DEF StoreRefresh
<1>18. ASSUME NEW t \in Threads, Memorise(t) PROVE SpentIsReplaced'
      BY <1>18 DEF Memorise, MemoAndEnd, End, Success
<1>19. ASSUME NEW t \in Threads, BeginEnrol(t) PROVE SpentIsReplaced'
      BY <1>19 DEF BeginEnrol
<1>20. ASSUME NEW t \in Threads, EnrolRefused(t) PROVE SpentIsReplaced'
      BY <1>20 DEF EnrolRefused, End
<1>21. ASSUME NEW t \in Threads, StoreEmail(t) PROVE SpentIsReplaced'
      BY <1>21 DEF StoreEmail
<1>22. ASSUME NEW t \in Threads, StorePassword(t) PROVE SpentIsReplaced'
      BY <1>22 DEF StorePassword
<1>23. ASSUME NEW t \in Threads, BeginPaste(t) PROVE SpentIsReplaced'
      BY <1>23 DEF BeginPaste, Unheld
<1>24. ASSUME NEW t \in Threads, PasteRefused(t) PROVE SpentIsReplaced'
      BY <1>24 DEF PasteRefused, End
<1>25. CASE Expire
      BY <1>25 DEF Expire
<1>26. CASE Revoke
      BY <1>26 DEF Revoke, Fault
<1>27. CASE ChangeAccount
      BY <1>27 DEF ChangeAccount, Fault
<1>28. ASSUME NEW p \in Procs, Crash(p) PROVE SpentIsReplaced'
      BY <1>28 DEF Crash, Fault
<1>29. CASE UNCHANGED vars
      BY <1>29 DEF vars
<1> QED BY <1>1, <1>2, <1>3, <1>4, <1>5, <1>6, <1>7, <1>8, <1>9, <1>10,
           <1>11, <1>12, <1>13, <1>14, <1>15, <1>16, <1>17, <1>18, <1>19, <1>20,
           <1>21, <1>22, <1>23, <1>24, <1>25, <1>26, <1>27, <1>28, <1>29
        DEF Next, Renewal, Form

\* What is read under the lock is not spent, and nobody else spends it.
LEMMA SpentStep ==
  ASSUME OneLastingWorker, TypeOK, LockIsMine, GotClean, OwnTokens, SpentIsReplaced, SpentNeverPresented, [Next]_vars
  PROVE SpentNeverPresented'
<1> USE ProcAssumption, KindAssumption, NullAssumption, FaultAssumption
<1> USE DEF SpentNeverPresented, SpentIsReplaced, OwnTokens, Alone, PastedBy, LockIsMine, Inside,
            OneLastingWorker, TypeOK, Goto, shield, secrets, memory, Threads
<1>1. ASSUME NEW t \in Threads, Begin(t) PROVE SpentNeverPresented'
      BY <1>1 DEF Begin
<1>2. ASSUME NEW t \in Threads, Lock(t) PROVE SpentNeverPresented'
      BY <1>2 DEF Lock
<1>3. ASSUME NEW t \in Threads, AlreadyRenewed(t) PROVE SpentNeverPresented'
      BY <1>3 DEF AlreadyRenewed, End
<1>4. ASSUME NEW t \in Threads, NoRefresh(t) PROVE SpentNeverPresented'
      BY <1>4 DEF NoRefresh, End
<1>5. ASSUME NEW t \in Threads, Read(t) PROVE SpentNeverPresented'
      BY <1>5 DEF Read
<1>6. ASSUME NEW t \in Threads, Renewed(t) PROVE SpentNeverPresented'
      BY <1>6 DEF Renewed, Issue, Unheld, Forget, NoFault, Fault
<1>7. ASSUME NEW t \in Threads, RenewedUnheard(t) PROVE SpentNeverPresented'
      BY <1>7 DEF RenewedUnheard, Fault, Forget
<1>8. ASSUME NEW t \in Threads, RefreshRefused(t) PROVE SpentNeverPresented'
      BY <1>8 DEF RefreshRefused, Forget
<1>9. ASSUME NEW t \in Threads, Unanswered(t) PROVE SpentNeverPresented'
      BY <1>9 DEF Unanswered, Fault, Forget
<1>10. ASSUME NEW t \in Threads, Condemn(t) PROVE SpentNeverPresented'
      BY <1>10 DEF Condemn
<1>11. ASSUME NEW t \in Threads, RefusedForGood(t) PROVE SpentNeverPresented'
      BY <1>11 DEF RefusedForGood, MemoAndEnd, End
<1>12. ASSUME NEW t \in Threads, FailPassing(t) PROVE SpentNeverPresented'
      BY <1>12 DEF FailPassing, MemoAndEnd, End
<1>13. ASSUME NEW t \in Threads, LoginAccepted(t) PROVE SpentNeverPresented'
      BY <1>13 DEF LoginAccepted, Issue, Unheld, NoFault, Fault
<1>14. ASSUME NEW t \in Threads, LoginRejected(t) PROVE SpentNeverPresented'
      BY <1>14 DEF LoginRejected
<1>15. ASSUME NEW t \in Threads, FailLogin(t) PROVE SpentNeverPresented'
      BY <1>15 DEF FailLogin, MemoAndEnd, End
<1>16. ASSUME NEW t \in Threads, StoreAccess(t) PROVE SpentNeverPresented'
      BY <1>16 DEF StoreAccess
<1>17. ASSUME NEW t \in Threads, StoreRefresh(t) PROVE SpentNeverPresented'
      BY <1>17 DEF StoreRefresh
<1>18. ASSUME NEW t \in Threads, Memorise(t) PROVE SpentNeverPresented'
      BY <1>18 DEF Memorise, MemoAndEnd, End, Success
<1>19. ASSUME NEW t \in Threads, BeginEnrol(t) PROVE SpentNeverPresented'
      BY <1>19 DEF BeginEnrol
<1>20. ASSUME NEW t \in Threads, EnrolRefused(t) PROVE SpentNeverPresented'
      BY <1>20 DEF EnrolRefused, End
<1>21. ASSUME NEW t \in Threads, StoreEmail(t) PROVE SpentNeverPresented'
      BY <1>21 DEF StoreEmail
<1>22. ASSUME NEW t \in Threads, StorePassword(t) PROVE SpentNeverPresented'
      BY <1>22 DEF StorePassword
<1>23. ASSUME NEW t \in Threads, BeginPaste(t) PROVE SpentNeverPresented'
      BY <1>23 DEF BeginPaste, Unheld
<1>24. ASSUME NEW t \in Threads, PasteRefused(t) PROVE SpentNeverPresented'
      BY <1>24 DEF PasteRefused, End
<1>25. CASE Expire
      BY <1>25 DEF Expire
<1>26. CASE Revoke
      BY <1>26 DEF Revoke, Fault
<1>27. CASE ChangeAccount
      BY <1>27 DEF ChangeAccount, Fault
<1>28. ASSUME NEW p \in Procs, Crash(p) PROVE SpentNeverPresented'
      BY <1>28 DEF Crash, Fault
<1>29. CASE UNCHANGED vars
      BY <1>29 DEF vars
<1> QED BY <1>1, <1>2, <1>3, <1>4, <1>5, <1>6, <1>7, <1>8, <1>9, <1>10,
           <1>11, <1>12, <1>13, <1>14, <1>15, <1>16, <1>17, <1>18, <1>19, <1>20,
           <1>21, <1>22, <1>23, <1>24, <1>25, <1>26, <1>27, <1>28, <1>29
        DEF Next, Renewal, Form

-----------------------------------------------------------------------------
IInv ==
  /\ TypeOK /\ PresentsToken
  /\ LockIsMine /\ GotClean /\ OwnTokens /\ SpentIsReplaced /\ SpentNeverPresented

\* The invariant holds initially: nothing is spent, nobody holds a token.
LEMMA InitInv == Init => IInv
<1> USE ProcAssumption, KindAssumption, NullAssumption
<1> SUFFICES ASSUME Init PROVE IInv
    OBVIOUS
<1>1. TypeOK
      BY TypeInit
<1>2. spent = {}
      BY DEF Init
<1>3. PresentsToken /\ LockIsMine /\ GotClean
      BY DEF Init, PresentsToken, LockIsMine, GotClean, Storing, Inside, Threads
<1>4. OwnTokens
      BY DEF Init, OwnTokens, IssuedTo, PastedBy, Storing
<1>5. SpentIsReplaced /\ SpentNeverPresented
      BY <1>2 DEF SpentIsReplaced, SpentNeverPresented
<1> QED BY <1>1, <1>3, <1>4, <1>5 DEF IInv

\* The threads of one worker that does not crash never present a refresh token
\* that Shield has exchanged, whatever the administrators' forms store meanwhile
\* and however often renewals are forced.
THEOREM NeverTwice ==
  ASSUME OneLastingWorker PROVE Spec => []SpentNeverPresented
<1>1. IInv /\ [Next]_vars => IInv'
      BY TypeStep, PresentStep, LockStep, GotStep, OwnStep, ReplacedStep, SpentStep DEF IInv
<1>2. IInv => SpentNeverPresented
      BY DEF IInv
<1> QED BY InitInv, <1>1, <1>2, PTL DEF Spec
-----------------------------------------------------------------------------
\* While no two threads are under way at once, the database is as the one under way read it, and what it writes
\* there is true: it presents the token stored, a token received or pasted was never refused, and a refusal is
\* written down or about to be.  Unless a form condemned a token it had not tried, a condemned token and the one
\* that a login replaces are dead.
FaithfulMemory(t) ==
  /\ pc[t] \notin Waiting \cup {"read"} => conf[t] = config
  /\ pc[t] = "present" => /\ held[t] = dRefresh
                          /\ ~(config.condemned /\ config.email /\ dPassword)
  /\ pc[t] \in {"access", "refresh", "memo"} => how[t] # None
  /\ got[t] # NoToken => got[t] \notin refused
  /\ pc[t] = "memo" /\ got[t] # NoToken => dRefresh = got[t]
  /\ pc[t] = "paste" \/ (pc[t] \in {"access", "refresh"} /\ how[t] = "deposit") => held[t] \notin refused
  /\ pc[t] = "memo" /\ how[t] = "deposit" => dRefresh \notin refused

Replaces(t) ==
  \/ pc[t] \in {"refused", "login", "denied", "challenged"}
  \/ pc[t] \in {"access", "refresh"} /\ how[t] = "login"
  \/ pc[t] = "memo" /\ how[t] = "login" /\ got[t] = NoToken
DeadIfReplaced == ~marks.assumed => \A t \in Callers : Replaces(t) => dRefresh \notin fresh

DeadIfSaid ==
  /\ config.condemned \/ config.cause = "refresh_refuse"
  /\ \A t \in Threads : pc[t] = "memo" => got[t] = NoToken /\ how[t] # "deposit"
  /\ ~marks.assumed
  => dRefresh \notin fresh

RefusalWritten ==
  dRefresh \in refused /\ config.email /\ dPassword
    => \/ config.condemned
       \/ \E t \in Threads : \/ pc[t] = "refused"
                             \/ pc[t] \in {"password", "access", "refresh", "memo"} /\ how[t] = "login"

OneAtATime == \A t, u \in Threads : t # u /\ pc[t] \notin Waiting => pc[u] \in Waiting

Faithful ==
  ~marks.overlap => /\ OneAtATime /\ \A t \in Threads : FaithfulMemory(t)
                    /\ DeadIfReplaced /\ DeadIfSaid /\ RefusalWritten

\* No worker crashes; there may be any number of them.
NoCrash == "crash" \notin Disruptions

\* No step of a form or of a renewal unsays what is written, and the verdict on the account is only lifted by the
\* memo of a login.
VerdictLifted ==
  config.verdict # None /\ config'.verdict = None => \E t \in Threads : pc[t] = "memo" /\ how[t] = "login"

\* A step, where nothing overlaps, keeps the session faithful and lifts the verdict only by the memo of a login.
LEMMA FaithfulStep ==
  ASSUME NoCrash, TypeOK, LockIsMine, GotClean, Faithful, [Next]_vars, ~marks'.overlap
  PROVE  ~marks.overlap /\ Faithful' /\ VerdictLifted
<1> USE ProcAssumption, KindAssumption, NullAssumption
<1>0. ~marks.overlap
  <2>1. CASE UNCHANGED vars
    BY <2>1 DEF vars
  <2>2. CASE Next
    BY <2>2 DEF TypeOK, Next, Renewal, Form, Begin, Lock, AlreadyRenewed, NoRefresh, Read, Renewed, RenewedUnheard,
        RefreshRefused, Unanswered, Condemn, RefusedForGood, FailPassing, LoginAccepted, LoginRejected, FailLogin,
        StoreAccess, StoreRefresh, Memorise, Enters,
        MemoAndEnd, BeginEnrol, EnrolRefused, StoreEmail, StorePassword, BeginPaste, PasteRefused, Expire, Revoke,
        ChangeAccount, Crash
  <2> QED BY <2>1, <2>2
<1>a. OneAtATime /\ (\A t \in Threads : FaithfulMemory(t)) /\ DeadIfReplaced /\ DeadIfSaid /\ RefusalWritten
  BY <1>0 DEF Faithful
<1> USE <1>a
<1> DEFINE Kept == OneAtATime' /\ (\A u \in Threads : FaithfulMemory(u)') /\ DeadIfReplaced' /\ DeadIfSaid'
                   /\ RefusalWritten' /\ VerdictLifted
<1> USE DEF FaithfulMemory, DeadIfReplaced, Replaces, DeadIfSaid, RefusalWritten, OneAtATime, VerdictLifted, Waiting,
            LockIsMine, GotClean, Storing, TypeOK, Configs, Goto, shield, secrets, memory, Threads
<1>1. ASSUME NEW t \in Threads, Begin(t) PROVE Kept
  BY <1>1 DEF Begin
<1>2. ASSUME NEW t \in Threads, Lock(t) PROVE Kept
  BY <1>2 DEF Lock, Enters
<1>3. ASSUME NEW t \in Threads, AlreadyRenewed(t) PROVE Kept
  BY <1>3 DEF AlreadyRenewed, End
<1>4. ASSUME NEW t \in Threads, NoRefresh(t) PROVE Kept
  BY <1>4 DEF NoRefresh, End
<1>5. ASSUME NEW t \in Threads, Read(t) PROVE Kept
  BY <1>5 DEF Read
<1>6. ASSUME NEW t \in Threads, Renewed(t) PROVE Kept
  BY <1>6 DEF Renewed, Issue, Unheld, Forget, NoFault, Fault, None
<1>7. ASSUME NEW t \in Threads, RenewedUnheard(t) PROVE Kept
  BY <1>7 DEF RenewedUnheard, Fault, Forget
<1>8. ASSUME NEW t \in Threads, RefreshRefused(t) PROVE Kept
  BY <1>8 DEF RefreshRefused, Forget
<1>9. ASSUME NEW t \in Threads, Unanswered(t) PROVE Kept
  BY <1>9 DEF Unanswered, Fault, Forget
<1>10. ASSUME NEW t \in Threads, Condemn(t) PROVE Kept
  BY <1>10 DEF Condemn
<1>11. ASSUME NEW t \in Threads, RefusedForGood(t) PROVE Kept
  BY <1>11 DEF RefusedForGood, MemoAndEnd, End, Service
<1>12. ASSUME NEW t \in Threads, FailPassing(t) PROVE Kept
  BY <1>12 DEF FailPassing, MemoAndEnd, End
<1>13. ASSUME NEW t \in Threads, LoginAccepted(t) PROVE Kept
  BY <1>13 DEF LoginAccepted, Issue, Unheld, NoFault, Fault, None
<1>14. ASSUME NEW t \in Threads, LoginRejected(t) PROVE Kept
  BY <1>14 DEF LoginRejected
<1>15. ASSUME NEW t \in Threads, FailLogin(t) PROVE Kept
  BY <1>15 DEF FailLogin, MemoAndEnd, End, None, Verdicts, Causes
<1>16. ASSUME NEW t \in Threads, StoreAccess(t) PROVE Kept
  BY <1>16 DEF StoreAccess
<1>17. ASSUME NEW t \in Threads, StoreRefresh(t) PROVE Kept
  BY <1>17 DEF StoreRefresh
<1>18. ASSUME NEW t \in Threads, Memorise(t) PROVE Kept
  <2>1. /\ pc[t] = "memo" /\ pc' = [pc EXCEPT ![t] = "idle"] /\ got' = [got EXCEPT ![t] = NoToken]
        /\ config' = Success(t) /\ conf[t] = config
        /\ UNCHANGED <<fresh, refused, dRefresh, dPassword>>
    BY <1>18 DEF Memorise, MemoAndEnd, End
  <2>2. config'.cause = None /\ config'.email = config.email
    BY <2>1 DEF Success
  <2>3. config'.condemned = IF got[t] # NoToken THEN FALSE
                            ELSE how[t] = "login" \/ (how[t] = "refresh" /\ config.condemned)
    BY <2>1 DEF Success
  <2>4. config'.verdict = IF how[t] = "login" THEN None ELSE config.verdict
    BY <2>1 DEF Success
  <2>5. \A u \in Threads : pc'[u] \in Waiting /\ got'[u] = NoToken
    BY <2>1
  <2>6. OneAtATime' /\ VerdictLifted
    BY <2>1, <2>4, <2>5
  <2>7. /\ \A u \in Threads : FaithfulMemory(u)'
        /\ DeadIfReplaced'
    BY <2>5
  <2>8. DeadIfSaid'
    <3>1. ~marks'.assumed => ~marks.assumed /\ ~(t \in Admins /\ Success(t).condemned /\ dRefresh \in fresh)
      BY <1>18 DEF Memorise
    <3> QED BY <2>1, <2>2, <2>3, <3>1 DEF None
  <2>9. RefusalWritten'
    <3>1. CASE got[t] # NoToken \/ how[t] = "deposit"
      BY <2>1, <3>1
    <3>2. CASE got[t] = NoToken /\ how[t] = "login"
      BY <2>3, <3>2
    <3>3. CASE got[t] = NoToken /\ how[t] = "refresh"
      <4>1. \A u \in Threads : u = t \/ pc[u] \in Waiting
        BY <2>1
      <4>2. dRefresh \in refused /\ config.email /\ dPassword => config.condemned
        BY <2>1, <3>3, <4>1
      <4> QED BY <2>1, <2>2, <2>3, <3>3, <4>2
    <3> QED BY <2>1, <3>1, <3>2, <3>3 DEF None
  <2> QED BY <2>6, <2>7, <2>8, <2>9
<1>19. ASSUME NEW t \in Threads, BeginEnrol(t) PROVE Kept
  BY <1>19 DEF BeginEnrol, Enters
<1>20. ASSUME NEW t \in Threads, EnrolRefused(t) PROVE Kept
  BY <1>20 DEF EnrolRefused, End
<1>21. ASSUME NEW t \in Threads, StoreEmail(t) PROVE Kept
  BY <1>21 DEF StoreEmail
<1>22. ASSUME NEW t \in Threads, StorePassword(t) PROVE Kept
  BY <1>22 DEF StorePassword, None
<1>23. ASSUME NEW t \in Threads, BeginPaste(t) PROVE Kept
  BY <1>23 DEF BeginPaste, Enters, Unheld
<1>24. ASSUME NEW t \in Threads, PasteRefused(t) PROVE Kept
  BY <1>24 DEF PasteRefused, End
<1>25. ASSUME Expire PROVE Kept
  BY <1>25 DEF Expire
<1>26. ASSUME Revoke PROVE Kept
  BY <1>26 DEF Revoke, Fault
<1>27. ASSUME ChangeAccount PROVE Kept
  BY <1>27 DEF ChangeAccount, Fault
<1>28. ASSUME NEW p \in Procs, Crash(p) PROVE Kept
  BY <1>28 DEF Crash, Fault, NoCrash
<1>29. ASSUME UNCHANGED vars PROVE Kept
  BY <1>29 DEF vars
<1>30. Kept
  BY <1>1, <1>2, <1>3, <1>4, <1>5, <1>6, <1>7, <1>8, <1>9, <1>10, <1>11, <1>12, <1>13, <1>14, <1>15, <1>16, <1>17,
     <1>18, <1>19, <1>20, <1>21, <1>22, <1>23, <1>24, <1>25, <1>26, <1>27, <1>28, <1>29 DEF Next, Renewal, Form
<1> QED BY <1>0, <1>30 DEF Faithful

\* The invariant: it holds initially, and asks nothing once two threads have been under way at once.
FaithfulInv == TypeOK /\ PresentsToken /\ LockIsMine /\ GotClean /\ Faithful

\* The session starts faithful.
LEMMA FaithfulInit == Init => FaithfulInv
<1> USE ProcAssumption, KindAssumption, NullAssumption
<1> SUFFICES ASSUME Init PROVE FaithfulInv
  OBVIOUS
<1>1. TypeOK /\ PresentsToken /\ LockIsMine /\ GotClean
  BY InitInv DEF IInv
<1>2. /\ refused = {} /\ config.condemned = FALSE /\ config.cause = None
      /\ \A t \in Threads : pc[t] = "idle" /\ got[t] = NoToken
  BY DEF Init, NoConfig
<1>3. OneAtATime /\ (\A t \in Threads : FaithfulMemory(t)) /\ DeadIfReplaced
  BY <1>2 DEF OneAtATime, FaithfulMemory, DeadIfReplaced, Replaces, Threads, Waiting
<1>4. DeadIfSaid /\ RefusalWritten
  BY <1>2 DEF DeadIfSaid, RefusalWritten, None
<1> QED BY <1>1, <1>3, <1>4 DEF FaithfulInv, Faithful

\* Without crashes, the session stays faithful.
LEMMA FaithfulTenu == ASSUME NoCrash PROVE Spec => []FaithfulInv
<1>1. FaithfulInv /\ [Next]_vars => FaithfulInv'
  <2> SUFFICES ASSUME FaithfulInv, [Next]_vars PROVE FaithfulInv'
    OBVIOUS
  <2>1. TypeOK' /\ PresentsToken' /\ LockIsMine' /\ GotClean'
    BY TypeStep, PresentStep, LockStep, GotStep DEF FaithfulInv
  <2>2. ~marks'.overlap => Faithful'
    BY FaithfulStep DEF FaithfulInv
  <2> QED BY <2>1, <2>2 DEF FaithfulInv, Faithful
<1> QED BY FaithfulInit, <1>1, PTL DEF Spec

\* As long as no two threads are under way at once, of one worker or of several, a refresh token that Shield has
\* refused is not presented again once a service account can log in: the refusal is written before the login is
\* tried, and only a new token lifts it (shield_auth.py: _renouveler_sous_verrou, _memoriser).
THEOREM RefusalIsRemembered ==
  ASSUME NoCrash PROVE Spec => []RefusalRemembered
<1>1. FaithfulInv => RefusalRemembered
  <2> SUFFICES ASSUME FaithfulInv, ~marks.overlap, NEW t \in Callers, pc[t] = "present", Service(t)
               PROVE  held[t] \notin refused
    BY DEF RefusalRemembered
  <2>1. t \in Threads /\ FaithfulMemory(t) /\ OneAtATime /\ RefusalWritten
    BY DEF FaithfulInv, Faithful, Threads
  <2>2. \A u \in Threads : u = t \/ pc[u] \in Waiting
    BY <2>1 DEF OneAtATime, Waiting
  <2>3. held[t] = dRefresh /\ config.email /\ dPassword /\ ~config.condemned
    BY <2>1 DEF FaithfulMemory, Service, Waiting
  <2>4. \A u \in Threads : pc[u] \notin {"refused", "password", "access", "refresh", "memo"}
    BY <2>2 DEF Waiting
  <2> QED BY <2>1, <2>3, <2>4 DEF RefusalWritten
<1> QED BY <1>1, FaithfulTenu, PTL

\* And between two renewals the token that the connector says is dead is dead: a live one is never given up, but
\* by the form that registers an account and condemns it unread.
THEOREM CondemnedIsReallyDead ==
  ASSUME NoCrash PROVE Spec => []CondemnedIsDead
<1>1. FaithfulInv => CondemnedIsDead
  BY DEF FaithfulInv, Faithful, DeadIfSaid, CondemnedIsDead
<1> QED BY <1>1, FaithfulTenu, PTL

\* The verdict on the service account is lifted by the memo of a login and by nothing else: neither a passing
\* failure nor a refresh that goes through forgets it.
THEOREM VerdictLasts ==
  ASSUME NoCrash PROVE Spec => VerdictDurable
<1>1. FaithfulInv /\ [Next]_vars =>
        [config.verdict # None /\ config'.verdict = None /\ ~marks.overlap
           => \E t \in Threads : pc[t] = "memo" /\ how[t] = "login"]_vars
  <2> SUFFICES ASSUME FaithfulInv, [Next]_vars, ~marks.overlap, config.verdict # None, config'.verdict = None
               PROVE  \E t \in Threads : pc[t] = "memo" /\ how[t] = "login"
    OBVIOUS
  <2>1. CASE ~marks'.overlap
    BY <2>1, FaithfulStep DEF FaithfulInv, VerdictLifted
  <2>2. CASE marks'.overlap
    <3>1. config' = config
      <4>1. CASE UNCHANGED vars
        BY <4>1 DEF vars
      <4>2. CASE Next
        BY <2>2, <4>2 DEF FaithfulInv, TypeOK, Next, Renewal, Form, Begin, Lock, AlreadyRenewed, NoRefresh, Read,
             Renewed, RenewedUnheard, RefreshRefused, Unanswered, Condemn, RefusedForGood, FailPassing, LoginAccepted,
             LoginRejected, FailLogin, StoreAccess, StoreRefresh, Memorise, MemoAndEnd, BeginEnrol, EnrolRefused,
             StoreEmail, StorePassword, BeginPaste, PasteRefused, Expire, Revoke, ChangeAccount, Crash
      <4> QED BY <4>1, <4>2
    <3> QED BY <3>1
  <2> QED BY <2>1, <2>2
<1> QED BY <1>1, FaithfulTenu, PTL DEF Spec, VerdictDurable
=============================================================================
