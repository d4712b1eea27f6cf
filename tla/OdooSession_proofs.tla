------------------------ MODULE OdooSession_proofs -------------------------
(***************************************************************************)
(* Proofs about OdooSession, for any processes, threads and disruptions.   *)
(***************************************************************************)
EXTENDS OdooSession, TLAPS

Holding == {"auth", "flying", "abort", "release"}
Before == {"idle", "look", "cool", "lock", "recheck", "add", "wait", "auth"}

\* The thread inside the process lock is the one the lock was given to.
LockIsMine == \A t \in Threads : pc[t] \in Inside => mutex[ProcOf[t]] = t

\* A uid put there under the lock is in the process, and a thread about to
\* authenticate has seen that there is none.
OwnIsKnown ==
  /\ \A p \in Procs : own[p] => lUid[p] # NoUid
  /\ \A t \in Threads : pc[t] \in {"add", "wait", "auth"} => ~own[ProcOf[t]]
  /\ \A t \in Threads : pc[t] \in {"release", "publish", "prime"} => used[t] # NoUid

\* authenticate is called at most once before the replay and once in it.
Attempts(t) == IF retried[t] THEN 1 ELSE 0
Counted ==
  \A t \in Threads :
    /\ auths[t] <= 1 + Attempts(t)
    /\ pc[t] \in Before => auths[t] <= Attempts(t)
    /\ pc[t] = "drop" => ~retried[t]

\* The thread that was given the shared lock has set it, and is alone.
SharedLock ==
  /\ up
  /\ \A t \in Threads : pc[t] \in Holding => sLock
  /\ \A t, u \in Threads : pc[t] \in Holding /\ pc[u] \in Holding => t = u

IInv == TypeOK /\ LockIsMine /\ OwnIsKnown /\ Counted

-----------------------------------------------------------------------------
\* The inductive invariant holds initially.
LEMMA InitInv == Init => IInv
<1> USE ProcAssumption, NullAssumption, UidAssumption
<1> SUFFICES ASSUME Init PROVE IInv
    OBVIOUS
<1>1. TypeOK
      BY DEF Init, TypeOK, Steps
<1>2. LockIsMine
      BY DEF Init, LockIsMine, Inside
<1>3. Counted /\ OwnIsKnown
      BY DEF Init, Counted, Before, Attempts, OwnIsKnown
<1> QED BY <1>1, <1>2, <1>3 DEF IInv

\* Every step keeps the variables in their types.
LEMMA TypeStep == TypeOK /\ [Next]_vars => TypeOK'
<1> USE ProcAssumption, NullAssumption, UidAssumption
<1> SUFFICES ASSUME TypeOK, [Next]_vars PROVE TypeOK'
    OBVIOUS
<1> USE DEF TypeOK, Steps, Inside, Final, Goto, LeaveLock, Keep, odoo, redis, local, thread
<1>1. ASSUME NEW t \in Threads, Begin(t) \/ Verify(t) PROVE TypeOK'
      BY <1>1 DEF Begin, Verify
<1>2. ASSUME NEW t \in Threads, Look(t) PROVE TypeOK'
      BY <1>2 DEF Look, Adopt, KnownUid
<1>3. ASSUME NEW t \in Threads, Cool(t) \/ Lock(t) PROVE TypeOK'
      BY <1>3 DEF Cool, Lock
<1>4. ASSUME NEW t \in Threads, Recheck(t) PROVE TypeOK'
      BY <1>4 DEF Recheck, Adopt, KnownUid
<1>5. ASSUME NEW t \in Threads, Add(t) PROVE TypeOK'
      BY <1>5 DEF Add
<1>6. ASSUME NEW t \in Threads, Poll(t) PROVE TypeOK'
      BY <1>6 DEF Poll
<1>7. ASSUME NEW t \in Threads, GiveUp(t) \/ Authenticate(t) PROVE TypeOK'
      BY <1>7 DEF GiveUp, Authenticate
<1>8. ASSUME NEW t \in Threads, Refused(t) PROVE TypeOK'
      BY <1>8 DEF Refused
<1>9. ASSUME NEW t \in Threads, Unreachable(t) \/ Accepted(t) PROVE TypeOK'
      BY <1>9 DEF Unreachable, Accepted
<1>10. ASSUME NEW t \in Threads, Abort(t) \/ Release(t) PROVE TypeOK'
      BY <1>10 DEF Abort, Release
<1>11. ASSUME NEW t \in Threads, Publish(t) PROVE TypeOK'
      BY <1>11 DEF Publish, Overtake
<1>12. ASSUME NEW t \in Threads, Call(t) PROVE TypeOK'
      BY <1>12 DEF Call
<1>13. ASSUME NEW t \in Threads, Drop(t) PROVE TypeOK'
      BY <1>13 DEF Drop
<1>14. ASSUME NEW t \in Threads, Prime(t) PROVE TypeOK'
      BY <1>14 DEF Prime, Overtake
<1>15. ASSUME NEW t \in Threads, Share(t) PROVE TypeOK'
      BY <1>15 DEF Share
<1>16. CASE SwitchAccount \/ RecreateAccount \/ ExpireLock \/ SwitchCache
      BY <1>16 DEF SwitchAccount, RecreateAccount, ExpireLock, SwitchCache
<1>17. CASE Expire
      BY <1>17 DEF Expire
<1>18. ASSUME NEW p \in Procs, Crash(p) PROVE TypeOK'
      BY <1>18 DEF Crash
<1>19. CASE UNCHANGED vars
      BY <1>19 DEF vars
<1> QED BY <1>1, <1>2, <1>3, <1>4, <1>5, <1>6, <1>7, <1>8, <1>9, <1>10, <1>11, <1>12,
           <1>13, <1>14, <1>15, <1>16, <1>17, <1>18, <1>19
        DEF Next, RequestStep, AdminStep, Environment

\* Only the thread that was given the process lock moves inside it.
LEMMA LockStep == TypeOK /\ LockIsMine /\ [Next]_vars => LockIsMine'
<1> USE ProcAssumption, NullAssumption, UidAssumption
<1> SUFFICES ASSUME TypeOK, LockIsMine, [Next]_vars PROVE LockIsMine'
    OBVIOUS
<1> USE DEF LockIsMine, TypeOK, Steps, Inside, Final, Goto, LeaveLock, Keep, odoo, redis, local, thread
<1>1. ASSUME NEW t \in Threads, Begin(t) \/ Verify(t) PROVE LockIsMine'
      BY <1>1 DEF Begin, Verify
<1>2. ASSUME NEW t \in Threads, Look(t) PROVE LockIsMine'
      BY <1>2 DEF Look, Adopt, KnownUid
<1>3. ASSUME NEW t \in Threads, Cool(t) \/ Lock(t) PROVE LockIsMine'
      BY <1>3 DEF Cool, Lock
<1>4. ASSUME NEW t \in Threads, Recheck(t) PROVE LockIsMine'
      BY <1>4 DEF Recheck, Adopt, KnownUid
<1>5. ASSUME NEW t \in Threads, Add(t) PROVE LockIsMine'
      BY <1>5 DEF Add
<1>6. ASSUME NEW t \in Threads, Poll(t) PROVE LockIsMine'
      BY <1>6 DEF Poll
<1>7. ASSUME NEW t \in Threads, GiveUp(t) \/ Authenticate(t) PROVE LockIsMine'
      BY <1>7 DEF GiveUp, Authenticate
<1>8. ASSUME NEW t \in Threads, Refused(t) PROVE LockIsMine'
      BY <1>8 DEF Refused
<1>9. ASSUME NEW t \in Threads, Unreachable(t) \/ Accepted(t) PROVE LockIsMine'
      BY <1>9 DEF Unreachable, Accepted
<1>10. ASSUME NEW t \in Threads, Abort(t) \/ Release(t) PROVE LockIsMine'
      BY <1>10 DEF Abort, Release
<1>11. ASSUME NEW t \in Threads, Publish(t) PROVE LockIsMine'
      BY <1>11 DEF Publish, Overtake
<1>12. ASSUME NEW t \in Threads, Call(t) PROVE LockIsMine'
      BY <1>12 DEF Call
<1>13. ASSUME NEW t \in Threads, Drop(t) PROVE LockIsMine'
      BY <1>13 DEF Drop
<1>14. ASSUME NEW t \in Threads, Prime(t) PROVE LockIsMine'
      BY <1>14 DEF Prime, Overtake
<1>15. ASSUME NEW t \in Threads, Share(t) PROVE LockIsMine'
      BY <1>15 DEF Share
<1>16. CASE SwitchAccount \/ RecreateAccount \/ ExpireLock \/ SwitchCache
      BY <1>16 DEF SwitchAccount, RecreateAccount, ExpireLock, SwitchCache
<1>17. CASE Expire
      BY <1>17 DEF Expire
<1>18. ASSUME NEW p \in Procs, Crash(p) PROVE LockIsMine'
      BY <1>18 DEF Crash
<1>19. CASE UNCHANGED vars
      BY <1>19 DEF vars
<1> QED BY <1>1, <1>2, <1>3, <1>4, <1>5, <1>6, <1>7, <1>8, <1>9, <1>10, <1>11, <1>12,
           <1>13, <1>14, <1>15, <1>16, <1>17, <1>18, <1>19
        DEF Next, RequestStep, AdminStep, Environment

\* A uid obtained under the lock is seen by whoever holds the lock next.
LEMMA OwnStep == TypeOK /\ LockIsMine /\ OwnIsKnown /\ [Next]_vars => OwnIsKnown'
<1> USE ProcAssumption, NullAssumption, UidAssumption
<1> SUFFICES ASSUME TypeOK, LockIsMine, OwnIsKnown, [Next]_vars PROVE OwnIsKnown'
    OBVIOUS
<1> USE DEF LockIsMine, OwnIsKnown, TypeOK, Steps, Inside, Final, Goto, LeaveLock, Keep, odoo, redis, local, thread
<1>1. ASSUME NEW t \in Threads, Begin(t) \/ Verify(t) PROVE OwnIsKnown'
      BY <1>1 DEF Begin, Verify
<1>2. ASSUME NEW t \in Threads, Look(t) PROVE OwnIsKnown'
      BY <1>2 DEF Look, Adopt, KnownUid
<1>3. ASSUME NEW t \in Threads, Cool(t) \/ Lock(t) PROVE OwnIsKnown'
      BY <1>3 DEF Cool, Lock
<1>4. ASSUME NEW t \in Threads, Recheck(t) PROVE OwnIsKnown'
      BY <1>4 DEF Recheck, Adopt, KnownUid
<1>5. ASSUME NEW t \in Threads, Add(t) PROVE OwnIsKnown'
      BY <1>5 DEF Add
<1>6. ASSUME NEW t \in Threads, Poll(t) PROVE OwnIsKnown'
      BY <1>6 DEF Poll
<1>7. ASSUME NEW t \in Threads, GiveUp(t) \/ Authenticate(t) PROVE OwnIsKnown'
      BY <1>7 DEF GiveUp, Authenticate
<1>8. ASSUME NEW t \in Threads, Refused(t) PROVE OwnIsKnown'
      BY <1>8 DEF Refused
<1>9. ASSUME NEW t \in Threads, Unreachable(t) \/ Accepted(t) PROVE OwnIsKnown'
      BY <1>9 DEF Unreachable, Accepted
<1>10. ASSUME NEW t \in Threads, Abort(t) \/ Release(t) PROVE OwnIsKnown'
      BY <1>10 DEF Abort, Release
<1>11. ASSUME NEW t \in Threads, Publish(t) PROVE OwnIsKnown'
      BY <1>11 DEF Publish, Overtake
<1>12. ASSUME NEW t \in Threads, Call(t) PROVE OwnIsKnown'
      BY <1>12 DEF Call
<1>13. ASSUME NEW t \in Threads, Drop(t) PROVE OwnIsKnown'
      BY <1>13 DEF Drop
<1>14. ASSUME NEW t \in Threads, Prime(t) PROVE OwnIsKnown'
      BY <1>14 DEF Prime, Overtake
<1>15. ASSUME NEW t \in Threads, Share(t) PROVE OwnIsKnown'
      BY <1>15 DEF Share
<1>16. CASE SwitchAccount \/ RecreateAccount \/ ExpireLock \/ SwitchCache
      BY <1>16 DEF SwitchAccount, RecreateAccount, ExpireLock, SwitchCache
<1>17. CASE Expire
      BY <1>17 DEF Expire
<1>18. ASSUME NEW p \in Procs, Crash(p) PROVE OwnIsKnown'
      BY <1>18 DEF Crash
<1>19. CASE UNCHANGED vars
      BY <1>19 DEF vars
<1> QED BY <1>1, <1>2, <1>3, <1>4, <1>5, <1>6, <1>7, <1>8, <1>9, <1>10, <1>11, <1>12,
           <1>13, <1>14, <1>15, <1>16, <1>17, <1>18, <1>19
        DEF Next, RequestStep, AdminStep, Environment

\* Every authenticate is paid for by the first try or by the replay.
LEMMA CountStep == TypeOK /\ Counted /\ [Next]_vars => Counted'
<1> USE ProcAssumption, NullAssumption, UidAssumption
<1> SUFFICES ASSUME TypeOK, Counted, [Next]_vars PROVE Counted'
    OBVIOUS
<1> USE DEF Counted, Before, Attempts, TypeOK, Steps, Inside, Final, Goto, LeaveLock, Keep, odoo, redis, local, thread
<1>1. ASSUME NEW t \in Threads, Begin(t) \/ Verify(t) PROVE Counted'
      BY <1>1 DEF Begin, Verify
<1>2. ASSUME NEW t \in Threads, Look(t) PROVE Counted'
      BY <1>2 DEF Look, Adopt, KnownUid
<1>3. ASSUME NEW t \in Threads, Cool(t) \/ Lock(t) PROVE Counted'
      BY <1>3 DEF Cool, Lock
<1>4. ASSUME NEW t \in Threads, Recheck(t) PROVE Counted'
      BY <1>4 DEF Recheck, Adopt, KnownUid
<1>5. ASSUME NEW t \in Threads, Add(t) PROVE Counted'
      BY <1>5 DEF Add
<1>6. ASSUME NEW t \in Threads, Poll(t) PROVE Counted'
      BY <1>6 DEF Poll
<1>7. ASSUME NEW t \in Threads, GiveUp(t) \/ Authenticate(t) PROVE Counted'
      BY <1>7 DEF GiveUp, Authenticate
<1>8. ASSUME NEW t \in Threads, Refused(t) PROVE Counted'
      BY <1>8 DEF Refused
<1>9. ASSUME NEW t \in Threads, Unreachable(t) \/ Accepted(t) PROVE Counted'
      BY <1>9 DEF Unreachable, Accepted
<1>10. ASSUME NEW t \in Threads, Abort(t) \/ Release(t) PROVE Counted'
      BY <1>10 DEF Abort, Release
<1>11. ASSUME NEW t \in Threads, Publish(t) PROVE Counted'
      BY <1>11 DEF Publish, Overtake
<1>12. ASSUME NEW t \in Threads, Call(t) PROVE Counted'
      BY <1>12 DEF Call
<1>13. ASSUME NEW t \in Threads, Drop(t) PROVE Counted'
      BY <1>13 DEF Drop
<1>14. ASSUME NEW t \in Threads, Prime(t) PROVE Counted'
      BY <1>14 DEF Prime, Overtake
<1>15. ASSUME NEW t \in Threads, Share(t) PROVE Counted'
      BY <1>15 DEF Share
<1>16. CASE SwitchAccount \/ RecreateAccount \/ ExpireLock \/ SwitchCache
      BY <1>16 DEF SwitchAccount, RecreateAccount, ExpireLock, SwitchCache
<1>17. CASE Expire
      BY <1>17 DEF Expire
<1>18. ASSUME NEW p \in Procs, Crash(p) PROVE Counted'
      BY <1>18 DEF Crash
<1>19. CASE UNCHANGED vars
      BY <1>19 DEF vars
<1> QED BY <1>1, <1>2, <1>3, <1>4, <1>5, <1>6, <1>7, <1>8, <1>9, <1>10, <1>11, <1>12,
           <1>13, <1>14, <1>15, <1>16, <1>17, <1>18, <1>19
        DEF Next, RequestStep, AdminStep, Environment

\* The strengthened invariant is inductive.
LEMMA Inductive == IInv /\ [Next]_vars => IInv'
BY TypeStep, LockStep, OwnStep, CountStep DEF IInv

\* The inductive invariant always holds.
LEMMA Invariance == Spec => []IInv
BY InitInv, Inductive, PTL DEF Spec

-----------------------------------------------------------------------------
\* Every variable keeps its type in every execution of the session.
THEOREM TypeCorrect == Spec => []TypeOK
BY Invariance, PTL DEF IInv

\* However many processes and threads there are and whatever the environment
\* does, a process has at most one authenticate under way.
THEOREM OneFlight == Spec => []OneFlightPerProcess
<1>1. IInv => OneFlightPerProcess
      BY NullAssumption DEF IInv, LockIsMine, OneFlightPerProcess, Threads
<1> QED BY <1>1, Invariance, PTL

\* No thread authenticates over a uid that its process obtained.
THEOREM SecondLook == Spec => NoAuthenticateWithUid
<1>1. ASSUME IInv, [Next]_vars, NEW t \in Requests, Authenticates(t)
      PROVE ~own[ProcOf[t]]
  <2> USE <1>1 DEF IInv, TypeOK, OwnIsKnown, Threads
  <2>1. ASSUME NEW u \in Threads, Authenticate(u) PROVE ~own[ProcOf[t]]
        BY <2>1 DEF Authenticate, Authenticates
  <2>2. CASE auths' = auths
        BY <2>2 DEF Authenticates
  <2>3. CASE \A u \in Threads : ~Authenticate(u)
    <3>1. auths' = auths
          BY <2>3 DEF Next, RequestStep, AdminStep, Environment, vars, thread, Begin, Verify, Look,
             Cool, Lock, Recheck, Add, Poll, GiveUp, Refused, Unreachable, Accepted, Abort,
             Release, Publish, Call, Drop, Prime, Share, SwitchAccount, RecreateAccount, Expire,
             ExpireLock, SwitchCache, Crash
    <3> QED BY <3>1, <2>2
  <2> QED BY <2>1, <2>3
<1>2. IInv /\ [Next]_vars
        => [\A t \in Requests : Authenticates(t) => ~own[ProcOf[t]]]_vars
      BY <1>1
<1> QED BY <1>2, Invariance, PTL DEF Spec, NoAuthenticateWithUid

\* executer() never authenticates a third time.
THEOREM NoReplayLoop == Spec => []NoLoop
<1>1. IInv => NoLoop
      BY DEF IInv, TypeOK, Counted, Attempts, NoLoop, Threads
<1> QED BY <1>1, Invariance, PTL
-----------------------------------------------------------------------------
\* Nobody waits longer than ATTENTE_MAX_VERROU, no lock outlives DUREE_VERROU
\* and Redis answers.
Prompt == "slow" \notin Disruptions /\ "cache" \notin Disruptions

\* The shared lock stays with the thread that set it.
LEMMA SharedStep ==
  ASSUME Prompt, TypeOK, SharedLock, [Next]_vars
  PROVE SharedLock'
<1> USE ProcAssumption, NullAssumption, UidAssumption
<1> USE DEF Prompt, SharedLock, Holding, TypeOK, Steps, Inside, Final, Goto, LeaveLock, Keep, odoo, redis, local, thread
<1>1. ASSUME NEW t \in Threads, Begin(t) \/ Verify(t) PROVE SharedLock'
   <2>1. CASE Begin(t)
         BY <2>1 DEF Begin
   <2>2. CASE Verify(t)
         BY <2>2 DEF Verify
   <2> QED BY <1>1, <2>1, <2>2
<1>2. ASSUME NEW t \in Threads, Look(t) PROVE SharedLock'
      BY <1>2 DEF Look, Adopt, KnownUid
<1>3. ASSUME NEW t \in Threads, Cool(t) \/ Lock(t) PROVE SharedLock'
   <2>1. CASE Cool(t)
         BY <2>1 DEF Cool
   <2>2. CASE Lock(t)
         BY <2>2 DEF Lock
   <2> QED BY <1>3, <2>1, <2>2
<1>4. ASSUME NEW t \in Threads, Recheck(t) PROVE SharedLock'
      BY <1>4 DEF Recheck, Adopt, KnownUid
<1>5. ASSUME NEW t \in Threads, Add(t) PROVE SharedLock'
      BY <1>5 DEF Add
<1>6. ASSUME NEW t \in Threads, Poll(t) PROVE SharedLock'
      BY <1>6 DEF Poll
<1>7. ASSUME NEW t \in Threads, GiveUp(t) \/ Authenticate(t) PROVE SharedLock'
      BY <1>7 DEF GiveUp, Authenticate
<1>8. ASSUME NEW t \in Threads, Refused(t) PROVE SharedLock'
      BY <1>8 DEF Refused
<1>9. ASSUME NEW t \in Threads, Unreachable(t) \/ Accepted(t) PROVE SharedLock'
      BY <1>9 DEF Unreachable, Accepted
<1>10. ASSUME NEW t \in Threads, Abort(t) \/ Release(t) PROVE SharedLock'
      BY <1>10 DEF Abort, Release
<1>11. ASSUME NEW t \in Threads, Publish(t) PROVE SharedLock'
      BY <1>11 DEF Publish, Overtake
<1>12. ASSUME NEW t \in Threads, Call(t) PROVE SharedLock'
      BY <1>12 DEF Call
<1>13. ASSUME NEW t \in Threads, Drop(t) PROVE SharedLock'
      BY <1>13 DEF Drop
<1>14. ASSUME NEW t \in Threads, Prime(t) PROVE SharedLock'
      BY <1>14 DEF Prime, Overtake
<1>15. ASSUME NEW t \in Threads, Share(t) PROVE SharedLock'
      BY <1>15 DEF Share
<1>16. CASE SwitchAccount \/ RecreateAccount \/ ExpireLock \/ SwitchCache
      BY <1>16 DEF SwitchAccount, RecreateAccount, ExpireLock, SwitchCache
<1>17. CASE Expire
      BY <1>17 DEF Expire
<1>18. ASSUME NEW p \in Procs, Crash(p) PROVE SharedLock'
      BY <1>18 DEF Crash
<1>19. CASE UNCHANGED vars
      BY <1>19 DEF vars
<1> QED BY <1>1, <1>2, <1>3, <1>4, <1>5, <1>6, <1>7, <1>8, <1>9, <1>10, <1>11, <1>12,
           <1>13, <1>14, <1>15, <1>16, <1>17, <1>18, <1>19
        DEF Next, RequestStep, AdminStep, Environment


\* While nobody gives up waiting and Redis answers, one process at a time calls
\* authenticate, however many there are, even if processes crash.
THEOREM OneFlightShared ==
  ASSUME Prompt PROVE Spec => []OneFlightAcrossProcesses
<1>1. Init => SharedLock
      BY DEF Init, SharedLock, Holding
<1>2. TypeOK /\ SharedLock /\ [Next]_vars => SharedLock'
      BY SharedStep
<1>3. SharedLock => OneFlightAcrossProcesses
      BY DEF SharedLock, Holding, OneFlightAcrossProcesses, Threads
<1> QED BY <1>1, <1>2, <1>3, TypeCorrect, PTL DEF Spec

\* Who starts a cooldown had the account refused by Odoo: no other step adds a refusal, local or shared, whatever
\* fails on the way (odoo_session.py: SessionOdoo.uid).
THEOREM RefusalStartsCooldown == Spec => CooldownNeedsRefusal
<1>1. TypeOK /\ [Next]_vars => [CooldownStart => ~active]_vars
  <2> SUFFICES ASSUME TypeOK, [Next]_vars, CooldownStart PROVE ~active
    OBVIOUS
  <2> USE ProcAssumption, NullAssumption
  <2> USE DEF CooldownStart, TypeOK, odoo, redis, local, thread
  <2>1. ASSUME NEW t \in Threads, Refused(t) PROVE ~active
    BY <2>1 DEF Refused
  <2>2. ASSUME NEW t \in Threads, Publish(t) \/ Prime(t) \/ Share(t) PROVE FALSE
    BY <2>2 DEF Publish, Prime, Share
  <2>3. ASSUME NEW t \in Threads,
               \/ Begin(t) \/ Verify(t) \/ Look(t) \/ Cool(t) \/ Lock(t) \/ Recheck(t) \/ Add(t) \/ Poll(t) \/ GiveUp(t)
               \/ Authenticate(t) \/ Unreachable(t) \/ Accepted(t) \/ Abort(t) \/ Release(t) \/ Call(t) \/ Drop(t)
        PROVE  FALSE
    <3>1. lRefus' = lRefus /\ sRefus' = sRefus
      BY <2>3 DEF Begin, Verify, Look, Cool, Lock, Recheck, Add, Poll, GiveUp, Authenticate, Unreachable, Accepted,
           Abort, Release, Call, Drop
    <3> QED BY <3>1
  <2>4. CASE Environment
    BY <2>4 DEF Environment, SwitchAccount, RecreateAccount, Expire, ExpireLock, SwitchCache, Crash
  <2>5. CASE UNCHANGED vars
    BY <2>5 DEF vars
  <2> QED BY <2>1, <2>2, <2>3, <2>4, <2>5 DEF Next, RequestStep, AdminStep
<1> QED BY <1>1, TypeCorrect, PTL DEF Spec, CooldownNeedsRefusal
=============================================================================
