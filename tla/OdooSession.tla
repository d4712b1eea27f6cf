---------------------------- MODULE OdooSession -----------------------------
(***************************************************************************)
(* The Odoo session of one set of credentials (odoo_session.SessionOdoo)   *)
(* as used by ClientOdoo.executer (odoo_client.py).                        *)
(*                                                                         *)
(* Odoo issues no token: a request needs the account's uid, which one      *)
(* thread obtains by common.authenticate and shares with its process (a    *)
(* field guarded by a threading.Lock) and with the other processes (a      *)
(* Redis key).  A refusal starts a cooldown, again local and shared.       *)
(*                                                                         *)
(* A request thread runs executer() once: look for the uid, authenticate   *)
(* if there is none, call, and on an authentication refusal drop the uid   *)
(* and start over, once.  An administrator's thread runs verifier_odoo():  *)
(* it authenticates on its own, then primes the session (amorcer).         *)
(***************************************************************************)
EXTENDS Naturals, FiniteSets

CONSTANTS
  Procs,       \* worker processes
  Requests,    \* threads serving a request
  Admins,      \* threads serving an administrator's verification
  ProcOf,      \* ProcOf[t] : the process thread t runs in
  Uids,        \* numbers Odoo may give the account, in increasing order
  NoUid,       \* None
  NoThread,    \* nobody holds the process lock
  Disruptions  \* what the environment may do in this instance, a subset of
               \* {"refuse","recreate","network","expire","cache","slow","crash"}

Threads == Requests \cup Admins

ASSUME ProcAssumption == ProcOf \in [Threads -> Procs]
ASSUME NullAssumption == NoUid \notin Uids /\ NoThread \notin Threads
ASSUME UidAssumption == Uids \subseteq Nat \ {0} /\ Uids # {}

VARIABLES
  active,   \* Odoo accepts the account
  odooUid,  \* the number Odoo gives it
  up,       \* Redis answers
  sUid,     \* odoo:uid:<empreinte> in Redis
  sRefus,   \* odoo:refus:<empreinte> is set
  sLock,    \* odoo:verrou:<empreinte> is set
  lUid,     \* lUid[p]   : SessionOdoo._uid while not expired
  kept,     \* kept[p]   : SessionOdoo._uid, expired or not
  own,      \* own[p]    : it was put there under the lock of process p
  lRefus,   \* lRefus[p] : SessionOdoo._refus while not expired
  mutex,    \* mutex[p]  : the thread inside `with self._verrou'
  pc,       \* pc[t]     : the next step of thread t
  used,     \* used[t]   : the uid thread t works with
  auths,    \* auths[t]  : authenticate calls of request t
  retried,  \* retried[t]: request t has dropped a uid and starts over
  overtaken \* overtaken[t] : the process got a new uid since t's was refused

odoo == <<active, odooUid>>
redis == <<up, sUid, sRefus, sLock>>
local == <<lUid, kept, own, lRefus, mutex>>
thread == <<pc, used, auths, retried, overtaken>>
vars == <<odoo, redis, local, thread>>

Final == {"served", "failed", "lost"}
Inside == {"recheck", "add", "wait", "auth", "flying", "abort", "release", "publish"}
Steps == {"idle", "look", "cool", "lock", "call", "drop", "prime", "share"}
           \cup Inside \cup Final

-----------------------------------------------------------------------------
Init ==
  /\ active \in BOOLEAN /\ odooUid \in Uids /\ up = TRUE
  /\ sUid = NoUid /\ sRefus = FALSE /\ sLock = FALSE
  /\ lUid = [p \in Procs |-> NoUid]
  /\ kept = [p \in Procs |-> NoUid]
  /\ own = [p \in Procs |-> FALSE]
  /\ lRefus = [p \in Procs |-> FALSE]
  /\ mutex = [p \in Procs |-> NoThread]
  /\ pc = [t \in Threads |-> "idle"]
  /\ used = [t \in Threads |-> NoUid]
  /\ auths = [t \in Threads |-> 0]
  /\ retried = [t \in Threads |-> FALSE]
  /\ overtaken = [t \in Threads |-> FALSE]

Goto(t, step) == pc' = [pc EXCEPT ![t] = step]

\* self._local() or self._partage(): the process's uid, else Redis's.
KnownUid(p) == IF lUid[p] # NoUid THEN lUid[p]
               ELSE IF up THEN sUid ELSE NoUid

\* _refroidi(): the process's refusal, else the one shared in Redis.
Cooling(p) == lRefus[p] \/ (up /\ sRefus)

\* The process has uid u from now on, or none.
Keep(p, u) == lUid' = [lUid EXCEPT ![p] = u] /\ kept' = [kept EXCEPT ![p] = u]

\* Take the known uid, which _partage keeps in the process, and go and use it.
Adopt(t) ==
  /\ KnownUid(ProcOf[t]) # NoUid
  /\ Keep(ProcOf[t], KnownUid(ProcOf[t]))
  /\ used' = [used EXCEPT ![t] = KnownUid(ProcOf[t])]
  /\ Goto(t, "call")

LeaveLock(t) == mutex' = [mutex EXCEPT ![ProcOf[t]] = NoThread]

-----------------------------------------------------------------------------
\* SessionOdoo.uid, as far as the process lock.
Begin(t) ==
  /\ t \in Requests /\ pc[t] = "idle"
  /\ Goto(t, "look")
  /\ UNCHANGED <<odoo, redis, local, used, auths, retried, overtaken>>

Look(t) ==
  /\ pc[t] = "look"
  /\ \/ Adopt(t)
     \/ KnownUid(ProcOf[t]) = NoUid /\ Goto(t, "cool") /\ UNCHANGED <<lUid, kept, used>>
  /\ UNCHANGED <<odoo, redis, own, lRefus, mutex, auths, retried, overtaken>>

Cool(t) ==
  /\ pc[t] = "cool"
  /\ Goto(t, IF Cooling(ProcOf[t]) THEN "failed" ELSE "lock")
  /\ UNCHANGED <<odoo, redis, local, used, auths, retried, overtaken>>

LockWithoutWaiting(t) ==  \* mutant: no lock around the authentication
  /\ pc[t] = "lock"
  /\ mutex' = [mutex EXCEPT ![ProcOf[t]] = t]
  /\ Goto(t, "recheck")
  /\ UNCHANGED <<odoo, redis, lUid, kept, own, lRefus, used, auths, retried, overtaken>>
Lock(t) ==
  /\ pc[t] = "lock"
  /\ mutex[ProcOf[t]] = NoThread
  /\ mutex' = [mutex EXCEPT ![ProcOf[t]] = t]
  /\ Goto(t, "recheck")
  /\ UNCHANGED <<odoo, redis, lUid, kept, own, lRefus, used, auths, retried, overtaken>>

\* Inside the lock, the uid is looked for once more.
RecheckNothing(t) ==  \* mutant: no second look inside the lock
  /\ pc[t] = "recheck"
  /\ Goto(t, "add")
  /\ UNCHANGED <<odoo, redis, local, used, auths, retried, overtaken>>
Recheck(t) ==
  /\ pc[t] = "recheck"
  /\ \/ Adopt(t) /\ LeaveLock(t)
     \/ /\ KnownUid(ProcOf[t]) = NoUid
        /\ Goto(t, "add")
        /\ UNCHANGED <<lUid, kept, used, mutex>>
  /\ UNCHANGED <<odoo, redis, own, lRefus, auths, retried, overtaken>>

\* cache.add: an unreachable cache counts as a lock obtained.
AddRegardless(t) ==  \* mutant: the answer of cache.add is not looked at
  /\ pc[t] = "add"
  /\ sLock' = (sLock \/ up)
  /\ Goto(t, "auth")
  /\ UNCHANGED <<odoo, up, sUid, sRefus, local, used, auths, retried, overtaken>>
Add(t) ==
  /\ pc[t] = "add"
  /\ sLock' = (sLock \/ up)
  /\ Goto(t, IF up /\ sLock THEN "wait" ELSE "auth")
  /\ UNCHANGED <<odoo, up, sUid, sRefus, local, used, auths, retried, overtaken>>

\* Another process authenticates: poll for its uid or its refusal.
Poll(t) ==
  /\ pc[t] = "wait"
  /\ \/ up /\ sUid # NoUid
        /\ Keep(ProcOf[t], sUid)
        /\ used' = [used EXCEPT ![t] = sUid]
        /\ Goto(t, "call")
     \/ ~(up /\ sUid # NoUid) /\ Cooling(ProcOf[t])
        /\ Goto(t, "failed")
        /\ UNCHANGED <<lUid, kept, used>>
  /\ LeaveLock(t)
  /\ UNCHANGED <<odoo, redis, own, lRefus, auths, retried, overtaken>>

\* ATTENTE_MAX_VERROU is over: authenticate without the shared lock.
NoGiveUp(t) == FALSE /\ UNCHANGED vars \* mutant: wait for as long as it takes
GiveUp(t) ==
  /\ "slow" \in Disruptions
  /\ pc[t] = "wait"
  /\ Goto(t, "auth")
  /\ UNCHANGED <<odoo, redis, local, used, auths, retried, overtaken>>

-----------------------------------------------------------------------------
\* client.authentifier(): sent, then answered.
Authenticate(t) ==
  /\ pc[t] = "auth"
  /\ auths' = [auths EXCEPT ![t] = @ + 1]
  /\ Goto(t, "flying")
  /\ UNCHANGED <<odoo, redis, local, used, retried, overtaken>>

\* A refusal of the credentials starts the cooldown, local and shared ...
Refused(t) ==
  /\ pc[t] = "flying"
  /\ ~active
  /\ lRefus' = [lRefus EXCEPT ![ProcOf[t]] = TRUE]
  /\ sRefus' = (sRefus \/ up)
  /\ Goto(t, "abort")
  /\ UNCHANGED <<odoo, up, sUid, sLock, lUid, kept, own, mutex, used, auths, retried, overtaken>>

\* ... a transport failure does not.
UnreachableCools(t) ==  \* mutant: any OdooError starts the cooldown
  /\ "network" \in Disruptions
  /\ pc[t] = "flying"
  /\ lRefus' = [lRefus EXCEPT ![ProcOf[t]] = TRUE]
  /\ sRefus' = (sRefus \/ up)
  /\ Goto(t, "abort")
  /\ UNCHANGED <<odoo, up, sUid, sLock, lUid, kept, own, mutex, used, auths, retried, overtaken>>
Unreachable(t) ==
  /\ "network" \in Disruptions
  /\ pc[t] = "flying"
  /\ Goto(t, "abort")
  /\ UNCHANGED <<odoo, redis, local, used, auths, retried, overtaken>>

AcceptedUnchecked(t) ==  \* mutant: Odoo's False is taken for a uid
  /\ pc[t] = "flying"
  /\ used' = [used EXCEPT ![t] = IF active THEN odooUid ELSE 0]
  /\ Goto(t, "release")
  /\ UNCHANGED <<odoo, redis, local, auths, retried, overtaken>>
Accepted(t) ==
  /\ pc[t] = "flying"
  /\ active
  /\ used' = [used EXCEPT ![t] = odooUid]
  /\ Goto(t, "release")
  /\ UNCHANGED <<odoo, redis, local, auths, retried, overtaken>>

\* `finally: _cache_delete(self._cle_verrou)', whoever's lock it is by now.
Abort(t) ==
  /\ pc[t] = "abort"
  /\ sLock' = (sLock /\ ~up)
  /\ LeaveLock(t)
  /\ Goto(t, "failed")
  /\ UNCHANGED <<odoo, up, sUid, sRefus, lUid, kept, own, lRefus, used, auths, retried, overtaken>>

Release(t) ==
  /\ pc[t] = "release"
  /\ sLock' = (sLock /\ ~up)
  /\ Goto(t, "publish")
  /\ UNCHANGED <<odoo, up, sUid, sRefus, local, used, auths, retried, overtaken>>

\* Threads of process p whose refused uid has just been replaced.
Overtake(p) ==
  overtaken' = [t \in Threads |->
                  overtaken[t] \/ (ProcOf[t] = p /\ pc[t] = "drop")]

\* The uid is kept in the process, then shared, and the lock is left.
Publish(t) ==
  LET p == ProcOf[t]
  IN  /\ pc[t] = "publish"
      /\ Keep(p, used[t])
      /\ own' = [own EXCEPT ![p] = TRUE]
      /\ lRefus' = [lRefus EXCEPT ![p] = FALSE]
      /\ sUid' = IF up THEN used[t] ELSE sUid
      /\ LeaveLock(t)
      /\ Overtake(p)
      /\ Goto(t, "call")
      /\ UNCHANGED <<odoo, up, sRefus, sLock, used, auths, retried>>

-----------------------------------------------------------------------------
\* ClientOdoo.executer: execute_kw with the uid.
Call(t) ==
  /\ pc[t] = "call"
  /\ \/ active /\ used[t] = odooUid /\ Goto(t, "served")
     \/ ~(active /\ used[t] = odooUid) /\ Goto(t, IF retried[t] THEN "failed" ELSE "drop")
     \/ "network" \in Disruptions /\ Goto(t, "failed")
  /\ UNCHANGED <<odoo, redis, local, used, auths, retried, overtaken>>

DropUncounted(t) ==  \* mutant: executer loops while Odoo refuses
  LET p == ProcOf[t]
  IN  /\ pc[t] = "drop"
      /\ mutex[p] = NoThread
      /\ sUid' = IF up THEN NoUid ELSE sUid
      /\ Keep(p, NoUid)
      /\ own' = [own EXCEPT ![p] = FALSE]
      /\ Goto(t, "look")
      /\ UNCHANGED <<odoo, up, sRefus, sLock, lRefus, mutex, used, auths, retried, overtaken>>

\* invalider(uid), under the process lock, then back to uid() for the replay.
Replaced(t) == kept[ProcOf[t]] \notin {NoUid, used[t]}
Drop(t) ==
  LET p == ProcOf[t]
      mine == up => sUid \in {NoUid, used[t]}
  IN  /\ pc[t] = "drop"
      /\ mutex[p] = NoThread
      /\ \/ Replaced(t) /\ UNCHANGED <<lUid, kept, own, sUid>>
         \/ /\ ~Replaced(t)
            /\ sUid' = IF mine /\ up THEN NoUid ELSE sUid
            /\ Keep(p, NoUid)
            /\ own' = [own EXCEPT ![p] = FALSE]
      /\ retried' = [retried EXCEPT ![t] = TRUE]
      /\ overtaken' = [overtaken EXCEPT ![t] = FALSE]
      /\ Goto(t, "look")
      /\ UNCHANGED <<odoo, up, sRefus, sLock, lRefus, mutex, used, auths>>

-----------------------------------------------------------------------------
\* verifier_odoo / enregistrer_compte_odoo: proof first (no cache, no
\* cooldown), then amorcer: the process under its lock, Redis after it.
Verify(t) ==
  /\ t \in Admins /\ pc[t] = "idle"
  /\ \/ active /\ Goto(t, "prime") /\ used' = [used EXCEPT ![t] = odooUid]
     \/ (~active \/ "network" \in Disruptions) /\ Goto(t, "failed") /\ UNCHANGED used
  /\ UNCHANGED <<odoo, redis, local, auths, retried, overtaken>>

Prime(t) ==
  LET p == ProcOf[t]
  IN  /\ pc[t] = "prime"
      /\ mutex[p] = NoThread
      /\ Keep(p, used[t])
      /\ own' = [own EXCEPT ![p] = TRUE]
      /\ lRefus' = [lRefus EXCEPT ![p] = FALSE]
      /\ Overtake(p)
      /\ Goto(t, "share")
      /\ UNCHANGED <<odoo, redis, mutex, used, auths, retried>>

Share(t) ==
  /\ pc[t] = "share"
  /\ sUid' = IF up THEN used[t] ELSE sUid
  /\ sRefus' = (sRefus /\ ~up)
  /\ Goto(t, "served")
  /\ UNCHANGED <<odoo, up, sLock, local, used, auths, retried, overtaken>>

-----------------------------------------------------------------------------
\* The environment: Odoo's administrator, expiries, Redis, process crashes.
SwitchAccount ==
  /\ "refuse" \in Disruptions
  /\ active' = ~active
  /\ UNCHANGED <<odooUid, redis, local, thread>>

RecreateAccount ==
  /\ "recreate" \in Disruptions
  /\ \E u \in Uids : u > odooUid /\ odooUid' = u
  /\ UNCHANGED <<active, redis, local, thread>>

Expire ==
  /\ "expire" \in Disruptions
  /\ \/ sUid' = NoUid /\ UNCHANGED <<sRefus, lUid, kept, own, lRefus>>
     \/ sRefus' = FALSE /\ UNCHANGED <<sUid, lUid, kept, own, lRefus>>
     \/ \E p \in Procs :
          /\ lUid' = [lUid EXCEPT ![p] = NoUid] /\ own' = [own EXCEPT ![p] = FALSE]
          /\ UNCHANGED <<sUid, sRefus, kept, lRefus>>
     \/ \E p \in Procs :
          /\ lRefus' = [lRefus EXCEPT ![p] = FALSE]
          /\ UNCHANGED <<sUid, sRefus, lUid, kept, own>>
  /\ UNCHANGED <<odoo, up, sLock, mutex, thread>>

\* DUREE_VERROU is shorter than two attempts of DELAI_DEFAUT.
ExpireLock ==
  /\ "slow" \in Disruptions
  /\ sLock' = FALSE
  /\ UNCHANGED <<odoo, up, sUid, sRefus, local, thread>>

SwitchCache ==
  /\ "cache" \in Disruptions
  /\ up' = ~up
  /\ UNCHANGED <<odoo, sUid, sRefus, sLock, local, thread>>

Crash(p) ==
  /\ "crash" \in Disruptions
  /\ Keep(p, NoUid)
  /\ own' = [own EXCEPT ![p] = FALSE]
  /\ lRefus' = [lRefus EXCEPT ![p] = FALSE]
  /\ mutex' = [mutex EXCEPT ![p] = NoThread]
  /\ pc' = [t \in Threads |->
              IF ProcOf[t] = p /\ pc[t] \notin Final \cup {"idle"} THEN "lost" ELSE pc[t]]
  /\ UNCHANGED <<odoo, redis, used, auths, retried, overtaken>>

RequestStep(t) ==
  \/ Look(t) \/ Cool(t) \/ Lock(t) \/ Recheck(t) \/ Add(t) \/ Poll(t) \/ GiveUp(t)
  \/ Authenticate(t) \/ Refused(t) \/ Unreachable(t) \/ Accepted(t) \/ Abort(t)
  \/ Release(t) \/ Publish(t) \/ Call(t) \/ Drop(t)

AdminStep(t) == Prime(t) \/ Share(t)

Environment ==
  \/ SwitchAccount \/ RecreateAccount \/ Expire \/ ExpireLock \/ SwitchCache
  \/ \E p \in Procs : Crash(p)

Next ==
  \/ \E t \in Threads : Begin(t) \/ Verify(t) \/ RequestStep(t) \/ AdminStep(t)
  \/ Environment

Spec == Init /\ [][Next]_vars

\* Threads that run keep running: the operating system schedules them, and
\* threading.Lock is given to a waiter once it stays free.
FairSpec == Spec /\ \A t \in Threads : WF_vars(RequestStep(t) \/ AdminStep(t))
-----------------------------------------------------------------------------
\* Type correctness of the session, of Redis and of the threads.
TypeOK ==
  /\ active \in BOOLEAN /\ odooUid \in Uids /\ up \in BOOLEAN
  /\ sUid \in Uids \cup {NoUid} /\ sRefus \in BOOLEAN /\ sLock \in BOOLEAN
  /\ lUid \in [Procs -> Uids \cup {NoUid}] /\ kept \in [Procs -> Uids \cup {NoUid}]
  /\ own \in [Procs -> BOOLEAN]
  /\ lRefus \in [Procs -> BOOLEAN]
  /\ mutex \in [Procs -> Threads \cup {NoThread}]
  /\ pc \in [Threads -> Steps]
  /\ used \in [Threads -> Uids \cup {NoUid}]
  /\ auths \in [Threads -> Nat]
  /\ retried \in [Threads -> BOOLEAN]
  /\ overtaken \in [Threads -> BOOLEAN]

Authenticates(t) == auths'[t] > auths[t]

\* Whatever Redis, Odoo and the other processes do, at most one thread of a
\* process is between the process lock and its release, so at most one call to
\* authenticate of that process is on its way (odoo_session.py:18).
OneFlightPerProcess ==
  \A t, u \in Requests :
    ProcOf[t] = ProcOf[u] /\ {pc[t], pc[u]} \subseteq Inside => t = u

\* A request never authenticates over a uid that another thread of its process has
\* obtained, even while it was waiting for the lock and whatever fails around it
\* (odoo_session.py:152).
NoAuthenticateWithUid ==
  [][\A t \in Requests : Authenticates(t) => ~own[ProcOf[t]]]_vars

\* One executer() authenticates at most twice: an authentication refusal is
\* retried once, and nothing else is (odoo_client.py:238, « pas de boucle »).
NoLoop == \A t \in Requests : auths[t] <= 2

\* Only a refusal of the account starts a cooldown: a network failure must not
\* keep a working account out (odoo_session.py:26).
CooldownStart == (sRefus' /\ ~sRefus) \/ (\E p \in Procs : lRefus'[p] /\ ~lRefus[p])
CooldownNeedsRefusal == [][CooldownStart => ~active]_vars

\* Every request and every verification ends, though Redis comes and goes,
\* locks expire, holders crash and Odoo refuses.
RequestsEnd ==
  \A t \in Threads : pc[t] # "idle" ~> pc[t] \in Final

\* As long as nobody waits longer than ATTENTE_MAX_VERROU and Redis answers,
\* the shared lock lets one process at a time call authenticate.
OneFlightAcrossProcesses ==
  \A t, u \in Requests : pc[t] = "flying" /\ pc[u] = "flying" => t = u

\* What odoo_session.py:23-25 says: after a refusal authenticate is not tried
\* again before the cooldown is over.
CooldownHonoured ==
  [][\A t \in Requests : Authenticates(t) => ~lRefus[ProcOf[t]]]_vars

\* What odoo_session.py:188-192 says: a request does not throw away the uid that
\* another one obtained since its own was refused.
ReplacementKept ==
  [][\A t \in Requests :
       pc[t] = "drop" /\ pc'[t] = "look" /\ overtaken[t]
         => lUid'[ProcOf[t]] = lUid[ProcOf[t]]]_vars
=============================================================================
