----------------------------- MODULE ShieldAuth ----------------------------
(***************************************************************************)
(* The permanent Shield session (integrations/shield_auth.py).             *)
(*                                                                         *)
(* Shield hands out pairs of an access token and a refresh token.  The     *)
(* refresh rotates: presenting it yields a new pair and spends it.  A      *)
(* caller that finds the stored access token unusable renews the pair, and *)
(* when Shield refuses the refresh it logs in with the service account.    *)
(* Renewals of one worker process are serialised by a threading.Lock; the  *)
(* worker processes share nothing but the database, where a connector has  *)
(* its secrets and, in ONE json column, the address of the service account *)
(* and the memo of the last outcomes.                                      *)
(*                                                                         *)
(* A refresh token is a name, used again once nobody holds it.  Of access  *)
(* tokens only this matters: whether the stored one is usable.             *)
(***************************************************************************)
EXTENDS Naturals

CONSTANTS
  Procs,       \* worker processes
  Callers,     \* threads that need a token (screens, collections)
  Admins,      \* threads of an administrator's form
  ProcOf,      \* ProcOf[t] : the process of thread t
  Tokens,      \* names of refresh tokens
  NoToken,     \* the empty string
  NoThread,    \* nobody holds the lock
  Disruptions, \* what can go wrong, a subset of
               \* {"network","lost","norefresh","revoke","account","crash"}
  MaxFaults,   \* and how many times (a bound of the model)
  Mixed        \* may a form follow a disruption, or a disruption an overlap? (a bound)

Threads == Callers \cup Admins

ASSUME ProcAssumption == ProcOf \in [Threads -> Procs]
ASSUME KindAssumption == Callers \cap Admins = {}
ASSUME NullAssumption == NoToken \notin Tokens /\ NoThread \notin Threads
ASSUME FaultAssumption == MaxFaults \in Nat /\ Mixed \in BOOLEAN

VARIABLES
  fresh,    \* refresh tokens Shield accepts
  spent,    \* refresh tokens it has exchanged for a pair that was received
  refused,  \* refresh tokens it has refused
  account,  \* what Shield makes of the service account's password
  usable,   \* an access token is stored (API_TOKEN) and does not expire soon
  dRefresh, dPassword,  \* the other secrets stored (OAUTH_REFRESH, PASSWORD)
  config,   \* the json column Connector.config
  mutex,    \* mutex[p] : the thread of process p inside `with _verrou_pour(connector)'
  pc,       \* pc[t]    : the next step of thread t
  force,    \* force[t] : renouveler(force=True)
  conf,     \* conf[t]  : connector.config as thread t has it in memory
  held,     \* held[t]  : the refresh token thread t presents
  got,      \* got[t]   : the refresh token Shield answered with the access token
  how,      \* how[t]   : how it was obtained
  faults,   \* disruptions so far
  marks     \* history: have two threads been under way at once (overlap)? was a token that
            \* Shield still accepts condemned by a form that had not tried it (assumed)?

shield == <<fresh, spent, refused, account>>
secrets == <<usable, dRefresh, dPassword>>
memory == <<force, conf, held, got, how>>
vars == <<shield, secrets, config, mutex, pc, memory, faults, marks>>

None == "none"
Causes == {None, "refresh_refuse", "refresh_absent", "passing",
           "identifiants_refuses", "mfa_requis"}
Verdicts == {None, "identifiants_refuses", "mfa_requis"}
Configs == [email : BOOLEAN, condemned : BOOLEAN, cause : Causes, verdict : Verdicts]
NoConfig == [email |-> FALSE, condemned |-> FALSE, cause |-> None, verdict |-> None]

Inside == {"read", "present", "refused", "passing", "login", "denied", "challenged",
           "access", "refresh", "memo"}
Steps == {"idle", "lock", "enrol", "email", "password", "paste"} \cup Inside

Init ==
  \E k \in Tokens, email \in BOOLEAN :
    /\ fresh \in {{}, {k}} /\ spent = {} /\ refused = {}
    /\ account \in IF "account" \in Disruptions THEN {"ok", "refused", "mfa"} ELSE {"ok"}
    /\ usable \in BOOLEAN /\ dRefresh \in {NoToken, k} /\ dPassword = email
    /\ config = [NoConfig EXCEPT !.email = email]
    /\ mutex = [p \in Procs |-> NoThread]
    /\ pc = [t \in Threads |-> "idle"]
    /\ force = [t \in Threads |-> FALSE]
    /\ conf = [t \in Threads |-> NoConfig]
    /\ held = [t \in Threads |-> NoToken]
    /\ got = [t \in Threads |-> NoToken]
    /\ how = [t \in Threads |-> None]
    /\ faults = 0 /\ marks = [overlap |-> FALSE, assumed |-> FALSE]

-----------------------------------------------------------------------------
Goto(t, step) == pc' = [pc EXCEPT ![t] = step]

\* A disruption of this kind happens, within the bound.
Fault(kind) ==
  /\ kind \in Disruptions /\ faults < MaxFaults /\ (Mixed \/ ~marks.overlap)
  /\ faults' = faults + 1
NoFault == faults' = faults

\* Thread t begins a form, or its renewal inside the lock, alone or not.
Waiting == {"idle", "lock"}
Enters(t) ==
  marks' = [marks EXCEPT !.overlap = @ \/ \E u \in Threads \ {t} : pc[u] \notin Waiting]

\* all(identifiants_de_service(connector)): the address in memory, the password stored.
ServiceIgnored(t) == FALSE  \* mutant: a refused refresh is not followed by a login
Service(t) == conf[t].email /\ dPassword

\* A name nobody holds.
Unheld(k) ==
  /\ k # dRefresh
  /\ \A t \in Threads : k \notin {held[t], got[t]}

Forget(t) == held' = [held EXCEPT ![t] = NoToken]

\* Thread t returns: its connector is forgotten and its lock given back.
End(t) ==
  /\ Goto(t, "idle")
  /\ mutex' = [p \in Procs |-> IF mutex[p] = t THEN NoThread ELSE mutex[p]]
  /\ force' = [force EXCEPT ![t] = FALSE]
  /\ conf' = [conf EXCEPT ![t] = NoConfig]
  /\ held' = [held EXCEPT ![t] = NoToken]
  /\ got' = [got EXCEPT ![t] = NoToken]
  /\ how' = [how EXCEPT ![t] = None]

\* Shield issues k in exchange for the tokens in `old', which it spends.  What
\* becomes of the tokens nobody holds no longer matters.
Issue(k, old) ==
  LET Held(S) == {j \in S : ~Unheld(j)}
  IN  /\ Unheld(k)
      /\ fresh' = (Held(fresh) \cup {k}) \ old
      /\ spent' = Held(spent) \cup old
      /\ refused' = Held(refused)

-----------------------------------------------------------------------------
\* jeton_pour_appel when no token is usable; or a renewal whatever the token, after
\* a 401 (shield.py) or for the button of the source's page (views.py).
Begin(t) ==
  /\ t \in Callers /\ pc[t] = "idle"
  /\ \/ ~usable /\ UNCHANGED force
     \/ force' = [force EXCEPT ![t] = TRUE]
  /\ Goto(t, "lock")
  /\ UNCHANGED <<marks, shield, secrets, config, mutex, conf, held, got, how, faults>>

LockWithoutWaiting(t) ==  \* mutant: no lock around the renewal
  /\ pc[t] = "lock"
  /\ mutex' = [mutex EXCEPT ![ProcOf[t]] = t]
  /\ Goto(t, "read")
  /\ Enters(t)
  /\ UNCHANGED <<shield, secrets, config, memory, faults>>
Lock(t) ==
  /\ pc[t] = "lock"
  /\ mutex[ProcOf[t]] = NoThread
  /\ mutex' = [mutex EXCEPT ![ProcOf[t]] = t]
  /\ Goto(t, "read")
  /\ Enters(t)
  /\ UNCHANGED <<shield, secrets, config, memory, faults>>

\* Inside the lock: the config and the secrets are read anew from the database.
AlreadyRenewed(t) ==
  /\ pc[t] = "read"
  /\ ~force[t] /\ usable
  /\ End(t)
  /\ UNCHANGED <<marks, shield, secrets, config, faults>>

NoRefresh(t) ==
  /\ pc[t] = "read"
  /\ force[t] \/ ~usable
  /\ dRefresh = NoToken /\ ~(config.email /\ dPassword)
  /\ config' = [config EXCEPT !.cause = "refresh_absent"]
  /\ End(t)
  /\ UNCHANGED <<marks, shield, secrets, faults>>

Read(t) ==
  /\ pc[t] = "read"
  /\ force[t] \/ ~usable
  /\ conf' = [conf EXCEPT ![t] = config]
  /\ \/ /\ dRefresh = NoToken \/ config.condemned
        /\ config.email /\ dPassword
        /\ Goto(t, "login")
        /\ UNCHANGED held
     \/ /\ dRefresh # NoToken
        /\ ~(config.condemned /\ config.email /\ dPassword)
        /\ Goto(t, "present")
        /\ held' = [held EXCEPT ![t] = dRefresh]
  /\ UNCHANGED <<marks, shield, secrets, config, mutex, force, got, how, faults>>

-----------------------------------------------------------------------------
\* _appel_refresh: Shield exchanges a fresh refresh token and refuses any other.
\* It may answer without a new refresh; the answer may be lost; the request may
\* not arrive, or meet the quota.
Renewed(t) ==
  /\ pc[t] \in {"present", "paste"} /\ held[t] \in fresh
  /\ \/ \E k \in Tokens : Issue(k, {held[t]}) /\ got' = [got EXCEPT ![t] = k] /\ NoFault
     \/ Fault("norefresh") /\ UNCHANGED <<fresh, spent, refused, got>>
  /\ \/ pc[t] = "present" /\ how' = [how EXCEPT ![t] = "refresh"] /\ Forget(t)
     \/ pc[t] = "paste" /\ how' = [how EXCEPT ![t] = "deposit"] /\ UNCHANGED held
  /\ Goto(t, "access")
  /\ UNCHANGED <<marks, account, secrets, config, mutex, force, conf>>

RenewedUnheard(t) ==
  /\ pc[t] = "present" /\ held[t] \in fresh
  /\ Fault("lost")
  /\ fresh' = fresh \ {held[t]}
  /\ Forget(t)
  /\ Goto(t, "passing")
  /\ UNCHANGED <<marks, spent, refused, account, secrets, config, mutex, force, conf, got, how>>

RefreshRefused(t) ==
  /\ pc[t] = "present" /\ held[t] \notin fresh
  /\ refused' = refused \cup {held[t]}
  /\ Forget(t)
  /\ Goto(t, "refused")
  /\ UNCHANGED <<marks, fresh, spent, account, secrets, config, mutex, force, conf, got, how,
                 faults>>

Unanswered(t) ==
  /\ pc[t] \in {"present", "login"}
  /\ Fault("network")
  /\ Forget(t)
  /\ Goto(t, "passing")
  /\ UNCHANGED <<marks, shield, secrets, config, mutex, force, conf, got, how>>

\* _memoriser(connector, ...): the config in memory is changed and written whole.
\* A thread that returns after it forgets the connector.
MemoAndEnd(t, memo) == config' = memo /\ End(t)

\* Refused: with a service account the refusal is written, then the login tried ...
CondemnLater(t) ==  \* mutant: the refusal is not written before the login
  /\ pc[t] = "refused" /\ Service(t)
  /\ Goto(t, "login")
  /\ UNCHANGED <<marks, shield, secrets, config, mutex, memory, faults>>
Condemn(t) ==
  /\ pc[t] = "refused" /\ Service(t)
  /\ config' = [conf[t] EXCEPT !.condemned = TRUE]
  /\ conf' = [conf EXCEPT ![t] = config']
  /\ Goto(t, "login")
  /\ UNCHANGED <<marks, shield, secrets, mutex, force, held, got, how, faults>>

\* ... without one the renewal fails.
RefusedForGood(t) ==
  /\ pc[t] = "refused" /\ ~Service(t)
  /\ MemoAndEnd(t, [conf[t] EXCEPT !.cause = "refresh_refuse"])
  /\ UNCHANGED <<marks, shield, secrets, faults>>

FailPassingVerdict(t) ==  \* mutant: a network failure is a verdict on the account
  /\ pc[t] = "passing"
  /\ MemoAndEnd(t, [conf[t] EXCEPT !.cause = "passing", !.verdict = "passing"])
  /\ UNCHANGED <<marks, shield, secrets, faults>>
FailPassingLiftsVerdict(t) ==  \* mutant: a network failure lifts the verdict
  /\ pc[t] = "passing"
  /\ MemoAndEnd(t, [conf[t] EXCEPT !.cause = "passing", !.verdict = None])
  /\ UNCHANGED <<marks, shield, secrets, faults>>
FailPassing(t) ==
  /\ pc[t] = "passing"
  /\ MemoAndEnd(t, [conf[t] EXCEPT !.cause = "passing"])
  /\ UNCHANGED <<marks, shield, secrets, faults>>

-----------------------------------------------------------------------------
\* reconnecter: Shield opens a session, refuses the password or asks for a second step.
LoginAccepted(t) ==
  /\ pc[t] \in {"login", "enrol"} /\ account = "ok"
  /\ \/ \E k \in Tokens : Issue(k, {}) /\ got' = [got EXCEPT ![t] = k] /\ NoFault
     \/ Fault("norefresh") /\ UNCHANGED <<fresh, spent, refused, got>>
  /\ how' = [how EXCEPT ![t] = "login"]
  /\ Goto(t, IF pc[t] = "enrol" THEN "email" ELSE "access")
  /\ UNCHANGED <<marks, account, secrets, config, mutex, force, conf, held>>

LoginRejected(t) ==
  /\ pc[t] = "login" /\ account # "ok"
  /\ Goto(t, IF account = "mfa" THEN "challenged" ELSE "denied")
  /\ UNCHANGED <<marks, shield, secrets, config, mutex, memory, faults>>

FailLogin(t) ==
  /\ pc[t] \in {"denied", "challenged"}
  /\ LET cause == IF pc[t] = "denied" THEN "identifiants_refuses" ELSE "mfa_requis"
     IN  MemoAndEnd(t, [conf[t] EXCEPT !.cause = cause, !.verdict = cause])
  /\ UNCHANGED <<marks, shield, secrets, faults>>

\* The pair is stored, the access first, the refresh if there is one, the memo last.
StoreAccess(t) ==
  /\ pc[t] = "access"
  /\ usable' = TRUE
  /\ Goto(t, "refresh")
  /\ UNCHANGED <<marks, shield, dRefresh, dPassword, config, mutex, memory, faults>>

StoreRefresh(t) ==
  LET pasted == IF how[t] = "deposit" THEN held[t] ELSE dRefresh
  IN  /\ pc[t] = "refresh"
      /\ dRefresh' = IF got[t] # NoToken THEN got[t] ELSE pasted
      /\ Goto(t, "memo")
      /\ UNCHANGED <<marks, shield, usable, dPassword, config, mutex, memory, faults>>

SuccessWithoutPardon(t) ==  \* mutant: a new refresh does not lift the condemnation
  [conf[t] EXCEPT
     !.cause = None,
     !.verdict = IF how[t] = "login" THEN None ELSE @]
Success(t) ==
  [conf[t] EXCEPT
     !.cause = None,
     !.condemned = IF got[t] # NoToken THEN FALSE
                   ELSE how[t] = "login" \/ (how[t] = "refresh" /\ @),
     !.verdict = IF how[t] = "login" THEN None ELSE @]

Memorise(t) ==
  /\ pc[t] = "memo"
  /\ MemoAndEnd(t, Success(t))
  /\ marks' = [marks EXCEPT !.assumed =
                  @ \/ (t \in Admins /\ Success(t).condemned /\ dRefresh \in fresh)]
  /\ UNCHANGED <<shield, secrets, faults>>

-----------------------------------------------------------------------------
\* The administrator's forms load the connector, then try before they write; they
\* do not take the lock.  enregistrer_le_compte_de_service:
BeginEnrol(t) ==
  /\ t \in Admins /\ pc[t] = "idle"
  /\ Mixed \/ faults = 0
  /\ Enters(t)
  /\ conf' = [conf EXCEPT ![t] = config]
  /\ Goto(t, "enrol")
  /\ UNCHANGED <<shield, secrets, config, mutex, force, held, got, how, faults>>

EnrolRefused(t) ==
  /\ pc[t] = "enrol" /\ (account # "ok" \/ "network" \in Disruptions)
  /\ End(t)
  /\ UNCHANGED <<marks, shield, secrets, config, faults>>

StoreEmail(t) ==
  /\ pc[t] = "email"
  /\ config' = [conf[t] EXCEPT !.email = TRUE]
  /\ conf' = [conf EXCEPT ![t] = config']
  /\ Goto(t, "password")
  /\ UNCHANGED <<marks, shield, secrets, mutex, force, held, got, how, faults>>

StorePassword(t) ==
  /\ pc[t] = "password"
  /\ dPassword' = TRUE
  /\ Goto(t, "access")
  /\ UNCHANGED <<marks, shield, usable, dRefresh, config, mutex, memory, faults>>

\* verifier_et_deposer: the operator pastes a refresh token, good or not.  He has it
\* from Shield: K-Insight shows none of its own, so not the stored one either.
BeginPaste(t) ==
  /\ t \in Admins /\ pc[t] = "idle"
  /\ Mixed \/ faults = 0
  /\ Enters(t)
  /\ conf' = [conf EXCEPT ![t] = config]
  /\ \E k \in Tokens :
       /\ Unheld(k)
       /\ held' = [held EXCEPT ![t] = k]
       /\ spent' = spent \ {k} /\ refused' = refused \ {k}
       /\ fresh' \in {fresh \cup {k}, fresh \ {k}}
  /\ Goto(t, "paste")
  /\ UNCHANGED <<account, secrets, config, mutex, force, got, how, faults>>

PasteRefused(t) ==
  /\ pc[t] = "paste" /\ (held[t] \notin fresh \/ "network" \in Disruptions)
  /\ End(t)
  /\ UNCHANGED <<marks, shield, secrets, config, faults>>

-----------------------------------------------------------------------------
\* Time passes at Shield: the stored access token expires.
Expire ==
  /\ usable
  /\ usable' = FALSE
  /\ UNCHANGED <<marks, shield, dRefresh, dPassword, config, mutex, pc, memory, faults>>

\* The stored refresh token expires or is revoked.
Revoke ==
  /\ Fault("revoke")
  /\ dRefresh \in fresh
  /\ fresh' = fresh \ {dRefresh}
  /\ UNCHANGED <<marks, spent, refused, account, secrets, config, mutex, pc, memory>>

ChangeAccount ==
  /\ Fault("account")
  /\ account' \in {"ok", "refused", "mfa"} \ {account}
  /\ UNCHANGED <<marks, fresh, spent, refused, secrets, config, mutex, pc, memory>>

\* A worker stops: its threads and its lock are gone, the database stays.
Crash(p) ==
  LET Keep(f, null) == [t \in Threads |-> IF ProcOf[t] = p THEN null ELSE f[t]]
  IN  /\ Fault("crash")
      /\ pc' = Keep(pc, "idle") /\ force' = Keep(force, FALSE) /\ conf' = Keep(conf, NoConfig)
      /\ held' = Keep(held, NoToken) /\ got' = Keep(got, NoToken) /\ how' = Keep(how, None)
      /\ mutex' = [mutex EXCEPT ![p] = NoThread]
      /\ UNCHANGED <<marks, shield, secrets, config>>

Renewal(t) ==
  \/ Lock(t) \/ AlreadyRenewed(t) \/ NoRefresh(t) \/ Read(t) \/ Renewed(t) \/ RenewedUnheard(t)
  \/ RefreshRefused(t) \/ Unanswered(t) \/ Condemn(t) \/ RefusedForGood(t) \/ FailPassing(t)
  \/ LoginAccepted(t) \/ LoginRejected(t) \/ FailLogin(t)
  \/ StoreAccess(t) \/ StoreRefresh(t) \/ Memorise(t)

Form(t) ==
  \/ BeginEnrol(t) \/ EnrolRefused(t) \/ StoreEmail(t) \/ StorePassword(t)
  \/ BeginPaste(t) \/ PasteRefused(t)

Next ==
  \/ \E t \in Threads : Begin(t) \/ Renewal(t) \/ Form(t)
  \/ Expire \/ Revoke \/ ChangeAccount
  \/ \E p \in Procs : Crash(p)

Spec == Init /\ [][Next]_vars

\* Calls keep coming, and a renewal under way goes on: each of its exchanges with
\* Shield is over after DELAI_REFRESH.
FairSpec ==
  Spec /\ \A t \in Callers : WF_vars(Begin(t) /\ ~usable) /\ WF_vars(Renewal(t))
-----------------------------------------------------------------------------
\* Type correctness of Shield, of the database and of the threads.
TypeOK ==
  /\ fresh \subseteq Tokens /\ spent \subseteq Tokens /\ refused \subseteq Tokens
  /\ account \in {"ok", "refused", "mfa"}
  /\ usable \in BOOLEAN /\ dRefresh \in Tokens \cup {NoToken}
  /\ dPassword \in BOOLEAN
  /\ config \in Configs
  /\ mutex \in [Procs -> Threads \cup {NoThread}]
  /\ pc \in [Threads -> Steps]
  /\ force \in [Threads -> BOOLEAN]
  /\ conf \in [Threads -> Configs]
  /\ held \in [Threads -> Tokens \cup {NoToken}]
  /\ got \in [Threads -> Tokens \cup {NoToken}]
  /\ how \in [Threads -> {None, "refresh", "login", "deposit"}]
  /\ faults \in 0..MaxFaults /\ marks \in [overlap : BOOLEAN, assumed : BOOLEAN]

\* While no worker crashes, the threads of ONE worker never present a refresh token
\* for which one of them has received another pair already, forced renewals and the
\* administrator's forms included (shield_auth.py:503-505, 574-577).
SpentNeverPresented ==
  \A t \in Callers : pc[t] = "present" => held[t] \notin spent

\* A refresh token that Shield has refused is not presented to it again once a
\* service account can log in instead, as long as no two threads, renewals or forms,
\* have been under way at once (shield_auth.py:530-535).
RefusalRemembered ==
  ~marks.overlap => \A t \in Callers : pc[t] = "present" /\ Service(t) => held[t] \notin refused

\* Between two renewals, what etat_auth takes for a dead refresh token is dead: a
\* live one is never given up, unless two threads have been under way at once or a
\* form registered an account without a refresh of its own (shield_auth.py:254-259, 792).
CondemnedIsDead ==
  (config.condemned \/ config.cause = "refresh_refuse") /\ ~marks.overlap /\ ~marks.assumed
    /\ (\A t \in Threads : pc[t] \in {"idle", "lock"})
    => dRefresh \notin fresh

\* As long as no two threads have been under way at once, the verdict on the service
\* account is lifted by a successful login and by nothing else (shield_auth.py:237-240).
VerdictDurable ==
  [][config.verdict # None /\ config'.verdict = None /\ ~marks.overlap
       => \E t \in Threads : pc[t] = "memo" /\ how[t] = "login"]_vars

\* With a service account that Shield accepts, the session always comes back after
\* lost answers, revocations, crashes and network failures, without anyone pasting
\* a token (shield_auth.py:143-150).
LinkRestored ==
  [](config.email /\ dPassword /\ account = "ok") => (~usable ~> usable)

\* A service account, once registered, is not forgotten (shield_auth.py:794-795).
ServiceAccountKept == [][config.email => config'.email]_vars
=============================================================================
