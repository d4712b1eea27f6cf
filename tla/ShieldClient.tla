----------------------------- MODULE ShieldClient -----------------------------
(***************************************************************************)
(* One client of Shield shared by the threads of a worker: its short       *)
(* memory, the requests in flight, the bounded attempts, and the one       *)
(* renewal a refused token may cause (integrations/shield_client.py,       *)
(* build_client in shield.py).                                             *)
(*                                                                         *)
(* One URL is followed; a reply is only known to have arrived.             *)
(***************************************************************************)
EXTENDS Naturals, FiniteSets

CONSTANTS
    Threads,
    MaxAttempts,   \* max_attempts: 3, or 1 for a test made by hand
    MaxRequests,   \* bound: calls of get_json
    Faults         \* among "lent" (a wait times out), "rejeu" (the replay is cut)

VARIABLES
    memoire,     \* is a reply in the memory?
    vol,         \* the event in flight: who registered it, or Personne
    attendu,     \* thread -> the leader whose event it waits for, or Personne
    etape,       \* thread -> its step in get_json
    cache,       \* thread -> use_cache
    essais,      \* thread -> attempts made
    renouvele,   \* thread -> renewals asked for
    issue,       \* thread -> how its last request ended
    requests,
    trouble      \* history: has a call failed, a wait timed out, a reply been forgotten?

vars == <<memoire, vol, attendu, etape, cache, essais, renouvele, issue, requests, trouble>>

Personne == "personne"

\* What the proofs ask of the constants; the host module checks it.
ClientConstantes == /\ MaxAttempts \in Nat \ {0} /\ MaxRequests \in Nat
                    /\ Personne \notin Threads

\* "passing" stands for rate_limit, timeout and network.
Kinds == {"auth", "passing", "http", "payload"}

TypeOK ==
    /\ memoire \in BOOLEAN
    /\ vol \in Threads \cup {Personne}
    /\ attendu \in [Threads -> Threads \cup {Personne}]
    /\ etape \in [Threads -> {"repos", "annonce", "attente", "appel", "rejeu", "liberer"}]
    /\ cache \in [Threads -> BOOLEAN]
    /\ essais \in [Threads -> Nat]
    /\ renouvele \in [Threads -> Nat]
    /\ issue \in [Threads -> Kinds \cup {"aucune", "donnees", "brute"}]
    /\ requests \in 0..MaxRequests
    /\ trouble \in BOOLEAN

At(t, e) == etape[t] = e
Goto(t, e) == etape' = [etape EXCEPT ![t] = e]
Ends(t, how) == issue' = [issue EXCEPT ![t] = how]
InNetwork(t) == etape[t] \in {"appel", "rejeu"}

-----------------------------------------------------------------------------
\* get_json: the memory answers.
Begin(t) ==
    /\ At(t, "repos") /\ requests < MaxRequests
    /\ requests' = requests + 1
    /\ essais' = [essais EXCEPT ![t] = 0]
    /\ renouvele' = [renouvele EXCEPT ![t] = 0]
    /\ cache' = [cache EXCEPT ![t] = TRUE]
    /\ IF memoire THEN Ends(t, "donnees") /\ UNCHANGED etape
       ELSE Ends(t, "aucune") /\ Goto(t, "annonce")
    /\ UNCHANGED <<memoire, vol, attendu, trouble>>

\* healthcheck: neither the memory nor the requests in flight are looked at.
BeginProbe(t) ==
    /\ At(t, "repos") /\ requests < MaxRequests
    /\ requests' = requests + 1
    /\ essais' = [essais EXCEPT ![t] = 0]
    /\ renouvele' = [renouvele EXCEPT ![t] = 0]
    /\ cache' = [cache EXCEPT ![t] = FALSE]
    /\ Ends(t, "aucune")
    /\ Goto(t, "appel")
    /\ trouble' = TRUE
    /\ UNCHANGED <<memoire, vol, attendu>>

\* mutant: nobody waits, whatever event is registered
ToujoursPremier(event) == TRUE

Premier(event) == event = Personne

\* _await_inflight: the first one registers and calls, the others wait.
Announce(t) ==
    /\ At(t, "annonce")
    /\ IF Premier(vol)
       THEN vol' = t /\ Goto(t, "appel") /\ UNCHANGED attendu
       ELSE Goto(t, "attente") /\ attendu' = [attendu EXCEPT ![t] = vol] /\ UNCHANGED vol
    /\ UNCHANGED <<memoire, cache, essais, renouvele, issue, requests, trouble>>

\* The event was set, or the wait timed out: the memory answers, or the
\* follower calls in its turn, unregistered.
Awake(t) ==
    /\ At(t, "attente")
    /\ IF attendu[t] = Personne THEN UNCHANGED trouble
       ELSE "lent" \in Faults /\ trouble' = TRUE
    /\ IF memoire THEN Ends(t, "donnees") /\ Goto(t, "repos")
       ELSE Goto(t, "appel") /\ UNCHANGED issue
    /\ attendu' = [attendu EXCEPT ![t] = Personne]
    /\ UNCHANGED <<memoire, vol, cache, essais, renouvele, requests>>

\* A reply: kept in the memory.
Reply(t) ==
    /\ InNetwork(t)
    /\ memoire' = (memoire \/ cache[t])
    /\ Ends(t, "donnees") /\ Goto(t, "liberer")
    /\ UNCHANGED <<vol, attendu, cache, essais, renouvele, requests, trouble>>

\* for attempt in range(max_attempts): n attempts have failed so far.
Encore(n) == n < MaxAttempts

\* 429, timeouts, cut connections, 5xx, an unreadable reply: one attempt is spent.
AttemptFails(t, kind) ==
    /\ At(t, "appel") /\ kind \in Kinds \ {"auth"}
    /\ trouble' = TRUE
    /\ essais' = [essais EXCEPT ![t] = essais[t] + 1]
    /\ IF Encore(essais[t] + 1) THEN UNCHANGED <<etape, issue>>
       ELSE Ends(t, kind) /\ Goto(t, "liberer")
    /\ UNCHANGED <<memoire, vol, attendu, cache, renouvele, requests>>

\* 4xx and unreadable JSON: raised at once.
Refused(t, kind) ==
    /\ At(t, "appel") /\ kind \in {"auth", "http", "payload"}
    /\ trouble' = TRUE
    /\ Ends(t, kind) /\ Goto(t, "liberer")
    /\ UNCHANGED <<memoire, vol, attendu, cache, essais, renouvele, requests>>

\* deja_reauthentifie
PeutRenouveler(t) == renouvele[t] = 0

\* 401: the session is renewed, then the call is replayed.  When there is
\* nothing to renew the refusal stands.
Reauthenticate(t, ok) ==
    /\ At(t, "appel") /\ PeutRenouveler(t)
    /\ trouble' = TRUE
    /\ renouvele' = [renouvele EXCEPT ![t] = renouvele[t] + 1]
    /\ IF ok THEN Goto(t, "rejeu") /\ UNCHANGED issue
       ELSE Ends(t, "auth") /\ Goto(t, "liberer")
    /\ UNCHANGED <<memoire, vol, attendu, cache, essais, requests>>

\* The replay is refused: "auth", whatever the status.  It is unreadable:
\* "payload".
ReplayRefused(t, kind) ==
    /\ At(t, "rejeu") /\ kind \in {"auth", "payload"}
    /\ Ends(t, kind) /\ Goto(t, "liberer")
    /\ UNCHANGED <<memoire, vol, attendu, cache, essais, renouvele, requests, trouble>>

\* The replay times out or is cut: the exception is raised inside an except
\* clause, whose siblings do not see it.
ReplayCut(t) ==
    /\ At(t, "rejeu") /\ "rejeu" \in Faults
    /\ Ends(t, "brute") /\ Goto(t, "liberer")
    /\ UNCHANGED <<memoire, vol, attendu, cache, essais, renouvele, requests, trouble>>

\* mutant: only a request that succeeded releases
LiberationSiSucces(t) == IF issue[t] = "donnees" THEN Personne ELSE vol

\* finally: _release_inflight pops whatever event is registered.
Liberation(t) == Personne

\* event.set(): those who wait for it.
Reveil(event) == {t \in Threads : attendu[t] = event}

Release(t) ==
    /\ At(t, "liberer")
    /\ vol' = Liberation(t)
    /\ attendu' = [s \in Threads |->
                     IF s \in Reveil(vol) \ Reveil(vol') THEN Personne ELSE attendu[s]]
    /\ Goto(t, "repos")
    /\ UNCHANGED <<memoire, cache, essais, renouvele, issue, requests, trouble>>

\* CACHE_TTL_SECONDS have passed, or clear_cache.
Forget ==
    /\ memoire /\ memoire' = FALSE
    /\ trouble' = (trouble \/ \E t \in Threads : ~At(t, "repos"))
    /\ UNCHANGED <<vol, attendu, etape, cache, essais, renouvele, issue, requests>>

Init ==
    /\ memoire = FALSE /\ vol = Personne
    /\ attendu = [t \in Threads |-> Personne]
    /\ etape = [t \in Threads |-> "repos"]
    /\ cache = [t \in Threads |-> TRUE]
    /\ essais = [t \in Threads |-> 0]
    /\ renouvele = [t \in Threads |-> 0]
    /\ issue = [t \in Threads |-> "aucune"]
    /\ requests = 0 /\ trouble = FALSE

GetJson(t) ==
    \/ Begin(t) \/ BeginProbe(t) \/ Announce(t) \/ Awake(t) \/ Reply(t)
    \/ \E kind \in Kinds : AttemptFails(t, kind) \/ Refused(t, kind) \/ ReplayRefused(t, kind)
    \/ \E ok \in BOOLEAN : Reauthenticate(t, ok)
    \/ ReplayCut(t) \/ Release(t)

Next == (\E t \in Threads : GetJson(t)) \/ Forget

Spec == Init /\ [][Next]_vars

-----------------------------------------------------------------------------
(* Properties. *)

\* _release_inflight in a finally (shield_client.py:288-290): an event in flight was
\* registered by a request that still runs, whoever popped it and however the
\* others ended.  Without it the URL would make every later reader wait.
EventHasOwner == vol # Personne => etape[vol] \in {"appel", "rejeu", "liberer"}

\* A waiter waits for a request that still runs: nobody sleeps on an event that
\* was popped without being set (shield_client.py:304-314).
WaitsForSomeone ==
    \A t \in Threads :
        (At(t, "attente") /\ attendu[t] # Personne) => attendu[t] = vol

\* shield_client.py:153-154: two readers of one URL make one call, not two, as long
\* as no call fails and the memory keeps the reply.  After a failure a follower
\* calls without an event of its own, and pops that of another.
OneCall ==
    ~trouble => \A s, t \in Threads : InNetwork(s) /\ InNetwork(t) => s = t

\* shield_client.py:147-149, 241-243: a refused token is renewed at most once per
\* request, and attempts are bounded.
BoundedCalls == \A t \in Threads : renouvele[t] <= 1 /\ essais[t] <= MaxAttempts
================================================================================
