------------------------------- MODULE Partage -------------------------------
(***************************************************************************)
(* The shared payload of Shield and the thresholds it is judged with       *)
(* (integrations/partage.py, governance/hr_sources.py, seuils_rh.py, the   *)
(* PUT of signaux_views.py).                                               *)
(*                                                                         *)
(* A payload is known by the version of the thresholds it was judged with; *)
(* 0 is "nothing in the cache", versions start at 1.                       *)
(***************************************************************************)
EXTENDS Naturals, FiniteSets

CONSTANTS
    Requests,      \* requests that read the payload, in all workers
    MaxVersion,    \* bound: thresholds arbitrated
    MaxReads,      \* bound: readings of the payload
    Disruptions    \* among "lent", "arret"

Personne == "personne"

\* What the proofs ask of the constants; the host module checks it.
PartageConstantes == /\ MaxVersion \in Nat \ {0}
                     /\ MaxReads \in Nat
                     /\ Personne \notin Requests

VARIABLES
    seuils,     \* version of the thresholds in the database
    copie,      \* thresholds in the shared cache, 0 when absent
    charge,     \* payload in the shared cache, 0 when absent
    verrou,     \* who added the lock of the collection, or Personne
    etape,      \* request -> its step
    lu,         \* request -> version it has read or collected
    decision,   \* step of the PUT that arbitrates a threshold
    reads,      \* readings so far
    depasse,    \* history: has a collection outlived its lock or its waiters?
    serein      \* history: no collection overlaps the last PUT, which ended

vars == <<seuils, copie, charge, verrou, etape, lu, decision, reads, depasse, serein>>

Versions == 0..MaxVersion
Etapes == {"repos", "verrou", "attente", "seuils", "base", "rendre", "liberer", "ranger"}

TypeOK ==
    /\ seuils \in 1..MaxVersion
    /\ copie \in Versions /\ charge \in Versions
    /\ verrou \in Requests \cup {Personne}
    /\ etape \in [Requests -> Etapes]
    /\ lu \in [Requests -> Versions]
    /\ decision \in {"repos", "avant", "copie", "charge", "ensuite", "audit"}
    /\ reads \in 0..MaxReads
    /\ depasse \in BOOLEAN /\ serein \in BOOLEAN

At(r, e) == etape[r] = e
Goto(r, e) == etape' = [etape EXCEPT ![r] = e]
Collecting(r) == etape[r] \in {"seuils", "base", "rendre", "liberer"}
Busy(r) == Collecting(r) \/ At(r, "ranger")

-----------------------------------------------------------------------------
(* Reading the payload: partage.lire. *)

\* A payload in the cache is served.
Hit(r) ==
    /\ At(r, "repos") /\ reads < MaxReads /\ charge # 0
    /\ reads' = reads + 1
    /\ lu' = [lu EXCEPT ![r] = charge]
    /\ UNCHANGED <<seuils, copie, charge, verrou, etape, decision, depasse, serein>>

Miss(r) ==
    /\ At(r, "repos") /\ reads < MaxReads /\ charge = 0
    /\ reads' = reads + 1
    /\ Goto(r, "verrou")
    /\ UNCHANGED <<seuils, copie, charge, verrou, lu, decision, depasse, serein>>

\* mutant: whoever finds the lock taken collects at once
SuiteSansAttente(pris) == "seuils"

\* cache.add of the lock: the one who adds it collects, the others wait.
Suite(pris) == IF pris THEN "attente" ELSE "seuils"

Lock(r) ==
    /\ At(r, "verrou")
    /\ verrou' = IF verrou = Personne THEN r ELSE verrou
    /\ Goto(r, Suite(verrou # Personne))
    /\ serein' = (serein /\ decision = "repos")
    /\ UNCHANGED <<seuils, copie, charge, lu, decision, reads, depasse>>

\* A waiter finds the payload.
Served(r) ==
    /\ At(r, "attente") /\ charge # 0
    /\ lu' = [lu EXCEPT ![r] = charge]
    /\ Goto(r, "repos")
    /\ UNCHANGED <<seuils, copie, charge, verrou, decision, reads, depasse, serein>>

\* ATTENTE_MAX has passed: the waiter collects, without the lock.
Impatient(r) ==
    /\ At(r, "attente") /\ "lent" \in Disruptions
    /\ depasse' = TRUE
    /\ Goto(r, "seuils")
    /\ serein' = (serein /\ decision = "repos")
    /\ UNCHANGED <<seuils, copie, charge, verrou, lu, decision, reads>>

\* seuils_publics -> _surcharges: the cached thresholds, or the database.
Thresholds(r) ==
    /\ At(r, "seuils")
    /\ IF copie # 0 THEN Goto(r, "rendre") /\ lu' = [lu EXCEPT ![r] = copie]
       ELSE Goto(r, "base") /\ lu' = [lu EXCEPT ![r] = seuils]
    /\ UNCHANGED <<seuils, copie, charge, verrou, decision, reads, depasse, serein>>

\* What was read from the database is put in the cache.
CopyThresholds(r) ==
    /\ At(r, "base")
    /\ copie' = lu[r]
    /\ Goto(r, "rendre")
    /\ UNCHANGED <<seuils, charge, verrou, lu, decision, reads, depasse, serein>>

\* collecter() returns, or raises: the lock is deleted either way.
Collected(r) ==
    /\ At(r, "rendre")
    /\ Goto(r, "liberer")
    /\ UNCHANGED <<seuils, copie, charge, verrou, lu, decision, reads, depasse, serein>>

Unlock(r) ==
    /\ At(r, "liberer")
    /\ verrou' = Personne
    /\ \/ Goto(r, "ranger")
       \/ Goto(r, "repos")
    /\ UNCHANGED <<seuils, copie, charge, lu, decision, reads, depasse, serein>>

\* The payload is stored once the lock is deleted.
Store(r) ==
    /\ At(r, "ranger")
    /\ charge' = lu[r]
    /\ Goto(r, "repos")
    /\ UNCHANGED <<seuils, copie, verrou, lu, decision, reads, depasse, serein>>

-----------------------------------------------------------------------------
(* Arbitrating a threshold: HrThresholdsView.put, one at a time. *)

\* S.effectifs: the thresholds before, for the audit; they enter the cache.
ReadBefore ==
    /\ decision = "repos" /\ seuils < MaxVersion
    /\ copie' = IF copie = 0 THEN seuils ELSE copie
    /\ decision' = "avant"
    /\ UNCHANGED <<seuils, charge, verrou, etape, lu, reads, depasse, serein>>

\* The row is written and committed.
Decide ==
    /\ decision = "avant"
    /\ seuils' = seuils + 1
    /\ decision' = "copie"
    /\ serein' = \A r \in Requests : ~Busy(r)
    /\ UNCHANGED <<copie, charge, verrou, etape, lu, reads, depasse>>

\* on_commit: the cached thresholds are forgotten.
ForgetThresholds ==
    /\ decision = "copie"
    /\ copie' = 0
    /\ decision' = "charge"
    /\ UNCHANGED <<seuils, charge, verrou, etape, lu, reads, depasse, serein>>

\* mutant: the payload that was judged with the old thresholds is left there
OublierRien(c) == c

\* partage.oublier
Oublier(c) == 0

\* on_commit: the payload is forgotten.
ForgetPayload ==
    /\ decision = "charge"
    /\ charge' = Oublier(charge)
    /\ decision' = "ensuite"
    /\ UNCHANGED <<seuils, copie, verrou, etape, lu, reads, depasse, serein>>

\* The thresholds are forgotten again ...
ForgetAgain ==
    /\ decision = "ensuite"
    /\ copie' = 0
    /\ decision' = "audit"
    /\ UNCHANGED <<seuils, charge, verrou, etape, lu, reads, depasse, serein>>

\* ... and read, for the audit and the answer.
Audit ==
    /\ decision = "audit"
    /\ copie' = IF copie = 0 THEN seuils ELSE copie
    /\ decision' = "repos"
    /\ UNCHANGED <<seuils, charge, verrou, etape, lu, reads, depasse, serein>>

-----------------------------------------------------------------------------
(* Times to live, and workers that are stopped. *)

PayloadExpires ==
    /\ charge # 0 /\ charge' = 0
    /\ UNCHANGED <<seuils, copie, verrou, etape, lu, decision, reads, depasse, serein>>

ThresholdsExpire ==
    /\ copie # 0 /\ copie' = 0
    /\ UNCHANGED <<seuils, charge, verrou, etape, lu, decision, reads, depasse, serein>>

\* DUREE_VERROU has passed: under a slow collection, or after a stop.
LockExpires ==
    /\ verrou # Personne
    /\ \/ ~Collecting(verrou) /\ UNCHANGED depasse
       \/ "lent" \in Disruptions /\ depasse' = TRUE
    /\ verrou' = Personne
    /\ UNCHANGED <<seuils, copie, charge, etape, lu, decision, reads, serein>>

Crash(r) ==
    /\ "arret" \in Disruptions /\ ~At(r, "repos")
    /\ Goto(r, "repos")
    /\ UNCHANGED <<seuils, copie, charge, verrou, lu, decision, reads, depasse, serein>>

CrashInPut ==
    /\ "arret" \in Disruptions /\ decision # "repos"
    /\ decision' = "repos"
    /\ serein' = (serein /\ decision = "avant")
    /\ UNCHANGED <<seuils, copie, charge, verrou, etape, lu, reads, depasse>>

Init ==
    /\ seuils = 1 /\ copie = 0 /\ charge = 0
    /\ verrou = Personne
    /\ etape = [r \in Requests |-> "repos"]
    /\ lu = [r \in Requests |-> 0]
    /\ decision = "repos"
    /\ reads = 0
    /\ depasse = FALSE /\ serein = TRUE

Read(r) ==
    \/ Hit(r) \/ Miss(r) \/ Lock(r) \/ Served(r) \/ Impatient(r)
    \/ Thresholds(r) \/ CopyThresholds(r) \/ Collected(r) \/ Unlock(r) \/ Store(r)

Put == ReadBefore \/ Decide \/ ForgetThresholds \/ ForgetPayload \/ ForgetAgain \/ Audit

Next ==
    \/ \E r \in Requests : Read(r) \/ Crash(r)
    \/ Put \/ CrashInPut
    \/ PayloadExpires \/ ThresholdsExpire \/ LockExpires

Spec == Init /\ [][Next]_vars

-----------------------------------------------------------------------------
(* Properties. *)

\* partage.py:16-18: one request collects, the others wait for its result, as
\* long as no collection outlives the patience of the waiters or the lock.
OneCollector ==
    ~depasse => \A r, s \in Requests : Collecting(r) /\ Collecting(s) => r = s

\* hr_sources.py:42-50: the payload judged with an old threshold is not served
\* once the arbitration is over, provided no collection overlapped it.
ArbitrageSuivi ==
    (serein /\ decision = "repos") => charge \in {0, seuils} /\ copie \in {0, seuils}
================================================================================
