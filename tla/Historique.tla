----------------------------- MODULE Historique -----------------------------
(***************************************************************************)
(* The history of human resources: collections that deposit the day's      *)
(* measures, under a shared lock, each with its trace                      *)
(* (governance/historique.py, tasks.py, models.py; historiser).            *)
(*                                                                         *)
(* A measure is the version of the source it was read from, so that "older *)
(* than" can be said of two readings; Inconnu and Absent are below all of  *)
(* them.  A key of the lock is a collection and a day.                     *)
(***************************************************************************)
EXTENDS Integers, FiniteSets

CONSTANTS
    Workers,      \* Celery workers and manual commands
    Sites,        \* sites of Shield, companies of Odoo
    MaxDay,       \* bound: last day
    MaxVersion,   \* bound: changes of the sources
    MaxRuns,      \* bound: collections started
    Disruptions   \* among "expire", "crash", "cache"

Personne == "personne"

\* What the proofs ask of the constants; the host module checks it.
HistoriqueConstantes == /\ MaxDay \in Nat /\ MaxVersion \in Nat /\ MaxRuns \in Nat
                        /\ Personne \notin Workers

VARIABLES
    aujourdhui,  \* timezone.localdate()
    version,     \* version of what the sources hold
    lignes,      \* KpiSnapshot: the grain -> measure
    verrou,      \* key of the lock -> the worker that added it, or Personne
    tache,       \* worker -> its SyncJob's status
    etape,       \* worker -> step of its collection
    lu,          \* worker -> what its collection has read
    runs,        \* number of collections started
    depasse      \* history: has a lock expired, or been granted without Redis?

vars == <<aujourdhui, version, lignes, verrou, tache, etape, lu, runs, depasse>>

Absent == -2
Inconnu == -1
Mesures == Absent..MaxVersion
Mesure(v) == v >= 0

Days == 0..MaxDay
Collections == {"presence", "stocks", "odoo"}
Kinds == {"employee", "worker"}
Cles == Collections \X Days

\* The unique grain: day, source and metric, dimension and code.
Grain == {<<j, "presence", "groupe", "">> : j \in Days}
    \cup {<<j, "presence", "type", k>> : j \in Days, k \in Kinds}
    \cup {<<j, "presence", "site", s>> : j \in Days, s \in Sites}
    \cup {<<j, "stocks", "groupe", m>> : j \in Days, m \in Kinds \cup {"total"}}
    \cup {<<j, "odoo", "groupe", "">> : j \in Days}
    \cup {<<j, "odoo", "societe", s>> : j \in Days, s \in Sites}

Rien == [cle |-> <<"presence", 0>>, ecrit |-> <<>>, statut |-> "failed"]

TypeOK ==
    /\ aujourdhui \in Days
    /\ version \in 0..MaxVersion
    /\ lignes \in [Grain -> Mesures]
    /\ verrou \in [Cles -> Workers \cup {Personne}]
    /\ tache \in [Workers -> {"aucune", "running", "success", "partial", "error"}]
    /\ etape \in [Workers -> {"repos", "lire", "ecrire", "liberer", "tracer"}]
    /\ \A w \in Workers : /\ lu[w].cle \in Cles
                          /\ DOMAIN lu[w].ecrit \subseteq Grain
                          /\ lu[w].statut \in {"success", "partial", "failed", "skipped"}
    /\ runs \in 0..MaxRuns
    /\ depasse \in BOOLEAN

\* Only a closed day has a presence; stocks and Odoo are of the day itself.
JourPermis(c, j) == IF c = "presence" THEN j < aujourdhui ELSE j = aujourdhui

At(w, e) == etape[w] = e
Goto(w, e) == etape' = [etape EXCEPT ![w] = e]

(***************************************************************************)
(* What a collection deposits: a function on part of the grain.            *)
(***************************************************************************)

\* collecter_presence_shield: the Group, each kind, and the sites that appear.
\* The line of a site that no longer appears is left as it was.
PresenceComplete(j, apparus) ==
    [g \in {<<j, "presence", "groupe", "">>}
           \cup {<<j, "presence", "type", k>> : k \in Kinds}
           \cup {<<j, "presence", "site", s>> : s \in apparus} |-> version]

\* A truncated or failed reading: the Group's three counts are written unknown,
\* and nothing else; the lines by kind and by site are left as they were.
PresenceDefaillante(j) == [g \in {<<j, "presence", "groupe", "">>} |-> Inconnu]

\* collecter_stocks_shield: what could not be counted is unknown, and so is a
\* total that lacks a term.
Stocks(j, comptes) ==
    [g \in {<<j, "stocks", "groupe", m>> : m \in Kinds \cup {"total"}} |->
        IF IF g[4] = "total" THEN comptes = Kinds ELSE g[4] \in comptes
        THEN version ELSE Inconnu]

\* collecter_odoo: the Group and each company that could be read.
Odoo(j, mesure, societes) ==
    [g \in {<<j, "odoo", "groupe", "">>}
           \cup {<<j, "odoo", "societe", s>> : s \in societes} |->
        IF mesure THEN version ELSE Inconnu]

Depots(c, j) ==
    CASE c = "presence" ->
            {[ecrit |-> PresenceComplete(j, s), statut |-> "success"] :
                 s \in SUBSET Sites}
            \cup {[ecrit |-> PresenceDefaillante(j), statut |-> "partial"]}
      [] c = "stocks" ->
            {[ecrit |-> Stocks(j, k),
              statut |-> IF k = Kinds THEN "success" ELSE "partial"] :
                 k \in SUBSET Kinds}
      [] c = "odoo" ->
            {[ecrit |-> Odoo(j, m, s),
              statut |-> IF m THEN "success" ELSE "partial"] :
                 m \in BOOLEAN, s \in {{}, Sites}}

(***************************************************************************)
(* A collection                                                            *)
(***************************************************************************)

\* mutant: the lock is set, whether or not it is there
PrisJamais(k) == FALSE

\* _verrouiller: cache.add finds the key.
Pris(k) == verrou[k] # Personne

\* executer creates the trace; _verrouiller adds the key, or finds it taken
\* and the collection is skipped without touching the lock.
Start(w, c, j) ==
    /\ At(w, "repos") /\ runs < MaxRuns /\ JourPermis(c, j)
    /\ runs' = runs + 1
    /\ tache' = [tache EXCEPT ![w] = "running"]
    /\ LET pris == Pris(<<c, j>>)
       IN /\ lu' = [lu EXCEPT ![w] =
                     [cle |-> <<c, j>>, ecrit |-> <<>>,
                      statut |-> IF pris THEN "skipped" ELSE "failed"]]
          /\ IF pris THEN Goto(w, "tracer") /\ UNCHANGED verrou
             ELSE Goto(w, "lire") /\ verrou' = [verrou EXCEPT ![<<c, j>>] = w]
    /\ UNCHANGED <<aujourdhui, version, lignes, depasse>>

\* Redis does not answer: _cache_add grants, and holds nothing.
StartBlind(w, c, j) ==
    /\ "cache" \in Disruptions
    /\ At(w, "repos") /\ runs < MaxRuns /\ JourPermis(c, j)
    /\ runs' = runs + 1
    /\ tache' = [tache EXCEPT ![w] = "running"]
    /\ lu' = [lu EXCEPT ![w] = [cle |-> <<c, j>>, ecrit |-> <<>>, statut |-> "failed"]]
    /\ Goto(w, "lire")
    /\ depasse' = TRUE
    /\ UNCHANGED <<aujourdhui, version, lignes, verrou>>

\* The source has answered.
Read(w) ==
    /\ At(w, "lire")
    /\ \E d \in Depots(lu[w].cle[1], lu[w].cle[2]) :
          lu' = [lu EXCEPT ![w].ecrit = d.ecrit, ![w].statut = d.statut]
    /\ Goto(w, "ecrire")
    /\ UNCHANGED <<aujourdhui, version, lignes, verrou, tache, runs, depasse>>

\* The source is not connected, or the reading raised: nothing is written.
Refused(w) ==
    /\ At(w, "lire")
    /\ Goto(w, "liberer")
    /\ UNCHANGED <<aujourdhui, version, lignes, verrou, tache, lu, runs, depasse>>

\* mutant: a recollection refreshes the Group, and only creates the other rows
EcrireGroupeSeul(anciennes, ecrit) ==
    [g \in Grain |-> IF g \in DOMAIN ecrit /\ (g[3] = "groupe" \/ anciennes[g] = Absent)
                     THEN ecrit[g] ELSE anciennes[g]]

\* _ecrire: update_or_create on the grain.
Ecrire(anciennes, ecrit) ==
    [g \in Grain |-> IF g \in DOMAIN ecrit THEN ecrit[g] ELSE anciennes[g]]

\* One transaction for the whole collection.
Write(w) ==
    /\ At(w, "ecrire")
    /\ lignes' = Ecrire(lignes, lu[w].ecrit)
    /\ Goto(w, "liberer")
    /\ UNCHANGED <<aujourdhui, version, verrou, tache, lu, runs, depasse>>

\* finally: _deverrouiller deletes the key, whoever added it.
Release(w) ==
    /\ At(w, "liberer")
    /\ verrou' = [verrou EXCEPT ![lu[w].cle] = Personne]
    /\ Goto(w, "tracer")
    /\ UNCHANGED <<aujourdhui, version, lignes, tache, lu, runs, depasse>>

\* mutant: the trace keeps the word of the collection
StatutRecopie ==
    [success |-> "success", partial |-> "partial", failed |-> "error",
     skipped |-> "skipped"]

\* executer: status of the trace
StatutTrace ==
    [success |-> "success", partial |-> "partial", failed |-> "error",
     skipped |-> "error"]

Trace(w) ==
    /\ At(w, "tracer")
    /\ tache' = [tache EXCEPT ![w] = StatutTrace[lu[w].statut]]
    /\ lu' = [lu EXCEPT ![w] = Rien]
    /\ Goto(w, "repos")
    /\ UNCHANGED <<aujourdhui, version, lignes, verrou, runs, depasse>>

(***************************************************************************)
(* The environment                                                         *)
(***************************************************************************)

Change ==
    /\ version < MaxVersion /\ version' = version + 1
    /\ UNCHANGED <<aujourdhui, lignes, verrou, tache, etape, lu, runs, depasse>>

Midnight ==
    /\ aujourdhui < MaxDay /\ aujourdhui' = aujourdhui + 1
    /\ UNCHANGED <<version, lignes, verrou, tache, etape, lu, runs, depasse>>

\* DUREE_VERROU has passed: an hour under a running collection, or the rest
\* of the hour after a worker was stopped.
Expire(k) ==
    /\ verrou[k] # Personne
    /\ \/ "expire" \in Disruptions /\ depasse' = TRUE
       \/ At(verrou[k], "repos") /\ UNCHANGED depasse
    /\ verrou' = [verrou EXCEPT ![k] = Personne]
    /\ UNCHANGED <<aujourdhui, version, lignes, tache, etape, lu, runs>>

\* The worker is stopped; its transaction, if any, is rolled back.
Crash(w) ==
    /\ "crash" \in Disruptions /\ ~At(w, "repos")
    /\ Goto(w, "repos")
    /\ tache' = [tache EXCEPT ![w] = "aucune"]
    /\ lu' = [lu EXCEPT ![w] = Rien]
    /\ UNCHANGED <<aujourdhui, version, lignes, verrou, runs, depasse>>

Init ==
    /\ aujourdhui = 0
    /\ version = 0
    /\ lignes = [g \in Grain |-> Absent]
    /\ verrou = [k \in Cles |-> Personne]
    /\ tache = [w \in Workers |-> "aucune"]
    /\ etape = [w \in Workers |-> "repos"]
    /\ lu = [w \in Workers |-> Rien]
    /\ runs = 0
    /\ depasse = FALSE

Collect(w) ==
    \/ \E c \in Collections, j \in Days : Start(w, c, j) \/ StartBlind(w, c, j)
    \/ Read(w) \/ Refused(w) \/ Write(w) \/ Release(w) \/ Trace(w)

Next ==
    \/ \E w \in Workers : Collect(w) \/ Crash(w)
    \/ Change \/ Midnight
    \/ \E k \in Cles : Expire(k)

Spec == Init /\ [][Next]_vars

(***************************************************************************)
(* Properties                                                              *)
(***************************************************************************)

\* historique.py:21-23: two collections of one day never run at the same time,
\* unless one outlived the lock or Redis did not answer.  A worker that was
\* stopped leaves a lock; it expires and the next collection takes it.
OneCollection ==
    \A w1, w2 \in Workers :
        (/\ w1 # w2 /\ ~depasse
         /\ etape[w1] \in {"lire", "ecrire", "liberer"}
         /\ etape[w2] \in {"lire", "ecrire", "liberer"})
            => lu[w1].cle # lu[w2].cle

\* tasks.py:6-7, "the last writing of the day wins": what was read earlier never
\* replaces what was read later (readings are inside the lock).
Older == \E g \in Grain : Mesure(lignes[g]) /\ Mesure(lignes'[g]) /\ lignes'[g] < lignes[g]
NeverOlder == [][~depasse => ~Older]_vars

\* historique.py:124-158: where the Group is measured, its kinds of staff are, from
\* the same reading, and the kinds are always of one reading.  The lines by site are
\* of that reading or of an earlier one (a site that no longer appears keeps its
\* last line), never of a later one, while the lock outlives the collection.
DayIsWhole ==
    \A j \in Days, k \in Kinds :
        /\ Mesure(lignes[<<j, "presence", "groupe", "">>])
             => lignes[<<j, "presence", "type", k>>]
                    = lignes[<<j, "presence", "groupe", "">>]
        /\ \A l \in Kinds : lignes[<<j, "presence", "type", l>>] = lignes[<<j, "presence", "type", k>>]
        /\ ~depasse => \A s \in Sites :
               lignes[<<j, "presence", "site", s>>] <= lignes[<<j, "presence", "type", k>>]

\* "A day whose collection is incomplete [...] is written `unknown' as a WHOLE"
\* (historique.py:90-92): where the Group is unknown, so are the kinds and sites.
IncompleteUnknown ==
    \A j \in Days : \A g \in Grain :
        (g[1] = j /\ g[2] = "presence" /\ lignes[<<j, "presence", "groupe", "">>] = Inconnu)
            => ~Mesure(lignes[g])

\* historique.py:182-184: a total is only measured when its terms are, from the
\* same collection.
TotalHasItsTerms ==
    \A j \in Days, k \in Kinds :
        Mesure(lignes[<<j, "stocks", "groupe", "total">>])
            => lignes[<<j, "stocks", "groupe", k>>]
                   = lignes[<<j, "stocks", "groupe", "total">>]
=============================================================================
