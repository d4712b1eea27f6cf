------------------------------- MODULE Automates -------------------------------
(***************************************************************************)
(* The automations of the copilot (ai_copilot/tasks.py, models.py,         *)
(* AIAutomation; admin.py, AutomatisationAdmin): Celery Beat's task lists  *)
(* the enabled rows once and runs those that are due, one after the other, *)
(* while administrators edit or delete them and their authors' accounts.   *)
(***************************************************************************)
EXTENDS Integers, Sequences, FiniteSets, SequencesExt

CONSTANTS
    Automations,    \* names of the rows
    Ticks,          \* workers that may run Beat's task at the same time
    Intervalle,     \* interval_minutes, in units of the clock
    MaxTemps,       \* the bound of the clock
    MaxTroubles     \* the bound of the edits, deletions and stops

\* The rows of the table are finitely many, and "aucune" stands for none of them.
AutomatesConstantes ==
    /\ IsFiniteSet(Automations) /\ "aucune" \notin Automations
    /\ MaxTemps \in Nat /\ Intervalle \in 1..MaxTemps /\ MaxTroubles \in Nat

VARIABLES
    horloge,
    table,          \* the rows
    formulaire,     \* the row an administrator's request has read and not saved yet
    tick,           \* what each worker does: the rows it still has to run, the one it has read
    troubles,       \* edits, deletions and stops so far
    lancee,         \* when each automation's tool was last run
    effets,         \* the kinds of tool run, and of requests filed, by automations
    rapprochees,    \* automations whose tool was run twice within the interval
    excusees        \* automations listed by two ticks at once, saved over by a form, or cut by a stop

vars == <<horloge, table, formulaire, tick, troubles, lancee, effets, rapprochees, excusees>>

Jamais == -1
Outils == {"lecture", "ecriture"}
\* auteur: the account that created the row still exists (created_by is SET_NULL).
Ligne(existe, outil, auteur) ==
    [existe |-> existe, active |-> existe, outil |-> outil, auteur |-> auteur, dernier |-> Jamais]
Absente == Ligne(FALSE, "lecture", FALSE)
Lignes ==
    [existe : BOOLEAN, active : BOOLEAN, outil : Outils, auteur : BOOLEAN, dernier : Jamais..MaxTemps]

\* A run of run_due_automations with the rows it has still to look at, none of them read yet.
Ronde(etape, liste) == [etape |-> etape, liste |-> liste, outil |-> "aucun", auteur |-> FALSE]
Repos == Ronde("repos", <<>>)
SansFormulaire == [sur |-> "aucune", ligne |-> Absente]

Init ==
    /\ horloge = 0
    /\ table \in [Automations -> {Ligne(TRUE, o, TRUE) : o \in Outils}]
    /\ formulaire = SansFormulaire
    /\ tick = [t \in Ticks |-> Repos]
    /\ troubles = 0
    /\ lancee = [a \in Automations |-> Jamais]
    /\ effets = {}
    /\ rapprochees = {}
    /\ excusees = {}

-----------------------------------------------------------------------------
(* The rows. *)

\* is_due, on the row as it was listed
IsDue(ligne, now) == ligne.active /\ (ligne.dernier = Jamais \/ now - ligne.dernier >= Intervalle)

\* needs_approval
NeedsApproval(outil) == outil = "ecriture"

\* mutant: the task forgets that the row was run
SansNote(ligne) == ligne
\* last_run_at = timezone.now(), when the tool has answered
Notee(ligne) == [ligne EXCEPT !.dernier = horloge]

-----------------------------------------------------------------------------
(* Beat's task.  The list is read once, `now' with it: the rows that are   *)
(* not due by then are passed over whatever happens to them later.         *)

Commencer(t) ==
    LET dues == {a \in Automations : table[a].existe /\ IsDue(table[a], horloge)}
        deja == {a \in dues : \E u \in Ticks : a \in ToSet(tick[u].liste)}
    IN /\ tick[t].etape = "repos"
       /\ dues # {}
       /\ tick' = [tick EXCEPT ![t] = Ronde("parcours", SetToSeq(dues))]
       /\ excusees' = excusees \cup deja
       /\ UNCHANGED <<horloge, table, formulaire, troubles, lancee, effets, rapprochees>>

\* The end of one row: the next one, or the end of the task.
Passer(t) ==
    [tick EXCEPT ![t] = IF Len(@.liste) = 1 THEN Repos ELSE Ronde("parcours", Tail(@.liste))]

\* run_automation reads the row anew, with its author.
Examiner(t) ==
    LET a == Head(tick[t].liste)
    IN /\ tick[t].etape = "parcours"
       /\ tick' = IF table[a].existe
                  THEN [tick EXCEPT ![t] = [@ EXCEPT !.etape = "lue", !.outil = table[a].outil, !.auteur = table[a].auteur]]
                  ELSE Passer(t)
       /\ UNCHANGED <<horloge, table, formulaire, troubles, lancee, effets, rapprochees, excusees>>

\* What is written names the author: an account deleted since the row was read is a broken foreign key.
AuteurParti(t) == tick[t].auteur /\ ~table[Head(tick[t].liste)].auteur
Arreter(t) == [tick EXCEPT ![t] = Repos]

\* The tool is blocked, denied when the automation has no author, or run once the call is noted.
Lancer(t) ==
    LET a == Head(tick[t].liste)
        refusee == NeedsApproval(tick[t].outil) \/ ~tick[t].auteur
    IN /\ tick[t].etape = "lue"
       /\ \/ /\ refusee
             /\ tick' = [tick EXCEPT ![t].etape = "refusee"]
             /\ UNCHANGED <<lancee, rapprochees, effets>>
          \/ /\ ~refusee /\ AuteurParti(t)
             /\ tick' = Arreter(t)
             /\ UNCHANGED <<lancee, rapprochees, effets>>
          \/ /\ ~refusee /\ ~AuteurParti(t)
             /\ tick' = [tick EXCEPT ![t].etape = "executee"]
             /\ lancee' = [lancee EXCEPT ![a] = horloge]
             /\ rapprochees' = IF lancee[a] # Jamais /\ horloge - lancee[a] < Intervalle
                               THEN rapprochees \cup {a} ELSE rapprochees
             /\ effets' = effets \cup {tick[t].outil}
       /\ UNCHANGED <<horloge, table, formulaire, troubles, excusees>>

\* The trace of the tool, last_run_at, then the audit.  A trace that fails leaves last_run_at as it was;
\* so does a row deleted meanwhile.  Any failure ends the task for the rest of the list.
Noter(t) ==
    LET a == Head(tick[t].liste)
        sansTrace == tick[t].etape = "executee" /\ AuteurParti(t)
    IN /\ tick[t].etape \in {"executee", "refusee"}
       /\ tick' = IF table[a].existe /\ ~AuteurParti(t) THEN Passer(t) ELSE Arreter(t)
       /\ table' = IF table[a].existe /\ ~sansTrace THEN [table EXCEPT ![a] = Notee(@)] ELSE table
       /\ excusees' = IF sansTrace THEN excusees \cup {a} ELSE excusees
       /\ UNCHANGED <<horloge, formulaire, troubles, lancee, effets, rapprochees>>

-----------------------------------------------------------------------------
(* Stops, and the administration site.  A form saves the whole row it      *)
(* read, last_run_at included, in a request of its own.                    *)

Trouble == troubles < MaxTroubles /\ troubles' = troubles + 1

Crash(t) ==
    /\ tick[t].etape # "repos" /\ Trouble
    /\ excusees' = IF tick[t].etape = "executee" THEN excusees \cup {Head(tick[t].liste)} ELSE excusees
    /\ tick' = Arreter(t)
    /\ UNCHANGED <<horloge, table, formulaire, lancee, effets, rapprochees>>

Ouvrir(a) ==
    /\ formulaire = SansFormulaire /\ table[a].existe /\ Trouble
    /\ formulaire' = [sur |-> a, ligne |-> table[a]]
    /\ UNCHANGED <<horloge, table, tick, lancee, effets, rapprochees, excusees>>

\* A row deleted meanwhile comes back; a save that names an author deleted meanwhile fails.
Enregistrer(a, active, outil) ==
    LET l == [formulaire.ligne EXCEPT !.active = active, !.outil = outil]
    IN /\ formulaire.sur = a
       /\ formulaire' = SansFormulaire
       /\ IF l.auteur /\ ~table[a].auteur
          THEN UNCHANGED <<table, excusees>>
          ELSE /\ table' = [table EXCEPT ![a] = l]
               /\ excusees' = IF ~table[a].existe \/ l.dernier # table[a].dernier
                             THEN excusees \cup {a} ELSE excusees
       /\ UNCHANGED <<horloge, tick, troubles, lancee, effets, rapprochees>>

Supprimer(a) ==
    /\ table[a].existe /\ Trouble
    /\ table' = [table EXCEPT ![a] = Ligne(FALSE, "lecture", table[a].auteur)]
    /\ UNCHANGED <<horloge, formulaire, tick, lancee, effets, rapprochees, excusees>>

SupprimerAuteur(a) ==
    /\ table[a].auteur /\ Trouble
    /\ table' = [table EXCEPT ![a].auteur = FALSE]
    /\ UNCHANGED <<horloge, formulaire, tick, lancee, effets, rapprochees, excusees>>

Avancer ==
    /\ horloge < MaxTemps
    /\ horloge' = horloge + 1
    /\ UNCHANGED <<table, formulaire, tick, troubles, lancee, effets, rapprochees, excusees>>

Next ==
    \/ \E t \in Ticks : Commencer(t) \/ Examiner(t) \/ Lancer(t) \/ Noter(t) \/ Crash(t)
    \/ \E a \in Automations :
           \/ Ouvrir(a) \/ Supprimer(a) \/ SupprimerAuteur(a)
           \/ \E active \in BOOLEAN, outil \in Outils : Enregistrer(a, active, outil)
    \/ Avancer

Spec == Init /\ [][Next]_vars

-----------------------------------------------------------------------------
(* Properties. *)

TypeOK ==
    /\ horloge \in 0..MaxTemps
    /\ table \in [Automations -> Lignes]
    /\ formulaire \in [sur : Automations \cup {"aucune"}, ligne : Lignes]
    /\ \A t \in Ticks :
           /\ tick[t].etape \in {"repos", "parcours", "lue", "executee", "refusee"}
           /\ ToSet(tick[t].liste) \subseteq Automations
           /\ tick[t].outil \in Outils \cup {"aucun"} /\ tick[t].auteur \in BOOLEAN
           /\ tick[t].etape = "repos" <=> tick[t].liste = <<>>
    /\ troubles \in 0..MaxTroubles
    /\ lancee \in [Automations -> Jamais..horloge]
    /\ rapprochees \subseteq Automations /\ excusees \subseteq Automations

\* A planner nobody watches never runs nor asks for a sensitive action, even when the tool of a row is
\* changed after the row was listed (tasks.py:33-39, where models.py:179-181 and tasks.py:3-5 say that a
\* request is filed: none is).
LectureSeule == effets \subseteq {"lecture"}

\* The tool of an automation is never run twice within its interval, unless two ticks held the row at
\* once, a form saved an older row over it, or the run was cut before it was noted (models.py, is_due;
\* tasks.py:49-50, 58-65).
Espacees == rapprochees \subseteq excusees
=============================================================================
