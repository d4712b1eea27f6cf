------------------------------ MODULE Echeances ------------------------------
(***************************************************************************)
(* The next sending of a scheduled report on the calendar                  *)
(* (governance/rapports_programmes.py, prochaine_echeance), which          *)
(* RapportsProgrammes takes as a multiple of its period.                   *)
(*                                                                         *)
(* Days are counted from 1 January 2023, a Sunday; 2024 has a 29 February. *)
(* A moment is a day and an hour; local time is UTC, as the settings say.  *)
(***************************************************************************)
EXTENDS Integers, Sequences, FiniteSets, FiniteSetsExt

CONSTANTS
    Jours,          \* days on which a report is created, changed or sent
    Heures,         \* the hours of those moments
    Rien

\* What the proofs ask of the constants: days from 2023 to 2025; the host module checks it.
EcheancesConstantes == Jours \subseteq 0..1095 /\ Heures \subseteq 0..23

VARIABLES
    cas,            \* the frequency, and the moment it is asked for
    suite           \* the next sending, and the one after it

vars == <<cas, suite>>

HeureEnvoi == 7
Frequences == {"quotidien", "hebdomadaire", "mensuel"}

-----------------------------------------------------------------------------
(* The calendar. *)

Longueur(annee, mois) ==
    CASE mois = 2 -> (IF annee % 4 = 0 THEN 29 ELSE 28)
      [] mois \in {4, 6, 9, 11} -> 30
      [] OTHER -> 31
NouvelAn(annee) == 365 * (annee - 2023) + (annee - 2021) \div 4
Premier(annee, mois) ==
    NouvelAn(annee) + <<0, 31, 59, 90, 120, 151, 181, 212, 243, 273, 304, 334>>[mois]
        + (IF mois > 2 /\ annee % 4 = 0 THEN 1 ELSE 0)
DateDe(jour) ==
    LET annee == CHOOSE a \in 2022..2027 : NouvelAn(a) <= jour /\ jour < NouvelAn(a + 1)
        mois == CHOOSE m \in 1..12 : Premier(annee, m) <= jour /\ jour < Premier(annee, m) + Longueur(annee, m)
    IN [annee |-> annee, mois |-> mois, jour |-> jour - Premier(annee, mois) + 1]

\* date.weekday(): Monday is 0.
JourDeSemaine(jour) == (jour + 6) % 7

Apres(m, n) == m.jour > n.jour \/ (m.jour = n.jour /\ m.heure > n.heure)

-----------------------------------------------------------------------------
(* prochaine_echeance *)

AvantSept(apres) == apres.heure < HeureEnvoi

Quotidienne(apres) == IF AvantSept(apres) THEN apres.jour ELSE apres.jour + 1

Hebdomadaire(apres) ==
    LET decalage == (7 - JourDeSemaine(apres.jour)) % 7
    IN apres.jour + (IF decalage = 0 /\ ~AvantSept(apres) THEN 7 ELSE decalage)

\* The month after, whose year changes in December.
Mensuelle(apres) ==
    LET d == DateDe(apres.jour)
    IN IF d.jour = 1 /\ AvantSept(apres) THEN apres.jour
       ELSE Premier(d.annee + (IF d.mois = 12 THEN 1 ELSE 0), (d.mois % 12) + 1)

ProchaineEcheance(frequence, apres) ==
    [heure |-> HeureEnvoi,
     jour |-> CASE frequence = "quotidien" -> Quotidienne(apres)
                [] frequence = "hebdomadaire" -> Hebdomadaire(apres)
                [] frequence = "mensuel" -> Mensuelle(apres)]

-----------------------------------------------------------------------------
(* Cases: the task sends a report at its hour at the earliest, so what     *)
(* follows a sending is the next one after the next one.                   *)

Init == cas = Rien /\ suite = Rien

Next ==
    /\ cas = Rien
    /\ \E f \in Frequences, j \in Jours, h \in Heures : cas' = [frequence |-> f, apres |-> [jour |-> j, heure |-> h]]
    /\ LET prochaine == ProchaineEcheance(cas'.frequence, cas'.apres)
       IN suite' = <<prochaine, ProchaineEcheance(cas'.frequence, prochaine)>>

Spec == Init /\ [][Next]_vars

-----------------------------------------------------------------------------
(* Properties. *)

\* The days a frequency is for.
Tombe(frequence, jour) ==
    CASE frequence = "quotidien" -> TRUE
      [] frequence = "hebdomadaire" -> JourDeSemaine(jour) = 0
      [] frequence = "mensuel" -> DateDe(jour).jour = 1

\* Each sending is the first of its frequency strictly after the moment asked for: none is skipped, and a task
\* that sends at the hour itself does not find the report due again (rapports_programmes.py:44-61).
PremiereApres ==
    cas # Rien =>
        LET depuis == <<cas.apres, suite[1]>>
        IN \A i \in 1..2 :
               /\ Apres(suite[i], depuis[i])
               /\ Tombe(cas.frequence, suite[i].jour)
               /\ \A j \in depuis[i].jour..(suite[i].jour - 1) :
                      Tombe(cas.frequence, j) => ~Apres([jour |-> j, heure |-> HeureEnvoi], depuis[i])
=============================================================================
