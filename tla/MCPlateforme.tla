----------------------------- MODULE MCPlateforme -----------------------------
(***************************************************************************)
(* The components that TLC checks in one run.  A behaviour is a behaviour  *)
(* of one of them, the part, chosen at the start: the states of the run    *)
(* are the sum of the states of its parts, not their product.  The         *)
(* approval circuit has the variables of ActionApproval, which stay as     *)
(* they are in the behaviours of the other parts; those share the          *)
(* registers x1 to x10, and each INSTANCE says what they hold for it.      *)
(***************************************************************************)
EXTENDS MCActionApproval, Integers

CONSTANTS
  Parts,
  Equipe,        \* administrators of the sources; what runs at once in the copilot and in a browser tab
  Titulaires,    \* accounts of the browser
  Disruptions,   \* what befalls the client, the shared payload and the history
  Filiales, SocietesOdoo, SocietesShield, CompanyMapping, Comptes,   \* subsidiaries, companies and accounts
  Tours, Promo, K1, K2, Aucune, Tous, Neant

\* Bounds, and the other sets of the parts that interleave.
CONSTANTS
  Types, Essais, MaxSecrets, MaxJobs,          \* source, secrets
  MaxAttempts, MaxRequests,                    \* client
  MaxArbitrages, MaxReads,                     \* partage
  Sites, MaxDay, MaxChanges, MaxRuns,          \* historique
  Automations, Intervalle, MaxTemps, MaxTroubles,   \* automates
  MaxConversations, MaxConnexions,             \* conversation, navigateur
  Demandes, DatesTapees, JoursLus, CodesLus, Valeurs,   \* periodes
  JoursEnvoi, HeuresEnvoi,                     \* echeances
  Bornes, MesuresRh, MaxConstats, MaxMois, MaxEmployes,  \* indicateurs
  FilialesNotees, MoisMontres,                 \* gouvernance
  MaxCompte, JoursSerie, MaxLignes, MaxFiches, MinMesures,   \* shield
  SocietesLues, MaxLus, MaxPostes              \* odoo

VARIABLES part, x1, x2, x3, x4, x5, x6, x7, x8, x9, x10

registers == <<x1, x2, x3, x4, x5, x6, x7, x8, x9, x10>>
plateforme == <<part, vars, registers>>

\* Calls (of threads, workers or the copilot's users), administrators and accounts of the browser are told apart
\* only by equality.
PlateformeSymmetry == Permutations(Calls) \cup Permutations(Equipe) \cup Permutations(Titulaires)

-----------------------------------------------------------------------------
(* Parts whose steps interleave.  Two administrators: tests and            *)
(* synchronisations, then secrets.  Two rows of connectors may follow one  *)
(* another under the requests of the first, one under those of the second. *)
S(demos, secrets, synchros) == INSTANCE SourceControl WITH
  Admins <- Equipe, Demos <- demos, MaxSecrets <- secrets, MaxJobs <- synchros,
  Cles <- 1..(synchros + 1), EditsOverlap <- FALSE, TypeMayChange <- FALSE,
  source <- x1, connector <- x2, credentials <- x3, jobs <- x4, essais <- x5, appel <- x6, typed <- x7,
  eprouves <- x8, repondu <- x9, interrompu <- x10

C == INSTANCE ShieldClient WITH
  Threads <- Calls, Faults <- Disruptions,
  memoire <- x1, vol <- x2, attendu <- x3, etape <- x4, cache <- x5, essais <- x6, renouvele <- x7,
  issue <- x8, requests <- x9, trouble <- x10

P == INSTANCE Partage WITH
  Requests <- Calls, MaxVersion <- MaxArbitrages,
  seuils <- x1, copie <- x2, charge <- x3, verrou <- x4, etape <- x5, lu <- x6, decision <- x7,
  reads <- x8, depasse <- x9, serein <- x10

H == INSTANCE Historique WITH
  Workers <- Calls, MaxVersion <- MaxChanges,
  aujourdhui <- x1, version <- x2, lignes <- x3, verrou <- x4, tache <- x5, etape <- x6, lu <- x7,
  runs <- x8, depasse <- x9

M == INSTANCE Automates WITH
  Ticks <- Equipe,
  horloge <- x1, table <- x2, formulaire <- x3, tick <- x4, troubles <- x5, lancee <- x6, effets <- x7,
  rapprochees <- x8, excusees <- x9

V == INSTANCE Conversation WITH
  Appels <- Equipe, Moteurs <- <<"deepseek", "claude">>,
  conversations <- x1, appel <- x2, demandes <- x3, executions <- x4, moteurs <- x5

N == INSTANCE SessionNavigateur WITH
  Comptes <- Titulaires, Appels <- Equipe, Rien <- Neant,
  stockage <- x1, vol <- x2, appel <- x3, cache <- x4, aRanger <- x5, purge <- x6, actifs <- x7,
  connecte <- x8, connexions <- x9, marques <- x10

(* Accounts and doors, and those of the run: subsidiaries Tours and Promo. *)
Compte(r, s, g, fs, ps) == [role |-> r, superuser |-> s, groupe |-> g, filiales |-> fs, pages |-> ps]
MesComptes ==
  {Compte(r, FALSE, g, {}, {}) : r \in {"DRH", "READER"}, g \in BOOLEAN}
    \cup {Compte("DIR_FILIALE", s, g, {Tours}, {}) : s \in BOOLEAN, g \in BOOLEAN}
    \cup {Compte("DIR_FILIALE", FALSE, FALSE, {Tours, Promo}, {}), Compte("DRH", FALSE, FALSE, {Tours}, {}),
          Compte("ADMIN_CA", FALSE, FALSE, {}, {}), Compte("CODIR", FALSE, FALSE, {Tours}, {}),
          Compte("DIR_OPS", FALSE, FALSE, {Tours}, {}),
          Compte("ASSISTANT_RH", FALSE, FALSE, {Promo}, {"hr-ai", "hr-reports", "hr-attendance"}),
          Compte("ASSISTANT_RH", FALSE, TRUE, {Promo}, {"hr-alerts"})}

MaCorrespondance == K1 :> Tours @@ K2 :> Aucune

A == INSTANCE Acces WITH Rien <- Neant, correspondance <- x1, cache <- x2, reponse <- x3

(* Days, bounds and measures of the run.  A deadline is asked for around the end of February 2024, and *)
(* around the end of February 2025.                                                                    *)
MesJours == 330..430 \cup 785..795
MesBornes == {-10, 0, 100, 250, 500, 700, 850, 1000, 1010}
MesMesures == {-1000, 0, 100, 150, 200, 250, 300, 400, 500, 600, 700, 800, 850, 900, 1000}

(* Parts of one step: a case and what the code makes of it. *)
L == INSTANCE LectureShield WITH
  NbJours <- JoursSerie, Plafond <- MaxLignes, PlafondFiches <- MaxFiches, MinJours <- MinMesures,
  Rien <- Neant, cas <- x1, publie <- x2

Q == INSTANCE LectureHistorique WITH
  Aujourdhuis <- Demandes, DatesLibres <- DatesTapees, NbJours <- JoursLus, Codes <- CodesLus,
  Rien <- Neant, cas <- x1, rendu <- x2

I == INSTANCE Indicateurs WITH Mesures <- MesuresRh, Rien <- Neant, cas <- x1, juge <- x2

G == INSTANCE Gouvernance WITH
  Filiales <- FilialesNotees, MoisAffiches <- MoisMontres, Rien <- Neant, cas <- x1, rendu <- x2

D == INSTANCE Catalogue WITH Rien <- Neant, cas <- x1, rendu <- x2

R == INSTANCE LectureOdoo WITH
  Societes <- SocietesLues, MaxEmployes <- MaxLus, Rien <- Neant, cas <- x1, publie <- x2

E == INSTANCE Echeances WITH
  Jours <- JoursEnvoi, Heures <- HeuresEnvoi, Rien <- Neant, cas <- x1, suite <- x2

ASSUME Constantes ==
  /\ S(BOOLEAN, 0, MaxJobs)!SourceConstantes /\ S({FALSE}, MaxSecrets, 0)!SourceConstantes
  /\ C!ClientConstantes /\ P!PartageConstantes /\ H!HistoriqueConstantes /\ A!AccesConstantes /\ M!AutomatesConstantes
  /\ V!ConversationConstantes /\ N!NavigateurConstantes
  /\ Q!LectureConstantes /\ E!EcheancesConstantes /\ I!IndicateursConstantes /\ D!CatalogueConstantes
  /\ G!GouvernanceConstantes /\ L!ShieldConstantes /\ R!OdooConstantes

-----------------------------------------------------------------------------
\* The registers a part does not use: from x6, x4 or x3 on, or all of them.
Des6 == x6 = 0 /\ x7 = 0 /\ x8 = 0 /\ x9 = 0 /\ x10 = 0
Des4 == x4 = 0 /\ x5 = 0 /\ Des6
Des3 == x3 = 0 /\ Des4
Des1 == x1 = 0 /\ x2 = 0 /\ Des3

PlateformeInit ==
  /\ part \in Parts
  /\ Init
  /\ part # "approval" => entitled = {}
  /\ CASE part = "approval" -> Des1
       [] part = "source" -> S(BOOLEAN, 0, MaxJobs)!Init
       [] part = "secrets" -> S({FALSE}, MaxSecrets, 0)!Init
       [] part = "client" -> C!Init
       [] part = "partage" -> P!Init
       [] part = "historique" -> H!Init /\ x10 = 0
       [] part = "acces" -> A!Init /\ Des4
       [] part = "shield" -> L!Init /\ Des3
       [] part = "periodes" -> Q!Init /\ Des3
       [] part = "indicateurs" -> I!Init /\ Des3
       [] part = "gouvernance" -> G!Init /\ Des3
       [] part = "catalogue" -> D!Init /\ Des3
       [] part = "odoo" -> R!Init /\ Des3
       [] part = "echeances" -> E!Init /\ Des3
       [] part = "automates" -> M!Init /\ x10 = 0
       [] part = "conversation" -> V!Init /\ Des6
       [] part = "navigateur" -> N!Init

AutresFixes == UNCHANGED <<part, vars>>
AuDela3 == UNCHANGED <<x4, x5, x6, x7, x8, x9, x10>>

PlateformeNext ==
  \/ part = "approval" /\ Next /\ UNCHANGED <<part, registers>>
  \/ part = "source" /\ S(BOOLEAN, 0, MaxJobs)!Next /\ AutresFixes
  \/ part = "secrets" /\ S({FALSE}, MaxSecrets, 0)!Next /\ AutresFixes
  \/ part = "client" /\ C!Next /\ AutresFixes
  \/ part = "partage" /\ P!Next /\ AutresFixes
  \/ part = "historique" /\ H!Next /\ AutresFixes /\ UNCHANGED x10
  \/ part = "acces" /\ A!Next /\ AutresFixes /\ AuDela3
  \/ part = "shield" /\ L!Next /\ AutresFixes /\ UNCHANGED x3 /\ AuDela3
  \/ part = "periodes" /\ Q!Next /\ AutresFixes /\ UNCHANGED x3 /\ AuDela3
  \/ part = "indicateurs" /\ I!Next /\ AutresFixes /\ UNCHANGED x3 /\ AuDela3
  \/ part = "gouvernance" /\ G!Next /\ AutresFixes /\ UNCHANGED x3 /\ AuDela3
  \/ part = "catalogue" /\ D!Next /\ AutresFixes /\ UNCHANGED x3 /\ AuDela3
  \/ part = "odoo" /\ R!Next /\ AutresFixes /\ UNCHANGED x3 /\ AuDela3
  \/ part = "echeances" /\ E!Next /\ AutresFixes /\ UNCHANGED x3 /\ AuDela3
  \/ part = "automates" /\ M!Next /\ AutresFixes /\ UNCHANGED x10
  \/ part = "conversation" /\ V!Next /\ AutresFixes /\ UNCHANGED <<x6, x7, x8, x9, x10>>
  \/ part = "navigateur" /\ N!Next /\ AutresFixes

PlateformeSpec == PlateformeInit /\ [][PlateformeNext]_plateforme

-----------------------------------------------------------------------------
(* The properties of ActionApproval are checked as they stand; those of    *)
(* the other parts under their names, each in its part.                    *)

\* The type invariants of the parts that use the registers.
PartTypeOK ==
  CASE part = "source" -> S(BOOLEAN, 0, MaxJobs)!TypeOK
    [] part = "secrets" -> S({FALSE}, MaxSecrets, 0)!TypeOK
    [] part = "client" -> C!TypeOK
    [] part = "partage" -> P!TypeOK
    [] part = "historique" -> H!TypeOK
    [] part = "acces" -> A!TypeOK
    [] part = "automates" -> M!TypeOK
    [] part = "conversation" -> V!TypeOK
    [] part = "navigateur" -> N!TypeOK
    [] OTHER -> TRUE

\* What the control plane says of a source was proved: no source is connected, and no password of Shield
\* is kept, without a trial of its own; and a source that is being synchronised has a worker for it.
Prouve ==
  /\ part = "source" => S(BOOLEAN, 0, MaxJobs)!ConnectedProven /\ S(BOOLEAN, 0, MaxJobs)!SyncingHasOwner
  /\ part = "secrets" => S({FALSE}, MaxSecrets, 0)!ConnectedProven /\ S({FALSE}, MaxSecrets, 0)!PasswordTried

\* Every event that threads wait for belongs to a call in progress, and is awaited by them alone
\* (shield_client.py: request_json).
PersonneNAttendPourRien == part = "client" => C!EventHasOwner /\ C!WaitsForSomeone

\* One call at a time for a same request while no thread waited too long, and never more attempts than
\* the client allows itself.
AppelsComptes == part = "client" => C!OneCall /\ C!BoundedCalls

\* A shared payload has one collector at a time, as long as the lock outlives the collection.
OneCollector == part = "partage" => P!OneCollector

\* After an arbitration of the HR thresholds and a quiet moment, what is served was judged by them.
ArbitrageSuivi == part = "partage" => P!ArbitrageSuivi

\* One collection of the history at a time; where the Group is measured its kinds of staff are, from the same
\* reading, no line of a site is of a later one, and a total has the terms it is the sum of.
JourneesEntieres == part = "historique" => H!OneCollection /\ H!DayIsWhole /\ H!TotalHasItsTerms

\* A day's line is never replaced by an older reading, while the lock outlives the collection.
NeverOlder == [][part = "historique" /\ ~x9 => ~H!Older]_plateforme

\* Nobody reads beyond the perimeter of their account, the director of one subsidiary least of all.
PerimetreTenu == part = "acces" => A!DansLePerimetre /\ A!DirecteurRestreint

\* Two doors onto the same data let the same people in, and the filter asked for is the one applied, or
\* said not to be.
PortesConcordent == part = "acces" => A!PortesConcordent /\ A!FiltreHonore

\* What is published of Shield and of Odoo is what was read: a failed reading removes its figures from a page of
\* Shield, and the state says so; of the structure, whose employees count 0 when they could not be read, the state
\* says so, and a list read in full is counted exactly.  Series and sites of a day read in full are exact, and so
\* are departments while Odoo did not change between two calls; the dates shown are those of the figures, and a
\* figure asked for some companies counts no other.
LectureFidele ==
  /\ part = "shield" =>
       /\ L!EchecRetire
       /\ L!EtatHonnete
       /\ L!SerieExacte
       /\ L!SiteExact
       /\ L!StructureExacte
       /\ L!FenetreDite
  /\ part = "odoo" =>
       /\ R!SocietesSeules
       /\ R!CarteParCarte
       /\ R!DepartementsEntiers
       /\ R!RepriseEtSante

\* Two periods compared are disjoint, ended, of days that both know whole; unknown values come last;
\* and a report is next sent on the first day of its frequency after the moment asked for.
PeriodesComparables ==
  /\ part = "periodes" =>
       /\ Q!VeilleAuPlusTard
       /\ Q!PrecedenteDisjointe
       /\ Q!JamaisPartiel
       /\ Q!TauxDesMemesJours
       /\ Q!InconnusEnDernier
  /\ part = "echeances" => E!PremiereApres

\* The judgements made on a same figure agree: thresholds in order, findings, alerts, score and headcount.
JugementsCoherents ==
  part = "indicateurs" =>
    /\ I!EtatMonotone
    /\ I!MemesBornes
    /\ I!GraveGarde
    /\ I!SyntheseEntiere
    /\ I!ScoreDesMesurees
    /\ I!AlerteLaPire
    /\ I!StockEtFlux
    /\ I!Reconciliation

\* The pages of the mart show a reader their perimeter and nothing else; scores, index and alerts come of
\* what is measured; the HR figures agree from page to page while the mart holds a row, and none is given
\* while it is down.
MartFidele ==
  part = "gouvernance" =>
    /\ G!RienHorsPerimetre
    /\ G!IndiceDesMesures
    /\ G!AlertesFondees
    /\ G!ChiffresRhConcordent

\* A metric is found by its name, and an answer quotes no figure of another.
QuestionFondee == part = "catalogue" => D!NomSuffit /\ D!RienInvente

\* The automations only read, and not twice within their interval; the chat stores its messages in pairs, says
\* what it did, and answers, unless a provider breaks in a way the router does not catch (a 500, nothing stored)
\* or gives a null text (a 500, the question alone stored).
CopiloteTenu ==
  /\ part = "automates" => M!LectureSeule /\ M!Espacees
  /\ part = "conversation" => V!Paires /\ V!ActionsDites /\ V!RepliAssure

\* A session that was closed stays closed, the data stored are those of the account connected, and nobody still
\* welcome is sent back to the login page, but for the requests and the late stores that cross a login or a logout,
\* which each property names.
SessionTenue == part = "navigateur" => N!SessionFermee /\ N!DonneesDuCompte /\ N!JamaisATort
=============================================================================
