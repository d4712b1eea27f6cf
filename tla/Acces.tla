------------------------------- MODULE Acces --------------------------------
(***************************************************************************)
(* Who is served what: roles, perimeters, and every door that serves a     *)
(* human-resources figure (accounts/rbac.py, accounts/models.py,           *)
(* integrations/views.py, governance/module_views.py, history_views.py,    *)
(* signaux_views.py, lecture_rh.py, hr_registry.py, hr_sources.py,         *)
(* views.py, services.py).                                                 *)
(*                                                                         *)
(* A value is known by what it adds up: the Group, a site, a type of       *)
(* staff, a department, or a set of declared companies or subsidiaries.    *)
(* Its number is not modelled here.                                        *)
(***************************************************************************)
EXTENDS FiniteSets, Functions, TLC

CONSTANTS
  Filiales,         \* codes of subsidiaries
  SocietesOdoo,     \* companies of the Odoo database
  SocietesShield,   \* companies named by Shield's records
  CompanyMapping,   \* Shield's company_mapping, [SocietesShield -> Filiales \cup {Aucune}]
  Comptes,          \* the user accounts
  Aucune,           \* no subsidiary
  Tous,             \* every code of a dimension
  Rien              \* no answer on the wire

Mailles == {"aucune", "site", "type", "departement"}
Filtres == [filiale : Filiales \cup {Aucune}, maille : Mailles]
SansFiltre == [filiale |-> Aucune, maille |-> "aucune"]

\* What the constants are; the host module checks it.
AccesConstantes ==
  /\ CompanyMapping \in [SocietesShield -> Filiales \cup {Aucune}]
  /\ Aucune \notin Filiales
  /\ \A societes \in SUBSET SocietesOdoo : societes # Tous
  /\ \A u \in Comptes : u.filiales \subseteq Filiales /\ u.groupe \in BOOLEAN

VARIABLES
  correspondance,   \* Odoo company -> subsidiary it is declared to be, or Aucune
  cache,            \* shared Odoo payloads: key -> companies the payload adds up
  reponse           \* the answer just given, or Rien

vars == <<correspondance, cache, reponse>>

-----------------------------------------------------------------------------
(* Roles and permissions. *)

Renforcees == {"view_hr_payroll", "view_hr_career", "view_hr_performance"}

ParRole ==
  [ADMIN_CA |-> {"SUPER_ADMIN"},
   DG_GROUP |-> {"view_all_dashboards"},
   CODIR |-> {"view_all_dashboards"},
   DAF |-> {"view_group_overview", "view_finance", "view_reports"},
   DRH |-> {"view_hr"},
   DIR_FILIALE |-> {"view_group_overview", "view_real_estate", "view_hr", "view_finance",
                    "view_operations", "view_commercial", "view_risk", "view_reports",
                    "view_hr_payroll"},
   ASSISTANT_RH |-> {"view_hr"},
   DIR_OPS |-> {"view_group_overview", "view_operations", "view_real_estate", "view_commercial"},
   RESP_METIER |-> {"view_group_overview", "view_real_estate", "view_operations",
                    "view_commercial", "view_reports"},
   ADMIN_INTEGRATION |-> {"view_group_overview"},
   READER |-> {"view_group_overview", "view_reports"}]

Permissions(u) ==
  IF u.superuser THEN {"SUPER_ADMIN"}
  ELSE ParRole[u.role]
         \cup (IF u.role = "DRH" /\ u.groupe THEN Renforcees ELSE {})
         \cup (IF u.role = "ASSISTANT_RH" THEN u.pages ELSE {})

Total(u) == u.superuser \/ Permissions(u) \cap {"SUPER_ADMIN", "view_all_dashboards"} # {}

DomainPermission ==
  [d \in {"overview", "groupe", "immobilier", "capital-humain", "risques-conformite"} |->
     CASE d \in {"overview", "groupe"} -> "view_group_overview"
       [] d = "immobilier" -> "view_real_estate"
       [] d = "capital-humain" -> "view_hr"
       [] OTHER -> "view_risk"]

CanAccessDomain(u, d) == Total(u) \/ DomainPermission[d] \in Permissions(u)

Rh(u) == CanAccessDomain(u, "capital-humain")

PageRequise == ("hr-payroll" :> "view_hr_payroll") @@ ("hr-career" :> "view_hr_career")
                 @@ ("hr-performance" :> "view_hr_performance")

PeutModuleRh(u, page) ==
  /\ Rh(u)
  /\ \/ Total(u)
     \/ /\ u.role = "ASSISTANT_RH" => page \in u.pages
        /\ page \in DOMAIN PageRequise => PageRequise[page] \in Permissions(u)

-----------------------------------------------------------------------------
(* Perimeters. *)

\* User.scope: the order of the rules is the rule.
ScopeGroupe(u) ==
  /\ u.role # "DIR_FILIALE"
  /\ \/ u.groupe
     \/ u.filiales = {} /\ (u.superuser \/ u.role = "ADMIN_CA")

EstGroupe(u) == ScopeGroupe(u)
Perimetre(u) == IF EstGroupe(u) THEN Filiales ELSE u.filiales

\* Companies declared to be one of these subsidiaries.
SocietesDesFiliales(fs) == {c \in SocietesOdoo : correspondance[c] \in fs}

-----------------------------------------------------------------------------
(* The registry of metrics: a representative of each kind. *)

Metriques == {"presents", "effectif", "actifs_odoo", "departements", "masse"}
SourceDe == [m \in Metriques |->
  IF m \in {"presents", "effectif"} THEN "shield"
  ELSE IF m = "masse" THEN "aucune" ELSE "odoo"]

Val(quand, source, domaine, dim, codes) ==
  [quand |-> quand, source |-> source, domaine |-> domaine, dim |-> dim, codes |-> codes]

\* The companies whose payload a user's request reads, Tous for the Group, {} for none.
CleOdoo(u) == IF EstGroupe(u) THEN Tous ELSE SocietesDesFiliales(u.filiales)

\* mutant: the perimeter is not part of the key of the shared payload
CleUnique(societes) == Tous

CleDeCharge(societes) == societes

\* charge_odoo: the payload in the cache, or the one a collection brings.
ChargeOdoo(societes) ==
  LET k == CleDeCharge(societes)
  IN IF k \in DOMAIN cache THEN cache[k] ELSE societes

\* resoudre: the value of the day, for the perimeter of the user.
Resoudre(u, m) ==
  IF ~Rh(u) THEN {}
  ELSE CASE SourceDe[m] = "shield" /\ EstGroupe(u) ->
              {Val("jour", "shield", "capital-humain", "groupe", Tous)}
         [] SourceDe[m] = "odoo" /\ CleOdoo(u) # {} ->
              {Val("jour", "odoo", "capital-humain", "societe", ChargeOdoo(CleOdoo(u)))}
         [] OTHER -> {}

\* valeur_du_jour: the same under the filters of the page.
ValeurDuJour(u, m, f) ==
  LET base == Resoudre(u, m)
  IN IF f.maille = "aucune" THEN base
     ELSE {Val("jour", "shield", "capital-humain", f.maille, Tous) :
             v \in {w \in base : w.source = "shield" /\ m = "presents" /\ f.maille \in {"site", "type"}}}

Refus(code) == [refus |-> code, dim |-> "aucune", codes |-> {}]
Lecture(dim, codes) == [refus |-> 0, dim |-> dim, codes |-> codes]

\* portee: the dimension and the codes that a reading of a period is allowed.
Portee(u, m, f) ==
  LET restreint == f.filiale # Aucune \/ ~EstGroupe(u)
      fs == IF f.filiale # Aucune THEN {f.filiale} ELSE u.filiales
      societes == SocietesDesFiliales(fs)
  IN IF f.filiale # Aucune /\ ~EstGroupe(u) /\ f.filiale \notin u.filiales THEN Refus(403)
     ELSE
     CASE SourceDe[m] = "shield" ->
            IF restreint \/ f.maille = "departement" \/ (f.maille # "aucune" /\ m # "presents")
            THEN Refus(200)
            ELSE Lecture(IF f.maille = "aucune" THEN "groupe" ELSE f.maille, Tous)
       [] SourceDe[m] = "odoo" ->
            IF \/ f.maille \in {"site", "type"}
               \/ f.maille = "departement" /\ (restreint \/ m # "actifs_odoo")
               \/ restreint /\ societes = {}
            THEN Refus(200)
            ELSE IF f.maille = "departement" THEN Lecture("departement", Tous)
            ELSE IF restreint THEN Lecture("societe", societes) ELSE Lecture("groupe", Tous)
       [] OTHER -> Refus(200)

\* agreger over what portee allows, nothing when it refuses.
ValeurPeriode(u, m, f) ==
  LET p == Portee(u, m, f)
  IN IF p.refus = 0 THEN {Val("periode", SourceDe[m], "capital-humain", p.dim, p.codes)} ELSE {}

Interdit(u, ms, f) == \E m \in ms : SourceDe[m] # "aucune" /\ Portee(u, m, f).refus = 403

\* Comparisons between sites: only on the whole Group.
Classement(u, m, f) ==
  IF Portee(u, m, f) = Lecture("groupe", Tous) /\ SourceDe[m] = "shield"
  THEN {Val("periode", "shield", "capital-humain", "site", Tous)} ELSE {}

-----------------------------------------------------------------------------
(* The doors. Each is the set of values it serves to u under filters f.    *)

RetenirLesTotaux(u, charge) == IF EstGroupe(u) THEN charge ELSE {}

Shield(domaine, dims) == {Val("jour", "shield", domaine, d, Tous) : d \in dims}

\* mutant: the headcount is served with the right on the overview alone
HorsEffectifOublie(u, charge) == charge

\* ShieldOverviewView: the headcount is a figure of the human-resources domain.
HorsEffectif(u, charge) == {v \in charge : v.domaine = "capital-humain" => Rh(u)}

ShieldHrKpi(u) == IF Rh(u) THEN RetenirLesTotaux(u, Shield("capital-humain", {"groupe", "site", "type"})) ELSE {}
ShieldSerie(u) == IF Rh(u) /\ EstGroupe(u) THEN Shield("capital-humain", {"groupe"}) ELSE {}
ShieldSecurite(u) ==
  IF CanAccessDomain(u, "risques-conformite")
  THEN RetenirLesTotaux(u, Shield("risques-conformite", {"groupe"})) ELSE {}
ShieldOverview(u) ==
  IF CanAccessDomain(u, "overview")
  THEN HorsEffectif(u, RetenirLesTotaux(u, Shield("overview", {"groupe"}) \cup Shield("capital-humain", {"groupe"})))
  ELSE {}
OdooHrKpi(u) ==
  IF Rh(u) /\ CleOdoo(u) # {}
  THEN {Val("jour", "odoo", "capital-humain", "societe", ChargeOdoo(CleOdoo(u)))} ELSE {}

\* structure_visible: the rows of the Shield companies declared to be the user's.
StructureVisible(u) ==
  LET visibles == {s \in SocietesShield : CompanyMapping[s] \in u.filiales}
  IN IF EstGroupe(u) THEN Shield("capital-humain", {"groupe"})
     ELSE IF visibles = {} THEN {}
     ELSE {Val("jour", "shield", "capital-humain", "societe_shield", visibles)}
ShieldStructure(u) == IF PeutModuleRh(u, "hr-workforce") THEN StructureVisible(u) ELSE {}

Liaisons ==
  [hr_executive |-> {"effectif", "actifs_odoo", "departements", "masse"},
   hr_attendance |-> {"presents", "effectif"},
   hr_career |-> {},
   chantier |-> {"presents"},
   securite |-> {"presents"}]
PageDuModule == [hr_executive |-> "hr-executive", hr_attendance |-> "hr-attendance",
                 hr_career |-> "hr-career"]

\* MODULE_DOMAINES: the modules outside human resources, any of their domains opens them.
DomainesDuModule == [chantier |-> {"immobilier"}, securite |-> {"immobilier", "risques-conformite"}]

\* ModuleDataView: the cards of a page, period and day.
Module(u, cle, f) ==
  LET ms == Liaisons[cle]
      ouvert == IF cle \in DOMAIN PageDuModule THEN PeutModuleRh(u, PageDuModule[cle])
                ELSE \E d \in DomainesDuModule[cle] : CanAccessDomain(u, d)
      lues == {m \in ms : Rh(u)}
  IN IF ~ouvert \/ Interdit(u, lues, f) THEN {}
     ELSE UNION {ValeurPeriode(u, m, f) \cup ValeurDuJour(u, m, f) : m \in lues}

\* HrHistoryView: period, ranking and day of one metric.
Historique(u, m, f) ==
  IF ~Rh(u) \/ Portee(u, m, f).refus # 0 THEN {}
  ELSE ValeurPeriode(u, m, f) \cup Classement(u, m, f) \cup Resoudre(u, m)

Score(u, f) == IF PeutModuleRh(u, "hr-executive") THEN ValeurPeriode(u, "presents", f) ELSE {}

LuesParSignaux == {"presents", "effectif"}
EvaluerSignaux(u, f) ==
  UNION {ValeurPeriode(u, m, f) \cup Classement(u, m, f) : m \in LuesParSignaux}
Signaux(u, f) ==
  IF PeutModuleRh(u, "hr-alerts") /\ ~Interdit(u, LuesParSignaux, f) THEN EvaluerSignaux(u, f) ELSE {}
Decision(u, f) ==
  IF PeutModuleRh(u, "hr-ai") /\ ~Interdit(u, LuesParSignaux, f)
  THEN EvaluerSignaux(u, f) \cup StructureVisible(u) ELSE {}
Rapport(u, f) ==
  IF PeutModuleRh(u, "hr-reports") /\ ~Interdit(u, Metriques, f)
  THEN (UNION {ValeurPeriode(u, m, f) : m \in Metriques}) \cup EvaluerSignaux(u, f) \cup StructureVisible(u)
  ELSE {}

Dimensions(u) ==
  IF Rh(u) /\ EstGroupe(u)
  THEN {Val("periode", "shield", "capital-humain", d, Tous) : d \in {"site", "type", "departement"}} ELSE {}

\* The doors on the mart: its rows carry their subsidiary, each door tests its domain.
Mart(u, domaine, f) ==
  LET codes == {c \in Perimetre(u) : f.filiale \in {Aucune, c}}
  IN IF CanAccessDomain(u, domaine) /\ codes # {}
     THEN {Val("periode", "mart", domaine, "filiale", codes)} ELSE {}

HrKpi(u) == Mart(u, "capital-humain", SansFiltre)
GovernanceOverview(u) == Mart(u, "overview", SansFiltre)
DomainScore(u, f) == Mart(u, "immobilier", f)
GroupScore(u, f) == Mart(u, "overview", f)
Alerts(u, f) == Mart(u, "overview", f)

Portes == {"shield/hr-kpi", "shield/series", "shield/security", "shield/overview", "odoo/hr-kpi",
           "shield/structure", "hr/dimensions", "hr/kpi", "overview"}
PortesFiltrees == {"hr/score", "hr/signaux", "hr/decision", "hr/rapport", "score/immobilier",
                   "score-group", "alerts"}
Objets == DOMAIN Liaisons \cup (Metriques \ {"masse"})

Servi(u, porte, f) ==
  CASE porte = "shield/hr-kpi" -> ShieldHrKpi(u)
    [] porte = "shield/series" -> ShieldSerie(u)
    [] porte = "shield/security" -> ShieldSecurite(u)
    [] porte = "shield/overview" -> ShieldOverview(u)
    [] porte = "odoo/hr-kpi" -> OdooHrKpi(u)
    [] porte = "shield/structure" -> ShieldStructure(u)
    [] porte = "hr/dimensions" -> Dimensions(u)
    [] porte = "hr/kpi" -> HrKpi(u)
    [] porte = "overview" -> GovernanceOverview(u)
    [] porte = "score/immobilier" -> DomainScore(u, f)
    [] porte = "score-group" -> GroupScore(u, f)
    [] porte = "alerts" -> Alerts(u, f)
    [] porte = "hr/score" -> Score(u, f)
    [] porte = "hr/signaux" -> Signaux(u, f)
    [] porte = "hr/decision" -> Decision(u, f)
    [] porte = "hr/rapport" -> Rapport(u, f)
    [] porte \in DOMAIN Liaisons -> Module(u, porte, f)
    [] porte \in Metriques -> Historique(u, porte, f)

-----------------------------------------------------------------------------
Init ==
  /\ correspondance = [c \in SocietesOdoo |-> Aucune]
  /\ cache = [k \in {} |-> {}]
  /\ reponse = Rien

\* The payloads a door goes through: the Odoo ones are kept under their key.
LitOdoo(u, porte) ==
  /\ CleOdoo(u) # {} /\ Rh(u)
  /\ porte \in {"odoo/hr-kpi", "hr_executive", "actifs_odoo", "departements"}

\* The cache with the payload of a key stored or renewed.
Gardee(k, charge) == [j \in DOMAIN cache \cup {k} |-> IF j = k THEN charge ELSE cache[j]]

\* A request is answered.
Demander(u, porte, f) ==
  /\ reponse' = [u |-> u, f |-> f, valeurs |-> Servi(u, porte, f)]
  /\ cache' = IF LitOdoo(u, porte)
              THEN Gardee(CleDeCharge(CleOdoo(u)), ChargeOdoo(CleOdoo(u)))
              ELSE cache
  /\ UNCHANGED correspondance

Rendre == reponse # Rien /\ reponse' = Rien /\ UNCHANGED <<correspondance, cache>>

\* OdooCompaniesView.put: an administrator declares what a company is.
Declarer(c, fil) ==
  /\ reponse = Rien
  /\ correspondance' = [correspondance EXCEPT ![c] = fil]
  /\ UNCHANGED <<cache, reponse>>

\* The time to live of a payload ends.
Expirer(k) ==
  /\ reponse = Rien
  /\ cache' = Restrict(cache, DOMAIN cache \ {k})
  /\ UNCHANGED <<correspondance, reponse>>

Next ==
  \/ reponse = Rien /\ \E u \in Comptes, porte \in Portes : Demander(u, porte, SansFiltre)
  \/ reponse = Rien
       /\ \E u \in Comptes, porte \in PortesFiltrees \cup Objets, f \in Filtres : Demander(u, porte, f)
  \/ Rendre
  \/ \E c \in SocietesOdoo, fil \in Filiales \cup {Aucune} : Declarer(c, fil)
  \/ \E k \in DOMAIN cache : Expirer(k)

Spec == Init /\ [][Next]_vars

-----------------------------------------------------------------------------
(* Properties. *)

\* What the variables hold: declared companies, payloads known by the companies they add up.
TypeOK ==
  /\ correspondance \in [SocietesOdoo -> Filiales \cup {Aucune}]
  /\ \A k \in DOMAIN cache : k = Tous \/ k \subseteq SocietesOdoo
  /\ reponse = Rien \/ (reponse.u \in Comptes /\ reponse.f \in Filtres)

\* A user restricted to subsidiaries is never served a Group figure, nor a company or a
\* subsidiary that is not his (integrations/views.py:125-148, lecture_rh.py:34-80), whichever door
\* he comes by and whoever filled the shared cache before him.
Couvert(u, v) ==
  CASE v.dim = "societe" ->
         v.codes # Tous /\ \A c \in v.codes : correspondance[c] \in u.filiales
    [] v.dim = "societe_shield" -> \A s \in v.codes : CompanyMapping[s] \in u.filiales
    [] v.dim = "filiale" -> v.codes \subseteq u.filiales
    [] OTHER -> FALSE

DansLePerimetre ==
  reponse # Rien /\ ~EstGroupe(reponse.u) => \A v \in reponse.valeurs : Couvert(reponse.u, v)

\* A director of subsidiary is restricted whatever boxes are ticked on his account
\* (models.py:39-43), at every door.
DirecteurRestreint ==
  reponse # Rien /\ reponse.u.role = "DIR_FILIALE" => \A v \in reponse.valeurs : Couvert(reponse.u, v)

\* No door serves a Shield or Odoo figure of a domain to somebody the domain is closed to
\* (views.py:158-161, 268-271, 283-287): all doors agree.
PortesConcordent ==
  reponse # Rien =>
    \A v \in reponse.valeurs : v.source # "mart" => CanAccessDomain(reponse.u, v.domaine)

\* What v adds up is what filters f ask for.
Honore(v, f) ==
  /\ (f.maille # "aucune" /\ v.source # "mart") => v.dim = f.maille
  /\ f.filiale # Aucune =>
       \/ v.dim = "societe" /\ v.codes # Tous /\ \A c \in v.codes : correspondance[c] = f.filiale
       \/ v.dim = "filiale" /\ v.codes = {f.filiale}

\* A filter never widens and is never ignored in the value of a period (lecture_rh.py:6-8).
FiltreHonore ==
  reponse # Rien => \A v \in reponse.valeurs : v.quand = "periode" => Honore(v, reponse.f)
=============================================================================
