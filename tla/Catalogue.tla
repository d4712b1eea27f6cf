------------------------------ MODULE Catalogue ------------------------------
(***************************************************************************)
(* The catalogue of metrics and the resolution of a question on it         *)
(* (k_insight/semantic, governance/views.py and module_views.py, AiQuery). *)
(*                                                                         *)
(* A text is the set of its words once normalised, stop words left out     *)
(* (_tokens), and the set of the keys it quotes.                           *)
(***************************************************************************)
EXTENDS Integers, Sequences, FiniteSets, SequencesExt, FiniteSetsExt

CONSTANTS Rien

VARIABLES cas, rendu

vars == <<cas, rendu>>

ND == -1
Bruit == "abidjan"      \* a word that no metric has

-----------------------------------------------------------------------------
(* The metrics: key, words of the label, words that the key adds.          *)

Mesure(cle, libelle, code) ==
  [cle |-> cle, libelle |-> libelle, termes |-> libelle \cup code]

Rh ==
  <<Mesure("hr.headcount", {"effectif"}, {"headcount"}),
    Mesure("hr.entries", {"entrees"}, {"entries"}),
    Mesure("hr.exits", {"sorties"}, {"exits"}),
    Mesure("hr.turnover_rate", {"turnover"}, {"rate"}),
    Mesure("hr.absenteeism_rate", {"absenteisme"}, {"absenteeism", "rate"}),
    Mesure("hr.payroll_mass", {"brut", "masse", "salariale"}, {"mass", "payroll"})>>

Immobilier ==
  <<Mesure("immobilier.taux_securisation_fonciere", {"fonciere", "securisation"}, {}),
    Mesure("immobilier.avancement_construction", {"avancement", "construction"}, {}),
    Mesure("immobilier.avancement_vrd", {"avancement", "vrd"}, {}),
    Mesure("immobilier.taux_commercialisation", {"commercialisation"}, {}),
    Mesure("immobilier.taux_occupation_locatif", {"locatif", "occupation"}, {}),
    Mesure("immobilier.ecart_budget_projet", {"budgetaire", "ecart", "projet"}, {"budget"}),
    Mesure("immobilier.retard_jalons_livraison", {"jalons", "livraison", "retard"}, {}),
    Mesure("immobilier.taux_frequence_accidents_chantier", {"accidents", "chantier", "frequence"}, {}),
    Mesure("immobilier.couverture_risques_provisionnes", {"couverture", "provisionnes", "risques"}, {})>>

Finance ==
  <<Mesure("finance.tresorerie_nette", {"nette", "tresorerie"}, {}),
    Mesure("finance.jours_couverture_tresorerie", {"couverture", "jours", "tresorerie"}, {}),
    Mesure("finance.dso", {"client", "delai", "dso", "recouvrement"}, {}),
    Mesure("finance.taux_recouvrement", {"recouvrement"}, {}),
    Mesure("finance.dpo", {"delai", "dpo", "fournisseurs", "reglement"}, {}),
    Mesure("finance.ecart_budgetaire", {"budget", "budgetaire", "ecart", "reel", "vs"}, {}),
    Mesure("finance.marge_operationnelle", {"marge", "operationnelle"}, {}),
    Mesure("finance.taux_conformite_fiscale", {"echeances", "fiscales", "respect"}, {"conformite", "fiscale"}),
    Mesure("finance.fiabilite_prevision_tresorerie", {"fiabilite", "previsions", "tresorerie"}, {"prevision"})>>

Operations ==
  <<Mesure("operations.stock_value", {"stocks", "valorisation"}, {"stock", "value"}),
    Mesure("operations.service_rate", {"approvisionnement", "service"}, {"rate"}),
    Mesure("operations.purchase_lead_time", {"commande", "delai", "demande"}, {"lead", "purchase", "time"}),
    Mesure("operations.inventory_accuracy", {"fiabilite", "stocks"}, {"accuracy", "inventory"}),
    Mesure("operations.fleet_availability", {"disponibilite", "flotte"}, {"availability", "fleet"}),
    Mesure("operations.maintenance_mttr", {"delai", "maintenance", "resolution"}, {"mttr"}),
    Mesure("operations.project_progress", {"avancement", "projets"}, {"progress", "project"}),
    Mesure("operations.supplier_on_time_rate", {"fournisseurs", "livraisons", "temps"}, {"on", "rate", "supplier", "time"}),
    Mesure("operations.open_incidents", {"incidents", "operationnels", "ouverts"}, {"open"})>>

Commercial ==
  <<Mesure("commercial.taux_conversion_pipeline", {"conversion", "pipeline"}, {}),
    Mesure("commercial.delai_moyen_cycle_vente", {"cycle", "delai", "vente"}, {}),
    Mesure("commercial.chiffre_affaires_signe", {"affaires", "chiffre", "signe"}, {}),
    Mesure("commercial.taux_concretisation_reservations", {"concretisation", "reservations"}, {}),
    Mesure("commercial.delai_traitement_reclamation", {"delai", "reclamations", "traitement"}, {"reclamation"}),
    Mesure("commercial.satisfaction_client", {"client", "satisfaction"}, {}),
    Mesure("commercial.taux_retention_clients", {"clients", "retention"}, {}),
    Mesure("commercial.fiabilite_previsions_ventes", {"fiabilite", "previsions", "ventes"}, {}),
    Mesure("commercial.qualite_donnees_crm", {"crm", "donnees", "qualite"}, {})>>

Risques ==
  <<Mesure("risques.taux_cloture_recommandations_audit", {"audit", "cloture", "recommandations"}, {}),
    Mesure("risques.recommandations_critiques_en_retard", {"critiques", "recommandations", "retard"}, {}),
    Mesure("risques.taux_couverture_controles_conformite", {"conformite", "controles", "couverture"}, {}),
    Mesure("risques.taux_respect_sla_correctifs_securite", {"correctifs", "respect", "securite", "sla"}, {}),
    Mesure("risques.comptes_dormants_a_privileges", {"comptes", "dormants", "privileges"}, {}),
    Mesure("risques.delai_moyen_resolution_incidents", {"delai", "incidents", "resolution"}, {}),
    Mesure("risques.documents_critiques_expires", {"critiques", "documents", "expires"}, {}),
    Mesure("risques.provision_litiges_actifs", {"actifs", "juridiques", "litiges", "provision"}, {}),
    Mesure("risques.taux_couverture_cartographie_risques", {"cartographie", "couverture", "risques"}, {})>>

CATALOG == Rh \o Immobilier \o Finance \o Operations \o Commercial \o Risques
Vocabulaire == UNION {CATALOG[i].termes : i \in DOMAIN CATALOG}

CatalogueConstantes == \A i \in DOMAIN CATALOG : CATALOG[i] # Rien

-----------------------------------------------------------------------------
(* resolve_metric *)

Communs(q, m) == Cardinality(q.mots \cap m.termes)

\* mutant: common words only, whatever the metric says besides
RangSansPrecision(q, m, n) == Communs(q, m) > Communs(q, n)
\* rank > best_key: more words in common, then a larger share of the metric's own.
MieuxPlace(q, m, n) ==
  \/ Communs(q, m) > Communs(q, n)
  \/ Communs(q, m) = Communs(q, n) /\ Cardinality(m.termes) < Cardinality(n.termes)

Resoudre(q) ==
  LET mesures == CATALOG
      citees == {i \in DOMAIN mesures : mesures[i].cle \in q.cles}
      proches == {i \in DOMAIN mesures : Communs(q, mesures[i]) > 0}
      meilleures == {i \in proches : \A j \in proches : ~MieuxPlace(q, mesures[j], mesures[i])}
  IN IF citees # {} THEN mesures[Min(citees)]
     ELSE IF proches = {} THEN Rien
     ELSE mesures[Min(meilleures)]

\* answer: the value is the one the lookup has for that metric, never another.
Repondre(q, valeurs) ==
  LET m == Resoudre(q)
  IN IF m = Rien THEN [fondee |-> FALSE, mesure |-> Rien, valeur |-> ND]
     ELSE [fondee |-> TRUE, mesure |-> m, valeur |-> IF m.cle \in valeurs THEN 1 ELSE ND]

\* AiQueryView: no metric is bound to the mart on this page; the copilot has three of them.
AucuneLiee == {}
LieesRh == {"hr.payroll_mass", "hr.entries", "hr.exits"}

\* AiQueryView.post: an empty question is refused.
Interroger(q) ==
  IF q.mots = {} /\ q.cles = {} /\ ~q.texte THEN [code |-> 400]
  ELSE [code |-> 200, corps |-> Repondre(q, AucuneLiee)]

-----------------------------------------------------------------------------
(* Cases. *)

Question(i, mots, cles, texte) == [nom |-> i, mots |-> mots, cles |-> cles, texte |-> texte]

\* The name of a metric and one more word; a key and the name of another metric; nothing.
Questions ==
  {Question(i, CATALOG[i].libelle \cup {w}, {}, TRUE) : i \in DOMAIN CATALOG, w \in Vocabulaire \cup {Bruit}}
    \cup {Question(i, CATALOG[j].libelle, {CATALOG[i].cle}, TRUE) : i, j \in DOMAIN CATALOG}
    \cup {Question(0, mots, {}, texte) : mots \in {{}, {Bruit}}, texte \in BOOLEAN}

Init == cas = Rien /\ rendu = Rien

Next ==
  /\ cas = Rien
  /\ \E q \in Questions :
       /\ cas' = q
       /\ rendu' = [page |-> Interroger(q), copilote |-> Repondre(q, LieesRh)]

Spec == Init /\ [][Next]_vars

-----------------------------------------------------------------------------
(* Properties. *)

\* A metric is found by its name: its label leads to it, with any word that says nothing else; one more
\* word only diverts the question to a metric that has that word; and its key is enough, whatever is
\* said around it (grounding.py:39-70).  No label of the catalogue hides behind that of another metric.
NomSuffit ==
  cas # Rien /\ cas.nom # 0 =>
    LET m == rendu.copilote.mesure
        attendue == CATALOG[cas.nom]
    IN \/ m = attendue
       \/ /\ cas.cles = {}
          /\ \E w \in cas.mots \ attendue.termes : w \in m.termes

\* An answer is founded on words that the question shares with the metric, or on its key, and the same
\* question finds the same metric on both pages; a question of which the catalogue knows no word is
\* refused, with no metric and no figure; a figure is that of the metric found (grounding.py:73-107).
RienInvente ==
  cas # Rien =>
    LET r == rendu.copilote
    IN /\ r.fondee <=> cas.mots \cap Vocabulaire # {} \/ cas.cles # {}
       /\ r.fondee => r.mesure.cle \in cas.cles \/ cas.mots \cap r.mesure.termes # {}
       /\ r.valeur # ND => r.mesure.cle \in LieesRh
       /\ rendu.page.code = 200 =>
            rendu.page.corps.mesure = r.mesure /\ rendu.page.corps.valeur = ND
=============================================================================
