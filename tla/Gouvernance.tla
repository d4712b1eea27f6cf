----------------------------- MODULE Gouvernance -----------------------------
(***************************************************************************)
(* The pages read from the data warehouse (the mart): scores by domain,    *)
(* index of the Group, alert centre, export and HR figures                 *)
(* (governance/module_views.py, views.py, services.py, gateway.py,         *)
(* exports.py; k_insight/kpi/group_score.py, domain_scores.py).            *)
(*                                                                         *)
(* A case is what the mart holds, who reads, through which filter, and     *)
(* whether the mart answers; rendu is what each page then answers, once    *)
(* the doors of Acces have let the reader in.  Scores are integers in      *)
(* 1/120 of a point, so that means of up to six rows are exact.            *)
(***************************************************************************)
EXTENDS Integers, Sequences, FiniteSets, SequencesExt, FiniteSetsExt, Functions

CONSTANTS
    Filiales,       \* codes of subsidiaries
    MoisAffiches,   \* months of a trend, 12 in the code
    Rien

GouvernanceConstantes == IsFiniteSet(Filiales)

VARIABLES cas, rendu

vars == <<cas, rendu>>

ND == -1
ToutesFiliales == "all"
Point == 120

\* round(n / d, 1)
Dixieme(n, d) == 12 * ((n + 6 * d) \div (12 * d))

-----------------------------------------------------------------------------
(* Weights: of the dimensions of each domain, of the domains of the Group. *)

PoidsImmobilier == <<20, 22, 20, 16, 12, 10>>
PoidsFinance == <<22, 18, 18, 16, 16, 10>>
PoidsOperations == <<20, 12, 18, 13, 15, 12, 10>>
PoidsCommercial == <<22, 20, 20, 16, 12, 10>>
PoidsRisques == <<22, 20, 18, 15, 13, 12>>
PoidsCapitalHumain == <<15, 10, 15, 10, 15, 10, 10, 10, 5>>

Domaines ==
    <<"immobilier", "finance", "commercial-clients", "capital-humain", "operations", "risques-conformite">>

Cadres ==
    [d \in Range(Domaines) |->
        CASE d = "immobilier" -> PoidsImmobilier [] d = "finance" -> PoidsFinance
          [] d = "commercial-clients" -> PoidsCommercial [] d = "capital-humain" -> PoidsCapitalHumain
          [] d = "operations" -> PoidsOperations [] d = "risques-conformite" -> PoidsRisques]

PoidsGroupe ==
    [d \in Range(Domaines) |->
        CASE d = "immobilier" -> 22 [] d = "finance" -> 20 [] d = "commercial-clients" -> 16
          [] d = "capital-humain" -> 16 [] d = "operations" -> 14 [] d = "risques-conformite" -> 12]

Somme(f, S) == FoldFunctionOnSet(+, 0, f, S)
Ramene(v) == Max({0, Min({100 * Point, v})})

\* weighted_score: unknown keys are ignored, absent ones are left out of the weights too.
Pondere(scores, poids) ==
    LET cles == DOMAIN scores \cap DOMAIN poids
        total == Somme(poids, cles)
    IN IF cles = {} THEN ND ELSE Dixieme(Somme([k \in cles |-> Ramene(scores[k]) * poids[k]], cles), total)

\* group_governance_index, on the domains that have a score.
Mesurees(scores) == {k \in DOMAIN scores : scores[k] # ND}
Indice(scores) == Pondere([k \in Mesurees(scores) |-> scores[k]], PoidsGroupe)

-----------------------------------------------------------------------------
(* Reading the mart. *)

\* period_from_quarter: months counted from 1 January, the end excluded.
Trimestre(q) == [debut |-> 3 * (q - 1) + 1, fin |-> 3 * (q - 1) + 4]
Contient(p, m) == p.debut <= m /\ m < p.fin

\* PostgresMartGateway: a row without a score is not a row.
Lues(lignes) == {r \in lignes : r.score # ND}

\* scope.allows and the parameter `subsidiary'.
Permis(c, filiale) == filiale \in c.perimetre /\ c.filtre \in {ToutesFiliales, filiale}

\* _dims_avg
Moyennes(lignes) ==
    [d \in {r.dim : r \in lignes} |->
        LET s == {r \in lignes : r.dim = d} IN MapThenSumSet(LAMBDA r : r.score, s) \div Cardinality(s)]

Derniers(mois) == {m \in mois : Cardinality({n \in mois : n > m}) < MoisAffiches}

\* aggregate_score: the score of the period, of each subsidiary in it, and of each month read.
Agregat(lignes, periode, poids) ==
    LET dedans == {r \in lignes : Contient(periode, r.mois)}
        moyennes == Moyennes(dedans)
        Note(s) == Pondere(Moyennes(s), poids)
    IN [global |-> Pondere(moyennes, poids),
        dimensions |-> [d \in DOMAIN poids |-> IF d \in DOMAIN moyennes THEN moyennes[d] ELSE ND],
        filiales |-> [f \in {r.fil : r \in dedans} |-> Note({r \in dedans : r.fil = f})],
        tendance |-> [m \in Derniers({r.mois : r \in lignes}) |-> Note({r \in lignes : r.mois = m})]]

\* A value of each domain, where the domain has one for this key.
Croise(parDomaine, k) == [d \in {e \in DOMAIN parDomaine : k \in DOMAIN parDomaine[e]} |-> parDomaine[d][k]]

\* mutant: the filters are forgotten
ToutesLesLignes(c, domaine) == {r \in Lues(c.scores) : r.domaine = domaine}
\* _domain_rows, restricted to the perimeter and the filter.
LignesVisibles(c, domaine) == {r \in Lues(c.scores) : r.domaine = domaine /\ Permis(c, r.fil)}

\* build_group_report: the index of what the domains have in common.
Groupe(par) ==
    LET codes == UNION {DOMAIN par[d].filiales : d \in DOMAIN par}
        mois == Derniers(UNION {DOMAIN par[d].tendance : d \in DOMAIN par})
        scores == [d \in DOMAIN par |-> par[d].global]
    IN [disponible |-> Indice(scores) # ND,
        global |-> Indice(scores),
        domaines |-> scores,
        filiales |-> [f \in codes |-> Indice(Croise([d \in DOMAIN par |-> par[d].filiales], f))],
        tendance |-> [m \in mois |-> Indice(Croise([d \in DOMAIN par |-> par[d].tendance], m))]]

\* build_group_report, on the lines of each domain that the reader may see.
RapportGroupe(c) ==
    Groupe([d \in Range(Domaines) |-> Agregat(LignesVisibles(c, d), Trimestre(c.trimestre), Cadres[d])])

-----------------------------------------------------------------------------
(* The alert centre. *)

\* most_severe(SCORE_RULES) and most_severe(TREND_DROP_RULES); "" is no alert.
SeveriteScore(v) ==
    IF v = ND THEN "" ELSE IF v < 60 * Point THEN "critical" ELSE IF v < 70 * Point THEN "warning" ELSE ""
SeveriteChute(points) == IF points >= 5 * Point THEN "warning" ELSE ""

Alerte(severite, portee, genre, valeur) ==
    [severite |-> severite, portee |-> portee, genre |-> genre, valeur |-> valeur]

\* The points lost between the last two months that have a score.
Chute(tendance) ==
    LET mois == Mesurees(tendance)
        dernier == Max(mois)
        perdus == tendance[Max(mois \ {dernier})] - tendance[dernier]
    IN IF Cardinality(mois) < 2 THEN <<>>
       ELSE <<Alerte(SeveriteChute(perdus), "Groupe", "trend", perdus)>>

\* The alerts of a severity, in the order they came.
De(a, severite) ==
    FoldLeft(LAMBDA gardees, x : IF x.severite = severite THEN Append(gardees, x) ELSE gardees, <<>>, a)

\* Those that have a severity, once alerts.sort has put the gravest first.
PlusGravesDabord(a) == De(a, "critical") \o De(a, "warning") \o De(a, "info")

\* AlertsView.get
Alertes(rapport) ==
    LET Score(portee, v) == Alerte(SeveriteScore(v), portee, "score", v)
        codes == SetToSeq(DOMAIN rapport.filiales)
        toutes == <<Score("Groupe", rapport.global)>>
                      \o [i \in DOMAIN Domaines |-> Score(Domaines[i], rapport.domaines[Domaines[i]])]
                      \o [i \in DOMAIN codes |-> Score(codes[i], rapport.filiales[codes[i]])]
                      \o Chute(rapport.tendance)
        levees == PlusGravesDabord(toutes)
    IN [disponible |-> rapport.disponible, alertes |-> levees,
        comptes |-> [s \in {"info", "warning", "critical"} |-> Len(De(levees, s))]]

-----------------------------------------------------------------------------
(* The files of the export: _num and _fmt print N/D, never 0.              *)

Cellule(v) == IF v = ND THEN "N/D" ELSE v
Cellules(f) == [k \in DOMAIN f |-> Cellule(f[k])]
\* scores_workbook
Classeur(r) == [global |-> Cellule(r.global), domaines |-> Cellules(r.domaines),
                filiales |-> Cellules(r.filiales), tendance |-> Cellules(r.tendance)]
\* scores_pdf has no trend.
Document(r) == [global |-> Cellule(r.global), domaines |-> Cellules(r.domaines),
                filiales |-> Cellules(r.filiales)]

-----------------------------------------------------------------------------
(* HR figures of the mart. *)

\* hr_kpi_summary
SyntheseRh(lignes, c) ==
    LET vues == {r \in lignes : r.fil \in c.perimetre /\ Contient(Trimestre(c.trimestre), r.mois)}
        Total(champ) == MapThenSumSet(LAMBDA r : r[champ], vues)
        Masse(f) == MapThenSumSet(LAMBDA r : r.paie, {r \in vues : r.fil = f})
    IN [disponible |-> TRUE, paie |-> Total("paie"), entrees |-> Total("entrees"), sorties |-> Total("sorties"),
        net |-> Total("entrees") - Total("sorties"), filiales |-> [f \in {r.fil : r \in vues} |-> Masse(f)]]

\* blank_hr_summary
SyntheseVide ==
    [disponible |-> FALSE, paie |-> ND, entrees |-> ND, sorties |-> ND, net |-> ND, filiales |-> <<>>]

\* build_value_lookup: what the copilot quotes, nothing without the right to the domain, nor when the
\* mart is down.
Citees(c) ==
    LET vues == {r \in c.rh : Permis(c, r.fil) /\ Contient(Trimestre(c.trimestre), r.mois)}
        Total(champ) == MapThenSumSet(LAMBDA r : r[champ], vues)
    IN IF c.panne \/ ~c.habilite THEN <<ND, ND, ND>> ELSE <<Total("paie"), Total("entrees"), Total("sorties")>>

\* _payroll_stats and _clamp_gauge: shares rounded to a percent, needles kept between 8 and 96.
Part(n, total) == IF total = 0 THEN 0 ELSE (200 * n + total) \div (2 * total)
Jauge(v) == Max({8, Min({96, v})})

\* _hr_dashboard
TableauRh(s) ==
    LET paies == {s.filiales[f] : f \in DOMAIN s.filiales}
        mouvements == s.entrees + s.sorties
    IN [disponible |-> TRUE, graphe |-> s.filiales, nombre |-> Cardinality(DOMAIN s.filiales),
        valeurs |-> <<s.paie, s.entrees, s.sorties>>, net |-> s.net,
        tete |-> IF paies = {} THEN 0 ELSE Part(Max(paies), s.paie),
        jauges |-> <<Jauge(IF paies = {} THEN 0 ELSE Part(Max(paies), s.paie)),
                     Jauge(Part(s.entrees, mouvements)), Jauge(Part(s.sorties, mouvements))>>]

\* _availability_dashboard, of a part whose mart is absent.
TableauAbsent ==
    [disponible |-> FALSE, graphe |-> <<>>, nombre |-> ND, valeurs |-> <<ND, ND, ND>>, net |-> ND,
     tete |-> ND, jauges |-> <<8, 8, 8>>]

\* governance_overview
Apercu(rh) == [realEstate |-> TableauAbsent, hr |-> rh, finance |-> TableauAbsent]

-----------------------------------------------------------------------------
(* The pages.  A page answers a code, an entry of the access log when it   *)
(* answers 200, and a body; an exception of the gateway is a code 500.     *)

Reponse(action, etat, corps) == [code |-> 200, trace |-> action, etat |-> etat, corps |-> corps]
Plantage == [code |-> 500, trace |-> "", etat |-> "error", corps |-> Rien]

\* fetch_or_unavailable
Degradee(c, lignes) == IF c.panne THEN {} ELSE lignes
EtatDuMart(c) == IF c.panne THEN "error" ELSE "connected"

PageDomaine(c, d) ==
    LET lues == Degradee(c, LignesVisibles(c, d))
    IN Reponse("query_domain_score", EtatDuMart(c), Agregat(lues, Trimestre(c.trimestre), Cadres[d]))

PageRh(c) ==
    Reponse("query_metric", EtatDuMart(c),
            IF Degradee(c, c.rh) = {} THEN SyntheseVide ELSE SyntheseRh(c.rh, c))

\* GovernanceOverviewView: any exception, the mart's included, gives a dashboard without data.
PageApercu(c) ==
    Reponse("view_dashboard", EtatDuMart(c),
            Apercu(IF c.panne THEN TableauAbsent ELSE TableauRh(SyntheseRh(c.rh, c))))

\* GroupScoreView, AlertsView and ExportGroupScoreView, when they have the report r.
PagesDuRapport(r) ==
    [groupe |-> Reponse("query_group_score", "connected", r),
     alertes |-> Reponse("query_alerts", "connected", Alertes(r)),
     xlsx |-> Reponse("export_group_score", "connected", Classeur(r)),
     pdf |-> Reponse("export_group_score", "connected", Document(r))]

\* They call the gateway themselves.
PagesDuGroupe(c) ==
    IF c.panne THEN [groupe |-> Plantage, alertes |-> Plantage, xlsx |-> Plantage, pdf |-> Plantage]
    ELSE PagesDuRapport(RapportGroupe(c))

Pages(c) ==
    LET g == PagesDuGroupe(c)
    IN [groupe |-> g.groupe, alertes |-> g.alertes, xlsx |-> g.xlsx, pdf |-> g.pdf,
        domaine |-> PageDomaine(c, "immobilier"), rh |-> PageRh(c), apercu |-> PageApercu(c),
        copilote |-> Reponse("chat", EtatDuMart(c), Citees(c))]

-----------------------------------------------------------------------------
(* Cases. *)

Ligne(d, m, f, k, s) == [domaine |-> d, mois |-> m, fil |-> f, dim |-> k, score |-> s]
Tables(cles, valeurs) ==
    {{Ligne(k[1], k[2], k[3], k[4], f[k]) : k \in cles} : f \in [cles -> valeurs]}

\* One month, two dimensions of a domain and one of another.
ScoresDuMois ==
    Tables(({"immobilier"} \X {4} \X Filiales \X {1, 2}) \cup ({"capital-humain"} \X {4} \X Filiales \X {5}),
           {ND, 50 * Point, 64 * Point})
\* Three months, the first before the second quarter; dimension 0 is in no framework.
ScoresDesMois ==
    Tables({"finance"} \X {3, 4, 5} \X Filiales \X {1}, {ND, 58 * Point, 80 * Point})
        \cup Tables({"finance"} \X {3, 5} \X Filiales \X {0, 3}, {ND, 90 * Point})

Mouvements == {[paie |-> 10, entrees |-> 1, sorties |-> 0], [paie |-> 30, entrees |-> 0, sorties |-> 2]}
TablesRh ==
    {{[mois |-> k[1], fil |-> k[2], paie |-> f[k].paie, entrees |-> f[k].entrees, sorties |-> f[k].sorties] :
        k \in DOMAIN f} :
        f \in UNION {[S -> Mouvements] : S \in SUBSET ({3, 4} \X Filiales)}}

Lecteurs == [perimetre : SUBSET Filiales, filtre : Filiales \cup {ToutesFiliales}, habilite : BOOLEAN]
Case(l, scores, rh, panne) ==
    [perimetre |-> l.perimetre, filtre |-> l.filtre, habilite |-> l.habilite, trimestre |-> 2,
     scores |-> scores, rh |-> rh, panne |-> panne]

Init == cas = Rien /\ rendu = Rien

\* One request, on a page or another: each answers from the same mart.
Demander(l, scores, rh, panne) == cas' = Case(l, scores, rh, panne) /\ rendu' = Pages(cas')

Next ==
    /\ cas = Rien
    /\ \E l \in Lecteurs :
           \/ /\ l.habilite
              /\ \E s \in ScoresDuMois \cup ScoresDesMois : Demander(l, s, {}, FALSE)
           \/ \E t \in TablesRh, panne \in BOOLEAN : Demander(l, {}, t, panne)

Spec == Init /\ [][Next]_vars

-----------------------------------------------------------------------------
(* Properties. *)

Servi == cas # Rien /\ ~cas.panne

\* Nobody learns anything of a subsidiary outside their perimeter and their filter: the pages of the
\* Group are those of a mart that holds only what the reader may see, read without any filter
\* (module_views.py:115-124, 353-355).
RienHorsPerimetre ==
    Servi =>
        LET vues == {r \in cas.scores : Permis(cas, r.fil)}
            reduit == [cas EXCEPT !.scores = vues, !.perimetre = Filiales, !.filtre = ToutesFiliales]
        IN /\ PagesDuGroupe(reduit) = [p \in {"groupe", "alertes", "xlsx", "pdf"} |-> rendu[p]]
           /\ PageDomaine(reduit, "immobilier") = rendu.domaine
           /\ DOMAIN rendu.rh.corps.filiales \subseteq cas.perimetre

\* A reader of one subsidiary finds it at the same level on the Group's line and on its own, and the
\* index lies between the domains it is made of: what is not measured neither raises nor lowers it
\* (module_views.py:140-150, group_score.py:34-41).
IndiceDesMesures ==
    Servi =>
        LET r == rendu.groupe.corps
            scores == {r.domaines[d] : d \in Mesurees(r.domaines)}
        IN /\ r.disponible <=> scores # {}
           /\ r.disponible => Min(scores) <= r.global /\ r.global <= Max(scores)
           /\ \A f \in DOMAIN r.filiales : DOMAIN r.filiales = {f} => r.filiales[f] = r.global

\* The alert centre says of each score shown what its severity is, the gravest first; it says nothing
\* of a score that is not measured (module_views.py:497-507).
AlertesFondees ==
    Servi =>
        LET r == rendu.groupe.corps
            a == rendu.alertes.corps.alertes
            Graves(v) == Cardinality({k \in Mesurees(v) : v[k] < 60 * Point})
        IN /\ \A i, j \in DOMAIN a : a[i].severite = "critical" /\ a[j].severite # "critical" => i < j
           /\ rendu.alertes.corps.comptes["critical"] =
                Graves(r.domaines) + Graves(r.filiales) + Graves([groupe |-> r.global])
           /\ (\E i \in DOMAIN a : a[i].genre = "trend") => Cardinality(Mesurees(r.tendance)) >= 2

\* The HR figures of the two pages that show them, and those the copilot quotes, agree, but for a mart that
\* holds no row at all: the HR page then gives none, the overview and the copilot give 0.  A period without a row
\* is 0 on all three.  Nothing is shown when the mart is down (services.py:36-72, 192-203; views.py:80-86,
\* 123-127; ai_copilot/value_resolver.py:14-44).
ChiffresRhConcordent ==
    cas # Rien =>
        LET s == rendu.rh.corps
            t == rendu.apercu.corps.hr
            dite == rendu.copilote.corps[1]
        IN /\ t.disponible <=> ~cas.panne
           /\ s.disponible <=> ~cas.panne /\ cas.rh # {}
           /\ s.disponible =>
                 /\ <<s.paie, s.entrees, s.sorties>> = t.valeurs
                 /\ s.paie = Somme(s.filiales, DOMAIN s.filiales)
                 /\ dite # ND => dite = Somme(s.filiales, {f \in DOMAIN s.filiales : cas.filtre \in {ToutesFiliales, f}})
           /\ (t.disponible /\ ~s.disponible) => t.valeurs = <<0, 0, 0>> /\ s.paie = ND /\ dite \in {ND, 0}
           /\ cas.panne => /\ s.paie = ND /\ dite = ND /\ t.valeurs = <<ND, ND, ND>>
                           /\ rendu.domaine.corps.global = ND /\ rendu.domaine.etat = "error"
=============================================================================
