---------------------------- MODULE LectureShield ----------------------------
(***************************************************************************)
(* What is published of Shield, reading by reading: key figures, sites,    *)
(* series, security, overview and structure of the staff                   *)
(* (integrations/shield.py, shield_rules.py, shield_structure.py).         *)
(*                                                                         *)
(* A case is a state of Shield, the readings that fail, and the limits a   *)
(* collection meets.  One step publishes one case.  Rates are in tenths of *)
(* a percent; ND is "not available".                                       *)
(***************************************************************************)
EXTENDS Integers, Sequences, FiniteSets, SequencesExt, FiniteSetsExt

CONSTANTS
    MaxCompte,     \* bound of the counts of people
    NbJours,       \* days of a series
    Plafond,       \* MAX_PAGES_PERIOD * PAGE_SIZE, the rows read of one indicator
    PlafondFiches, \* the rows read of one list of the structure
    MinJours,      \* MIN_JOURS_POUR_COMPARER
    Rien

ShieldConstantes ==
    MaxCompte \in Nat /\ NbJours \in Nat /\ Plafond \in Nat /\ PlafondFiches \in Nat /\ MinJours \in Nat

VARIABLES cas,     \* the case, Rien before it is chosen
          publie   \* what is published of it

vars == <<cas, publie>>

ND == -1

-----------------------------------------------------------------------------
(* Rates: a quotient that has no meaning is not available. *)

Pct(part, total) ==
    IF ND \in {part, total} \/ total <= 0 THEN ND ELSE (part * 1000 + total \div 2) \div total
TauxPresence(p, a) == IF ND \in {p, a} THEN ND ELSE Pct(p, p + a)
PartAbsents(p, a) == IF ND \in {p, a} THEN ND ELSE Pct(a, p + a)
PartRetards(l, p) == Pct(l, p)
TauxPonctualite(l, p) == IF PartRetards(l, p) = ND THEN ND ELSE 1000 - PartRetards(l, p)

Seuils == [presence_critique |-> 700, presence_site_critique |-> 500, absenteisme_eleve |-> 250,
           retards_eleves |-> 150, baisse_inhabituelle |-> 150, terminaux_hs_critique |-> 200]

Sous(taux, seuil) == taux # ND /\ taux < seuil
Depasse(taux, seuil) == taux # ND /\ taux > seuil

EvaluerPresenceGlobale(p, a, l) ==
    {c \in {"presence_basse", "absenteisme", "retards"} :
        CASE c = "presence_basse" -> Sous(TauxPresence(p, a), Seuils.presence_critique)
          [] c = "absenteisme" -> Depasse(PartAbsents(p, a), Seuils.absenteisme_eleve)
          [] c = "retards" -> Depasse(PartRetards(l, p), Seuils.retards_eleves)}

-----------------------------------------------------------------------------
(* Readings. *)

\* get_shield_source and _guard: the source that is read, if it may be.
SourceLue(s) == (s.type /\ s.active) \/ s.slug
Garde(s) == SourceLue(s) /\ s.url /\ s.connectee

\* _safe: a reading that fails gives nothing.
Lire(c, cle) == IF cle \in c.echecs THEN ND ELSE c.vrai[cle]

SommeSur(f, ens) == FoldFunctionOnSet(+, 0, f, ens)
Somme(f) == SommeSur(f, DOMAIN f)
Plus(x, y) == IF ND \in {x, y} THEN ND ELSE x + y

\* _state_of
EtatDe(lues) ==
    LET ok == {i \in DOMAIN lues : lues[i] # ND}
    IN IF ok = DOMAIN lues THEN "connected" ELSE IF ok # {} THEN "partial" ELSE "error"

\* _disconnected: every figure is announced, none has a value.
Deconnecte(cles) == [etat |-> "disconnected", kpis |-> [k \in cles |-> ND], constats |-> {}]

ClesHr == {"effectif_total", "employes", "ouvriers", "presents", "absents", "retards",
           "taux_presence", "taux_absence_jour", "taux_ponctualite", "sites"}

\* fetch_hr_kpis: four readings, the figures of the day in one.
Hr(c) ==
    LET e == Lire(c, "employes")  o == Lire(c, "ouvriers")
        jour(k) == IF "resume" \in c.echecs THEN ND ELSE c.vrai[k]
        p == jour("presents")  a == jour("absents")  l == jour("retards")
        resume == IF "resume" \in c.echecs THEN ND ELSE 0
    IN IF ~Garde(c.source) THEN Deconnecte(ClesHr)
       ELSE [etat |-> EtatDe(<<e, o, Lire(c, "sites"), resume>>),
             kpis |-> [effectif_total |-> Plus(e, o), employes |-> e, ouvriers |-> o,
                       presents |-> p, absents |-> a, retards |-> l,
                       taux_presence |-> TauxPresence(p, a), taux_absence_jour |-> PartAbsents(p, a),
                       taux_ponctualite |-> TauxPonctualite(l, p), sites |-> Lire(c, "sites")],
             constats |-> EvaluerPresenceGlobale(p, a, l)]

EtatsHs == {"inactive", "maintenance", "lost"}
ClesSecurite == {"alertes_critiques", "alertes_ouvertes", "acces_refuses", "terminaux_hs", "terminaux_total",
                 "visiteurs_attente"}

\* Out of order: the three states, or nothing.
TerminauxHs(c) ==
    IF EtatsHs \cap c.echecs # {} THEN ND ELSE SommeSur(c.vrai, EtatsHs)

\* fetch_security_kpis and security_insights
Securite(c) ==
    LET crit == Lire(c, "critiques")  ouv == Lire(c, "ouvertes")  refus == Lire(c, "refus")
        hs == TerminauxHs(c)  total == Lire(c, "total")  visites == Lire(c, "visites")
    IN IF ~Garde(c.source) THEN Deconnecte(ClesSecurite)
       ELSE [etat |-> EtatDe(<<crit, ouv, refus, hs, total, visites>>),
             kpis |-> [alertes_critiques |-> crit, alertes_ouvertes |-> ouv, acces_refuses |-> refus,
                       terminaux_hs |-> hs, terminaux_total |-> total, visiteurs_attente |-> visites],
             constats |-> {k \in {"alertes", "terminaux", "terminaux_critique"} :
                             CASE k = "alertes" -> crit > 0
                               [] k = "terminaux" -> hs > 0 /\ total > 0
                               [] OTHER -> hs > 0 /\ total > 0
                                             /\ Pct(hs, total) >= Seuils.terminaux_hs_critique}]

\* fetch_overview_kpis: no presence of the day there.
Overview(c) ==
    LET w == Plus(Lire(c, "employes"), Lire(c, "ouvriers"))
    IN IF ~Garde(c.source) THEN Deconnecte({"workforce", "sites_actifs", "alertes_critiques"})
       ELSE [etat |-> EtatDe(<<w, Lire(c, "sites"), Lire(c, "critiques")>>),
             kpis |-> [workforce |-> w, sites_actifs |-> Lire(c, "sites"),
                       alertes_critiques |-> Lire(c, "critiques")],
             constats |-> {}]

-----------------------------------------------------------------------------
(* A period: one collection per indicator, newest rows first. *)

Flags == {"present", "absent", "late"}
Jours == 1..NbJours
SitesLus == {1, 2}

Apres(n, j) == SommeSur(n, (j + 1)..NbJours)

\* _collect_flag: the rows of day j that were read under the cap.
Obtenu(c, f, j) ==
    LET reste == Plafond - Apres(c.vrai[f], j)
    IN IF f \in c.echecs \/ reste <= 0 THEN 0 ELSE Min({c.vrai[f][j], reste})
Tronque(c, f) == f \notin c.echecs /\ Somme(c.vrai[f]) > Plafond
Dates(c, f) == {j \in Jours : Obtenu(c, f, j) > 0}

\* mutant: the oldest day that was read is trusted
PremiereDate(dates) == Min(dates)

\* _oldest_reliable, of the dates a truncated collection has read.
PlusAncienneFiable(dates) ==
    IF Cardinality(dates) > 1 THEN Min(dates \ {Min(dates)}) ELSE Min(dates)

\* collect_period: the cutoff of the worst indicator; ND, before all days, when nothing is truncated.
Coupure(c) ==
    Max({ND} \cup {PlusAncienneFiable(Dates(c, f)) : f \in {g \in Flags : Tronque(c, g) /\ Dates(c, g) # {}}})

\* evaluer_tendance: the last measured rate against the mean of those before it.
EvaluerTendance(taux) ==
    LET mesures == SelectSeq(taux, LAMBDA t : t # ND)
        n == Len(mesures)
        moyenne == Somme(Front(mesures)) \div (n - 1)
    IN IF n < MinJours + 1 \/ moyenne - mesures[n] < Seuils.baisse_inhabituelle THEN {} ELSE {"baisse"}

\* fetch_attendance_series: a day that is not covered is not a day without anybody.
Serie(c) ==
    LET douteux(j) == Flags \cap c.echecs # {} \/ j < Coupure(c)
        point(j) == [f \in Flags |-> IF douteux(j) THEN ND ELSE Obtenu(c, f, j)]
        points == [j \in Jours |-> point(j)]
        mesures == {j \in Jours : ~douteux(j)}
    IN [etat |-> IF mesures = Jours THEN "connected" ELSE IF mesures # {} THEN "partial" ELSE "error",
        points |-> points,
        constats |-> EvaluerTendance([j \in Jours |-> TauxPresence(points[j].present, points[j].absent)])]

\* from_period
DeLaPeriode(c, f, s) == IF f \in c.echecs THEN ND ELSE c.obtenu[f][s]

\* _site_row: the day comes from the period, the rest from two readings of its own.
LigneDeSite(c, s) ==
    LET lu(f) == DeLaPeriode(c, f, s)
        propre(k) == IF <<k, s>> \in c.propres THEN ND ELSE 1
        periode == IF Flags \cap c.echecs # {} THEN ND ELSE 0
    IN [present |-> lu("present"), absent |-> lu("absent"),
        taux |-> TauxPresence(lu("present"), lu("absent")),
        etat |-> EtatDe(<<propre("ouvriers"), propre("alertes"), periode>>)]

\* The sites of fetch_hr_kpis, and evaluer_sites.
ParSite(c) ==
    LET lignes == [s \in SitesLus |-> LigneDeSite(c, s)]
        oks == {s \in SitesLus : lignes[s].etat = "connected"}
    IN [etat |-> IF "sites" \in c.echecs THEN "error"
                 ELSE IF oks = SitesLus THEN "connected" ELSE IF oks # {} THEN "partial" ELSE "error",
        lignes |-> IF "sites" \in c.echecs THEN [s \in {} |-> Rien] ELSE lignes,
        constats |-> IF "sites" \in c.echecs THEN {}
                     ELSE {s \in SitesLus : Sous(lignes[s].taux, Seuils.presence_site_critique)}]

-----------------------------------------------------------------------------
(* Structure of the staff: a list is the ranks, among the people of Shield, of those it holds. *)

\* lire: a list that fails is empty, one that reaches the cap is cut there.
Fiches(c, nature) ==
    LET toutes == {i \in DOMAIN c.vrai : c.vrai[i].nature = nature}
    IN IF nature \in c.echecs THEN {}
       ELSE {i \in toutes : Cardinality({j \in toutes : j < i}) < PlafondFiches}

Coupee(fiches) == Cardinality(fiches) >= PlafondFiches

\* collecter: employees, workers, contracts, and the departments and positions that name theirs.
Collecte(c) ==
    LET e == Fiches(c, "employe")  o == Fiches(c, "ouvrier")
    IN [lignes |-> e \cup o,
        contrats |-> "contrats" \notin c.echecs /\ \E i \in DOMAIN c.vrai : c.vrai[i].fin # ND,
        etat |-> IF e \cup o = {} /\ c.echecs # {} THEN "error"
                 ELSE IF c.echecs # {} \/ Coupee(e) \/ Coupee(o) THEN "partial" ELSE "connected"]

Aujourdhui == 0

\* echeances, of the employees; nothing when no end of contract is known.
Echeances(c, charge, employes) ==
    IF ~charge.contrats THEN [echus |-> ND, a90 |-> ND]
    ELSE [echus |-> Cardinality({i \in employes : c.vrai[i].fin # ND /\ c.vrai[i].fin < Aujourdhui}),
          a90 |-> Cardinality({i \in employes : c.vrai[i].fin \in Aujourdhui..90})]

\* lire_structure under a filter on the company ("" for none).
Structure(c) ==
    LET charge == Collecte(c)
        lignes == {i \in charge.lignes : c.filtre \in {"", c.vrai[i].societe}}
        employes == {i \in lignes : c.vrai[i].nature = "employe"}
        actifs == {i \in lignes : c.vrai[i].statut = "active"}
    IN IF charge.lignes = {} /\ charge.etat = "error"
       THEN [etat |-> "error", total |-> ND, employes |-> ND, actifs |-> ND,
             ouvriers |-> ND, echeances |-> [echus |-> ND, a90 |-> ND]]
       ELSE [etat |-> charge.etat, total |-> Cardinality(lignes), employes |-> Cardinality(employes),
             ouvriers |-> Cardinality({i \in lignes : c.vrai[i].nature = "ouvrier"}),
             actifs |-> IF actifs # {} THEN Cardinality(actifs) ELSE ND,
             echeances |-> Echeances(c, charge, employes)]

-----------------------------------------------------------------------------
(* Windows of a series. *)

FenetresJours == {7, 30}
MaxJours == 30
MaxJoursExplicite == 92

\* Explicit bounds brought back to what can be measured.
Ramener(c) ==
    LET fin == IF c.fin > Aujourdhui THEN Aujourdhui ELSE c.fin
        trop == fin - c.debut + 1 > MaxJoursExplicite
    IN [debut |-> IF trop THEN fin - MaxJoursExplicite + 1 ELSE c.debut,
        fin |-> fin, avis |-> c.fin > Aujourdhui \/ trop]

\* fenetre_de_serie; ND for a date that was not given or cannot be read.
Fenetre(c) ==
    LET jours == IF c.days \in FenetresJours THEN c.days ELSE MaxJours
        fin == IF c.fin > Aujourdhui THEN Aujourdhui ELSE c.fin
    IN IF ~c.datee THEN [debut |-> Aujourdhui - jours + 1, fin |-> Aujourdhui, avis |-> FALSE]
       ELSE IF c.debut > fin THEN [debut |-> Aujourdhui - MaxJours + 1, fin |-> Aujourdhui, avis |-> TRUE]
       ELSE Ramener(c)

-----------------------------------------------------------------------------
(* Cases. *)

Decomptes == 0..MaxCompte
Connectee == [type |-> TRUE, active |-> TRUE, slug |-> FALSE, url |-> TRUE, connectee |-> TRUE]
Sources == [type : BOOLEAN, active : BOOLEAN, slug : BOOLEAN, url : BOOLEAN, connectee : BOOLEAN]

VraisHr == {v \in [employes : {1}, ouvriers : {0, 2}, sites : {1},
                   presents : Decomptes, absents : Decomptes, retards : Decomptes] : v.retards <= v.presents}
CasHr ==
    [genre : {"hr"}, source : {Connectee}, vrai : VraisHr,
     echecs : SUBSET {"employes", "ouvriers", "sites", "resume"}]
      \cup [genre : {"hr"}, source : Sources, vrai : VraisHr, echecs : {{}}]

CasSecurite ==
    [genre : {"securite"}, source : {Connectee},
     vrai : [critiques : {0, 1}, ouvertes : {1}, total : {0, 6}, inactive : {0, 1}, maintenance : {1},
             lost : {0}, refus : {2}, visites : {1}],
     echecs : SUBSET ({"critiques", "ouvertes", "refus", "total", "visites"} \cup EtatsHs)]

CasOverview ==
    [genre : {"overview"}, source : {Connectee},
     vrai : [employes : {1}, ouvriers : {0, 2}, sites : {1}, critiques : {0, 1}],
     echecs : SUBSET {"employes", "ouvriers", "sites", "critiques"}]

Journees == [Jours -> Decomptes]
CasSerie ==
    {c \in [genre : {"serie"}, vrai : [present : Journees, absent : Journees, late : Journees],
            echecs : {{}, {"present"}, {"late"}}] :
        \A j \in Jours : c.vrai.late[j] \in {0, c.vrai.present[j]}}

\* Rows of one day, by site: those that exist and those read under the cap.
ParJour == {x \in [vrai : [SitesLus -> Decomptes], obtenu : [SitesLus -> Decomptes]] :
              /\ \A s \in SitesLus : x.obtenu[s] <= x.vrai[s]
              /\ Somme(x.obtenu) = Min({Plafond, Somme(x.vrai)})}
CasSites ==
    {[genre |-> "sites", vrai |-> [present |-> p.vrai, absent |-> a.vrai],
      obtenu |-> [present |-> p.obtenu, absent |-> a.obtenu], echecs |-> e, propres |-> q] :
        p \in ParJour, a \in ParJour,
        e \in {{}, {"present"}, {"late"}, {"sites"}}, q \in {{}, {<<"ouvriers", 1>>, <<"alertes", 2>>}}}

Fiche == {p \in [nature : {"employe", "ouvrier"}, societe : {"a", "b"}, statut : {"", "active"},
                  fin : {ND - 20, ND, 30}] : p.nature = "ouvrier" => p.fin = ND}
CasStructure ==
    [genre : {"structure"}, vrai : UNION {[1..n -> Fiche] : n \in 0..3},
     echecs : {{}, {"employe"}, {"ouvrier"}, {"contrats"}, {"employe", "contrats"}, {"departements"}, {"postes"}},
     filtre : {"", "a"}]

CasFenetre ==
    [genre : {"fenetre"}, days : {7, 30, 90}, datee : BOOLEAN,
     debut : {-200, -92, -91, -3, 0, 2}, fin : {-100, -1, 0, 3}]

Publication(c) ==
    CASE c.genre = "hr" -> Hr(c)
      [] c.genre = "securite" -> Securite(c)
      [] c.genre = "overview" -> Overview(c)
      [] c.genre = "serie" -> Serie(c)
      [] c.genre = "sites" -> ParSite(c)
      [] c.genre = "structure" -> Structure(c)
      [] c.genre = "fenetre" -> Fenetre(c)

Init == cas = Rien /\ publie = Rien

Publier(Cas) ==
    /\ cas = Rien
    /\ \E c \in Cas : cas' = c /\ publie' = Publication(c)

Next ==
    \/ Publier(CasHr) \/ Publier(CasSecurite) \/ Publier(CasOverview)
    \/ Publier(CasSerie) \/ Publier(CasSites) \/ Publier(CasStructure) \/ Publier(CasFenetre)

Spec == Init /\ [][Next]_vars

-----------------------------------------------------------------------------
(* Properties.  The truth is what the same code publishes of the same      *)
(* Shield when no reading fails.                                           *)

Genre(g) == cas # Rien /\ cas.genre = g
Verite(c) == Publication([c EXCEPT !.echecs = {}])
TouteLecture == \E g \in {"hr", "securite", "overview"} : Genre(g)

\* Of the key figures, the security and the overview: a failed reading removes figures and
\* findings; it never changes a figure, turns it into 0 or makes a finding appear
\* (shield.py:229-236, 311-336, 580-602).
EchecRetire ==
    TouteLecture =>
        /\ \A k \in DOMAIN publie.kpis : publie.kpis[k] \in {ND, Verite(cas).kpis[k]}
        /\ publie.constats \subseteq Verite(cas).constats

\* "connected" is said of a complete table only (shield.py:193-197): every figure that
\* exists is there.
EtatHonnete ==
    TouteLecture /\ publie.etat = "connected" => publie.kpis = Verite(cas).kpis

\* A day given as measured has the counts Shield has, whatever indicator is truncated or
\* fails (shield.py:377-430, 511-533), provided each truncated collection has reached two dates.
DeuxDates == \A f \in Flags : Tronque(cas, f) => Cardinality(Dates(cas, f)) > 1
Exact(j) == publie.points[j].present # ND => \A f \in Flags : publie.points[j][f] = cas.vrai[f][j]
SerieExacte == Genre("serie") /\ DeuxDates => \A j \in Jours : Exact(j)

\* A site is shown with its own counts, and reported as under-staffed only if it is, when the
\* day was read in full (shield.py:243-284, shield_rules.py:215-237); of a day that was cut the
\* line of a site has what was read of it, and nothing in the line says so.
SiteExact ==
    Genre("sites") /\ cas.obtenu = cas.vrai =>
        \A s \in DOMAIN publie.lignes :
            /\ publie.lignes[s].present \in {ND, cas.vrai.present[s]}
            /\ publie.lignes[s].absent \in {ND, cas.vrai.absent[s]}
            /\ s \in publie.constats =>
                 Sous(TauxPresence(cas.vrai.present[s], cas.vrai.absent[s]), Seuils.presence_site_critique)

DeNature(c, nature) ==
    {i \in DOMAIN c.vrai : c.vrai[i].nature = nature /\ c.filtre \in {"", c.vrai[i].societe}}
EnEntier(c, nature) == nature \notin c.echecs /\ ~Coupee(Fiches(c, nature))

\* A structure is given as connected only when nothing failed and no list was cut; a list read in
\* full is counted in full, whatever else failed (shield_structure.py:185-217); and no deadline is
\* counted, not even 0, when the contracts were not read (292-294).  Employees that could not be
\* read are N/A when nobody was read (271), but counted 0, with no deadline, once one worker was:
\* the state, partial, is then all that says so.
StructureExacte ==
    Genre("structure") =>
        /\ publie.etat = "connected" => cas.echecs = {} /\ EnEntier(cas, "employe") /\ EnEntier(cas, "ouvrier")
        /\ publie.total # ND =>
             /\ EnEntier(cas, "employe") => publie.employes = Cardinality(DeNature(cas, "employe"))
             /\ EnEntier(cas, "ouvrier") => publie.ouvriers = Cardinality(DeNature(cas, "ouvrier"))
             /\ "employe" \in cas.echecs => publie.employes = 0 /\ publie.etat = "partial"
        /\ "contrats" \in cas.echecs => publie.echeances = [echus |-> ND, a90 |-> ND]

\* A series never ends in the future nor covers more than its bound, and explicit bounds are
\* either those covered or the answer says they were brought back (shield.py:449-454).
FenetreDite ==
    Genre("fenetre") =>
        /\ publie.debut <= publie.fin /\ publie.fin <= Aujourdhui
        /\ publie.fin - publie.debut < MaxJoursExplicite
        /\ cas.datee => publie.avis \/ (publie.debut = cas.debut /\ publie.fin = cas.fin)
=============================================================================
