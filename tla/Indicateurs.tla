----------------------------- MODULE Indicateurs -----------------------------
(***************************************************************************)
(* Judging measures: thresholds and signals (governance/seuils_rh.py,      *)
(* signaux_rh.py), the findings of the decision engine (decision_rh.py),   *)
(* scores and alerts (score_rh.py, k_insight/kpi/score.py, alerts.py),     *)
(* stocks and flows of the mart (k_insight/kpi/hr.py, hr_mart.py, core.py).*)
(*                                                                         *)
(* One step judges one case.  Rates are in tenths of a percent, ND is a    *)
(* measure that does not exist.                                            *)
(***************************************************************************)
EXTENDS Integers, Sequences, FiniteSets, SequencesExt, FiniteSetsExt, Functions

CONSTANTS
    Bornes,        \* thresholds that may be typed
    Mesures,       \* rates that may be measured
    MaxConstats,   \* MAX_CONSTATS: 7
    MaxMois,       \* months of the mart
    MaxEmployes,   \* employees of the mart
    Rien

\* What the proofs ask of the constants; the host module checks it.
IndicateursConstantes ==
    /\ Bornes \subseteq Int /\ Mesures \subseteq Int
    /\ MaxConstats \in Nat /\ MaxMois \in Nat /\ MaxEmployes \in Nat
    /\ Rien \notin [op : {"<", "<=", ">", ">="}, seuil : Int, severite : {"info", "warning", "critical"}]

VARIABLES cas, juge

vars == <<cas, juge>>

ND == -1000

-----------------------------------------------------------------------------
(* Thresholds. *)

Signaux == {"presence_faible", "absenteisme", "retard_eleve", "site_sous_effectif", "effectif_critique"}
Sens(s) == IF s \in {"presence_faible", "site_sous_effectif"} THEN "bas" ELSE "haut"

Defauts ==
    [presence_faible |-> <<850, 700>>, absenteisme |-> <<150, 250>>, retard_eleve |-> <<150, 250>>,
     site_sous_effectif |-> <<700, 500>>, effectif_critique |-> <<50, 100>>]

\* valider: two percentages, in the order that the sense imposes.
Valide(s, surveillance, critique) ==
    /\ {surveillance, critique} \subseteq 0..1000
    /\ IF Sens(s) = "bas" THEN critique < surveillance ELSE critique > surveillance

\* effectifs: what was arbitrated replaces the default, signal by signal.
Effectifs(surcharges) == [s \in Signaux |-> IF s \in DOMAIN surcharges THEN surcharges[s] ELSE Defauts[s]]

Etat(v, s, seuils) ==
    LET pire(b) == IF Sens(s) = "bas" THEN v < b ELSE v > b
    IN IF v = ND THEN "non_mesure"
       ELSE IF pire(seuils[s][2]) THEN "critique"
       ELSE IF pire(seuils[s][1]) THEN "surveillance" ELSE "normal"

\* VERS_SHIELD: the thresholds of the day that a signal gives, and the step it takes.  The fifth,
\* presence_surveillance, is published and judged by no finding: it is left out.
VersShield ==
    [presence_critique |-> <<"presence_faible", 2>>, absenteisme_eleve |-> <<"absenteisme", 2>>,
     retards_eleves |-> <<"retard_eleve", 1>>, presence_site_critique |-> <<"site_sous_effectif", 2>>]
DefautsShield ==
    [presence_critique |-> 700, absenteisme_eleve |-> 250, retards_eleves |-> 150,
     presence_site_critique |-> 500]

\* mutant: the step is not looked at
PalierUnique(k, surcharges) == surcharges[VersShield[k][1]][1]

\* surcharges_shield: each key takes the step that VERS_SHIELD says.
SurchargeShield(k, surcharges) == surcharges[VersShield[k][1]][VersShield[k][2]]

\* seuils_publics
SeuilsPublics(surcharges) ==
    [k \in DOMAIN VersShield |->
        IF VersShield[k][1] \in DOMAIN surcharges THEN SurchargeShield(k, surcharges) ELSE DefautsShield[k]]

\* evaluer_presence_globale and evaluer_sites: is there a finding of the day?
ConstatDuJour(k, v, publics) ==
    IF k \in {"presence_critique", "presence_site_critique"} THEN v < publics[k] ELSE v > publics[k]

\* A PUT of two thresholds, then a measure judged by the signal and by the finding of the day.
JugerSeuil(c) ==
    LET accepte == Valide(c.signal, c.surveillance, c.critique)
        surcharges == IF accepte THEN [s \in {c.signal} |-> <<c.surveillance, c.critique>>] ELSE [s \in {} |-> Rien]
    IN [accepte |-> accepte,
        etats |-> [v \in Mesures |-> Etat(v, c.signal, Effectifs(surcharges))],
        publics |-> SeuilsPublics(surcharges)]

-----------------------------------------------------------------------------
(* Findings. *)

\* The measure each signal is judged on: _taux, _sites, _effectif.
PireSite(sites) == IF sites \ {ND} = {} THEN ND ELSE Min(sites \ {ND})
Baisse(actuel, precedent) ==
    IF actuel = ND \/ precedent \in {ND, 0} THEN ND ELSE ((precedent - actuel) * 1000) \div precedent
MesureDe(c, s) ==
    CASE s = "presence_faible" -> c.presence
      [] s = "absenteisme" -> c.absence
      [] s = "retard_eleve" -> IF c.ponctualite = ND THEN ND ELSE 1000 - c.ponctualite
      [] s = "site_sous_effectif" -> PireSite(c.sites)
      [] s = "effectif_critique" -> Baisse(c.effectif, c.effectifAvant)

Etats(c) == [s \in Signaux |-> Etat(MesureDe(c, s), s, Defauts)]

VariationNotable == 30
EcartSiteNotable == 100

Constat(id, severite) == [id |-> id, severite |-> severite]

\* The order of constats(): signals, variation, gap, concentration, coverage, deadlines.
Liste(c) ==
    LET e == Etats(c)
        ecart == c.presence - c.presenceAvant
        variation == e["presence_faible"] = "normal" /\ c.presenceAvant # ND
                       /\ (ecart >= VariationNotable \/ ecart <= -VariationNotable)
        loin == c.presence # ND /\ \E t \in c.sites \ {ND} : t - c.presence <= -EcartSiteNotable
        si(test, constat) == IF test THEN <<constat>> ELSE <<>>
        deSignal(s) == si(e[s] \in {"critique", "surveillance"}, Constat(s, e[s]))
    IN deSignal("presence_faible") \o deSignal("absenteisme") \o deSignal("retard_eleve")
         \o deSignal("site_sous_effectif") \o deSignal("effectif_critique")
         \o si(variation, Constat("variation", IF ecart < 0 THEN "surveillance" ELSE "info"))
         \o si(loin, Constat("ecart", "surveillance"))
         \o si(c.concentration, Constat("concentration", "info"))
         \o si(c.mince, Constat("mince", "info"))
         \o si(c.echeances > 0, Constat("echeances", "surveillance"))

Rang == [critique |-> 0, surveillance |-> 1, info |-> 2]

\* The place of a finding once they are sorted by gravity, those of a same gravity in the order of constats().
Place(s, i) ==
    1 + Cardinality({j \in DOMAIN s : Rang[s[j].severite] < Rang[s[i].severite]
                                        \/ (Rang[s[j].severite] = Rang[s[i].severite] /\ j < i)})

\* The gravest first, MaxConstats at most: those that are kept.
TrierPuisCouper(s) == {i \in DOMAIN s : Place(s, i) <= MaxConstats}

Ecart(a, b) == IF a > b THEN a - b ELSE b - a
SousEffectif(c) == {t \in c.sites \ {ND} : t < Defauts["site_sous_effectif"][1]}
LoinDuGroupe(c) == {t \in c.sites \ {ND} : t - c.presence <= -EcartSiteNotable}
Palier(c, s) == Defauts[s][IF Etats(c)[s] = "critique" THEN 2 ELSE 1]

\* The numbers of the sentence of a finding, in tenths: _depuis_signal, _variation, _ecarts_au_groupe (three
\* sites at most in the code), _concentration_retards, _couverture_mince (one day of three), _echeances_contrats.
NombresDuConstat(c, id) ==
    CASE id = "presence_faible" -> {c.presence, Palier(c, id)}
                                     \cup (IF c.presenceAvant = ND THEN {} ELSE {Ecart(c.presence, c.presenceAvant)})
      [] id \in {"absenteisme", "retard_eleve"} -> {MesureDe(c, id), Palier(c, id)}
      [] id = "site_sous_effectif" -> {10 * Cardinality(SousEffectif(c)), Defauts[id][1], PireSite(c.sites)}
      [] id = "effectif_critique" -> {10 * c.effectif, 10 * c.effectifAvant, MesureDe(c, id)}
      [] id = "variation" -> {c.presence, Ecart(c.presence, c.presenceAvant), c.presenceAvant}
      [] id = "ecart" -> LoinDuGroupe(c) \cup {Ecart(t, c.presence) : t \in LoinDuGroupe(c)} \cup {c.presence}
      [] id = "concentration" -> {600, 30, 40}
      [] id = "mince" -> {10, 30}
      [] id = "echeances" -> {10 * c.echeances, 300}

\* Those of its title, its rule and its details.
NombresDeLaRegle(c, id) ==
    CASE id = "retard_eleve" -> {1000}
      [] id = "site_sous_effectif" -> SousEffectif(c)
      [] id = "variation" -> {VariationNotable}
      [] id = "ecart" -> {10 * Cardinality(LoinDuGroupe(c)), EcartSiteNotable}
      [] id = "concentration" -> {30, 500, 40}
      [] id = "mince" -> {500}
      [] id = "echeances" -> {300}
      [] OTHER -> {}

\* synthese: every number of what was sent may be quoted, that is of the label of the period and of the findings
\* kept, rules included; the reasons of the blind spots hold none.
Autorises(c, ids) == c.libelle \cup UNION {NombresDuConstat(c, id) \cup NombresDeLaRegle(c, id) : id \in ids}

\* garde_fou, on one sentence, given by the numbers it quotes.
PhraseGardee(phrase, autorises) == phrase \subseteq autorises

\* constats, then garde_fou on the sentences of the model, and on those of synthese_deterministe, which the
\* offline provider hands back.
JugerDecision(c) ==
    LET tous == Liste(c)
        gardes == TrierPuisCouper(tous)
        autorises == Autorises(c, {tous[i].id : i \in gardes})
    IN [tous |-> tous, gardes |-> gardes,
        gardees |-> {p \in DOMAIN c.phrases : PhraseGardee(c.phrases[p], autorises)},
        repli |-> {i \in gardes : PhraseGardee(NombresDuConstat(c, tous[i].id), autorises)}]

-----------------------------------------------------------------------------
(* Scores and alerts. *)

Dimensions == {"effectifs", "presence", "conformite"}
Poids == [effectifs |-> 15, presence |-> 10, conformite |-> 5]
Borne(x) == Max({0, Min({1000, x})})

Somme(f) == FoldFunction(+, 0, f)
PoidsPresent(mesurees) == Somme([d \in mesurees |-> Poids[d]])

\* weighted_score: the mean of what is measured.
ScorePondere(scores) ==
    LET mesurees == {d \in Dimensions : scores[d] # ND}
        p == PoidsPresent(mesurees)
    IN IF p = 0 THEN ND ELSE Somme([d \in mesurees |-> Borne(scores[d]) * Poids[d]]) \div p

\* score_presence: two linear scales, on at least half of the days.
Lineaire(v, plancher, objectif) == Borne(((v - plancher) * 1000) \div (objectif - plancher))
ScorePresence(c) ==
    IF ND \in {c.presence, c.ponctualite} \/ 2 * c.joursMesures < c.jours THEN ND
    ELSE (Lineaire(c.presence, 700, 950) + Lineaire(c.ponctualite, 850, 990)) \div 2

\* calculer: no global score under half of the weight.
CouvertureGlobaleMin == 50
ScoreGlobal(presence) == IF presence = ND \/ Poids["presence"] < CouvertureGlobaleMin THEN ND ELSE presence

Severite == [info |-> 0, warning |-> 1, critical |-> 2]
Declenche(r, v) ==
    /\ v # ND
    /\ CASE r.op = "<" -> v < r.seuil [] r.op = "<=" -> v <= r.seuil
         [] r.op = ">" -> v > r.seuil [] r.op = ">=" -> v >= r.seuil

PlusGrave(r, meilleure) == meilleure = Rien \/ Severite[r.severite] > Severite[meilleure.severite]

\* most_severe
PireAlerte(regles, v) ==
    FoldLeft(LAMBDA best, r : IF Declenche(r, v) /\ PlusGrave(r, best) THEN r ELSE best, Rien, regles)

JugerScore(c) ==
    LET presence == ScorePresence(c)
        scores == [c.scores EXCEPT !["presence"] = presence]
    IN [presence |-> presence, pondere |-> ScorePondere(scores), entrees |-> scores,
        global |-> ScoreGlobal(presence), alerte |-> PireAlerte(c.regles, ScorePondere(scores))]

-----------------------------------------------------------------------------
(* Stocks and flows: days are months times 2, a month has two days. *)

Mois(d) == d \div 2
Contient(p, d) == p.debut <= d /\ d < p.fin

\* is_active: hired <= d < terminated.
Actif(e, d) == e.entree <= d /\ (e.sortie = ND \/ d < e.sortie)

Compte(s, Test(_)) == Cardinality({i \in DOMAIN s : Test(s[i])})
Effectif(emps, d) == Compte(emps, LAMBDA e : Actif(e, d))
Entrees(emps, p) == Compte(emps, LAMBDA e : Contient(p, e.entree))
Sorties(emps, p) == Compte(emps, LAMBDA e : e.sortie # ND /\ Contient(p, e.sortie))

MoisDeSortie(e) == Mois(e.sortie)

\* build_hr_kpi_rows: one row per subsidiary and month, entries and exits.
MartRh(emps) ==
    [k \in {"a", "b"} \X (0..MaxMois) |->
        [entrees |-> Compte(emps, LAMBDA e : e.filiale = k[1] /\ Mois(e.entree) = k[2]),
         sorties |-> Compte(emps, LAMBDA e : e.filiale = k[1] /\ e.sortie # ND /\ MoisDeSortie(e) = k[2])]]

\* total_entries and total_exits: the rows whose month begins in the period.
DuMart(mart, p, champ) ==
    Somme([k \in {l \in DOMAIN mart : Contient(p, 2 * l[2])} |-> mart[k][champ]])

JugerMart(c) ==
    LET mart == MartRh(c.emps)
    IN [debut |-> Effectif(c.emps, c.periode.debut - 1), fin |-> Effectif(c.emps, c.periode.fin - 1),
        entrees |-> Entrees(c.emps, c.periode), sorties |-> Sorties(c.emps, c.periode),
        martEntrees |-> DuMart(mart, c.periode, "entrees"), martSorties |-> DuMart(mart, c.periode, "sorties")]

-----------------------------------------------------------------------------
CasSeuil == [genre : {"seuil"}, signal : Signaux, surveillance : Bornes, critique : Bornes]

CasDecision ==
    [genre : {"decision"}, presence : {ND, 650, 900}, presenceAvant : {ND, 860, 940},
     absence : {ND, 200, 300}, ponctualite : {800, 990}, sites : {{}, {ND, 400}, {780, 600}},
     effectif : {ND, 80, 93}, effectifAvant : {100}, concentration : BOOLEAN, mince : BOOLEAN,
     echeances : {0, 2}, libelle : {{300}}, phrases : {<<{}, {650}, {300, 650}, {650, 123}>>}]

Regle(op, seuil, severite) == [op |-> op, seuil |-> seuil, severite |-> severite]
CasScore ==
    [genre : {"score"}, presence : {ND, 600, 800, 1000}, ponctualite : {ND, 900, 1000},
     joursMesures : 0..3, jours : {3},
     scores : [Dimensions -> {ND, 0, 650, 1200}],
     regles : {<<Regle("<", 600, "critical"), Regle("<", 700, "warning")>>,
               <<Regle("<=", 700, "warning"), Regle(">=", 1000, "info")>>}]

Jours == 0..(2 * MaxMois)
Employe == {e \in [filiale : {"a", "b"}, entree : Jours, sortie : Jours \cup {ND}] :
              e.sortie = ND \/ e.entree <= e.sortie}
\* Periods that begin and end with a month, as the mart can answer them.
CasMart ==
    {c \in [genre : {"mart"}, emps : UNION {[1..n -> Employe] : n \in 0..MaxEmployes},
            periode : {[debut |-> 2 * m, fin |-> 2 * n] : m \in 0..MaxMois, n \in 0..MaxMois}] :
        c.periode.debut < c.periode.fin}

Init == cas = Rien /\ juge = Rien

Seuil == cas = Rien /\ \E c \in CasSeuil : cas' = c /\ juge' = JugerSeuil(c)
Decision == cas = Rien /\ \E c \in CasDecision : cas' = c /\ juge' = JugerDecision(c)
Score == cas = Rien /\ \E c \in CasScore : cas' = c /\ juge' = JugerScore(c)
Mart == cas = Rien /\ \E c \in CasMart : cas' = c /\ juge' = JugerMart(c)

Next == Seuil \/ Decision \/ Score \/ Mart

Spec == Init /\ [][Next]_vars

-----------------------------------------------------------------------------
(* Properties. *)

Genre(g) == cas # Rien /\ cas.genre = g

\* Whatever thresholds a PUT is allowed to set, the three zones follow one another: as a measure gets
\* worse its state never gets better, and each threshold it passes shows (seuils_rh.py:120-147).
Gravite == [normal |-> 0, surveillance |-> 1, critique |-> 2, non_mesure |-> 0]
EtatMonotone ==
    Genre("seuil") =>
        \A v, w \in Mesures \ {ND} :
            (IF Sens(cas.signal) = "bas" THEN v <= w ELSE v >= w) =>
                /\ Gravite[juge.etats[v]] >= Gravite[juge.etats[w]]
                /\ (juge.accepte /\ v # w /\ v = cas.surveillance) => juge.etats[v] = "normal"

\* "The findings of the day [...] and the signals of the period judge with the same bounds"
\* (seuils_rh.py:6-9): a measure has a finding of the day exactly when its signal has reached the zone
\* that finding stands for, whatever was arbitrated.
MemesBornes ==
    Genre("seuil") =>
        \A k \in DOMAIN VersShield, v \in Mesures \ {ND} :
            VersShield[k][1] = cas.signal =>
                (ConstatDuJour(k, v, juge.publics) <=> Gravite[juge.etats[v]] >= VersShield[k][2])

\* Cutting the list of findings never drops one that is graver than one that is kept
\* (decision_rh.py:85-110).
GraveGarde ==
    Genre("decision") =>
        \A g \in juge.gardes, x \in DOMAIN juge.tous \ juge.gardes :
            Rang[juge.tous[g].severite] <= Rang[juge.tous[x].severite]

\* The synthesis composed of the findings alone passes the guard whole, with the thresholds and gaps its
\* sentences quote, and so does a sentence of the model that only repeats a finding.  More passes: whatever
\* number the label of the period or a rule holds (decision_rh.py:247-276, 281-330).
SyntheseEntiere ==
    Genre("decision") =>
        /\ juge.repli = juge.gardes
        /\ \A p \in DOMAIN cas.phrases :
               (\E i \in juge.gardes : cas.phrases[p] \subseteq NombresDuConstat(cas, juge.tous[i].id))
                   => p \in juge.gardees

\* A dimension that is not measured neither raises nor lowers a score: the score lies between those
\* of the dimensions that are, and does not exist without one (score.py:31-48).
ScoreDesMesurees ==
    Genre("score") =>
        LET m == {Borne(juge.entrees[d]) : d \in {e \in Dimensions : juge.entrees[e] # ND}}
        IN IF m = {} THEN juge.pondere = ND
           ELSE Min(m) <= juge.pondere /\ juge.pondere <= Max(m)

\* The alert shown is the gravest that is triggered, in whatever order the rules are listed, and an
\* absent value triggers none (alerts.py:49-69).
AlerteLaPire ==
    Genre("score") =>
        LET declenchees == {i \in DOMAIN cas.regles : Declenche(cas.regles[i], juge.pondere)}
        IN IF declenchees = {} THEN juge.alerte = Rien
           ELSE \A i \in declenchees : Severite[cas.regles[i].severite] <= Severite[juge.alerte.severite]

\* Stocks and flows agree on the last day worked before each bound: who is active there is who was
\* active before the period, plus its entries, minus its exits (hr.py:9-13, 50-68).
StockEtFlux ==
    Genre("mart") => juge.fin = juge.debut + juge.entrees - juge.sorties

\* What is read from the mart equals what is computed from the records, for whole months
\* (hr_mart.py:1-8).
Reconciliation ==
    Genre("mart") => juge.martEntrees = juge.entrees /\ juge.martSorties = juge.sorties
=============================================================================
