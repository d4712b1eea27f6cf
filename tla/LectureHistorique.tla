-------------------------- MODULE LectureHistorique --------------------------
(***************************************************************************)
(* Reading the history: the period a request asks for, the periods it is   *)
(* compared to, and the value of a period                                  *)
(* (governance/filtres.py, historique.py from 250, history_views.py).      *)
(*                                                                         *)
(* Days are counted from 1 January 2023; 2024 has a 29 February.  A row of *)
(* the history is a count, ND when the measure was not available, or       *)
(* Absente when there is no row.                                           *)
(***************************************************************************)
EXTENDS Integers, Sequences, FiniteSets, SequencesExt, FiniteSetsExt, Functions

CONSTANTS
    Aujourdhuis,    \* days on which a request is made
    DatesLibres,    \* bounds of a period typed by hand
    NbJours,        \* days of an aggregated period
    Codes,          \* codes of a dimension: companies, sites
    Valeurs,        \* counts of a row
    Rien

\* What the proofs ask of the constants: days from 2023 to 2025; the host module checks it.
LectureConstantes ==
    /\ Aujourdhuis \subseteq 1..1096 /\ DatesLibres \subseteq 0..1095
    /\ NbJours \in Nat
    /\ Codes \subseteq Nat /\ IsFiniteSet(Codes) /\ Codes # {}
    /\ Valeurs \subseteq Nat

VARIABLES cas, rendu

vars == <<cas, rendu>>

ND == -1
Absente == -2

-----------------------------------------------------------------------------
(* The calendar. *)

Annees == 2023..2025
LongueurTrimestre(a, t) == IF t = 1 THEN (IF a = 2024 THEN 91 ELSE 90) ELSE IF t = 2 THEN 91 ELSE 92
Nouvel(a) == CASE a <= 2023 -> 365 * (a - 2023) [] a = 2024 -> 365 [] OTHER -> 731 + 365 * (a - 2025)
AnneeDe(d) == CHOOSE a \in 2021..2027 : Nouvel(a) <= d /\ d < Nouvel(a + 1)
DebutTrimestre(a, t) ==
    LET n == LongueurTrimestre(a, 1) IN Nouvel(a) + <<0, n, n + 91, n + 183>>[t]
FinTrimestre(a, t) == DebutTrimestre(a, t) + LongueurTrimestre(a, t) - 1
TrimestreCourant(d) == CHOOSE t \in 1..4 : DebutTrimestre(AnneeDe(d), t) <= d /\ d <= FinTrimestre(AnneeDe(d), t)

\* The same day of the year before; 29 February gives 28 February.
Recul(d) ==
    LET a == AnneeDe(d)
        n == d - Nouvel(a)
    IN Nouvel(a - 1) + (IF a = 2024 /\ n >= 59 THEN n - 1 ELSE IF a = 2025 /\ n >= 59 THEN n + 1 ELSE n)

Periode(debut, fin, nature) == [debut |-> debut, fin |-> fin, nature |-> nature]
Duree(p) == p.fin - p.debut + 1

AnneePrecedente(p) == Periode(Recul(p.debut), Recul(p.fin), p.nature)

\* A quarter in progress is compared to date, and stays before the period itself.
FinDuTrimestrePrecedent(p, debut) == Min({debut + Duree(p) - 1, p.debut - 1})

\* Periode.precedente
Precedente(p) ==
    LET a == AnneeDe(p.debut)
        t == TrimestreCourant(p.debut)
        debut == IF t = 1 THEN DebutTrimestre(a - 1, 4) ELSE DebutTrimestre(a, t - 1)
    IN CASE p.nature = "trimestre" -> Periode(debut, FinDuTrimestrePrecedent(p, debut), "trimestre")
         [] p.nature = "annee" -> AnneePrecedente(p)
         [] OTHER -> Periode(p.debut - Duree(p), p.fin - Duree(p), p.nature)

-----------------------------------------------------------------------------
(* filtres.lire *)

Fenetres == [j7 |-> 7, j30 |-> 30, j90 |-> 90]
MaxJoursPersonnalises == 366

Refus(code) == [code |-> code]

\* Every period ends the day before: the day in progress is not closed.
Borne(fin, hier) == Min({fin, hier})

\* A calendar period or typed bounds, once their shape is known to be right.
Close(debut, fin, nature, hier) ==
    IF debut > hier THEN Refus(200) ELSE [code |-> 0, periode |-> Periode(debut, Borne(fin, hier), nature)]

\* The period that is asked for,
PeriodeLue(c) ==
    LET hier == c.aujourdhui - 1
    IN CASE c.nature \in DOMAIN Fenetres ->
              [code |-> 0, periode |-> Periode(hier - Fenetres[c.nature] + 1, hier, "fenetre")]
         [] c.nature = "trimestre" ->
              IF c.quarter \notin 1..4 THEN Refus(400)
              ELSE Close(DebutTrimestre(c.year, c.quarter), FinTrimestre(c.year, c.quarter), "trimestre", hier)
         [] c.nature = "annee" -> Close(Nouvel(c.year), Nouvel(c.year + 1) - 1, "annee", hier)
         [] c.nature = "personnalisee" ->
              IF c.a < c.de \/ c.a - c.de + 1 > MaxJoursPersonnalises THEN Refus(400)
              ELSE Close(c.de, c.a, "fenetre", hier)

\* ... then what it is asked of: a site and a type are not crossed.
Lire(c) == IF PeriodeLue(c).code = 0 /\ c.site /\ c.type THEN Refus(400) ELSE PeriodeLue(c)

LirePeriode(c) ==
    LET l == Lire(c)
    IN IF l.code # 0 THEN l ELSE [code |-> 0, periode |-> l.periode, avant |-> Precedente(l.periode)]

-----------------------------------------------------------------------------
(* Values of a period. *)

Jours == 1..NbJours
Somme(f) == FoldFunction(+, 0, f)

\* The rows of a day: one per code that has one.
Lignes(rows, j, codes) == {k \in codes : rows[j][k] # Absente}

\* _par_jour: every expected code has a row, and each is measured.
JourEntier(rows, j, codes) ==
    /\ Lignes(rows, j, codes) = codes
    /\ \A k \in codes : rows[j][k] # ND

ParJour(rows, codes) ==
    [j \in {d \in Jours : JourEntier(rows, d, codes)} |->
        Somme([k \in {i \in codes : rows[j][i] >= 0} |-> rows[j][k]])]

Taux(num, den) == IF den <= 0 THEN ND ELSE (num * 1000 + den \div 2) \div den

\* mutant: numerator and denominator each take the days they have
JoursDeLUn(a, b) == DOMAIN a \cup DOMAIN b
JoursUtiles(a, b) == DOMAIN a \cap DOMAIN b

SommeSur(f, S) == Somme([j \in S \cap DOMAIN f |-> f[j]])

\* agreger, by the rule of the metric: a rate of two components, a mean, the last value.
Agreger(c) ==
    LET pj == ParJour(c.present, c.codes)
        aj == ParJour(c.absent, c.codes)
        utiles == JoursUtiles(pj, aj)
        num == SommeSur(pj, utiles)
    IN CASE c.regle = "ratio" -> Taux(num, num + SommeSur(aj, utiles))
         [] c.regle = "moyenne" ->
              IF DOMAIN pj = {} THEN ND ELSE (Somme(pj) * 10) \div Cardinality(DOMAIN pj)
         [] c.regle = "dernier" -> IF DOMAIN pj = {} THEN ND ELSE pj[Max(DOMAIN pj)]

\* The key of the ranking: known first, then the strongest.
Devant(a, b) == a # ND /\ (b = ND \/ a > b)

\* ventiler: each code with its value and its rank, strongest first, ties by code.
Ventiler(c) ==
    LET valeur == [k \in c.codes |-> Agreger([c EXCEPT !.codes = {k}])]
        avant(i, k) ==
            Devant(valeur[i], valeur[k]) \/ (~Devant(valeur[k], valeur[i]) /\ i < k)
    IN [k \in c.codes |->
            [valeur |-> valeur[k], rang |-> 1 + Cardinality({i \in c.codes : avant(i, k)})]]

-----------------------------------------------------------------------------
CasPeriode ==
    [genre : {"periode"}, aujourdhui : Aujourdhuis,
     nature : DOMAIN Fenetres \cup {"trimestre", "annee", "personnalisee"},
     year : Annees, quarter : 0..4, de : DatesLibres, a : DatesLibres, site : BOOLEAN, type : BOOLEAN]

\* Only the parameters that the kind of period looks at vary.
Utile(c) ==
    /\ c.nature \notin {"trimestre", "annee"} => c.year = 2023
    /\ c.nature # "trimestre" => c.quarter = 0
    /\ c.nature # "personnalisee" => c.de = Min(DatesLibres) /\ c.a = Min(DatesLibres)
    /\ c.type => c.site

Cellules == Valeurs \cup {ND, Absente}
Tableaux == [Jours -> [Codes -> Cellules]]
TableauxDe(k) == {[j \in Jours |-> [i \in Codes |-> IF i = k THEN f[j] ELSE Absente]] : f \in [Jours -> Cellules]}
Vide == [j \in Jours |-> [k \in Codes |-> Absente]]
CasAgregat ==
    [genre : {"agregat"}, regle : {"dernier", "moyenne"}, present : Tableaux, absent : {Vide}, codes : {Codes}]
      \cup [genre : {"agregat"}, regle : {"ratio"}, present : TableauxDe(Min(Codes)),
           absent : TableauxDe(Min(Codes)), codes : {{Min(Codes)}}]
CasClassement ==
    [genre : {"classement"}, regle : {"dernier"}, present : Tableaux, absent : {Vide}, codes : {Codes}]

Rendu(c) ==
    CASE c.genre = "periode" -> LirePeriode(c)
      [] c.genre = "agregat" -> Agreger(c)
      [] c.genre = "classement" -> Ventiler(c)

Init == cas = Rien /\ rendu = Rien

DemanderPeriode ==
    /\ cas = Rien
    /\ \E c \in CasPeriode : Utile(c) /\ cas' = c /\ rendu' = Rendu(c)

DemanderValeur ==
    /\ cas = Rien
    /\ \E c \in CasAgregat \cup CasClassement : cas' = c /\ rendu' = Rendu(c)

Next == DemanderPeriode \/ DemanderValeur

Spec == Init /\ [][Next]_vars

-----------------------------------------------------------------------------
(* Properties. *)

Genre(g) == cas # Rien /\ cas.genre = g
Lue == Genre("periode") /\ rendu.code = 0

\* Every period stops the day before, whatever was asked (filtres.py:18, 116-121).
VeilleAuPlusTard ==
    Lue => rendu.periode.debut <= rendu.periode.fin /\ rendu.periode.fin < cas.aujourdhui

\* The period a value is compared to is not empty, ends before it begins, and a quarter goes back
\* to the first day of a quarter (historique.py:274-286), leap years included.
PrecedenteDisjointe ==
    Lue =>
        /\ rendu.avant.debut <= rendu.avant.fin
        /\ rendu.avant.fin < rendu.periode.debut
        /\ rendu.periode.nature = "trimestre" =>
             \E t \in 1..4, a \in 2021..2025 : rendu.avant.debut = DebutTrimestre(a, t)

\* The value of a period never is the total of a part: a value is the total of a day on which every
\* company of the perimeter is measured (historique.py:336-348).
JamaisPartiel ==
    (Genre("agregat") /\ cas.regle = "dernier" /\ rendu # ND) =>
        \E j \in Jours : /\ \A k \in cas.codes : cas.present[j][k] >= 0
                         /\ rendu = Somme(cas.present[j])

\* A rate of a period counts the same days above and below (historique.py:365-393).
Entiers == {j \in Jours : \A k \in cas.codes : cas.present[j][k] >= 0 /\ cas.absent[j][k] >= 0}
TauxDesMemesJours ==
    (Genre("agregat") /\ cas.regle = "ratio") =>
        LET total(rows) == Somme([j \in Entiers |-> Somme([k \in cas.codes |-> rows[j][k]])])
            n == total(cas.present)
        IN rendu = Taux(n, n + total(cas.absent))

\* A site that was not measured is not ranked among the weakest: it comes after every site
\* that was (historique.py:411-433).
InconnusEnDernier ==
    Genre("classement") =>
        \A x, y \in DOMAIN rendu :
            rendu[x].rang < rendu[y].rang /\ rendu[y].valeur # ND => rendu[x].valeur >= rendu[y].valeur
=============================================================================
