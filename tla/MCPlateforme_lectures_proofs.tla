---------------------- MODULE MCPlateforme_lectures_proofs ----------------------
(***************************************************************************)
(* Proofs about what is read and shown at once, for any value of the       *)
(* constants of MCPlateforme: the periods of the HR history, the pages of  *)
(* the mart, the readings of Shield and of Odoo.                           *)
(***************************************************************************)
EXTENDS MCPlateforme_proofs

-----------------------------------------------------------------------------
(* The periods of the HR history, and what is compared over them.          *)
-----------------------------------------------------------------------------
(* The calendar of the periods. *)
LEMMA MinDeux ==
  ASSUME NEW a \in Int, NEW b \in Int
  PROVE  Q!Min({a, b}) \in {a, b} /\ Q!Min({a, b}) <= a /\ Q!Min({a, b}) <= b
BY DEF Q!Min

\* The smallest of a set that has one.
LEMMA MinDe ==
  ASSUME NEW Ens \in SUBSET Int, NEW x \in Ens, \A y \in Ens : x <= y
  PROVE  Q!Min(Ens) \in Ens /\ \A y \in Ens : Q!Min(Ens) <= y
BY DEF Q!Min

\* The first day of each year.
LEMMA Nouvels ==
  /\ Q!Nouvel(2021) = -730 /\ Q!Nouvel(2022) = -365 /\ Q!Nouvel(2023) = 0 /\ Q!Nouvel(2024) = 365
  /\ Q!Nouvel(2025) = 731 /\ Q!Nouvel(2026) = 1096 /\ Q!Nouvel(2027) = 1461 /\ Q!Nouvel(2028) = 1826
BY DEF Q!Nouvel

\* A day between 2021 and 2027 is of one year.
LEMMA AnneeDuJour ==
  ASSUME NEW d \in Int, -730 <= d, d < 1826
  PROVE  /\ Q!AnneeDe(d) \in 2021..2027
         /\ Q!Nouvel(Q!AnneeDe(d)) <= d /\ d < Q!Nouvel(Q!AnneeDe(d) + 1)
<1>1. \E a \in 2021..2027 : Q!Nouvel(a) <= d /\ d < Q!Nouvel(a + 1)
  <2>1. \/ Q!Nouvel(2021) <= d /\ d < Q!Nouvel(2021 + 1)
        \/ Q!Nouvel(2022) <= d /\ d < Q!Nouvel(2022 + 1)
        \/ Q!Nouvel(2023) <= d /\ d < Q!Nouvel(2023 + 1)
        \/ Q!Nouvel(2024) <= d /\ d < Q!Nouvel(2024 + 1)
        \/ Q!Nouvel(2025) <= d /\ d < Q!Nouvel(2025 + 1)
        \/ Q!Nouvel(2026) <= d /\ d < Q!Nouvel(2026 + 1)
        \/ Q!Nouvel(2027) <= d /\ d < Q!Nouvel(2027 + 1)
    BY Nouvels
  <2> QED BY <2>1
<1> QED BY <1>1 DEF Q!AnneeDe

\* The quarters of a year follow one another and fill it.
LEMMA Trimestres ==
  ASSUME NEW a \in 2021..2027
  PROVE  /\ \A t \in 1..4 : Q!DebutTrimestre(a, t) \in Int /\ Q!FinTrimestre(a, t) \in Int
                          /\ Q!DebutTrimestre(a, t) <= Q!FinTrimestre(a, t)
         /\ Q!DebutTrimestre(a, 1) = Q!Nouvel(a)
         /\ \A t \in 1..3 : Q!FinTrimestre(a, t) + 1 = Q!DebutTrimestre(a, t + 1)
         /\ Q!FinTrimestre(a, 4) + 1 = Q!Nouvel(a + 1)
<1>1. a \in Int /\ Q!Nouvel(a) \in Int /\ Q!Nouvel(a + 1) = Q!Nouvel(a) + (IF a = 2024 THEN 366 ELSE 365)
  <2>1. a \in {2021, 2022, 2023, 2024, 2025, 2026, 2027}
    OBVIOUS
  <2> QED BY <2>1, Nouvels
<1>2. /\ Q!DebutTrimestre(a, 1) = Q!Nouvel(a)
      /\ Q!DebutTrimestre(a, 2) = Q!Nouvel(a) + Q!LongueurTrimestre(a, 1)
      /\ Q!DebutTrimestre(a, 3) = Q!Nouvel(a) + Q!LongueurTrimestre(a, 1) + 91
      /\ Q!DebutTrimestre(a, 4) = Q!Nouvel(a) + Q!LongueurTrimestre(a, 1) + 183
  BY <1>1 DEF Q!DebutTrimestre, Q!LongueurTrimestre
<1>3. /\ Q!LongueurTrimestre(a, 1) = IF a = 2024 THEN 91 ELSE 90
      /\ Q!LongueurTrimestre(a, 2) = 91 /\ Q!LongueurTrimestre(a, 3) = 92 /\ Q!LongueurTrimestre(a, 4) = 92
  BY DEF Q!LongueurTrimestre
<1>4. ASSUME NEW t \in 1..4 PROVE t \in {1, 2, 3, 4}
  BY <1>4
<1> QED BY <1>1, <1>2, <1>3, <1>4 DEF Q!FinTrimestre

\* A quarter begins in its year.
LEMMA DebutDansAnnee ==
  ASSUME NEW a \in 2021..2027, NEW t \in 1..4
  PROVE  Q!Nouvel(a) <= Q!DebutTrimestre(a, t) /\ Q!FinTrimestre(a, t) < Q!Nouvel(a + 1)
<1>1. Q!Nouvel(a) \in Int /\ Q!Nouvel(a + 1) \in Int
  <2>1. a \in {2021, 2022, 2023, 2024, 2025, 2026, 2027}
    OBVIOUS
  <2> QED BY <2>1, Nouvels
<1>2. \A n \in {1, 2, 3, 4} : Q!DebutTrimestre(a, n) \in Int /\ Q!FinTrimestre(a, n) \in Int
                              /\ Q!DebutTrimestre(a, n) <= Q!FinTrimestre(a, n)
  BY Trimestres
<1>3. /\ Q!DebutTrimestre(a, 1) = Q!Nouvel(a)
      /\ Q!FinTrimestre(a, 1) + 1 = Q!DebutTrimestre(a, 2)
      /\ Q!FinTrimestre(a, 2) + 1 = Q!DebutTrimestre(a, 3)
      /\ Q!FinTrimestre(a, 3) + 1 = Q!DebutTrimestre(a, 4)
      /\ Q!FinTrimestre(a, 4) + 1 = Q!Nouvel(a + 1)
  BY Trimestres
<1>4. t \in {1, 2, 3, 4}
  OBVIOUS
<1> QED BY <1>1, <1>2, <1>3, <1>4

\* A day is of one quarter of its year.
LEMMA TrimestreDuJour ==
  ASSUME NEW d \in Int, -730 <= d, d < 1826
  PROVE  /\ Q!TrimestreCourant(d) \in 1..4
         /\ Q!DebutTrimestre(Q!AnneeDe(d), Q!TrimestreCourant(d)) <= d
         /\ d <= Q!FinTrimestre(Q!AnneeDe(d), Q!TrimestreCourant(d))
<1> DEFINE a == Q!AnneeDe(d)
<1>1. a \in 2021..2027 /\ Q!Nouvel(a) <= d /\ d < Q!Nouvel(a + 1)
  BY AnneeDuJour
<1>2. \E t \in 1..4 : Q!DebutTrimestre(a, t) <= d /\ d <= Q!FinTrimestre(a, t)
  <2> HIDE DEF a
  <2>1. Q!DebutTrimestre(a, 1) <= d /\ d < Q!FinTrimestre(a, 4) + 1
    BY <1>1, Trimestres
  <2>2. /\ Q!FinTrimestre(a, 1) + 1 = Q!DebutTrimestre(a, 2)
        /\ Q!FinTrimestre(a, 2) + 1 = Q!DebutTrimestre(a, 3)
        /\ Q!FinTrimestre(a, 3) + 1 = Q!DebutTrimestre(a, 4)
    BY <1>1, Trimestres
  <2>3. \A t \in {1, 2, 3, 4} : Q!DebutTrimestre(a, t) \in Int /\ Q!FinTrimestre(a, t) \in Int
    BY <1>1, Trimestres
  <2>4. \/ Q!DebutTrimestre(a, 1) <= d /\ d <= Q!FinTrimestre(a, 1)
        \/ Q!DebutTrimestre(a, 2) <= d /\ d <= Q!FinTrimestre(a, 2)
        \/ Q!DebutTrimestre(a, 3) <= d /\ d <= Q!FinTrimestre(a, 3)
        \/ Q!DebutTrimestre(a, 4) <= d /\ d <= Q!FinTrimestre(a, 4)
    BY <2>1, <2>2, <2>3
  <2> QED BY <2>4
<1> QED BY <1>2 DEF Q!TrimestreCourant

\* What a period read is: not empty, over since the day before, a calendar quarter or year as it says.
Correcte(p, hier) ==
  /\ p.debut \in Int /\ p.fin \in Int /\ -90 <= p.debut /\ p.debut <= p.fin /\ p.fin <= hier
  /\ p.nature = "trimestre" => \E a \in 2023..2025, t \in 1..4 : p.debut = Q!DebutTrimestre(a, t)
  /\ p.nature = "annee" => \E a \in 2023..2025 : p.debut = Q!Nouvel(a) /\ p.fin < Q!Nouvel(a + 1)

\* A period that is accepted begins where it was asked to and ends no later than the evening before.
LEMMA Fermee ==
  ASSUME NEW debut \in Int, NEW fin \in Int, NEW hier \in Int, NEW nature, -90 <= debut, debut <= fin,
         Q!Close(debut, fin, nature, hier).code = 0
  PROVE  LET p == Q!Close(debut, fin, nature, hier).periode
         IN /\ p.debut = debut /\ p.nature = nature
            /\ p.fin \in Int /\ debut <= p.fin /\ p.fin <= hier /\ p.fin <= fin
<1>1. debut <= hier
  BY DEF Q!Close, Q!Refus
<1>2. Q!Close(debut, fin, nature, hier).periode = [debut |-> debut, fin |-> Q!Borne(fin, hier), nature |-> nature]
  BY <1>1 DEF Q!Close, Q!Periode
<1>3. Q!Borne(fin, hier) \in Int /\ debut <= Q!Borne(fin, hier) /\ Q!Borne(fin, hier) <= hier
        /\ Q!Borne(fin, hier) <= fin
  BY <1>1, MinDeux DEF Q!Borne
<1> QED BY <1>2, <1>3

\* The same, of an answer.
LEMMA FermeeDe ==
  ASSUME NEW debut \in Int, NEW fin \in Int, NEW hier \in Int, NEW nature, -90 <= debut, debut <= fin,
         NEW z, z = Q!Close(debut, fin, nature, hier), z.code = 0
  PROVE  /\ z.periode.debut = debut /\ z.periode.nature = nature
         /\ z.periode.fin \in Int /\ debut <= z.periode.fin /\ z.periode.fin <= hier /\ z.periode.fin <= fin
BY Fermee

\* What a request for a period may ask.
LEMMA CasType ==
  ASSUME NEW c \in Q!CasPeriode
  PROVE  /\ c.aujourdhui \in 1..1096 /\ c.year \in 2023..2025 /\ c.de \in 0..1095 /\ c.a \in 0..1095
         /\ c.nature \in DOMAIN Q!Fenetres \cup {"trimestre", "annee", "personnalisee"}
<1>1. Demandes \subseteq 1..1096 /\ DatesTapees \subseteq 0..1095
  BY ConstantesLues DEF Q!LectureConstantes
<1>2. /\ c.aujourdhui \in Demandes /\ c.year \in Q!Annees /\ c.de \in DatesTapees /\ c.a \in DatesTapees
      /\ c.nature \in DOMAIN Q!Fenetres \cup {"trimestre", "annee", "personnalisee"}
  BY DEF Q!CasPeriode
<1> DEFINE jour == c.aujourdhui
           annee == c.year
           de == c.de
           a == c.a
<1>3. jour \in Demandes /\ annee \in Q!Annees /\ de \in DatesTapees /\ a \in DatesTapees
  BY <1>2
<1>4. jour \in 1..1096 /\ annee \in 2023..2025 /\ de \in 0..1095 /\ a \in 0..1095
  <2> HIDE DEF jour, annee, de, a
  <2> QED BY <1>1, <1>3 DEF Q!Annees
<1> QED BY <1>2, <1>4

\* When a period is a correct one.
LEMMA EstCorrecte ==
  ASSUME NEW p, NEW debut \in Int, NEW fin \in Int, NEW nature, NEW hier \in Int,
         p.debut = debut, p.fin = fin, p.nature = nature,
         -90 <= debut, debut <= fin, fin <= hier,
         nature = "trimestre" => \E a \in 2023..2025, t \in 1..4 : debut = Q!DebutTrimestre(a, t),
         nature = "annee" => \E a \in 2023..2025 : debut = Q!Nouvel(a) /\ fin < Q!Nouvel(a + 1)
  PROVE  Correcte(p, hier)
BY DEF Correcte

\* What is read of a request, nature by nature.
LEMMA LireDe ==
  ASSUME NEW c, Q!Lire(c).code = 0
  PROVE  /\ c.nature \in DOMAIN Q!Fenetres =>
              Q!Lire(c) = [code |-> 0, periode |-> Q!Periode(c.aujourdhui - 1 - Q!Fenetres[c.nature] + 1,
                                                            c.aujourdhui - 1, "fenetre")]
         /\ c.nature = "trimestre" =>
              /\ c.quarter \in 1..4
              /\ Q!Lire(c) = Q!Close(Q!DebutTrimestre(c.year, c.quarter), Q!FinTrimestre(c.year, c.quarter),
                                     "trimestre", c.aujourdhui - 1)
         /\ c.nature = "annee" =>
              Q!Lire(c) = Q!Close(Q!Nouvel(c.year), Q!Nouvel(c.year + 1) - 1, "annee", c.aujourdhui - 1)
         /\ c.nature = "personnalisee" =>
              /\ ~(c.a < c.de \/ c.a - c.de + 1 > Q!MaxJoursPersonnalises)
              /\ Q!Lire(c) = Q!Close(c.de, c.a, "fenetre", c.aujourdhui - 1)
<1>1. DOMAIN Q!Fenetres = {"j7", "j30", "j90"}
  BY DEF Q!Fenetres
<1>2. Q!Refus(400).code # 0
  BY DEF Q!Refus
<1>3. Q!Lire(c) = Q!PeriodeLue(c)
  BY <1>2 DEF Q!Lire
<1>4. CASE c.nature \in DOMAIN Q!Fenetres
  <2>1. c.nature \notin {"trimestre", "annee", "personnalisee"}
    BY <1>1, <1>4
  <2> QED BY <1>3, <1>4, <2>1, Zenon DEF Q!PeriodeLue
<1>5. CASE c.nature = "trimestre"
  <2>1. c.nature \notin DOMAIN Q!Fenetres /\ c.nature # "annee" /\ c.nature # "personnalisee"
    BY <1>1, <1>5
  <2>2. Q!Lire(c) = IF c.quarter \notin 1..4 THEN Q!Refus(400)
                    ELSE Q!Close(Q!DebutTrimestre(c.year, c.quarter), Q!FinTrimestre(c.year, c.quarter),
                                 "trimestre", c.aujourdhui - 1)
    BY <1>3, <1>5, <2>1, Zenon DEF Q!PeriodeLue
  <2> QED BY <1>2, <2>1, <2>2, <1>5, Zenon
<1>6. CASE c.nature = "annee"
  <2>1. c.nature \notin DOMAIN Q!Fenetres /\ c.nature # "trimestre" /\ c.nature # "personnalisee"
    BY <1>1, <1>6
  <2> QED BY <1>3, <1>6, <2>1, Zenon DEF Q!PeriodeLue
<1>7. CASE c.nature = "personnalisee"
  <2>1. c.nature \notin DOMAIN Q!Fenetres /\ c.nature # "trimestre" /\ c.nature # "annee"
    BY <1>1, <1>7
  <2>2. Q!Lire(c) = IF c.a < c.de \/ c.a - c.de + 1 > Q!MaxJoursPersonnalises THEN Q!Refus(400)
                    ELSE Q!Close(c.de, c.a, "fenetre", c.aujourdhui - 1)
    BY <1>3, <1>7, <2>1, Zenon DEF Q!PeriodeLue
  <2> QED BY <1>2, <2>1, <2>2, <1>7, Zenon
<1> QED BY <1>4, <1>5, <1>6, <1>7, Zenon

\* A period that is accepted is a correct one.
LEMMA LueCorrecte ==
  ASSUME NEW c \in Q!CasPeriode, Q!Lire(c).code = 0
  PROVE  Correcte(Q!Lire(c).periode, c.aujourdhui - 1)
<1> DEFINE hier == c.aujourdhui - 1
           p == Q!Lire(c).periode
<1>1. hier \in 0..1095
  BY CasType
<1>2. CASE c.nature \in DOMAIN Q!Fenetres
  <2> DEFINE n == Q!Fenetres[c.nature]
             debut == hier - n + 1
  <2>1. p = [debut |-> debut, fin |-> hier, nature |-> "fenetre"]
    BY <1>2, LireDe DEF Q!Periode
  <2>2. n \in {7, 30, 90}
    BY <1>2 DEF Q!Fenetres
  <2>3. p.debut = debut /\ p.fin = hier /\ p.nature = "fenetre"
    BY <2>1
  <2>4. debut \in Int /\ hier \in Int /\ -90 <= debut /\ debut <= hier
    <3> HIDE DEF hier, n
    <3> QED BY <1>1, <2>2
  <2> HIDE DEF p, hier, debut, n
  <2>5. hier <= hier
    BY <2>4
  <2>6. Correcte(p, hier)
    BY <2>3, <2>4, <2>5, EstCorrecte
  <2> QED BY <2>6 DEF p, hier
<1>3. CASE c.nature = "trimestre"
  <2> DEFINE debut == Q!DebutTrimestre(c.year, c.quarter)
             fin == Q!FinTrimestre(c.year, c.quarter)
  <2>1. c.quarter \in 1..4 /\ Q!Lire(c) = Q!Close(debut, fin, "trimestre", hier)
    BY <1>3, LireDe
  <2>2. c.year \in 2023..2025
    BY CasType
  <2>3. debut \in Int /\ fin \in Int /\ debut <= fin
    BY <2>1, <2>2, Trimestres
  <2>4. -90 <= debut
    <3>1. Q!Nouvel(c.year) <= debut
      BY <2>1, <2>2, DebutDansAnnee
    <3>2. Q!Nouvel(c.year) \in Int /\ 0 <= Q!Nouvel(c.year)
      BY <2>2, Nouvels
    <3> HIDE DEF debut
    <3> QED BY <2>3, <3>1, <3>2
  <2>5. \E a \in 2023..2025, t \in 1..4 : debut = Q!DebutTrimestre(a, t)
    BY <2>1, <2>2
  <2> HIDE DEF debut, fin, hier
  <2>6. p.debut = debut /\ p.nature = "trimestre" /\ p.fin \in Int /\ debut <= p.fin /\ p.fin <= hier
    BY <1>1, <2>1, <2>3, <2>4, Fermee
  <2> HIDE DEF p
  <2>7. Correcte(p, hier)
    BY <1>1, <2>3, <2>4, <2>5, <2>6, EstCorrecte
  <2> QED BY <2>7 DEF p, hier
<1>4. CASE c.nature = "annee"
  <2> DEFINE debut == Q!Nouvel(c.year)
             fin == Q!Nouvel(c.year + 1) - 1
  <2>1. Q!Lire(c) = Q!Close(debut, fin, "annee", hier)
    BY <1>4, LireDe
  <2>2. c.year \in 2023..2025
    BY CasType
  <2>3. debut \in Int /\ fin \in Int /\ debut <= fin /\ -90 <= debut /\ Q!Nouvel(c.year + 1) \in Int
    BY <2>2, Nouvels
  <2> HIDE DEF debut, hier
  <2>4. /\ p.debut = debut /\ p.nature = "annee"
        /\ p.fin \in Int /\ debut <= p.fin /\ p.fin <= hier /\ p.fin <= fin
    <3> DEFINE z == Q!Lire(c)
    <3>1. z.code = 0 /\ z = Q!Close(debut, fin, "annee", hier) /\ p = z.periode
      BY <2>1 DEF p
    <3>2. hier \in Int
      BY <1>1
    <3> SUFFICES /\ z.periode.debut = debut /\ z.periode.nature = "annee"
                 /\ z.periode.fin \in Int /\ debut <= z.periode.fin /\ z.periode.fin <= hier /\ z.periode.fin <= fin
      BY <3>1
    <3>3. fin \in Int
      BY <2>3
    <3>4. debut \in Int /\ -90 <= debut /\ debut <= fin
      BY <2>3
    <3> HIDE DEF fin, z, p
    <3> QED BY ONLY <3>1, <3>2, <3>3, <3>4, FermeeDe
  <2> HIDE DEF p
  <2>5. p.fin < Q!Nouvel(c.year + 1)
    BY <2>3, <2>4
  <2>6. \E a \in 2023..2025 : debut = Q!Nouvel(a) /\ p.fin < Q!Nouvel(a + 1)
    BY <2>2, <2>5 DEF debut
  <2>7. Correcte(p, hier)
    BY <1>1, <2>3, <2>4, <2>6, EstCorrecte
  <2> QED BY <2>7 DEF p, hier
<1>5. CASE c.nature = "personnalisee"
  <2> DEFINE debut == c.de
             fin == c.a
  <2>1. debut \in 0..1095 /\ fin \in 0..1095
    BY CasType
  <2>2. ~(debut > fin) /\ Q!Lire(c) = Q!Close(debut, fin, "fenetre", hier)
    BY <1>5, LireDe
  <2> HIDE DEF debut, fin, hier
  <2>3. debut \in Int /\ fin \in Int /\ -90 <= debut /\ debut <= fin
    BY <2>1, <2>2
  <2>4. p.debut = debut /\ p.nature = "fenetre" /\ p.fin \in Int /\ debut <= p.fin /\ p.fin <= hier
    BY <1>1, <2>2, <2>3, Fermee
  <2> HIDE DEF p
  <2>5. Correcte(p, hier)
    BY <1>1, <2>3, <2>4, EstCorrecte
  <2> QED BY <2>5 DEF p, hier
<1> QED BY <1>2, <1>3, <1>4, <1>5, CasType

\* A day is of one year only.
LEMMA AnneeUnique ==
  ASSUME NEW d \in Int, NEW a \in 2021..2027, Q!Nouvel(a) <= d, d < Q!Nouvel(a + 1)
  PROVE  Q!AnneeDe(d) = a
<1> DEFINE b == Q!AnneeDe(d)
<1>1. -730 <= d /\ d < 1826
  <2>1. a \in {2021, 2022, 2023, 2024, 2025, 2026, 2027}
    OBVIOUS
  <2> QED BY <2>1, Nouvels
<1>2. b \in 2021..2027 /\ Q!Nouvel(b) <= d /\ d < Q!Nouvel(b + 1)
  BY <1>1, AnneeDuJour
<1> HIDE DEF b
<1>3. a = b
  <2>1. a \in {2021, 2022, 2023, 2024, 2025, 2026, 2027} /\ b \in {2021, 2022, 2023, 2024, 2025, 2026, 2027}
    BY <1>2
  <2> QED BY <1>2, <2>1, Nouvels
<1> QED BY <1>3 DEF b

\* The year before, day for day.
LEMMA ReculBorne ==
  ASSUME NEW a \in 2023..2025, NEW d \in Int, Q!Nouvel(a) <= d, d < Q!Nouvel(a + 1)
  PROVE  /\ Q!Recul(d) \in Int /\ Q!Nouvel(a - 1) <= Q!Recul(d) /\ Q!Recul(d) < Q!Nouvel(a)
         /\ Q!Recul(Q!Nouvel(a)) = Q!Nouvel(a - 1)
<1>1. Q!AnneeDe(d) = a
  BY AnneeUnique
<1>2. /\ Q!Nouvel(a) \in Int /\ Q!Nouvel(a - 1) \in Int
      /\ Q!Nouvel(a + 1) = Q!Nouvel(a) + (IF a = 2024 THEN 366 ELSE 365)
      /\ Q!Nouvel(a) = Q!Nouvel(a - 1) + (IF a = 2025 THEN 366 ELSE 365)
  <2>1. a \in {2023, 2024, 2025}
    OBVIOUS
  <2> QED BY <2>1, Nouvels
<1>3. Q!AnneeDe(Q!Nouvel(a)) = a
  BY <1>2, AnneeUnique
<1>4. Q!Recul(d) = Q!Nouvel(a - 1) + (IF a = 2024 /\ d - Q!Nouvel(a) >= 59 THEN d - Q!Nouvel(a) - 1
                                     ELSE IF a = 2025 /\ d - Q!Nouvel(a) >= 59 THEN d - Q!Nouvel(a) + 1
                                     ELSE d - Q!Nouvel(a))
  BY <1>1 DEF Q!Recul
<1>5. Q!Recul(Q!Nouvel(a)) = Q!Nouvel(a - 1)
  BY <1>2, <1>3 DEF Q!Recul
<1> QED BY <1>2, <1>4, <1>5

\* The period before is not empty and ends before the period begins; that of a quarter begins with a quarter.
Anterieure(v, p) ==
  /\ v.debut <= v.fin /\ v.fin < p.debut
  /\ p.nature = "trimestre" => \E t \in 1..4, a \in 2021..2025 : v.debut = Q!DebutTrimestre(a, t)

\* When a period is the one before another.
LEMMA EstAnterieure ==
  ASSUME NEW v, NEW p, NEW debut \in Int, NEW fin \in Int, v.debut = debut, v.fin = fin, debut <= fin, fin < p.debut,
         p.nature = "trimestre" => \E t \in 1..4, a \in 2021..2025 : debut = Q!DebutTrimestre(a, t)
  PROVE  Anterieure(v, p)
BY DEF Anterieure

\* The period before a correct one ends before it begins.
LEMMA PrecedenteAvant ==
  ASSUME NEW p, NEW hier \in 0..1095, Correcte(p, hier)
  PROVE  Anterieure(Q!Precedente(p), p)
<1> DEFINE d == p.debut
           f == p.fin
           v == Q!Precedente(p)
<1>1. d \in Int /\ f \in Int /\ -90 <= d /\ d <= f /\ f <= hier
  BY DEF Correcte
<1>2. Q!Duree(p) = f - d + 1
  BY DEF Q!Duree
<1>3. CASE p.nature = "trimestre"
  <2> DEFINE a == Q!AnneeDe(d)
             t == Q!TrimestreCourant(d)
             debut == IF t = 1 THEN Q!DebutTrimestre(a - 1, 4) ELSE Q!DebutTrimestre(a, t - 1)
             fin == Q!Min({debut + (f - d + 1) - 1, d - 1})
  <2>1. v = [debut |-> debut, fin |-> fin, nature |-> "trimestre"]
    BY <1>2, <1>3, Zenon DEF Q!Precedente, Q!Periode, Q!FinDuTrimestrePrecedent
  <2>2. -730 <= d /\ d < 1096
    <3> HIDE DEF d, f
    <3> QED BY <1>1
  <2>3. /\ a \in 2021..2027 /\ Q!Nouvel(a) <= d /\ d < Q!Nouvel(a + 1)
        /\ t \in 1..4 /\ Q!DebutTrimestre(a, t) <= d
    <3> HIDE DEF d
    <3>1. d < 1826
      BY <1>1, <2>2
    <3> QED BY <1>1, <2>2, <3>1, AnneeDuJour, TrimestreDuJour
  <2>4. a \in 2022..2025
    <3> HIDE DEF a, d
    <3>1. a \in {2021, 2022, 2023, 2024, 2025, 2026, 2027}
      BY <2>3
    <3> QED BY <1>1, <2>2, <2>3, <3>1, Nouvels
  <2>5. debut \in Int /\ debut < d /\ \E n \in 1..4, b \in 2021..2025 : debut = Q!DebutTrimestre(b, n)
    <3> HIDE DEF a, t, d
    <3>1. CASE t = 1
      <4>1. debut = Q!DebutTrimestre(a - 1, 4) /\ a - 1 \in 2021..2027 /\ a - 1 \in 2021..2025 /\ a - 1 + 1 = a
        BY <2>4, <3>1
      <4>2. /\ debut \in Int /\ Q!FinTrimestre(a - 1, 4) \in Int /\ debut <= Q!FinTrimestre(a - 1, 4)
            /\ Q!FinTrimestre(a - 1, 4) + 1 = Q!Nouvel(a)
        BY <4>1, Trimestres
      <4> HIDE DEF debut
      <4> QED BY <1>1, <2>3, <4>1, <4>2
    <3>2. CASE t # 1
      <4>1. debut = Q!DebutTrimestre(a, t - 1) /\ t - 1 \in 1..3 /\ t - 1 \in 1..4 /\ t - 1 + 1 = t
        BY <2>3, <3>2
      <4>2. /\ debut \in Int /\ Q!FinTrimestre(a, t - 1) \in Int /\ debut <= Q!FinTrimestre(a, t - 1)
            /\ Q!FinTrimestre(a, t - 1) + 1 = Q!DebutTrimestre(a, t)
        BY <2>3, <4>1, Trimestres
      <4> HIDE DEF debut
      <4> QED BY <1>1, <2>3, <2>4, <4>1, <4>2
    <3> QED BY <3>1, <3>2
  <2>6. fin \in Int /\ debut <= fin /\ fin < d
    <3> HIDE DEF debut, d, f
    <3>1. debut + (f - d + 1) - 1 \in Int /\ d - 1 \in Int
      BY <1>1, <2>5
    <3>2. /\ fin \in {debut + (f - d + 1) - 1, d - 1}
          /\ fin <= d - 1
      BY <3>1, MinDeux
    <3> HIDE DEF fin
    <3> QED BY <1>1, <2>5, <3>1, <3>2
  <2>7. v.debut = debut /\ v.fin = fin
    <3> HIDE DEF debut, fin
    <3> QED BY <2>1
  <2> HIDE DEF v, debut, fin
  <2> QED BY <2>5, <2>6, <2>7, EstAnterieure DEF v, d
<1>4. CASE p.nature = "annee"
  <2>1. PICK a \in 2023..2025 : d = Q!Nouvel(a) /\ f < Q!Nouvel(a + 1)
    BY <1>4 DEF Correcte
  <2> DEFINE debut == Q!Recul(d)
             fin == Q!Recul(f)
  <2>2. v = [debut |-> debut, fin |-> fin, nature |-> p.nature]
    <3>1. p.nature # "trimestre"
      BY <1>4
    <3>2. v = Q!AnneePrecedente(p)
      <4> DEFINE an == Q!AnneeDe(d)
                 trim == Q!TrimestreCourant(d)
                 un == IF trim = 1 THEN Q!DebutTrimestre(an - 1, 4) ELSE Q!DebutTrimestre(an, trim - 1)
                 x == Q!Periode(un, Q!FinDuTrimestrePrecedent(p, un), "trimestre")
                 y == Q!AnneePrecedente(p)
                 z == Q!Periode(p.debut - Q!Duree(p), p.fin - Q!Duree(p), p.nature)
                 arm == p.nature = "trimestre"
                 bras == p.nature = "annee"
      <4>1. ~arm /\ bras
        BY <1>4, <3>1
      <4>2. v = CASE arm -> x [] bras -> y [] OTHER -> z
        BY DEF Q!Precedente
      <4> HIDE DEF arm, bras, x, y, z, v
      <4>3. v = y
        BY <4>1, <4>2
      <4> QED BY <4>3 DEF y
    <3> QED BY <3>2 DEF Q!AnneePrecedente, Q!Periode
  <2>3. v.debut = debut /\ v.fin = fin
    <3> HIDE DEF debut, fin, v
    <3> QED BY <2>2
  <2>4. debut \in Int /\ fin \in Int /\ debut <= fin /\ fin < d
    <3> HIDE DEF d, f
    <3>1. Q!Nouvel(a) <= f /\ f < Q!Nouvel(a + 1)
      BY <1>1, <2>1
    <3>2. fin \in Int /\ Q!Nouvel(a - 1) <= fin /\ fin < Q!Nouvel(a) /\ Q!Recul(Q!Nouvel(a)) = Q!Nouvel(a - 1)
      BY <1>1, <3>1, ReculBorne
    <3>3. Q!Nouvel(a - 1) \in Int
      <4>1. a \in {2023, 2024, 2025}
        OBVIOUS
      <4> QED BY <4>1, Nouvels
    <3> QED BY <2>1, <3>2, <3>3
  <2> HIDE DEF v, debut, fin
  <2> QED BY <1>4, <2>3, <2>4, EstAnterieure DEF v, d
<1>5. CASE p.nature # "trimestre" /\ p.nature # "annee"
  <2> DEFINE debut == d - (f - d + 1)
             fin == f - (f - d + 1)
  <2>1. v = [debut |-> debut, fin |-> fin, nature |-> p.nature]
    BY <1>2, <1>5, Zenon DEF Q!Precedente, Q!Periode
  <2>2. v.debut = debut /\ v.fin = fin
    <3> HIDE DEF debut, fin
    <3> QED BY <2>1
  <2>3. debut \in Int /\ fin \in Int /\ debut <= fin /\ fin < d
    <3> HIDE DEF d, f
    <3> QED BY <1>1
  <2> HIDE DEF v, debut, fin
  <2> QED BY <1>5, <2>2, <2>3, EstAnterieure DEF v, d
<1> QED BY <1>3, <1>4, <1>5

-----------------------------------------------------------------------------
(* The periods read: what the rendering of a case gives, once for all. *)
CasDesPeriodes == Q!CasPeriode \cup Q!CasAgregat \cup Q!CasClassement

PeriodesLues == part = "periodes" => x1 = Neant \/ (x1 \in CasDesPeriodes /\ x2 = Q!Rendu(x1))

\* Nothing is ever computed but the cases, as the code computes them.
LEMMA PeriodesLuesInv == PlateformeSpec => []PeriodesLues
<1>1. PlateformeInit => PeriodesLues
  BY DepartLu DEF PeriodesLues, Q!Init
<1>2. PeriodesLues /\ [PlateformeNext]_plateforme => PeriodesLues'
  <2> SUFFICES ASSUME PeriodesLues, [PlateformeNext]_plateforme, part' = "periodes" PROVE PeriodesLues'
    BY DEF PeriodesLues
  <2>1. part = "periodes" /\ (Q!Next \/ UNCHANGED registers)
    BY PartFixe, PasLu
  <2>2. CASE Q!Next
    <3>1. x1' \in CasDesPeriodes /\ x2' = Q!Rendu(x1')
      BY <2>2, Zenon DEF Q!Next, Q!DemanderPeriode, Q!DemanderValeur, CasDesPeriodes
    <3> QED BY <3>1 DEF PeriodesLues
  <2>3. CASE UNCHANGED registers
    BY <2>1, <2>3 DEF PeriodesLues, registers, Q!Rendu, Q!LirePeriode
  <2> QED BY <2>1, <2>2, <2>3
<1> QED BY <1>1, <1>2, PTL DEF PlateformeSpec

\* A case says what is computed of it.
LEMMA GenresDesCas ==
  /\ \A c \in Q!CasPeriode : c.genre = "periode"
  /\ \A c \in Q!CasAgregat : c.genre = "agregat"
  /\ \A c \in Q!CasClassement : c.genre = "classement"
BY DEF Q!CasPeriode, Q!CasAgregat, Q!CasClassement

\* ... and what that is.
LEMMA RenduDuGenre ==
  ASSUME NEW c
  PROVE  /\ c.genre = "periode" => Q!Rendu(c) = Q!LirePeriode(c)
         /\ c.genre = "agregat" => Q!Rendu(c) = Q!Agreger(c)
         /\ c.genre = "classement" => Q!Rendu(c) = Q!Ventiler(c)
<1>1. CASE c.genre = "periode"
  BY <1>1, Zenon DEF Q!Rendu
<1>2. CASE c.genre = "agregat"
  BY <1>2, Zenon DEF Q!Rendu
<1>3. CASE c.genre = "classement"
  BY <1>3, Zenon DEF Q!Rendu
<1> QED BY <1>1, <1>2, <1>3

\* A period ends the evening before at the latest, and the previous one before it begins.
LEMMA VeillePrecedente ==
  ASSUME part = "periodes", PeriodesLues
  PROVE  Q!VeilleAuPlusTard /\ Q!PrecedenteDisjointe
<1> SUFFICES ASSUME x1 # Neant, x1.genre = "periode", x2.code = 0
             PROVE  /\ x2.periode.debut <= x2.periode.fin /\ x2.periode.fin < x1.aujourdhui
                    /\ x2.avant.debut <= x2.avant.fin /\ x2.avant.fin < x2.periode.debut
                    /\ x2.periode.nature = "trimestre" =>
                         \E t \in 1..4, a \in 2021..2025 : x2.avant.debut = Q!DebutTrimestre(a, t)
  BY DEF Q!VeilleAuPlusTard, Q!PrecedenteDisjointe, Q!Lue, Q!Genre
<1>1. x1 \in Q!CasPeriode /\ x2 = Q!LirePeriode(x1)
  BY GenresDesCas, RenduDuGenre DEF PeriodesLues, CasDesPeriodes
<1> DEFINE p == Q!Lire(x1).periode
           v == Q!Precedente(p)
           hier == x1.aujourdhui - 1
<1>2. Q!Lire(x1).code = 0
  BY <1>1 DEF Q!LirePeriode
<1>3. x2 = [code |-> 0, periode |-> p, avant |-> v]
  <2>1. Q!LirePeriode(x1) = IF Q!Lire(x1).code # 0 THEN Q!Lire(x1)
                            ELSE [code |-> 0, periode |-> p, avant |-> v]
    BY DEF Q!LirePeriode
  <2> HIDE DEF p, v
  <2> QED BY <1>1, <1>2, <2>1
<1>4. x2.periode = p /\ x2.avant = v
  <2> HIDE DEF p, v
  <2> QED BY <1>3
<1>5. hier \in 0..1095 /\ x1.aujourdhui \in Int
  <2> DEFINE jour == x1.aujourdhui
  <2>1. jour \in 1..1096
    BY <1>1, CasType
  <2> HIDE DEF jour
  <2>2. jour - 1 \in 0..1095 /\ jour \in Int
    BY <2>1
  <2> QED BY <2>2 DEF jour
<1>6. Correcte(p, hier)
  BY <1>1, <1>2, LueCorrecte
<1>7. Anterieure(v, p)
  <2> HIDE DEF p, hier
  <2> QED BY <1>5, <1>6, PrecedenteAvant
<1>8. p.debut \in Int /\ p.fin \in Int /\ p.debut <= p.fin /\ p.fin <= hier
  <2> HIDE DEF p, hier
  <2> QED BY <1>6 DEF Correcte
<1>9. p.fin < x1.aujourdhui
  <2> HIDE DEF p
  <2> QED BY <1>5, <1>8
<1> HIDE DEF p, v
<1> QED BY <1>4, <1>7, <1>8, <1>9 DEF Anterieure

-----------------------------------------------------------------------------
(* The values of a period. *)
LEMMA SommeEstTotal ==
  ASSUME NEW f
  PROVE  Q!Somme(f) = Total(f)
BY Zenon DEF Q!Somme, Q!FoldFunction, Q!FoldFunctionOnSet, Q!MapThenFoldSet, Total, Enroule, Pris

\* A code comes first.
LEMMA MinDesCodes == Q!Min(CodesLus) \in CodesLus
<1>1. CodesLus \in SUBSET Int /\ IsFiniteSet(CodesLus) /\ CodesLus # {}
  BY ConstantesLues, MemesNotions DEF Q!LectureConstantes
<1>2. PICK x \in CodesLus : \A y \in CodesLus : x <= y
  BY <1>1, PlusPetit
<1> QED BY <1>1, <1>2, MinDe

\* The greatest of finitely many days is one of them.
LEMMA MaxDe ==
  ASSUME NEW Ens \in SUBSET Int, IsFiniteSet(Ens), Ens # {}
  PROVE  Q!Max(Ens) \in Ens /\ \A y \in Ens : y <= Q!Max(Ens)
<1>1. PICK x \in Ens : \A y \in Ens : y <= x
  BY PlusGrand
<1> QED BY <1>1 DEF Q!Max

\* There are finitely many days.
LEMMA JoursFinis == IsFiniteSet(Q!Jours) /\ Q!Jours \in SUBSET Int
<1>1. JoursLus \in Nat
  BY ConstantesLues DEF Q!LectureConstantes
<1> QED BY <1>1, FS_Interval DEF Q!Jours

\* What a cell of the history holds: a count, or one of the two marks of its absence.
LEMMA Cellule ==
  ASSUME NEW x \in Q!Cellules
  PROVE  /\ x \in Int
         /\ x >= 0 <=> x # Q!Absente /\ x # Q!ND
<1>1. Valeurs \subseteq Nat
  BY ConstantesLues DEF Q!LectureConstantes
<1> QED BY <1>1 DEF Q!Cellules, Q!ND, Q!Absente

\* The cases of a value: what their tables are.
TableDe(lus, codes) ==
  /\ codes \subseteq CodesLus
  /\ \A j \in Q!Jours, k \in codes : lus[j][k] \in Q!Cellules

\* What the cells of a case hold.
LEMMA TablesDesCas ==
  ASSUME NEW c \in Q!CasAgregat \cup Q!CasClassement
  PROVE  /\ TableDe(c.present, c.codes) /\ TableDe(c.absent, c.codes)
         /\ c.regle = "dernier" => c.codes = CodesLus /\ c.present \in Q!Tableaux
         /\ c.genre = "classement" => c.regle = "dernier"
<1> DEFINE m == Q!Min(CodesLus)
<1>1. \A t \in Q!Tableaux : TableDe(t, CodesLus)
  BY DEF Q!Tableaux, TableDe
<1>2. TableDe(Q!Vide, CodesLus)
  BY DEF Q!Vide, TableDe, Q!Cellules
<1>3. \A t \in Q!TableauxDe(m) : TableDe(t, {m})
  <2> TAKE t \in Q!TableauxDe(m)
  <2>1. PICK f \in [Q!Jours -> Q!Cellules] :
          t = [j \in Q!Jours |-> [i \in CodesLus |-> IF i = m THEN f[j] ELSE Q!Absente]]
    BY Zenon DEF Q!TableauxDe
  <2>2. m \in CodesLus
    BY MinDesCodes
  <2> HIDE DEF m
  <2>3. \A j \in Q!Jours : t[j][m] = f[j]
    BY <2>1, <2>2
  <2> QED BY <2>2, <2>3 DEF TableDe
<1>4. CASE c \in [genre : {"agregat"}, regle : {"dernier", "moyenne"}, present : Q!Tableaux, absent : {Q!Vide},
                  codes : {CodesLus}]
  BY <1>1, <1>2, <1>4
<1>5. CASE c \in [genre : {"agregat"}, regle : {"ratio"}, present : Q!TableauxDe(m), absent : Q!TableauxDe(m),
                  codes : {{m}}]
  <2> HIDE DEF m
  <2> QED BY <1>3, <1>5
<1>6. CASE c \in Q!CasClassement
  BY <1>1, <1>2, <1>6 DEF Q!CasClassement
<1> QED BY <1>4, <1>5, <1>6 DEF Q!CasAgregat

\* A day is whole when every code of it is measured.
LEMMA JoursEntiers ==
  ASSUME NEW lus, NEW codes, TableDe(lus, codes)
  PROVE  /\ DOMAIN Q!ParJour(lus, codes) = {j \in Q!Jours : \A k \in codes : lus[j][k] >= 0}
         /\ \A j \in DOMAIN Q!ParJour(lus, codes) :
                Q!ParJour(lus, codes)[j] = Q!Somme([k \in codes |-> lus[j][k]])
<1>1. ASSUME NEW j \in Q!Jours
      PROVE  Q!JourEntier(lus, j, codes) <=> \A k \in codes : lus[j][k] >= 0
  <2>1. \A k \in codes : lus[j][k] >= 0 <=> lus[j][k] # Q!Absente /\ lus[j][k] # Q!ND
    BY Cellule DEF TableDe
  <2> QED BY <2>1 DEF Q!JourEntier, Q!Lignes
<1>2. DOMAIN Q!ParJour(lus, codes) = {j \in Q!Jours : Q!JourEntier(lus, j, codes)}
  BY DEF Q!ParJour
<1>3. ASSUME NEW j \in DOMAIN Q!ParJour(lus, codes)
      PROVE  Q!ParJour(lus, codes)[j] = Q!Somme([k \in codes |-> lus[j][k]])
  <2>1. Q!ParJour(lus, codes)[j] = Q!Somme([k \in {i \in codes : lus[j][i] >= 0} |-> lus[j][k]])
    BY Zenon DEF Q!ParJour
  <2>2. {i \in codes : lus[j][i] >= 0} = codes
    BY <1>1, <1>2
  <2> QED BY <2>1, <2>2
<1> QED BY <1>1, <1>2, <1>3

\* The last whole day gives the last value.
LEMMA Dernier ==
  ASSUME NEW c, TableDe(c.present, c.codes), c.regle = "dernier", Q!Agreger(c) # Q!ND
  PROVE  \E j \in Q!Jours : /\ \A k \in c.codes : c.present[j][k] >= 0
                            /\ Q!Agreger(c) = Q!Somme([k \in c.codes |-> c.present[j][k]])
<1> DEFINE pj == Q!ParJour(c.present, c.codes)
           ens == DOMAIN pj
           num == Q!SommeSur(pj, Q!JoursUtiles(pj, Q!ParJour(c.absent, c.codes)))
           den == Q!SommeSur(Q!ParJour(c.absent, c.codes), Q!JoursUtiles(pj, Q!ParJour(c.absent, c.codes)))
           val == IF ens = {} THEN Q!ND ELSE pj[Q!Max(ens)]
           taux == Q!Taux(num, num + den)
           moyenne == IF ens = {} THEN Q!ND ELSE (Q!Somme(pj) * 10) \div Q!Cardinality(ens)
           un == c.regle = "ratio"
           deux == c.regle = "moyenne"
           trois == c.regle = "dernier"
<1>1. Q!Agreger(c) = CASE un -> taux [] deux -> moyenne [] trois -> val
  BY DEF Q!Agreger
<1>2. ~un /\ ~deux /\ trois
  OBVIOUS
<1>3. Q!Agreger(c) = val
  <2> HIDE DEF un, deux, trois, taux, moyenne, val
  <2> QED BY <1>1, <1>2
<1>4. ens # {} /\ Q!Agreger(c) = pj[Q!Max(ens)]
  <2> HIDE DEF ens, pj
  <2> QED BY <1>3
<1>5. /\ ens = {j \in Q!Jours : \A k \in c.codes : c.present[j][k] >= 0}
      /\ \A j \in ens : pj[j] = Q!Somme([k \in c.codes |-> c.present[j][k]])
  BY JoursEntiers
<1>6. Q!Max(ens) \in ens
  <2>1. ens \in SUBSET Int /\ IsFiniteSet(ens)
    <3> HIDE DEF ens
    <3> QED BY <1>5, JoursFinis, FS_Subset
  <2> HIDE DEF ens
  <2> QED BY <1>4, <2>1, MaxDe
<1> HIDE DEF ens, pj
<1> QED BY <1>4, <1>5, <1>6

\* A total is given only when every code has its value.
LEMMA ValeurJamaisPartielle ==
  ASSUME part = "periodes", PeriodesLues
  PROVE  Q!JamaisPartiel
<1> SUFFICES ASSUME x1 # Neant, x1.genre = "agregat", x1.regle = "dernier", x2 # Q!ND
             PROVE  \E j \in Q!Jours : /\ \A k \in x1.codes : x1.present[j][k] >= 0
                                       /\ x2 = Q!Somme(x1.present[j])
  BY DEF Q!JamaisPartiel, Q!Genre
<1>1. x1 \in Q!CasAgregat /\ x2 = Q!Agreger(x1)
  BY GenresDesCas, RenduDuGenre DEF PeriodesLues, CasDesPeriodes
<1>2. TableDe(x1.present, x1.codes) /\ x1.codes = CodesLus /\ x1.present \in Q!Tableaux
  BY <1>1, TablesDesCas
<1>3. PICK j \in Q!Jours : /\ \A k \in x1.codes : x1.present[j][k] >= 0
                           /\ x2 = Q!Somme([k \in x1.codes |-> x1.present[j][k]])
  BY <1>1, <1>2, Dernier
<1>4. [k \in x1.codes |-> x1.present[j][k]] = x1.present[j]
  BY <1>2 DEF Q!Tableaux
<1> QED BY <1>3, <1>4

\* A rate is of the days that both tables know whole.
LEMMA TauxDesJoursEntiers ==
  ASSUME NEW c, TableDe(c.present, c.codes), TableDe(c.absent, c.codes), c.regle = "ratio",
         NEW jours, jours = {j \in Q!Jours : \A k \in c.codes : c.present[j][k] >= 0 /\ c.absent[j][k] >= 0}
  PROVE  LET n == Q!Somme([j \in jours |-> Q!Somme([k \in c.codes |-> c.present[j][k]])])
             m == Q!Somme([j \in jours |-> Q!Somme([k \in c.codes |-> c.absent[j][k]])])
         IN Q!Agreger(c) = Q!Taux(n, n + m)
<1> DEFINE pj == Q!ParJour(c.present, c.codes)
           aj == Q!ParJour(c.absent, c.codes)
           ens == DOMAIN pj
           utiles == Q!JoursUtiles(pj, aj)
           num == Q!SommeSur(pj, utiles)
           den == Q!SommeSur(aj, utiles)
           val == IF ens = {} THEN Q!ND ELSE pj[Q!Max(ens)]
           taux == Q!Taux(num, num + den)
           moyenne == IF ens = {} THEN Q!ND ELSE (Q!Somme(pj) * 10) \div Q!Cardinality(ens)
           un == c.regle = "ratio"
           deux == c.regle = "moyenne"
           trois == c.regle = "dernier"
           n == Q!Somme([j \in jours |-> Q!Somme([k \in c.codes |-> c.present[j][k]])])
           m == Q!Somme([j \in jours |-> Q!Somme([k \in c.codes |-> c.absent[j][k]])])
<1>1. Q!Agreger(c) = CASE un -> taux [] deux -> moyenne [] trois -> val
  BY DEF Q!Agreger
<1>2. un /\ ~deux /\ ~trois
  OBVIOUS
<1>3. Q!Agreger(c) = taux
  <2> HIDE DEF un, deux, trois, taux, moyenne, val
  <2> QED BY <1>1, <1>2
<1>4. /\ DOMAIN pj = {j \in Q!Jours : \A k \in c.codes : c.present[j][k] >= 0}
      /\ DOMAIN aj = {j \in Q!Jours : \A k \in c.codes : c.absent[j][k] >= 0}
      /\ \A j \in DOMAIN pj : pj[j] = Q!Somme([k \in c.codes |-> c.present[j][k]])
      /\ \A j \in DOMAIN aj : aj[j] = Q!Somme([k \in c.codes |-> c.absent[j][k]])
  BY JoursEntiers
<1>5. jours = DOMAIN pj \cap DOMAIN aj /\ utiles = DOMAIN pj \cap DOMAIN aj
  <2> HIDE DEF pj, aj
  <2> QED BY <1>4 DEF Q!JoursUtiles
<1>6. num = n
  <2>1. utiles \cap DOMAIN pj = jours /\ \A j \in jours : pj[j] = Q!Somme([k \in c.codes |-> c.present[j][k]])
    <3> HIDE DEF pj, aj, utiles
    <3> QED BY <1>4, <1>5
  <2>2. num = Q!Somme([j \in utiles \cap DOMAIN pj |-> pj[j]])
    BY DEF Q!SommeSur
  <2>3. [j \in utiles \cap DOMAIN pj |-> pj[j]] = [j \in jours |-> Q!Somme([k \in c.codes |-> c.present[j][k]])]
    <3> HIDE DEF pj, utiles
    <3> QED BY <2>1
  <2> QED BY <2>2, <2>3
<1>7. den = m
  <2>1. utiles \cap DOMAIN aj = jours /\ \A j \in jours : aj[j] = Q!Somme([k \in c.codes |-> c.absent[j][k]])
    <3> HIDE DEF pj, aj, utiles
    <3> QED BY <1>4, <1>5
  <2>2. den = Q!Somme([j \in utiles \cap DOMAIN aj |-> aj[j]])
    BY DEF Q!SommeSur
  <2>3. [j \in utiles \cap DOMAIN aj |-> aj[j]] = [j \in jours |-> Q!Somme([k \in c.codes |-> c.absent[j][k]])]
    <3> HIDE DEF aj, utiles
    <3> QED BY <2>1
  <2> QED BY <2>2, <2>3
<1> HIDE DEF num, den, n, m
<1>8. Q!Agreger(c) = Q!Taux(n, n + m)
  BY <1>3, <1>6, <1>7
<1> QED BY <1>8 DEF n, m

\* A rate divides the counts of the same days.
LEMMA TauxDesMemesJoursTenu ==
  ASSUME part = "periodes", PeriodesLues
  PROVE  Q!TauxDesMemesJours
<1> SUFFICES ASSUME x1 # Neant, x1.genre = "agregat", x1.regle = "ratio"
             PROVE  LET total(lus) == Q!Somme([j \in Q!Entiers |-> Q!Somme([k \in x1.codes |-> lus[j][k]])])
                        n == total(x1.present)
                    IN x2 = Q!Taux(n, n + total(x1.absent))
  BY DEF Q!TauxDesMemesJours, Q!Genre
<1>1. x1 \in Q!CasAgregat /\ x2 = Q!Agreger(x1)
  BY GenresDesCas, RenduDuGenre DEF PeriodesLues, CasDesPeriodes
<1>2. TableDe(x1.present, x1.codes) /\ TableDe(x1.absent, x1.codes)
  BY <1>1, TablesDesCas
<1> DEFINE jours == Q!Entiers
           n == Q!Somme([j \in jours |-> Q!Somme([k \in x1.codes |-> x1.present[j][k]])])
           m == Q!Somme([j \in jours |-> Q!Somme([k \in x1.codes |-> x1.absent[j][k]])])
<1>3. jours = {j \in Q!Jours : \A k \in x1.codes : x1.present[j][k] >= 0 /\ x1.absent[j][k] >= 0}
  BY DEF Q!Entiers
<1>4. Q!Agreger(x1) = Q!Taux(n, n + m)
  <2> HIDE DEF jours
  <2> QED BY <1>2, <1>3, TauxDesJoursEntiers
<1> QED BY <1>1, <1>4

\* The value of a code is a number.
LEMMA ValeurEntiere ==
  ASSUME NEW c \in Q!CasClassement, NEW k \in c.codes
  PROVE  Q!Agreger([c EXCEPT !.codes = {k}]) \in Int
<1> DEFINE cas == [c EXCEPT !.codes = {k}]
<1>1. TableDe(c.present, c.codes) /\ c.regle = "dernier" /\ c.codes \subseteq CodesLus
  BY TablesDesCas DEF TableDe, Q!CasClassement
<1>2. cas.present = c.present /\ cas.codes = {k} /\ cas.regle = "dernier"
  BY <1>1 DEF Q!CasClassement
<1> SUFFICES Q!Agreger(cas) \in Int
  OBVIOUS
<1> HIDE DEF cas
<1>3. TableDe(cas.present, cas.codes)
  BY <1>1, <1>2 DEF TableDe
<1>4. CASE Q!Agreger(cas) = Q!ND
  BY <1>4 DEF Q!ND
<1>5. CASE Q!Agreger(cas) # Q!ND
  <2>1. PICK j \in Q!Jours : Q!Agreger(cas) = Q!Somme([i \in cas.codes |-> cas.present[j][i]])
    BY <1>2, <1>3, <1>5, Dernier
  <2> DEFINE f == [i \in {k} |-> cas.present[j][i]]
  <2>2. f \in [{k} -> Int]
    BY <1>2, <1>3, Cellule DEF TableDe
  <2>3. IsFiniteSet({k})
    BY FS_Singleton
  <2>4. Total(f) \in Int
    <3> HIDE DEF f
    <3> QED BY <2>2, <2>3, TotalEntier
  <2>5. [i \in cas.codes |-> cas.present[j][i]] = f
    BY <1>2
  <2>6. Q!Agreger(cas) = Total(f)
    <3> HIDE DEF f
    <3> QED BY <2>1, <2>5, SommeEstTotal
  <2> HIDE DEF f
  <2> QED BY <2>4, <2>6
<1> QED BY <1>4, <1>5

\* What comes before a code in the ranking, when every code has its value.
Devance(valeur, i, k) == Q!Devant(valeur[i], valeur[k]) \/ (~Q!Devant(valeur[k], valeur[i]) /\ i < k)

\* A greater value has a rank that is not greater.
LEMMA RangsSuivent ==
  ASSUME NEW codes, IsFiniteSet(codes), codes \subseteq Int, NEW valeur \in [codes -> Int],
         NEW x \in codes, NEW y \in codes, valeur[y] # Q!ND, valeur[x] < valeur[y]
  PROVE  Cardinality({i \in codes : Devance(valeur, i, y)}) <= Cardinality({i \in codes : Devance(valeur, i, x)})
<1> DEFINE dy == {i \in codes : Devance(valeur, i, y)}
           dx == {i \in codes : Devance(valeur, i, x)}
<1>1. ASSUME NEW i \in codes, Devance(valeur, i, y) PROVE Devance(valeur, i, x)
  <2> DEFINE vi == valeur[i]
             vx == valeur[x]
             vy == valeur[y]
  <2>1. vi \in Int /\ vx \in Int /\ vy \in Int /\ vy # Q!ND /\ vx < vy
    OBVIOUS
  <2>2. Q!Devant(vi, vy) \/ ~Q!Devant(vy, vi)
    BY <1>1 DEF Devance
  <2>3. Q!Devant(vi, vx)
    <3> HIDE DEF vi, vx, vy
    <3> QED BY <2>1, <2>2 DEF Q!Devant, Q!ND
  <2> QED BY <2>3 DEF Devance
<1>2. dy \subseteq dx /\ IsFiniteSet(dx)
  BY <1>1, FS_Subset
<1>3. Cardinality(dy) <= Cardinality(dx)
  <2> HIDE DEF dx, dy
  <2> QED BY <1>2, FS_Subset
<1> QED BY <1>3

\* The codes without a value come last.
LEMMA InconnusEnDernierTenu ==
  ASSUME part = "periodes", PeriodesLues
  PROVE  Q!InconnusEnDernier
<1> SUFFICES ASSUME x1 # Neant, x1.genre = "classement", NEW x \in DOMAIN x2, NEW y \in DOMAIN x2,
                    x2[x].rang < x2[y].rang, x2[y].valeur # Q!ND
             PROVE  x2[x].valeur >= x2[y].valeur
  BY DEF Q!InconnusEnDernier, Q!Genre
<1> DEFINE codes == x1.codes
           valeur == [k \in codes |-> Q!Agreger([x1 EXCEPT !.codes = {k}])]
           devant(k) == Q!Cardinality({i \in codes : Devance(valeur, i, k)})
<1>1. x1 \in Q!CasClassement /\ x2 = Q!Ventiler(x1)
  BY GenresDesCas, RenduDuGenre DEF PeriodesLues, CasDesPeriodes
<1>2. x2 = [k \in codes |-> [valeur |-> valeur[k], rang |-> 1 + devant(k)]]
  BY <1>1, Zenon DEF Q!Ventiler, Devance
<1>3. codes = CodesLus
  BY <1>1, TablesDesCas
<1>4. valeur \in [codes -> Int]
  BY <1>1, ValeurEntiere
<1>5. IsFiniteSet(codes) /\ codes \subseteq Int
  BY <1>3, ConstantesLues, MemesNotions DEF Q!LectureConstantes
<1> HIDE DEF valeur, codes
<1>6. x \in codes /\ y \in codes
  BY <1>2
<1>7. ASSUME NEW k \in codes PROVE devant(k) \in Nat /\ devant(k) = Cardinality({i \in codes : Devance(valeur, i, k)})
  <2> DEFINE ens == {i \in codes : Devance(valeur, i, k)}
  <2>1. IsFiniteSet(ens)
    BY <1>5, FS_Subset
  <2>2. Q!Cardinality(ens) = Cardinality(ens)
    BY MemesNotions
  <2>3. Cardinality(ens) \in Nat
    <3> HIDE DEF ens
    <3> QED BY <2>1, FS_CardinalityType
  <2> QED BY <2>2, <2>3
<1>8. x2[x].valeur = valeur[x] /\ x2[y].valeur = valeur[y]
      /\ x2[x].rang = 1 + devant(x) /\ x2[y].rang = 1 + devant(y)
  <2> HIDE DEF devant
  <2> QED BY <1>2, <1>6
<1>9. ~(valeur[x] < valeur[y])
  <2> SUFFICES ASSUME valeur[x] < valeur[y] PROVE FALSE
    OBVIOUS
  <2>1. valeur[y] # Q!ND
    BY <1>8
  <2>2. devant(y) <= devant(x)
    <3>1. Cardinality({i \in codes : Devance(valeur, i, y)}) <= Cardinality({i \in codes : Devance(valeur, i, x)})
      BY <1>4, <1>5, <1>6, <2>1, RangsSuivent
    <3>2. /\ devant(x) = Cardinality({i \in codes : Devance(valeur, i, x)})
          /\ devant(y) = Cardinality({i \in codes : Devance(valeur, i, y)})
      BY <1>6, <1>7
    <3> HIDE DEF devant
    <3> QED BY <3>1, <3>2
  <2>3. devant(x) \in Nat /\ devant(y) \in Nat
    BY <1>6, <1>7
  <2> HIDE DEF devant
  <2> QED BY <1>8, <2>2, <2>3
<1>10. valeur[x] \in Int /\ valeur[y] \in Int
  BY <1>4, <1>6
<1> QED BY <1>8, <1>9, <1>10

\* The periods of the HR history are comparable (PeriodesComparables): a period never goes past the
\* evening before, the previous one ends before it begins, a partial total is never given, a rate divides
\* the same days, the codes without a value come last (historique.py), and a report is planned at the
\* first deadline after the time it is computed at (programmes_rh.py).
THEOREM PeriodsAreComparable == PlateformeSpec => []PeriodesComparables
<1>1. PeriodesLues /\ EcheancesLues => PeriodesComparables
  BY VeillePrecedente, ValeurJamaisPartielle, TauxDesMemesJoursTenu, InconnusEnDernierTenu, PremiereApresTenue
     DEF PeriodesComparables
<1> QED BY <1>1, PeriodesLuesInv, EcheancesLuesInv, PTL

-----------------------------------------------------------------------------
(* The pages read from the mart.                                           *)

\* What a function gives of a finite set is a finite set, no larger.
LEMMA ImageFinie ==
  ASSUME NEW Ens, IsFiniteSet(Ens), NEW f
  PROVE  IsFiniteSet({f[x] : x \in Ens})
<1> DEFINE g == [x \in Ens |-> f[x]]
<1>1. g \in Surjection(Ens, {f[x] : x \in Ens})
  BY DEF Surjection
<1> QED BY <1>1, FS_Surjection

\* Quadruples of finitely many are finitely many.
LEMMA QuadrupletsFinis ==
  ASSUME NEW a, IsFiniteSet(a), NEW b, IsFiniteSet(b), NEW c, IsFiniteSet(c), NEW d, IsFiniteSet(d)
  PROVE  IsFiniteSet(a \X b \X c \X d)
<1> DEFINE paires == (a \X b) \X (c \X d)
           f == [p \in paires |-> <<p[1][1], p[1][2], p[2][1], p[2][2]>>]
<1>1. IsFiniteSet(a \X b) /\ IsFiniteSet(c \X d)
  BY FS_Product
<1>2. IsFiniteSet(paires)
  BY <1>1, FS_Product
<1>3. ASSUME NEW q \in a \X b \X c \X d PROVE \E p \in paires : q = f[p]
  <2>1. <<<<q[1], q[2]>>, <<q[3], q[4]>>>> \in paires
    OBVIOUS
  <2>2. f[<<<<q[1], q[2]>>, <<q[3], q[4]>>>>] = <<q[1], q[2], q[3], q[4]>>
    BY <2>1
  <2>3. q = <<q[1], q[2], q[3], q[4]>>
    OBVIOUS
  <2> HIDE DEF paires, f
  <2> QED BY <2>1, <2>2, <2>3
<1>4. a \X b \X c \X d \in SUBSET {f[p] : p \in paires}
  <2> HIDE DEF paires, f
  <2> QED BY <1>3
<1>5. IsFiniteSet({f[p] : p \in paires})
  <2> HIDE DEF paires, f
  <2> QED BY <1>2, ImageFinie
<1> HIDE DEF f, paires
<1> QED BY <1>4, <1>5, FS_Subset

\* Rows of the mart: finitely many, of known subsidiaries, with numbers.
LignesSaines(lignes) == IsFiniteSet(lignes) /\ \A r \in lignes : r.fil \in FilialesNotees /\ r.score \in Int
LignesRhSaines(lignes) ==
  IsFiniteSet(lignes)
    /\ \A r \in lignes : r.fil \in FilialesNotees /\ r.paie \in Int /\ r.entrees \in Int /\ r.sorties \in Int

\* The instances speak of the same finite sets, cardinals and extrema.
LEMMA MemesNotionsG ==
  /\ \A s : (G!IsFiniteSet(s) <=> IsFiniteSet(s)) /\ G!Cardinality(s) = Cardinality(s)
  /\ \A s : G!Max(s) = I!Max(s) /\ G!Min(s) = I!Min(s)
<1>1. \A s : G!IsFiniteSet(s) <=> IsFiniteSet(s)
  BY DEF G!IsFiniteSet, IsFiniteSet
<1>2. \A s : G!Cardinality(s) = Cardinality(s)
  BY <1>1 DEF G!Cardinality, Cardinality
<1>3. \A s : G!Max(s) = I!Max(s) /\ G!Min(s) = I!Min(s)
  BY DEF G!Max, I!Max, G!Min, I!Min
<1> QED BY <1>1, <1>2, <1>3

\* The subsidiaries are finitely many.
LEMMA FilialesFinies == IsFiniteSet(FilialesNotees)
BY Constantes, MemesNotionsG DEF G!GouvernanceConstantes

\* A table gives rows.
LEMMA TableSaine ==
  ASSUME NEW cles, IsFiniteSet(cles), \A k \in cles : k[3] \in FilialesNotees, NEW valeurs \in SUBSET Int,
         NEW s \in G!Tables(cles, valeurs)
  PROVE  LignesSaines(s)
<1>1. PICK f \in [cles -> valeurs] : s = {G!Ligne(k[1], k[2], k[3], k[4], f[k]) : k \in cles}
  BY DEF G!Tables
<1> DEFINE g == [k \in cles |-> G!Ligne(k[1], k[2], k[3], k[4], f[k])]
<1>2. s = {g[k] : k \in cles}
  BY <1>1
<1>3. IsFiniteSet(s)
  <2> HIDE DEF g
  <2> QED BY <1>2, ImageFinie
<1>4. ASSUME NEW k \in cles PROVE g[k].fil \in FilialesNotees /\ g[k].score \in Int
  BY DEF G!Ligne
<1> QED BY <1>2, <1>3, <1>4 DEF LignesSaines

\* The rows of scores of every case are well formed.
LEMMA ScoresSains ==
  ASSUME NEW s \in G!ScoresDuMois \cup G!ScoresDesMois
  PROVE  LignesSaines(s)
<1>1. /\ IsFiniteSet({"immobilier"}) /\ IsFiniteSet({"capital-humain"}) /\ IsFiniteSet({"finance"}) /\ IsFiniteSet({4})
      /\ IsFiniteSet({5}) /\ IsFiniteSet({1}) /\ IsFiniteSet({1, 2}) /\ IsFiniteSet({3, 5}) /\ IsFiniteSet({0, 3})
  BY PaireFinie, FS_Singleton, Zenon
<1>0. IsFiniteSet(3..5)
  <2>1. 3 \in Int /\ 5 \in Int
    OBVIOUS
  <2>2. \A m, n \in Int : IsFiniteSet(m..n)
    BY FS_Interval
  <2> QED BY <2>1, <2>2, Zenon
<1>2. {3, 4, 5} = 3..5
  OBVIOUS
<1> DEFINE a == ({"immobilier"} \X {4} \X FilialesNotees \X {1, 2}) \cup ({"capital-humain"} \X {4} \X FilialesNotees \X {5})
           b == {"finance"} \X {3, 4, 5} \X FilialesNotees \X {1}
           d == {"finance"} \X {3, 5} \X FilialesNotees \X {0, 3}
<1>3. IsFiniteSet(a) /\ \A k \in a : k[3] \in FilialesNotees
  <2>1. IsFiniteSet({"immobilier"} \X {4} \X FilialesNotees \X {1, 2})
    BY <1>1, FilialesFinies, QuadrupletsFinis
  <2>2. IsFiniteSet({"capital-humain"} \X {4} \X FilialesNotees \X {5})
    BY <1>1, FilialesFinies, QuadrupletsFinis
  <2> QED BY <2>1, <2>2, FS_Union
<1>4. IsFiniteSet(b) /\ \A k \in b : k[3] \in FilialesNotees
  <2>1. IsFiniteSet({"finance"} \X (3..5) \X FilialesNotees \X {1})
    BY <1>0, <1>1, FilialesFinies, QuadrupletsFinis
  <2> QED BY <1>2, <2>1
<1>5. IsFiniteSet(d) /\ \A k \in d : k[3] \in FilialesNotees
  BY <1>1, FilialesFinies, QuadrupletsFinis
<1>6. \/ s \in G!Tables(a, {G!ND, 50 * G!Point, 64 * G!Point})
      \/ s \in G!Tables(b, {G!ND, 58 * G!Point, 80 * G!Point})
      \/ s \in G!Tables(d, {G!ND, 90 * G!Point})
  BY DEF G!ScoresDuMois, G!ScoresDesMois
<1>7. /\ {G!ND, 50 * G!Point, 64 * G!Point} \in SUBSET Int /\ {G!ND, 58 * G!Point, 80 * G!Point} \in SUBSET Int
      /\ {G!ND, 90 * G!Point} \in SUBSET Int
  BY DEF G!ND, G!Point
<1> HIDE DEF a, b, d
<1> QED BY <1>3, <1>4, <1>5, <1>6, <1>7, TableSaine

\* The HR rows of every case are well formed.
LEMMA RhSaines ==
  ASSUME NEW t \in G!TablesRh
  PROVE  LignesRhSaines(t)
<1> DEFINE cles == {3, 4} \X FilialesNotees
<1>1. PICK dom \in SUBSET cles : \E f \in [dom -> G!Mouvements] :
        t = {[mois |-> k[1], fil |-> k[2], paie |-> f[k].paie, entrees |-> f[k].entrees, sorties |-> f[k].sorties] :
               k \in DOMAIN f}
  BY DEF G!TablesRh
<1>0. PICK f \in [dom -> G!Mouvements] :
        t = {[mois |-> k[1], fil |-> k[2], paie |-> f[k].paie, entrees |-> f[k].entrees, sorties |-> f[k].sorties] :
               k \in DOMAIN f}
  BY <1>1
<1> DEFINE g == [k \in dom |-> [mois |-> k[1], fil |-> k[2], paie |-> f[k].paie, entrees |-> f[k].entrees,
                              sorties |-> f[k].sorties]]
<1>2. t = {g[k] : k \in dom}
  BY <1>0
<1>3. IsFiniteSet(dom)
  <2>1. IsFiniteSet(cles)
    BY PaireFinie, FilialesFinies, FS_Product
  <2> QED BY <2>1, FS_Subset
<1>4. IsFiniteSet(t)
  <2> HIDE DEF g
  <2> QED BY <1>2, <1>3, ImageFinie
<1>5. ASSUME NEW k \in dom
      PROVE  g[k].fil \in FilialesNotees /\ g[k].paie \in Int /\ g[k].entrees \in Int /\ g[k].sorties \in Int
  <2>1. f[k] \in G!Mouvements /\ k[2] \in FilialesNotees
    OBVIOUS
  <2>2. f[k].paie \in Int /\ f[k].entrees \in Int /\ f[k].sorties \in Int
    BY <2>1 DEF G!Mouvements
  <2> QED BY <2>1, <2>2
<1> HIDE DEF g
<1> QED BY <1>2, <1>4, <1>5 DEF LignesRhSaines

\* The cases asked of the pages: a reader, and what the mart holds.
Lu(c) ==
  \E l \in G!Lecteurs : \E s, t : \E panne \in BOOLEAN :
    c = G!Case(l, s, t, panne) /\ LignesSaines(s) /\ LignesRhSaines(t)
MartLu == part = "gouvernance" => x1 = Neant \/ (Lu(x1) /\ x2 = G!Pages(x1))

\* Nothing is ever shown but what the pages answer to one of the cases.
LEMMA MartLuInv == PlateformeSpec => []MartLu
<1>1. PlateformeInit => MartLu
  BY DEF PlateformeInit, MartLu, G!Init
<1>2. MartLu /\ [PlateformeNext]_plateforme => MartLu'
  <2> SUFFICES ASSUME MartLu, [PlateformeNext]_plateforme, part' = "gouvernance" PROVE MartLu'
    BY DEF MartLu
  <2>1. part = "gouvernance" /\ (G!Next \/ UNCHANGED registers)
    BY PartFixe DEF PlateformeNext, plateforme
  <2>2. CASE G!Next
    <3>1. LignesSaines({}) /\ LignesRhSaines({})
      BY FS_EmptySet DEF LignesSaines, LignesRhSaines
    <3>2. PICK l \in G!Lecteurs :
            \/ \E s \in G!ScoresDuMois \cup G!ScoresDesMois : G!Demander(l, s, {}, FALSE)
            \/ \E t \in G!TablesRh, panne \in BOOLEAN : G!Demander(l, {}, t, panne)
      BY <2>2, Zenon DEF G!Next
    <3>3. ASSUME NEW s, NEW t, NEW panne \in BOOLEAN, LignesSaines(s), LignesRhSaines(t), G!Demander(l, s, t, panne)
          PROVE  Lu(x1') /\ x2' = G!Pages(x1')
      <4>1. x1' = G!Case(l, s, t, panne) /\ x2' = G!Pages(x1')
        BY <3>3, Zenon DEF G!Demander
      <4> QED BY <3>3, <4>1, Zenon DEF Lu
    <3>4. Lu(x1') /\ x2' = G!Pages(x1')
      BY <3>1, <3>2, <3>3, ScoresSains, RhSaines, Zenon
    <3> QED BY <3>4 DEF MartLu
  <2>3. CASE UNCHANGED registers
    <3>1. x1' = x1 /\ x2' = x2
      BY <2>3 DEF registers
    <3> QED BY <2>1, <3>1, Zenon DEF MartLu
  <2> QED BY <2>1, <2>2, <2>3
<1> QED BY <1>1, <1>2, PTL DEF PlateformeSpec

\* What a case is made of.
LEMMA CasLu ==
  ASSUME NEW c, Lu(c)
  PROVE  /\ c = [perimetre |-> c.perimetre, filtre |-> c.filtre, habilite |-> c.habilite, trimestre |-> c.trimestre,
                 scores |-> c.scores, rh |-> c.rh, panne |-> c.panne]
         /\ c.perimetre \in SUBSET FilialesNotees /\ c.trimestre = 2 /\ c.panne \in BOOLEAN
         /\ LignesSaines(c.scores) /\ LignesRhSaines(c.rh)
<1>0. PICK l \in G!Lecteurs : \E s, t : \E panne \in BOOLEAN :
        c = G!Case(l, s, t, panne) /\ LignesSaines(s) /\ LignesRhSaines(t)
  BY Zenon DEF Lu
<1>1. PICK s, t : \E panne \in BOOLEAN : c = G!Case(l, s, t, panne) /\ LignesSaines(s) /\ LignesRhSaines(t)
  BY <1>0
<1>2. PICK panne \in BOOLEAN : c = G!Case(l, s, t, panne)
  BY <1>1
<1>3. c = [perimetre |-> l.perimetre, filtre |-> l.filtre, habilite |-> l.habilite, trimestre |-> 2,
           scores |-> s, rh |-> t, panne |-> panne]
  BY <1>2 DEF G!Case
<1>4. l.perimetre \in SUBSET FilialesNotees
  BY DEF G!Lecteurs
<1> QED BY <1>1, <1>3, <1>4

\* What the pages answer of the Group, one by one.
LEMMA PagesLues ==
  ASSUME NEW c
  PROVE  /\ DOMAIN G!PagesDuGroupe(c) = {"groupe", "alertes", "xlsx", "pdf"}
         /\ G!Pages(c).groupe = G!PagesDuGroupe(c).groupe /\ G!Pages(c).alertes = G!PagesDuGroupe(c).alertes
         /\ G!Pages(c).xlsx = G!PagesDuGroupe(c).xlsx /\ G!Pages(c).pdf = G!PagesDuGroupe(c).pdf
         /\ G!PagesDuGroupe(c) = [p \in {"groupe", "alertes", "xlsx", "pdf"} |-> G!Pages(c)[p]]
         /\ G!Pages(c).domaine = G!PageDomaine(c, "immobilier") /\ G!Pages(c).rh = G!PageRh(c)
         /\ G!Pages(c).apercu = G!PageApercu(c) /\ G!Pages(c).copilote.corps = G!Citees(c)
<1> DEFINE g == G!PagesDuGroupe(c)
           r == G!Pages(c)
<1>1. DOMAIN g = {"groupe", "alertes", "xlsx", "pdf"}
  BY DEF G!PagesDuGroupe, G!PagesDuRapport
<1>2. /\ r.groupe = g.groupe /\ r.alertes = g.alertes /\ r.xlsx = g.xlsx /\ r.pdf = g.pdf
      /\ r.domaine = G!PageDomaine(c, "immobilier") /\ r.rh = G!PageRh(c)
      /\ r.apercu = G!PageApercu(c) /\ r.copilote.corps = G!Citees(c)
  BY DEF G!Pages, G!Reponse
<1>3. g = [p \in {"groupe", "alertes", "xlsx", "pdf"} |-> g[p]]
  BY <1>1 DEF G!PagesDuGroupe, G!PagesDuRapport
<1> HIDE DEF g, r
<1>4. g = [p \in {"groupe", "alertes", "xlsx", "pdf"} |-> r[p]]
  BY <1>2, <1>3
<1> QED BY <1>1, <1>2, <1>4 DEF g, r

\* Nothing comes from outside the perimeter and the filter.
LEMMA RienHorsPerimetreTenu ==
  ASSUME Lu(x1), x2 = G!Pages(x1)
  PROVE  G!RienHorsPerimetre
<1> DEFINE c == x1
           vues == {r \in c.scores : G!Permis(c, r.fil)}
           reduit == [c EXCEPT !.scores = vues, !.perimetre = FilialesNotees, !.filtre = G!ToutesFiliales]
<1> SUFFICES ASSUME ~c.panne
             PROVE  /\ G!PagesDuGroupe(reduit) = [p \in {"groupe", "alertes", "xlsx", "pdf"} |-> x2[p]]
                    /\ G!PageDomaine(reduit, "immobilier") = x2.domaine
                    /\ DOMAIN x2.rh.corps.filiales \subseteq c.perimetre
  BY DEF G!RienHorsPerimetre, G!Servi
<1>1. /\ reduit.scores = vues /\ reduit.perimetre = FilialesNotees /\ reduit.filtre = G!ToutesFiliales
      /\ reduit.trimestre = c.trimestre /\ reduit.panne = c.panne
  BY CasLu
<1>2. \A r \in c.scores : r.fil \in FilialesNotees
  BY CasLu DEF LignesSaines
<1> HIDE DEF c, reduit
<1>3. ASSUME NEW d PROVE G!LignesVisibles(reduit, d) = G!LignesVisibles(c, d)
  BY <1>1, <1>2 DEF G!LignesVisibles, G!Lues, G!Permis
<1>4. G!RapportGroupe(reduit) = G!RapportGroupe(c)
  BY <1>1, <1>3 DEF G!RapportGroupe
<1>5. G!PagesDuGroupe(reduit) = G!PagesDuGroupe(c)
  BY <1>1, <1>4 DEF G!PagesDuGroupe
<1>6. G!PageDomaine(reduit, "immobilier") = G!PageDomaine(c, "immobilier")
  BY <1>1, <1>3 DEF G!PageDomaine, G!Degradee, G!EtatDuMart
<1>7. DOMAIN G!PageRh(c).corps.filiales \subseteq c.perimetre
  BY DEF G!PageRh, G!Reponse, G!SyntheseVide, G!SyntheseRh
<1> QED BY <1>5, <1>6, <1>7, PagesLues DEF c

-----------------------------------------------------------------------------
\* The sums of the mart are the ones proved about.
LEMMA SommeG ==
  ASSUME NEW f, NEW ens
  PROVE  G!Somme(f, ens) = Total([k \in ens |-> f[k]])
<1> DEFINE g == [k \in ens |-> f[k]]
           Autre(it) == it = [s \in SUBSET ens |-> IF s = {} THEN 0 ELSE f[Pris(s)] + it[s \ {Pris(s)}]]
<1>1. G!Somme(f, ens) = (CHOOSE it : Autre(it))[ens]
  BY Zenon DEF G!Somme, G!FoldFunctionOnSet, G!MapThenFoldSet, Pris
<1>2. ASSUME NEW it PROVE Autre(it) <=> Enroule(it, g)
  <2>1. \A s \in SUBSET ens : s # {} => g[Pris(s)] = f[Pris(s)]
    BY DEF Pris
  <2>2. DOMAIN g = ens
    OBVIOUS
  <2> HIDE DEF g
  <2>3. [s \in SUBSET ens |-> IF s = {} THEN 0 ELSE f[Pris(s)] + it[s \ {Pris(s)}]]
          = [s \in SUBSET ens |-> IF s = {} THEN 0 ELSE g[Pris(s)] + it[s \ {Pris(s)}]]
    BY <2>1
  <2> QED BY <2>2, <2>3 DEF Enroule
<1>3. (CHOOSE it : Autre(it)) = (CHOOSE it : Enroule(it, g))
  <2> HIDE DEF Autre, g
  <2> QED BY <1>2
<1>4. DOMAIN g = ens
  OBVIOUS
<1> HIDE DEF Autre, g
<1> QED BY <1>1, <1>3, <1>4 DEF Total, g

\* ... the sum of the scores of some rows,
LEMMA SommeDesScores ==
  ASSUME NEW ens
  PROVE  G!MapThenSumSet(LAMBDA r : r.score, ens) = Total([r \in ens |-> r.score])
<1> DEFINE g == [r \in ens |-> r.score]
           Autre(it) == it = [s \in SUBSET ens |-> IF s = {} THEN 0 ELSE Pris(s).score + it[s \ {Pris(s)}]]
<1>1. G!MapThenSumSet(LAMBDA r : r.score, ens) = (CHOOSE it : Autre(it))[ens]
  BY Zenon DEF G!MapThenSumSet, G!MapThenFoldSet, Pris
<1>2. ASSUME NEW it PROVE Autre(it) <=> Enroule(it, g)
  <2>1. \A s \in SUBSET ens : s # {} => g[Pris(s)] = Pris(s).score
    BY DEF Pris
  <2>2. DOMAIN g = ens
    OBVIOUS
  <2> HIDE DEF g
  <2>3. [s \in SUBSET ens |-> IF s = {} THEN 0 ELSE Pris(s).score + it[s \ {Pris(s)}]]
          = [s \in SUBSET ens |-> IF s = {} THEN 0 ELSE g[Pris(s)] + it[s \ {Pris(s)}]]
    BY <2>1
  <2> QED BY <2>2, <2>3 DEF Enroule
<1>3. (CHOOSE it : Autre(it)) = (CHOOSE it : Enroule(it, g))
  <2> HIDE DEF Autre, g
  <2> QED BY <1>2
<1>4. DOMAIN g = ens
  OBVIOUS
<1> HIDE DEF Autre, g
<1> QED BY <1>1, <1>3, <1>4 DEF Total, g

\* ... and that of any of their fields.
LEMMA SommeDuChamp ==
  ASSUME NEW ens, NEW champ
  PROVE  G!MapThenSumSet(LAMBDA r : r[champ], ens) = Total([r \in ens |-> r[champ]])
<1> DEFINE g == [r \in ens |-> r[champ]]
           Autre(it) == it = [s \in SUBSET ens |-> IF s = {} THEN 0 ELSE Pris(s)[champ] + it[s \ {Pris(s)}]]
<1>1. G!MapThenSumSet(LAMBDA r : r[champ], ens) = (CHOOSE it : Autre(it))[ens]
  BY Zenon DEF G!MapThenSumSet, G!MapThenFoldSet, Pris
<1>2. ASSUME NEW it PROVE Autre(it) <=> Enroule(it, g)
  <2>1. \A s \in SUBSET ens : s # {} => g[Pris(s)] = Pris(s)[champ]
    BY DEF Pris
  <2>2. DOMAIN g = ens
    OBVIOUS
  <2> HIDE DEF g
  <2>3. [s \in SUBSET ens |-> IF s = {} THEN 0 ELSE Pris(s)[champ] + it[s \ {Pris(s)}]]
          = [s \in SUBSET ens |-> IF s = {} THEN 0 ELSE g[Pris(s)] + it[s \ {Pris(s)}]]
    BY <2>1
  <2> QED BY <2>2, <2>3 DEF Enroule
<1>3. (CHOOSE it : Autre(it)) = (CHOOSE it : Enroule(it, g))
  <2> HIDE DEF Autre, g
  <2> QED BY <1>2
<1>4. DOMAIN g = ens
  OBVIOUS
<1> HIDE DEF Autre, g
<1> QED BY <1>1, <1>3, <1>4 DEF Total, g

\* The greatest score, in tenths and as the model counts it.
Mille == 1000
Comble == 100 * G!Point

\* They are numbers, the one twelve times the other.
LEMMA CombleDe == Mille \in Nat /\ Comble \in Nat /\ Comble = 12 * Mille
BY DEF Mille, Comble, G!Point

\* A score brought back between nothing and everything.
LEMMA RameneBorne ==
  ASSUME NEW v \in Int
  PROVE  /\ G!Ramene(v) \in 0..Comble
         /\ v \in 0..Comble => G!Ramene(v) = v
<1> DEFINE tout == 100 * G!Point
           bas == {tout, v}
           z == I!Min(bas)
           haut == {0, z}
           w == I!Max(haut)
<1>0. tout \in Nat
  BY CombleDe DEF Comble
<1> HIDE DEF tout
<1>1. bas \in SUBSET Int /\ IsFiniteSet(bas) /\ bas # {}
  <2>1. IsFiniteSet({tout, v})
    BY PaireFinie, Zenon
  <2> QED BY <1>0, <2>1
<1>2. z \in bas /\ \A y \in bas : z <= y
  <2> HIDE DEF bas
  <2> QED BY <1>1, MaxDesJuges
<1>3. z \in Int /\ z <= tout /\ z \in {tout, v} /\ z <= v
  BY <1>0, <1>1, <1>2
<1>4. G!Ramene(v) = w
  BY MemesNotionsG DEF G!Ramene, tout
<1> HIDE DEF z, bas
<1>5. haut \in SUBSET Int /\ IsFiniteSet(haut) /\ haut # {}
  BY <1>3, PaireFinie
<1>6. w \in haut /\ \A y \in haut : y <= w
  <2> HIDE DEF haut
  <2> QED BY <1>5, MaxDesJuges
<1> HIDE DEF w
<1>7. w \in {0, z} /\ 0 <= w /\ z <= w
  BY <1>6
<1>8. w \in 0..tout /\ (v \in 0..tout => w = v)
  BY <1>0, <1>3, <1>7
<1> QED BY <1>4, <1>8, Zenon DEF tout, Comble

\* A mean rounded to a tenth lies between any tenths its terms lie between.
LEMMA DixiemeEntre ==
  ASSUME NEW n \in Int, NEW d \in Nat, 1 <= d, NEW lo \in Int, NEW hi \in Int,
         (12 * lo) * d <= n, n <= (12 * hi) * d
  PROVE  \E j \in lo..hi : G!Dixieme(n, d) = 12 * j
<1> DEFINE e == 12 * d
           m == n + 6 * d
           j == m \div e
           a == lo * e
           b == hi * e
<1>1. e \in Nat /\ 1 <= e /\ m \in Int
  OBVIOUS
<1>2. j \in Int /\ e * j <= m /\ m < e * j + e
  <2> HIDE DEF e, m
  <2> QED BY <1>1
<1>3. G!Dixieme(n, d) = 12 * j
  BY DEF G!Dixieme
<1>4. (12 * lo) * d = a /\ (12 * hi) * d = b /\ a \in Int /\ b \in Int
  <2>1. ASSUME NEW x \in Int PROVE (12 * x) * d = x * (12 * d)
    OBVIOUS
  <2> QED BY <2>1
<1>5. a <= m /\ m < b + e
  <2> HIDE DEF a, b
  <2> QED BY <1>4
<1> HIDE DEF j, m
<1>6. lo <= j
  <2> SUFFICES ASSUME j + 1 <= lo PROVE FALSE
    BY <1>2
  <2> DEFINE x == lo - (j + 1)
             y == e * x
             z == e * j
  <2>1. x \in Nat
    BY <1>2
  <2>2. y >= 0
    <3> HIDE DEF x, e
    <3> QED BY <1>1, <2>1
  <2>3. y = a - (z + e) /\ z \in Int
    <3> HIDE DEF e
    <3> QED BY <1>1, <1>2
  <2>4. a <= m /\ m < z + e /\ a \in Int /\ m \in Int /\ e \in Int
    BY <1>1, <1>2, <1>4, <1>5 DEF m
  <2> HIDE DEF a, y, z, e
  <2> QED BY <2>2, <2>3, <2>4
<1>7. j <= hi
  <2> SUFFICES ASSUME hi + 1 <= j PROVE FALSE
    BY <1>2
  <2> DEFINE x == j - (hi + 1)
             y == e * x
             z == e * j
  <2>1. x \in Nat
    BY <1>2
  <2>2. y >= 0
    <3> HIDE DEF x, e
    <3> QED BY <1>1, <2>1
  <2>3. y = z - (b + e) /\ z \in Int
    <3> HIDE DEF e
    <3> QED BY <1>1, <1>2
  <2>4. m < b + e /\ z <= m /\ b \in Int /\ m \in Int /\ e \in Int
    BY <1>1, <1>2, <1>4, <1>5 DEF m
  <2> HIDE DEF b, y, z, e
  <2> QED BY <2>2, <2>3, <2>4
<1> QED BY <1>2, <1>3, <1>6, <1>7

\* A weighted score lies between those it is made of.
LEMMA PondereEntre ==
  ASSUME NEW scores, NEW poids, NEW ens, ens = DOMAIN scores \cap DOMAIN poids, IsFiniteSet(ens), ens # {},
         \A k \in ens : scores[k] \in Int /\ poids[k] \in Int /\ 1 <= poids[k],
         NEW lo \in Int, NEW hi \in Int,
         \A k \in ens : 12 * lo <= G!Ramene(scores[k]) /\ G!Ramene(scores[k]) <= 12 * hi
  PROVE  \E j \in lo..hi : G!Pondere(scores, poids) = 12 * j
<1> DEFINE note == [k \in ens |-> G!Ramene(scores[k])]
           w == [k \in ens |-> poids[k]]
           f == [k \in ens |-> note[k] * w[k]]
           n == Total(f)
           d == Total(w)
           bas == 12 * lo
           haut == 12 * hi
<1>1. note \in [ens -> Int] /\ w \in [ens -> Int] /\ \A k \in ens : 1 <= w[k]
  <2>1. ASSUME NEW v \in Int PROVE G!Ramene(v) \in Int
    <3>1. G!Ramene(v) \in 0..Comble
      BY RameneBorne
    <3> QED BY <3>1, CombleDe
  <2>2. \A k \in ens : G!Ramene(scores[k]) \in Int
    BY <2>1
  <2> QED BY <2>2
<1>2. \A k \in ens : bas <= note[k] /\ note[k] <= haut
  OBVIOUS
<1>3. bas \in Int /\ haut \in Int
  OBVIOUS
<1>4. f = [k \in ens |-> note[k] * w[k]]
  OBVIOUS
<1>5. d \in Nat /\ 1 <= d /\ n \in Int /\ bas * d <= n /\ n <= haut * d
  <2>1. IsFiniteSet(ens) /\ ens # {}
    OBVIOUS
  <2> HIDE DEF note, w, f, bas, haut
  <2> QED BY ONLY <1>1, <1>2, <1>3, <1>4, <2>1, SommePonderee
<1>6. G!Somme(poids, ens) = d
  BY SommeG
<1> DEFINE g == [k \in ens |-> G!Ramene(scores[k]) * poids[k]]
<1>7. G!Somme(g, ens) = n
  <2>1. [k \in ens |-> g[k]] = f
    OBVIOUS
  <2>2. G!Somme(g, ens) = Total([k \in ens |-> g[k]])
    <3> HIDE DEF g
    <3> QED BY SommeG
  <2> HIDE DEF f, g
  <2> QED BY <2>1, <2>2
<1>8. G!Pondere(scores, poids) = G!Dixieme(G!Somme(g, ens), G!Somme(poids, ens))
  BY DEF G!Pondere
<1>9. G!Pondere(scores, poids) = G!Dixieme(n, d)
  <2> HIDE DEF n, d, g
  <2> QED BY <1>6, <1>7, <1>8
<1> HIDE DEF n, d
<1>10. \E j \in lo..hi : G!Dixieme(n, d) = 12 * j
  <2>1. d \in Nat /\ 1 <= d /\ n \in Int /\ (12 * lo) * d <= n /\ n <= (12 * hi) * d
    BY <1>5
  <2> QED BY ONLY <2>1, lo \in Int, hi \in Int, DixiemeEntre
<1> QED BY <1>9, <1>10

\* A score as the pages show it: not measured, or a number of tenths.
Note(v) == v = G!ND \/ \E j \in 0..Mille : v = 12 * j

\* A weighted score is one, and is measured when there is something to weigh.
LEMMA PondereNote ==
  ASSUME NEW scores, NEW poids, IsFiniteSet(DOMAIN scores),
         \A k \in DOMAIN scores : scores[k] \in Int, \A k \in DOMAIN poids : poids[k] \in Int /\ 1 <= poids[k]
  PROVE  /\ Note(G!Pondere(scores, poids))
         /\ G!Pondere(scores, poids) = G!ND <=> DOMAIN scores \cap DOMAIN poids = {}
<1> DEFINE ens == DOMAIN scores \cap DOMAIN poids
           lo == 0
           hi == Mille
<1>1. CASE ens = {}
  <2>1. G!Pondere(scores, poids) = G!ND
    BY <1>1 DEF G!Pondere
  <2> QED BY <1>1, <2>1 DEF Note
<1>2. CASE ens # {}
  <2>1. IsFiniteSet(ens)
    BY FS_Intersection
  <2>2. \A k \in ens : 12 * lo <= G!Ramene(scores[k]) /\ G!Ramene(scores[k]) <= 12 * hi
    <3> SUFFICES ASSUME NEW k \in ens PROVE 0 <= G!Ramene(scores[k]) /\ G!Ramene(scores[k]) <= Comble
      BY CombleDe
    <3> DEFINE v == scores[k]
    <3>1. v \in Int
      OBVIOUS
    <3> HIDE DEF v
    <3>2. G!Ramene(v) \in 0..Comble
      BY <3>1, RameneBorne
    <3> QED BY <3>2, CombleDe DEF v
  <2>3. lo \in Int /\ hi \in Int /\ ens = DOMAIN scores \cap DOMAIN poids
    BY CombleDe
  <2>4. \A k \in ens : scores[k] \in Int /\ poids[k] \in Int /\ 1 <= poids[k]
    OBVIOUS
  <2>5. \E j \in lo..hi : G!Pondere(scores, poids) = 12 * j
    <3> HIDE DEF ens, lo, hi
    <3> QED BY <1>2, <2>1, <2>2, <2>3, <2>4, PondereEntre
  <2>6. PICK j \in 0..Mille : G!Pondere(scores, poids) = 12 * j
    BY <2>5
  <2> QED BY <1>2, <2>6, CombleDe DEF Note, G!ND
<1> QED BY <1>1, <1>2

\* The weights are positive.
LEMMA PoidsPositifs ==
  /\ \A d \in G!Range(G!Domaines) : \A k \in DOMAIN G!Cadres[d] : G!Cadres[d][k] \in Int /\ 1 <= G!Cadres[d][k]
  /\ DOMAIN G!PoidsGroupe = G!Range(G!Domaines)
  /\ \A d \in G!Range(G!Domaines) : G!PoidsGroupe[d] \in Int /\ 1 <= G!PoidsGroupe[d]
<1> DEFINE noms == {"immobilier", "finance", "commercial-clients", "capital-humain", "operations", "risques-conformite"}
<1>1. G!Range(G!Domaines) = noms
  BY DEF G!Range, G!Domaines
<1>2. DOMAIN G!PoidsGroupe = G!Range(G!Domaines)
  BY DEF G!PoidsGroupe
<1>3. ASSUME NEW d \in noms PROVE G!PoidsGroupe[d] \in Int /\ 1 <= G!PoidsGroupe[d]
  <2>1. d \in G!Range(G!Domaines)
    BY <1>1
  <2> QED BY <1>1, <2>1 DEF G!PoidsGroupe
<1>4. ASSUME NEW d \in noms
      PROVE  \A k \in DOMAIN G!Cadres[d] : G!Cadres[d][k] \in Int /\ 1 <= G!Cadres[d][k]
  <2>1. G!Cadres[d] = CASE d = "immobilier" -> G!PoidsImmobilier [] d = "finance" -> G!PoidsFinance
          [] d = "commercial-clients" -> G!PoidsCommercial [] d = "capital-humain" -> G!PoidsCapitalHumain
          [] d = "operations" -> G!PoidsOperations [] d = "risques-conformite" -> G!PoidsRisques
    BY <1>1 DEF G!Cadres
  <2>2. G!Cadres[d] \in {G!PoidsImmobilier, G!PoidsFinance, G!PoidsCommercial, G!PoidsCapitalHumain,
                         G!PoidsOperations, G!PoidsRisques}
    BY <2>1
  <2>3. ASSUME NEW p \in {G!PoidsImmobilier, G!PoidsFinance, G!PoidsCommercial, G!PoidsCapitalHumain,
                          G!PoidsOperations, G!PoidsRisques}
        PROVE  \A k \in DOMAIN p : p[k] \in Int /\ 1 <= p[k]
    <3>1. CASE p = G!PoidsImmobilier
      BY <3>1 DEF G!PoidsImmobilier
    <3>2. CASE p = G!PoidsFinance
      BY <3>2 DEF G!PoidsFinance
    <3>3. CASE p = G!PoidsCommercial
      BY <3>3 DEF G!PoidsCommercial
    <3>4. CASE p = G!PoidsCapitalHumain
      BY <3>4 DEF G!PoidsCapitalHumain
    <3>5. CASE p = G!PoidsOperations
      BY <3>5 DEF G!PoidsOperations
    <3>6. CASE p = G!PoidsRisques
      BY <3>6 DEF G!PoidsRisques
    <3> QED BY <2>3, <3>1, <3>2, <3>3, <3>4, <3>5, <3>6
  <2> QED BY <2>2, <2>3
<1> QED BY <1>1, <1>2, <1>3, <1>4

\* The means of finitely many rows: one number for each dimension they have.
LEMMA MoyennesEntieres ==
  ASSUME NEW lignes, IsFiniteSet(lignes), \A r \in lignes : r.score \in Int
  PROVE  /\ DOMAIN G!Moyennes(lignes) = {r.dim : r \in lignes} /\ IsFiniteSet(DOMAIN G!Moyennes(lignes))
         /\ \A d \in DOMAIN G!Moyennes(lignes) : G!Moyennes(lignes)[d] \in Int
<1> DEFINE dims == {r.dim : r \in lignes}
           De(d) == {r \in lignes : r.dim = d}
           somme(d) == G!MapThenSumSet(LAMBDA r : r.score, De(d))
<1>1. G!Moyennes(lignes) = [d \in dims |-> somme(d) \div G!Cardinality(De(d))]
  BY DEF G!Moyennes
<1>2. IsFiniteSet(dims)
  <2> DEFINE f == [r \in lignes |-> r.dim]
  <2>1. dims = {f[r] : r \in lignes}
    OBVIOUS
  <2> HIDE DEF f, dims
  <2> QED BY <2>1, ImageFinie
<1>3. ASSUME NEW d \in dims PROVE somme(d) \div G!Cardinality(De(d)) \in Int
  <2> DEFINE s == De(d)
             f == [r \in s |-> r.score]
  <2>1. s \in SUBSET lignes /\ s # {}
    BY <1>3
  <2>2. f \in [s -> Int]
    OBVIOUS
  <2> HIDE DEF f, s
  <2>3. IsFiniteSet(s)
    BY <2>1, FS_Subset
  <2>4. Total(f) \in Int
    BY <2>2, <2>3, TotalEntier
  <2>5. Cardinality(s) \in Nat /\ Cardinality(s) # 0
    BY <2>1, <2>3, FS_CardinalityType, FS_EmptySet
  <2>6. G!Cardinality(s) = Cardinality(s) /\ G!MapThenSumSet(LAMBDA r : r.score, s) = Total(f)
    BY MemesNotionsG, SommeDesScores DEF f
  <2> DEFINE n == Total(f)
             k == Cardinality(s)
  <2>7. n \in Int /\ k \in Nat /\ k # 0
    BY <2>4, <2>5
  <2> HIDE DEF n, k
  <2>8. n \div k \in Int
    BY <2>7
  <2> QED BY <2>6, <2>8 DEF n, k, s
<1> HIDE DEF dims, somme
<1>4. DOMAIN G!Moyennes(lignes) = dims
  BY <1>1
<1>5. \A d \in dims : G!Moyennes(lignes)[d] \in Int
  BY <1>1, <1>3
<1> QED BY <1>2, <1>4, <1>5 DEF dims

\* The score of rows, by the weights of a domain.
LEMMA NoteDesLignes ==
  ASSUME NEW lignes, IsFiniteSet(lignes), \A r \in lignes : r.score \in Int, NEW d \in G!Range(G!Domaines)
  PROVE  /\ Note(G!Pondere(G!Moyennes(lignes), G!Cadres[d]))
         /\ lignes = {} => G!Pondere(G!Moyennes(lignes), G!Cadres[d]) = G!ND
<1> DEFINE m == G!Moyennes(lignes)
           w == G!Cadres[d]
<1>1. DOMAIN m = {r.dim : r \in lignes} /\ IsFiniteSet(DOMAIN m) /\ \A k \in DOMAIN m : m[k] \in Int
  BY MoyennesEntieres
<1>2. \A k \in DOMAIN w : w[k] \in Int /\ 1 <= w[k]
  BY PoidsPositifs
<1> HIDE DEF m, w
<1>3. Note(G!Pondere(m, w)) /\ (G!Pondere(m, w) = G!ND <=> DOMAIN m \cap DOMAIN w = {})
  BY <1>1, <1>2, PondereNote
<1>4. lignes = {} => DOMAIN m \cap DOMAIN w = {}
  BY <1>1
<1> QED BY <1>3, <1>4 DEF m, w

\* Scores of the Group: of some domains, each one a note.
Notes(scores) == DOMAIN scores \subseteq G!Range(G!Domaines) /\ \A d \in DOMAIN scores : Note(scores[d])

\* The domains are finitely many.
LEMMA DomainesFinis == IsFiniteSet(G!Range(G!Domaines))
<1> DEFINE d == G!Domaines
<1>1. G!Range(d) = {d[i] : i \in 1..6}
  BY DEF G!Range, G!Domaines
<1>2. IsFiniteSet(1..6)
  <2>1. 1 \in Int /\ 6 \in Int
    OBVIOUS
  <2>2. \A m, n \in Int : IsFiniteSet(m..n)
    BY FS_Interval
  <2> QED BY <2>1, <2>2, Zenon
<1> HIDE DEF d
<1>3. IsFiniteSet({d[i] : i \in 1..6})
  BY <1>2, ImageFinie
<1> QED BY <1>1, <1>3 DEF d

\* An index lies between the scores measured, and there is one when something is.
LEMMA IndiceEntre ==
  ASSUME NEW scores, Notes(scores)
  PROVE  /\ Note(G!Indice(scores))
         /\ G!Indice(scores) = G!ND <=> G!Mesurees(scores) = {}
         /\ \A lo, hi \in Int :
              (G!Mesurees(scores) # {} /\ \A d \in G!Mesurees(scores) : 12 * lo <= scores[d] /\ scores[d] <= 12 * hi)
                => \E j \in lo..hi : G!Indice(scores) = 12 * j
<1> DEFINE ens == G!Mesurees(scores)
           m == [k \in ens |-> scores[k]]
           w == G!PoidsGroupe
<1>1. ens \in SUBSET G!Range(G!Domaines)
  BY DEF G!Mesurees, Notes
<1>2. IsFiniteSet(ens)
  <2> HIDE DEF ens
  <2> QED BY <1>1, DomainesFinis, FS_Subset
<1>3. DOMAIN w = G!Range(G!Domaines) /\ \A k \in DOMAIN w : w[k] \in Int /\ 1 <= w[k]
  BY PoidsPositifs
<1>4. ASSUME NEW k \in ens PROVE \E j \in 0..Mille : scores[k] = 12 * j
  BY DEF G!Mesurees, Notes, Note
<1>5. ASSUME NEW k \in ens PROVE scores[k] \in Int /\ G!Ramene(scores[k]) = scores[k]
  <2>1. PICK j \in 0..Mille : scores[k] = 12 * j
    BY <1>4
  <2> DEFINE v == scores[k]
  <2>2. v \in 0..Comble /\ v \in Int
    BY <2>1, CombleDe
  <2> HIDE DEF v
  <2>3. G!Ramene(v) = v
    BY <2>2, RameneBorne
  <2> QED BY <2>2, <2>3 DEF v
<1>6. DOMAIN m = ens /\ \A k \in ens : m[k] = scores[k]
  OBVIOUS
<1>7. G!Indice(scores) = G!Pondere(m, w)
  BY DEF G!Indice
<1> HIDE DEF m, w, ens
<1>8. ens = DOMAIN m \cap DOMAIN w
  BY <1>1, <1>3, <1>6
<1>9. Note(G!Pondere(m, w)) /\ (G!Pondere(m, w) = G!ND <=> ens = {})
  BY <1>2, <1>3, <1>5, <1>6, <1>8, PondereNote
<1>10. ASSUME NEW lo \in Int, NEW hi \in Int, ens # {}, \A d \in ens : 12 * lo <= scores[d] /\ scores[d] <= 12 * hi
       PROVE  \E j \in lo..hi : G!Pondere(m, w) = 12 * j
  <2>1. \A k \in ens : m[k] \in Int /\ w[k] \in Int /\ 1 <= w[k]
    BY <1>3, <1>5, <1>6, <1>8
  <2>2. \A k \in ens : 12 * lo <= G!Ramene(m[k]) /\ G!Ramene(m[k]) <= 12 * hi
    BY <1>5, <1>6, <1>10
  <2>3. lo \in Int /\ hi \in Int
    OBVIOUS
  <2> QED BY ONLY <1>2, <1>8, <1>10, <2>1, <2>2, <2>3, PondereEntre
<1> QED BY <1>7, <1>9, <1>10 DEF ens

\* What each domain gives of the rows the reader may see.
Par(c) == [d \in G!Range(G!Domaines) |-> G!Agregat(G!LignesVisibles(c, d), G!Trimestre(c.trimestre), G!Cadres[d])]
\* ... and the rows of the period.
Dedans(c, d) == {r \in G!LignesVisibles(c, d) : G!Contient(G!Trimestre(c.trimestre), r.mois)}

\* The rows a reader sees are well formed.
LEMMA VisiblesSaines ==
  ASSUME NEW c, Lu(c), NEW d
  PROVE  /\ LignesSaines(G!LignesVisibles(c, d)) /\ LignesSaines(Dedans(c, d))
<1>1. LignesSaines(c.scores)
  BY CasLu
<1>2. ASSUME NEW s \in SUBSET c.scores PROVE LignesSaines(s)
  BY <1>1, FS_Subset DEF LignesSaines
<1>3. G!LignesVisibles(c, d) \in SUBSET c.scores
  BY DEF G!LignesVisibles, G!Lues
<1>4. Dedans(c, d) \in SUBSET c.scores
  BY <1>3 DEF Dedans
<1> QED BY <1>2, <1>3, <1>4

\* What the domains give are notes.
LEMMA NotesDuGroupe ==
  ASSUME NEW c, Lu(c)
  PROVE  /\ DOMAIN Par(c) = G!Range(G!Domaines)
         /\ \A d \in G!Range(G!Domaines) :
              /\ Note(Par(c)[d].global) /\ (Dedans(c, d) = {} => Par(c)[d].global = G!ND)
              /\ Par(c)[d].global = G!Pondere(G!Moyennes(Dedans(c, d)), G!Cadres[d])
              /\ DOMAIN Par(c)[d].filiales = {r.fil : r \in Dedans(c, d)}
              /\ \A f \in DOMAIN Par(c)[d].filiales :
                   /\ Note(Par(c)[d].filiales[f])
                   /\ Par(c)[d].filiales[f] = G!Pondere(G!Moyennes({r \in Dedans(c, d) : r.fil = f}), G!Cadres[d])
<1>1. DOMAIN Par(c) = G!Range(G!Domaines)
  BY DEF Par
<1> SUFFICES ASSUME NEW d \in G!Range(G!Domaines)
             PROVE  /\ Note(Par(c)[d].global) /\ (Dedans(c, d) = {} => Par(c)[d].global = G!ND)
                    /\ Par(c)[d].global = G!Pondere(G!Moyennes(Dedans(c, d)), G!Cadres[d])
                    /\ DOMAIN Par(c)[d].filiales = {r.fil : r \in Dedans(c, d)}
                    /\ \A f \in DOMAIN Par(c)[d].filiales :
                         /\ Note(Par(c)[d].filiales[f])
                         /\ Par(c)[d].filiales[f]
                              = G!Pondere(G!Moyennes({r \in Dedans(c, d) : r.fil = f}), G!Cadres[d])
  BY <1>1
<1> DEFINE a == G!Agregat(G!LignesVisibles(c, d), G!Trimestre(c.trimestre), G!Cadres[d])
           w == G!Cadres[d]
           s == Dedans(c, d)
<1>2. Par(c)[d] = a
  BY DEF Par
<1>3. /\ a.global = G!Pondere(G!Moyennes(s), w) /\ DOMAIN a.filiales = {r.fil : r \in s}
      /\ \A f \in {r.fil : r \in s} : a.filiales[f] = G!Pondere(G!Moyennes({r \in s : r.fil = f}), w)
  <2> DEFINE lignes == G!LignesVisibles(c, d)
             q == G!Trimestre(c.trimestre)
             x == {r \in lignes : G!Contient(q, r.mois)}
  <2>1. s = x
    BY DEF Dedans
  <2>2. a = G!Agregat(lignes, q, w)
    OBVIOUS
  <2>4. x = {r \in lignes : G!Contient(q, r.mois)}
    OBVIOUS
  <2> HIDE DEF lignes, q, w, a, s, x
  <2>3. /\ a.global = G!Pondere(G!Moyennes(x), w) /\ DOMAIN a.filiales = {r.fil : r \in x}
        /\ \A f \in {r.fil : r \in x} : a.filiales[f] = G!Pondere(G!Moyennes({r \in x : r.fil = f}), w)
    <3>1. /\ G!Agregat(lignes, q, w).global = G!Pondere(G!Moyennes(x), w)
          /\ DOMAIN G!Agregat(lignes, q, w).filiales = {r.fil : r \in x}
          /\ \A f \in {r.fil : r \in x} :
               G!Agregat(lignes, q, w).filiales[f] = G!Pondere(G!Moyennes({r \in x : r.fil = f}), w)
      BY <2>4 DEF G!Agregat
    <3> QED BY ONLY <2>2, <3>1, Zenon
  <2> QED BY ONLY <2>1, <2>3
<1>4. IsFiniteSet(s) /\ \A r \in s : r.score \in Int
  BY VisiblesSaines DEF LignesSaines
<1> HIDE DEF a, s
<1>5. Note(G!Pondere(G!Moyennes(s), w)) /\ (s = {} => G!Pondere(G!Moyennes(s), w) = G!ND)
  BY <1>4, NoteDesLignes
<1>6. ASSUME NEW f PROVE Note(G!Pondere(G!Moyennes({r \in s : r.fil = f}), w))
  <2> DEFINE t == {r \in s : r.fil = f}
  <2>1. t \in SUBSET s
    OBVIOUS
  <2>2. \A r \in t : r.score \in Int
    BY <1>4
  <2> HIDE DEF t
  <2>3. IsFiniteSet(t)
    BY <1>4, <2>1, FS_Subset
  <2>4. Note(G!Pondere(G!Moyennes(t), w))
    BY <2>2, <2>3, NoteDesLignes
  <2> QED BY <2>4 DEF t
<1> QED BY <1>2, <1>3, <1>5, <1>6 DEF s, w

\* The report of the Group, field by field.
LEMMA RapportDe ==
  ASSUME NEW c
  PROVE  LET r == G!RapportGroupe(c)
             codes == UNION {DOMAIN Par(c)[d].filiales : d \in DOMAIN Par(c)}
         IN /\ r.domaines = [d \in DOMAIN Par(c) |-> Par(c)[d].global]
            /\ r.global = G!Indice(r.domaines) /\ (r.disponible <=> r.global # G!ND)
            /\ DOMAIN r.filiales = codes
            /\ \A f \in codes : r.filiales[f] = G!Indice(G!Croise([d \in DOMAIN Par(c) |-> Par(c)[d].filiales], f))
<1> DEFINE p == Par(c)
<1>1. G!RapportGroupe(c) = G!Groupe(p)
  BY DEF G!RapportGroupe, Par
<1> HIDE DEF p
<1>2. /\ G!Groupe(p).domaines = [d \in DOMAIN p |-> p[d].global]
      /\ G!Groupe(p).global = G!Indice([d \in DOMAIN p |-> p[d].global])
      /\ (G!Groupe(p).disponible <=> G!Indice([d \in DOMAIN p |-> p[d].global]) # G!ND)
      /\ DOMAIN G!Groupe(p).filiales = UNION {DOMAIN p[d].filiales : d \in DOMAIN p}
      /\ \A f \in UNION {DOMAIN p[d].filiales : d \in DOMAIN p} :
           G!Groupe(p).filiales[f] = G!Indice(G!Croise([d \in DOMAIN p |-> p[d].filiales], f))
  BY DEF G!Groupe
<1> QED BY <1>1, <1>2 DEF p

\* A subsidiary that is alone has the score of the Group.
LEMMA SeuleFiliale ==
  ASSUME NEW c, Lu(c), NEW f, DOMAIN G!RapportGroupe(c).filiales = {f}
  PROVE  G!RapportGroupe(c).filiales[f] = G!RapportGroupe(c).global
<1> DEFINE p == Par(c)
           r == G!RapportGroupe(c)
           scores == [d \in DOMAIN p |-> p[d].global]
           siens == G!Croise([d \in DOMAIN p |-> p[d].filiales], f)
           avec == {d \in DOMAIN p : f \in DOMAIN p[d].filiales}
<1>1. /\ r.global = G!Indice(scores) /\ r.filiales[f] = G!Indice(siens)
      /\ UNION {DOMAIN p[d].filiales : d \in DOMAIN p} = {f}
  BY RapportDe
<1>2. siens = [d \in avec |-> p[d].filiales[f]]
  BY DEF G!Croise
<1>3. DOMAIN scores = DOMAIN p /\ \A d \in DOMAIN p : scores[d] = p[d].global
  OBVIOUS
<1> HIDE DEF r, scores, siens
<1>4. ASSUME NEW d \in avec PROVE siens[d] = scores[d]
  <2> DEFINE s == Dedans(c, d)
  <2>1. d \in DOMAIN p /\ DOMAIN p[d].filiales = {f}
    BY <1>1
  <2>2. /\ DOMAIN p[d].filiales = {x.fil : x \in s} /\ p[d].global = G!Pondere(G!Moyennes(s), G!Cadres[d])
        /\ p[d].filiales[f] = G!Pondere(G!Moyennes({x \in s : x.fil = f}), G!Cadres[d])
    BY <2>1, NotesDuGroupe
  <2> HIDE DEF s, p
  <2>3. {x \in s : x.fil = f} = s
    BY <2>1, <2>2
  <2> QED BY <1>2, <1>3, <1>4, <2>1, <2>2, <2>3
<1>5. ASSUME NEW d \in DOMAIN p, d \notin avec PROVE scores[d] = G!ND
  <2> DEFINE s == Dedans(c, d)
  <2>1. DOMAIN p[d].filiales \subseteq {f} /\ f \notin DOMAIN p[d].filiales
    BY <1>1, <1>5
  <2>2. DOMAIN p[d].filiales = {x.fil : x \in s} /\ (s = {} => p[d].global = G!ND)
    BY NotesDuGroupe
  <2> HIDE DEF s, p
  <2>3. s = {}
    BY <2>1, <2>2
  <2> QED BY <1>3, <2>2, <2>3
<1>6. DOMAIN siens = avec /\ avec \subseteq DOMAIN scores
  BY <1>2, <1>3
<1> HIDE DEF avec, p
<1>7. G!Mesurees(siens) = G!Mesurees(scores)
  BY <1>3, <1>4, <1>5, <1>6 DEF G!Mesurees
<1>8. [k \in G!Mesurees(siens) |-> siens[k]] = [k \in G!Mesurees(scores) |-> scores[k]]
  BY <1>4, <1>6, <1>7 DEF G!Mesurees
<1>9. G!Indice(siens) = G!Indice(scores)
  BY <1>8 DEF G!Indice
<1> QED BY <1>1, <1>9 DEF r

\* The index of the Group is of what is measured.
LEMMA IndiceDesMesuresTenu ==
  ASSUME Lu(x1), x2 = G!Pages(x1)
  PROVE  G!IndiceDesMesures
<1> DEFINE r == G!RapportGroupe(x1)
           scores == {r.domaines[d] : d \in G!Mesurees(r.domaines)}
<1> SUFFICES ASSUME ~x1.panne
             PROVE  LET q == x2.groupe.corps
                        t == {q.domaines[d] : d \in G!Mesurees(q.domaines)}
                    IN /\ q.disponible <=> t # {}
                       /\ q.disponible => G!Min(t) <= q.global /\ q.global <= G!Max(t)
                       /\ \A f \in DOMAIN q.filiales : DOMAIN q.filiales = {f} => q.filiales[f] = q.global
  BY DEF G!IndiceDesMesures, G!Servi
<1>1. x2.groupe.corps = r
  <2>1. G!Pages(x1).groupe = G!PagesDuGroupe(x1).groupe
    BY PagesLues
  <2> QED BY <2>1 DEF G!PagesDuGroupe, G!PagesDuRapport, G!Reponse
<1>2. Notes(r.domaines)
  <2> DEFINE p == Par(x1)
             sc == [d \in DOMAIN p |-> p[d].global]
  <2>1. r.domaines = sc
    BY RapportDe
  <2>2. DOMAIN p = G!Range(G!Domaines) /\ \A d \in DOMAIN p : Note(p[d].global)
    BY NotesDuGroupe
  <2>3. Notes(sc)
    <3> HIDE DEF p
    <3> QED BY <2>2 DEF Notes
  <2> QED BY <2>1, <2>3
<1>3. r.global = G!Indice(r.domaines) /\ (r.disponible <=> r.global # G!ND)
  BY RapportDe
<1>4. \A f : DOMAIN r.filiales = {f} => r.filiales[f] = r.global
  BY SeuleFiliale
<1> HIDE DEF r
<1>5. r.disponible <=> scores # {}
  BY <1>2, <1>3, IndiceEntre
<1>6. ASSUME r.disponible PROVE I!Min(scores) <= r.global /\ r.global <= I!Max(scores)
  <2> DEFINE bas == I!Min(scores)
             haut == I!Max(scores)
  <2>1. \A x \in scores : \E j \in 0..Mille : x = 12 * j
    BY <1>2 DEF Notes, Note, G!Mesurees
  <2>2. scores \in SUBSET Int
    BY <2>1
  <2>3. IsFiniteSet(scores)
    <3> DEFINE ens == G!Mesurees(r.domaines)
    <3>1. ens \in SUBSET G!Range(G!Domaines)
      BY <1>2 DEF G!Mesurees, Notes
    <3>2. IsFiniteSet(ens)
      <4> HIDE DEF ens
      <4> QED BY <3>1, DomainesFinis, FS_Subset
    <3> HIDE DEF ens
    <3> QED BY <3>2, ImageFinie DEF ens
  <2>4. bas \in scores /\ haut \in scores /\ \A x \in scores : bas <= x /\ x <= haut
    <3> HIDE DEF scores
    <3> QED BY <1>5, <1>6, <2>2, <2>3, MaxDesJuges
  <2>5. PICK lo \in 0..Mille : bas = 12 * lo
    BY <2>1, <2>4
  <2>6. PICK hi \in 0..Mille : haut = 12 * hi
    BY <2>1, <2>4
  <2>7. \A d \in G!Mesurees(r.domaines) : 12 * lo <= r.domaines[d] /\ r.domaines[d] <= 12 * hi
    BY <2>4, <2>5, <2>6
  <2>8. lo \in Int /\ hi \in Int /\ G!Mesurees(r.domaines) # {}
    BY <1>5, <1>6, CombleDe
  <2> HIDE DEF bas, haut, scores
  <2>9. \E j \in lo..hi : G!Indice(r.domaines) = 12 * j
    BY ONLY <1>2, <2>7, <2>8, IndiceEntre
  <2>10. PICK j \in lo..hi : r.global = 12 * j
    BY <1>3, <2>9
  <2>11. bas <= r.global /\ r.global <= haut
    BY <2>5, <2>6, <2>8, <2>10
  <2> QED BY <2>11 DEF bas, haut
<1>7. G!Min(scores) = I!Min(scores) /\ G!Max(scores) = I!Max(scores)
  BY MemesNotionsG
<1>8. r.disponible => G!Min(scores) <= r.global /\ r.global <= G!Max(scores)
  BY <1>6, <1>7
<1> QED BY <1>1, <1>4, <1>5, <1>8

-----------------------------------------------------------------------------
(* Sums by parts.                                                          *)
\* Any element can be taken out of a sum first.
LEMMA SommeSans ==
  ASSUME NEW Ens, IsFiniteSet(Ens), NEW f \in [Ens -> Int], NEW it, EstSomme(it, f, Ens)
  PROVE  \A s \in SUBSET Ens : \A a \in s : it[s] = f[a] + it[s \ {a}]
<1> DEFINE Bons == {s \in SUBSET Ens : \A a \in s : it[s] = f[a] + it[s \ {a}]}
<1>1. {} \in Bons
  OBVIOUS
<1>2. ASSUME NEW s \in SUBSET Ens, s # {}, \A x \in s : s \ {x} \in Bons PROVE s \in Bons
  <2> DEFINE x == Pris(s)
  <2>1. x \in s /\ it[s] = f[x] + it[s \ {x}]
    BY <1>2 DEF EstSomme
  <2> HIDE DEF x
  <2> SUFFICES ASSUME NEW a \in s, a # x PROVE it[s] = f[a] + it[s \ {a}]
    BY <2>1
  <2>2. it[s \ {x}] = f[a] + it[(s \ {x}) \ {a}]
    BY <1>2, <2>1
  <2>3. it[s \ {a}] = f[x] + it[(s \ {a}) \ {x}]
    BY <1>2, <2>1
  <2>4. (s \ {x}) \ {a} = (s \ {a}) \ {x} /\ (s \ {a}) \ {x} \in SUBSET Ens
    OBVIOUS
  <2> DEFINE reste == it[(s \ {a}) \ {x}]
  <2>5. it[s \ {x}] = f[a] + reste /\ it[s \ {a}] = f[x] + reste
    BY <2>2, <2>3, <2>4
  <2>6. f[a] \in Int /\ f[x] \in Int /\ reste \in Int
    BY <2>1, <2>4 DEF EstSomme
  <2> HIDE DEF reste
  <2> QED BY ONLY <2>1, <2>5, <2>6
<1>3. SUBSET Ens \subseteq Bons
  <2> HIDE DEF Bons
  <2> QED BY <1>1, <1>2, RecurrenceFinie
<1> QED BY <1>3

\* The sum over two parts that have nothing in common is that of their sums.
LEMMA SommeUnion ==
  ASSUME NEW Ens, IsFiniteSet(Ens), NEW f \in [Ens -> Int], NEW it, EstSomme(it, f, Ens),
         NEW a \in SUBSET Ens, NEW b \in SUBSET Ens, a \cap b = {}
  PROVE  it[a \cup b] = it[a] + it[b]
<1> DEFINE Bons == {s \in SUBSET Ens : a \cap s = {} => it[a \cup s] = it[a] + it[s]}
<1>0. \A s \in SUBSET Ens : it[s] \in Int
  BY DEF EstSomme
<1>1. {} \in Bons
  <2>1. a \cup {} = a /\ it[{}] = 0 /\ it[a] \in Int
    BY <1>0 DEF EstSomme
  <2> QED BY <2>1
<1>2. ASSUME NEW s \in SUBSET Ens, s # {}, \A x \in s : s \ {x} \in Bons PROVE s \in Bons
  <2> SUFFICES ASSUME a \cap s = {} PROVE it[a \cup s] = it[a] + it[s]
    OBVIOUS
  <2>1. PICK x \in s : TRUE
    BY <1>2
  <2>2. it[s] = f[x] + it[s \ {x}]
    BY SommeSans
  <2>3. it[a \cup s] = f[x] + it[(a \cup s) \ {x}]
    BY SommeSans
  <2>4. (a \cup s) \ {x} = a \cup (s \ {x}) /\ a \cap (s \ {x}) = {} /\ s \ {x} \in SUBSET Ens
    OBVIOUS
  <2>5. it[a \cup (s \ {x})] = it[a] + it[s \ {x}]
    BY <1>2, <2>4
  <2>6. f[x] \in Int /\ it[a] \in Int /\ it[s \ {x}] \in Int
    BY <1>0, <2>4
  <2>7. it[a \cup s] = f[x] + (it[a] + it[s \ {x}])
    BY <2>3, <2>4, <2>5
  <2> DEFINE reste == it[s \ {x}]
  <2> HIDE DEF reste
  <2>8. it[s] = f[x] + reste /\ it[a \cup s] = f[x] + (it[a] + reste) /\ reste \in Int
    BY <2>2, <2>6, <2>7 DEF reste
  <2> QED BY ONLY <2>6, <2>8
<1>3. SUBSET Ens \subseteq Bons
  <2> HIDE DEF Bons
  <2> QED BY <1>1, <1>2, RecurrenceFinie
<1> QED BY <1>3

\* The sum over a part is what is added up of it.
LEMMA PartDuTotal ==
  ASSUME NEW Ens, IsFiniteSet(Ens), NEW f \in [Ens -> Int], NEW it, EstSomme(it, f, Ens), NEW p \in SUBSET Ens
  PROVE  Total([x \in p |-> f[x]]) = it[p]
<1> DEFINE g == [x \in p |-> f[x]]
<1>1. IsFiniteSet(p) /\ g \in [p -> Int] /\ \A x \in p : g[x] = f[x]
  BY FS_Subset
<1> HIDE DEF g
<1>2. PICK jt : EstSomme(jt, g, p)
  BY <1>1, Sommation
<1> DEFINE Bons == {s \in SUBSET p : it[s] = jt[s]}
<1>3. {} \in Bons
  BY <1>2 DEF EstSomme
<1>4. ASSUME NEW s \in SUBSET p, s # {}, \A x \in s : s \ {x} \in Bons PROVE s \in Bons
  <2> DEFINE x == Pris(s)
  <2>1. x \in s /\ it[s] = f[x] + it[s \ {x}] /\ jt[s] = g[x] + jt[s \ {x}]
    BY <1>2, <1>4 DEF EstSomme
  <2> HIDE DEF x
  <2> QED BY <1>1, <1>4, <2>1
<1>5. SUBSET p \subseteq Bons
  <2> HIDE DEF Bons
  <2> QED BY <1>1, <1>3, <1>4, RecurrenceFinie
<1> QED BY <1>2, <1>5 DEF EstSomme, g

\* Those whose label is one of s.
Etiquetes(Gens, lab, s) == {i \in Gens : lab[i] \in s}
\* f gives of each label what it gives of those who have it.
Repartit(f, ens, it, gens, lab) ==
  f \in [ens -> Int] /\ \A k \in ens : f[k] = it[Etiquetes(gens, lab, {k})]

\* What is of each label, added up over the labels, is what is of one of them.
LEMMA TotalParEtiquette ==
  ASSUME NEW Ens, IsFiniteSet(Ens), NEW Gens, IsFiniteSet(Gens), NEW val \in [Gens -> Int], NEW it,
         EstSomme(it, val, Gens), NEW lab, NEW f, Repartit(f, Ens, it, Gens, lab)
  PROVE  Total(f) = it[Etiquetes(Gens, lab, Ens)]
<1> USE DEF Repartit
<1> DEFINE de(s) == Etiquetes(Gens, lab, s)
<1>1. PICK jt : EstSomme(jt, f, Ens)
  BY Sommation
<1>0. \A a, b \in SUBSET Gens : a \cap b = {} => it[a \cup b] = it[a] + it[b]
  BY SommeUnion
<1> DEFINE Bons == {s \in SUBSET Ens : jt[s] = it[de(s)]}
<1>2. {} \in Bons
  <2>1. de({}) = {}
    BY DEF Etiquetes
  <2> HIDE DEF de
  <2> QED BY <1>1, <2>1 DEF EstSomme
<1>3. ASSUME NEW s \in SUBSET Ens, s # {}, \A x \in s : s \ {x} \in Bons PROVE s \in Bons
  <2> DEFINE x == Pris(s)
             siens == de({x})
             autres == de(s \ {x})
  <2>1. x \in s /\ jt[s] = f[x] + jt[s \ {x}]
    BY <1>1, <1>3 DEF EstSomme
  <2> HIDE DEF x
  <2>2. f[x] = it[siens] /\ jt[s \ {x}] = it[autres]
    BY <1>3, <2>1
  <2>3. de(s) = siens \cup autres /\ siens \cap autres = {} /\ siens \in SUBSET Gens /\ autres \in SUBSET Gens
    BY <2>1 DEF Etiquetes
  <2> HIDE DEF siens, autres, de
  <2>4. it[siens \cup autres] = it[siens] + it[autres]
    BY <1>0, <2>3
  <2> QED BY <2>1, <2>2, <2>3, <2>4
<1>4. SUBSET Ens \subseteq Bons
  <2> HIDE DEF Bons
  <2> QED BY <1>2, <1>3, RecurrenceFinie
<1> QED BY <1>1, <1>4 DEF EstSomme

-----------------------------------------------------------------------------
(* The HR figures.                                                         *)
\* The rows of the period in the perimeter, and their payroll.
Vues(c) == {r \in c.rh : r.fil \in c.perimetre /\ G!Contient(G!Trimestre(c.trimestre), r.mois)}
Paies(lignes) == [r \in lignes |-> r["paie"]]

Champs(lignes, champ) == [r \in lignes |-> r[champ]]

\* Nothing sums to nothing.
LEMMA SommeDeRien ==
  ASSUME NEW champ
  PROVE  Total(Champs({}, champ)) = 0
<1> DEFINE f == Champs({}, champ)
<1>1. f \in [{} -> Int] /\ IsFiniteSet({})
  BY FS_EmptySet DEF Champs
<1> HIDE DEF f
<1>2. PICK it : EstSomme(it, f, {})
  BY <1>1, Sommation
<1> QED BY <1>2 DEF EstSomme, f

\* An empty mart gives a summary of zeros, and zeros to quote.
LEMMA MartVide ==
  ASSUME NEW c, c.rh = {}
  PROVE  /\ G!SyntheseRh(c.rh, c).paie = 0 /\ G!SyntheseRh(c.rh, c).entrees = 0 /\ G!SyntheseRh(c.rh, c).sorties = 0
         /\ G!Citees(c)[1] \in {G!ND, 0}
<1> DEFINE v == {r \in c.rh : r.fil \in c.perimetre /\ G!Contient(G!Trimestre(c.trimestre), r.mois)}
           u == {r \in c.rh : G!Permis(c, r.fil) /\ G!Contient(G!Trimestre(c.trimestre), r.mois)}
<1>1. v = {} /\ u = {}
  OBVIOUS
<1>2. \A ens, champ : G!MapThenSumSet(LAMBDA r : r[champ], ens) = Total(Champs(ens, champ))
  BY SommeDuChamp DEF Champs
<1>3. /\ G!SyntheseRh(c.rh, c).paie = G!MapThenSumSet(LAMBDA r : r["paie"], v)
      /\ G!SyntheseRh(c.rh, c).entrees = G!MapThenSumSet(LAMBDA r : r["entrees"], v)
      /\ G!SyntheseRh(c.rh, c).sorties = G!MapThenSumSet(LAMBDA r : r["sorties"], v)
  BY DEF G!SyntheseRh
<1>4. G!Citees(c)[1] \in {G!ND, G!MapThenSumSet(LAMBDA r : r["paie"], u)}
  BY DEF G!Citees
<1> HIDE DEF v, u
<1>5. \A champ : Total(Champs(v, champ)) = 0 /\ Total(Champs(u, champ)) = 0
  BY <1>1, SommeDeRien
<1>6. /\ G!SyntheseRh(c.rh, c).paie = Total(Champs(v, "paie"))
      /\ G!SyntheseRh(c.rh, c).entrees = Total(Champs(v, "entrees"))
      /\ G!SyntheseRh(c.rh, c).sorties = Total(Champs(v, "sorties"))
      /\ G!Citees(c)[1] \in {G!ND, Total(Champs(u, "paie"))}
  BY <1>2, <1>3, <1>4
<1> QED BY <1>5, <1>6

\* The summary of the HR rows, figure by figure.
LEMMA SyntheseDe ==
  ASSUME NEW c
  PROVE  /\ G!SyntheseRh(c.rh, c).paie = Total(Paies(Vues(c)))
         /\ DOMAIN G!SyntheseRh(c.rh, c).filiales = {r.fil : r \in Vues(c)}
         /\ \A f \in {r.fil : r \in Vues(c)} :
              G!SyntheseRh(c.rh, c).filiales[f] = Total(Paies({r \in Vues(c) : r.fil = f}))
<1> DEFINE v == Vues(c)
<1>1. /\ G!SyntheseRh(c.rh, c).paie = G!MapThenSumSet(LAMBDA r : r["paie"], v)
      /\ G!SyntheseRh(c.rh, c).filiales
           = [f \in {r.fil : r \in v} |-> G!MapThenSumSet(LAMBDA r : r.paie, {r \in v : r.fil = f})]
  BY DEF G!SyntheseRh, Vues
<1>2. \A ens : G!MapThenSumSet(LAMBDA r : r["paie"], ens) = Total(Paies(ens))
  BY SommeDuChamp DEF Paies
<1>3. \A ens : G!MapThenSumSet(LAMBDA r : r.paie, ens) = Total(Paies(ens))
  BY SommeDuChamp DEF Paies
<1> HIDE DEF v
<1> QED BY <1>1, <1>2, <1>3 DEF v

\* What the copilot quotes, when it quotes something.
LEMMA CiteDe ==
  ASSUME NEW c
  PROVE  /\ (c.panne \/ ~c.habilite) => G!Citees(c)[1] = G!ND
         /\ ~(c.panne \/ ~c.habilite) =>
              G!Citees(c)[1] = Total(Paies({r \in Vues(c) : c.filtre \in {G!ToutesFiliales, r.fil}}))
<1> DEFINE v == {r \in c.rh : G!Permis(c, r.fil) /\ G!Contient(G!Trimestre(c.trimestre), r.mois)}
<1>1. v = {r \in Vues(c) : c.filtre \in {G!ToutesFiliales, r.fil}}
  BY DEF Vues, G!Permis
<1>2. (c.panne \/ ~c.habilite) => G!Citees(c)[1] = G!ND
  BY DEF G!Citees
<1>3. ~(c.panne \/ ~c.habilite) => G!Citees(c)[1] = G!MapThenSumSet(LAMBDA r : r["paie"], v)
  BY DEF G!Citees
<1>4. G!MapThenSumSet(LAMBDA r : r["paie"], v) = Total(Paies(v))
  BY SommeDuChamp DEF Paies
<1> HIDE DEF v
<1> QED BY <1>1, <1>2, <1>3, <1>4

\* The payrolls of the subsidiaries of a list add up to that of their rows.
LEMMA MasseDes ==
  ASSUME NEW c, Lu(c), NEW liste \in SUBSET {r.fil : r \in Vues(c)}
  PROVE  G!Somme(G!SyntheseRh(c.rh, c).filiales, liste) = Total(Paies({r \in Vues(c) : r.fil \in liste}))
<1> DEFINE v == Vues(c)
           val == Paies(v)
           fils == G!SyntheseRh(c.rh, c).filiales
           f == [k \in liste |-> fils[k]]
           lab == [r \in v |-> r.fil]
<1>1. v \in SUBSET c.rh /\ LignesRhSaines(c.rh)
  BY CasLu DEF Vues
<1>2. IsFiniteSet(v) /\ \A r \in v : r["paie"] \in Int
  BY <1>1, FS_Subset DEF LignesRhSaines
<1>3. liste \in SUBSET {lab[r] : r \in v}
  OBVIOUS
<1>4. IsFiniteSet(liste)
  <2>1. IsFiniteSet({lab[r] : r \in v})
    <3> HIDE DEF v, lab
    <3> QED BY <1>2, ImageFinie
  <2> QED BY <1>3, <2>1, FS_Subset
<1>5. val \in [v -> Int] /\ \A r \in v : val[r] = r["paie"]
  BY <1>2 DEF Paies
<1>6. \A k \in liste : fils[k] = Total(Paies({r \in v : r.fil = k}))
  BY <1>3, SyntheseDe
<1>7. \A p \in SUBSET v : Paies(p) = [r \in p |-> val[r]]
  BY DEF Paies
<1>8. G!Somme(fils, liste) = Total(f)
  BY SommeG
<1>9. \A r \in v : lab[r] = r.fil
  OBVIOUS
<1>10. f = [k \in liste |-> fils[k]]
  OBVIOUS
<1> HIDE DEF v, val, fils, f, lab
<1>11. PICK it : EstSomme(it, val, v)
  BY <1>2, <1>5, Sommation
<1>12. \A p \in SUBSET v : Total(Paies(p)) = it[p] /\ it[p] \in Int
  <2> SUFFICES ASSUME NEW p \in SUBSET v PROVE Total(Paies(p)) = it[p] /\ it[p] \in Int
    OBVIOUS
  <2>1. Total([r \in p |-> val[r]]) = it[p]
    BY <1>2, <1>5, <1>11, PartDuTotal
  <2> QED BY <1>7, <1>11, <2>1 DEF EstSomme
<1>13. f \in [liste -> Int] /\ \A k \in liste : f[k] = it[Etiquetes(v, lab, {k})]
  <2> SUFFICES ASSUME NEW k \in liste PROVE f[k] \in Int /\ f[k] = it[Etiquetes(v, lab, {k})]
    BY <1>10
  <2>1. Etiquetes(v, lab, {k}) = {r \in v : r.fil = k} /\ {r \in v : r.fil = k} \in SUBSET v
    BY <1>9 DEF Etiquetes
  <2> QED BY <1>6, <1>10, <1>12, <2>1
<1>14. Total(f) = it[Etiquetes(v, lab, liste)]
  <2>1. Repartit(f, liste, it, v, lab)
    BY ONLY <1>13 DEF Repartit
  <2> QED BY ONLY <1>2, <1>4, <1>5, <1>11, <2>1, TotalParEtiquette
<1>15. Etiquetes(v, lab, liste) = {r \in v : r.fil \in liste} /\ {r \in v : r.fil \in liste} \in SUBSET v
  BY <1>9 DEF Etiquetes
<1>16. G!Somme(fils, liste) = Total(Paies({r \in v : r.fil \in liste}))
  BY <1>8, <1>12, <1>14, <1>15
<1> QED BY <1>16 DEF v, fils

\* A page whose mart is down shows no figure.
LEMMA DomaineSansMart ==
  ASSUME NEW c, c.panne
  PROVE  G!PageDomaine(c, "immobilier").corps.global = G!ND /\ G!PageDomaine(c, "immobilier").etat = "error"
<1> DEFINE w == G!Cadres["immobilier"]
           q == G!Trimestre(c.trimestre)
<1>1. /\ G!PageDomaine(c, "immobilier").corps = G!Agregat({}, q, w)
      /\ G!PageDomaine(c, "immobilier").etat = "error"
  BY DEF G!PageDomaine, G!Reponse, G!Degradee, G!EtatDuMart
<1>2. "immobilier" \in G!Range(G!Domaines)
  <2>1. G!Domaines[1] = "immobilier" /\ 1 \in DOMAIN G!Domaines
    BY DEF G!Domaines
  <2> QED BY <2>1 DEF G!Range
<1> HIDE DEF q
<1>3. G!Agregat({}, q, w).global = G!Pondere(G!Moyennes({}), w)
  <2>1. {r \in {} : G!Contient(q, r.mois)} = {}
    OBVIOUS
  <2> HIDE DEF w
  <2>2. \A x : x = {r \in {} : G!Contient(q, r.mois)} => G!Agregat({}, q, w).global = G!Pondere(G!Moyennes(x), w)
    BY DEF G!Agregat
  <2> QED BY <2>1, <2>2
<1>4. G!Pondere(G!Moyennes({}), w) = G!ND
  <2>1. IsFiniteSet({})
    BY FS_EmptySet
  <2> QED BY <1>2, <2>1, NoteDesLignes
<1> QED BY <1>1, <1>3, <1>4

\* The HR figures agree from page to page.
LEMMA ChiffresRhTenus ==
  ASSUME Lu(x1), x2 = G!Pages(x1)
  PROVE  G!ChiffresRhConcordent
<1> DEFINE c == x1
           syn == G!SyntheseRh(c.rh, c)
           s == x2.rh.corps
           t == x2.apercu.corps.hr
           dite == x2.copilote.corps[1]
           fils == {r.fil : r \in Vues(c)}
<1>1. /\ s = IF c.panne \/ c.rh = {} THEN G!SyntheseVide ELSE syn
      /\ t = IF c.panne THEN G!TableauAbsent ELSE G!TableauRh(syn)
      /\ dite = G!Citees(c)[1]
  <2>1. s = G!PageRh(c).corps /\ t = G!PageApercu(c).corps.hr /\ dite = G!Citees(c)[1]
    BY PagesLues
  <2>2. G!PageRh(c).corps = IF c.panne \/ c.rh = {} THEN G!SyntheseVide ELSE syn
    BY DEF G!PageRh, G!Reponse, G!Degradee
  <2>3. G!PageApercu(c).corps.hr = IF c.panne THEN G!TableauAbsent ELSE G!TableauRh(syn)
    BY DEF G!PageApercu, G!Reponse, G!Apercu
  <2> QED BY <2>1, <2>2, <2>3
<1>2. x2.domaine = G!PageDomaine(c, "immobilier")
  BY PagesLues
<1>3. ~G!SyntheseVide.disponible /\ G!SyntheseVide.paie = G!ND
  BY DEF G!SyntheseVide
<1>4. ~G!TableauAbsent.disponible /\ G!TableauAbsent.valeurs = <<G!ND, G!ND, G!ND>>
  BY DEF G!TableauAbsent
<1>5. G!TableauRh(syn).valeurs = <<syn.paie, syn.entrees, syn.sorties>>
  BY DEF G!TableauRh
<1>6. c.panne \in BOOLEAN
  BY CasLu
<1>7. DOMAIN syn.filiales = fils
  BY SyntheseDe
<1>8. syn.paie = G!Somme(syn.filiales, fils)
  <2>1. {r \in Vues(c) : r.fil \in fils} = Vues(c)
    OBVIOUS
  <2>2. fils \in SUBSET {r.fil : r \in Vues(c)}
    OBVIOUS
  <2>3. G!Somme(syn.filiales, fils) = Total(Paies({r \in Vues(c) : r.fil \in fils}))
    BY <2>2, MasseDes
  <2> QED BY <2>1, <2>3, SyntheseDe
<1>9. ASSUME ~c.panne, c.habilite
      PROVE  dite = G!Somme(syn.filiales, {f \in fils : c.filtre \in {G!ToutesFiliales, f}})
  <2> DEFINE liste == {f \in fils : c.filtre \in {G!ToutesFiliales, f}}
  <2>1. {r \in Vues(c) : r.fil \in liste} = {r \in Vues(c) : c.filtre \in {G!ToutesFiliales, r.fil}}
    OBVIOUS
  <2>2. liste \in SUBSET {r.fil : r \in Vues(c)}
    OBVIOUS
  <2>3. G!Somme(syn.filiales, liste) = Total(Paies({r \in Vues(c) : r.fil \in liste}))
    BY <2>2, MasseDes
  <2>4. dite = Total(Paies({r \in Vues(c) : c.filtre \in {G!ToutesFiliales, r.fil}}))
    BY <1>1, <1>9, CiteDe
  <2> QED BY <2>1, <2>3, <2>4
<1>10. ~c.habilite \/ c.panne => dite = G!ND
  BY <1>1, CiteDe
<1>11. c.panne => x2.domaine.corps.global = G!ND /\ x2.domaine.etat = "error"
  BY <1>2, DomaineSansMart
<1>12. s.disponible =>
         /\ <<s.paie, s.entrees, s.sorties>> = t.valeurs
         /\ s.paie = G!Somme(s.filiales, DOMAIN s.filiales)
         /\ dite # G!ND => dite = G!Somme(s.filiales, {f \in DOMAIN s.filiales : c.filtre \in {G!ToutesFiliales, f}})
  <2> SUFFICES ASSUME s.disponible
               PROVE  /\ <<s.paie, s.entrees, s.sorties>> = t.valeurs
                      /\ s.paie = G!Somme(s.filiales, DOMAIN s.filiales)
                      /\ dite # G!ND => dite = G!Somme(s.filiales, {f \in DOMAIN s.filiales : c.filtre \in {G!ToutesFiliales, f}})
    OBVIOUS
  <2> HIDE DEF s, t, dite, syn, fils, c
  <2>1. ~c.panne /\ s = syn /\ t = G!TableauRh(syn)
    BY <1>1, <1>3, <1>4
  <2> QED BY <1>5, <1>7, <1>8, <1>9, <1>10, <2>1
<1>13. c.panne => /\ s.paie = G!ND /\ dite = G!ND /\ t.valeurs = <<G!ND, G!ND, G!ND>>
                  /\ x2.domaine.corps.global = G!ND /\ x2.domaine.etat = "error"
  <2> HIDE DEF s, t, dite, syn, fils, c
  <2> QED BY <1>1, <1>3, <1>4, <1>10, <1>11
<1>14. syn.disponible = TRUE /\ G!TableauRh(syn).disponible = TRUE
  BY DEF G!SyntheseRh, G!TableauRh
<1>15. /\ t.disponible <=> ~c.panne
       /\ s.disponible <=> ~c.panne /\ c.rh # {}
  <2> HIDE DEF s, t, dite, syn, fils, c
  <2> QED BY <1>1, <1>3, <1>4, <1>14
<1>16. (t.disponible /\ ~s.disponible) => t.valeurs = <<0, 0, 0>> /\ s.paie = G!ND /\ dite \in {G!ND, 0}
  <2>1. c.rh = {} => syn.paie = 0 /\ syn.entrees = 0 /\ syn.sorties = 0 /\ G!Citees(c)[1] \in {G!ND, 0}
    BY MartVide
  <2> HIDE DEF s, t, dite, syn, fils, c
  <2> QED BY <1>1, <1>3, <1>5, <1>15, <2>1
<1> QED BY <1>12, <1>13, <1>15, <1>16 DEF G!ChiffresRhConcordent

-----------------------------------------------------------------------------
(* The alerts.                                                             *)
\* The places of s where a has an alert of this severity, and how many a has.
Parmi(a, s, sev) == {i \in s : a[i].severite = sev}
Combien(a, sev) == Cardinality(Parmi(a, DOMAIN a, sev))
DeSeverite(ens, sev) == {x \in ens : x.severite = sev}

\* Going through the alerts, one at a time.
Garde(it, a, sev) ==
  it = [s \in SUBSET DOMAIN a |->
          IF s = {} THEN <<>>
          ELSE IF a[G!Max(s)].severite = sev THEN Append(it[s \ {G!Max(s)}], a[G!Max(s)]) ELSE it[s \ {G!Max(s)}]]

\* The alerts of a severity are what going through them keeps.
LEMMA DeGarde ==
  ASSUME NEW a, NEW sev
  PROVE  G!De(a, sev) = (CHOOSE it : Garde(it, a, sev))[DOMAIN a]
BY Zenon DEF G!De, G!FoldLeft, G!MapThenFoldSet, Garde

\* They are alerts of the list, all of that severity, and as many as the list has.
LEMMA DeBien ==
  ASSUME NEW Al, NEW a \in Seq(Al), NEW sev
  PROVE  G!De(a, sev) \in Seq(DeSeverite(Al, sev)) /\ Len(G!De(a, sev)) = Combien(a, sev)
<1> DEFINE ens == DOMAIN a
           siennes == DeSeverite(Al, sev)
           val == Seq(siennes)
           c == [s \in SUBSET ens |-> G!Max(s)]
           comb == [p \in ens \X val |-> IF a[p[1]].severite = sev THEN Append(p[2], a[p[1]]) ELSE p[2]]
           garde == CHOOSE it : Garde(it, a, sev)
<1>1. IsFiniteSet(ens) /\ ens \in SUBSET Int
  BY FS_Interval
<1>2. \A i \in ens : a[i] \in Al
  OBVIOUS
<1>3. ASSUME NEW s \in SUBSET ens, s # {} PROVE G!Max(s) \in s
  <2>1. I!Max(s) \in s
    BY <1>1, <1>3, FS_Subset, MaxDesJuges
  <2> QED BY <2>1, MemesNotionsG
<1>4. ASSUME NEW x \in ens, NEW w \in val
      PROVE  /\ comb[<<x, w>>] = IF a[x].severite = sev THEN Append(w, a[x]) ELSE w
             /\ comb[<<x, w>>] \in val
  <2> HIDE DEF ens, val
  <2>1. comb[<<x, w>>] = IF a[x].severite = sev THEN Append(w, a[x]) ELSE w
    OBVIOUS
  <2>2. a[x].severite = sev => a[x] \in siennes
    BY <1>2 DEF DeSeverite
  <2> HIDE DEF siennes, comb
  <2>3. a[x].severite = sev => Append(w, a[x]) \in val
    BY <2>2 DEF val
  <2> QED BY <2>1, <2>3
<1>5. \E it \in [SUBSET ens -> val] : Deroule(it, ens, <<>>, c, comb)
  <2>1. Choisit(c, ens)
    BY <1>3 DEF Choisit
  <2>2. Combine(comb, ens, val)
    BY <1>4 DEF Combine
  <2>3. <<>> \in val
    OBVIOUS
  <2> HIDE DEF c, comb, ens, val
  <2> QED BY <1>1, <2>1, <2>2, <2>3, Repli
<1>6. PICK it \in [SUBSET ens -> val] : Deroule(it, ens, <<>>, c, comb)
  BY <1>5
<1>7. Garde(it, a, sev)
  <2> DEFINE suite(s) == IF a[G!Max(s)].severite = sev THEN Append(it[s \ {G!Max(s)}], a[G!Max(s)])
                         ELSE it[s \ {G!Max(s)}]
  <2>1. ASSUME NEW s \in SUBSET ens, s # {} PROVE comb[<<c[s], it[s \ {c[s]}]>>] = suite(s)
    <3> DEFINE x == G!Max(s)
               w == it[s \ {x}]
    <3>1. c[s] = x
      OBVIOUS
    <3>2. x \in ens /\ s \ {x} \in SUBSET ens
      BY <1>3, <2>1
    <3>3. w \in val
      <4> HIDE DEF val, ens, x
      <4> QED BY <3>2
    <3> HIDE DEF comb, c, val, ens
    <3> QED BY <1>4, <3>1, <3>2, <3>3
  <2>2. it = [s \in SUBSET ens |-> IF s = {} THEN <<>> ELSE comb[<<c[s], it[s \ {c[s]}]>>]]
    BY <1>6 DEF Deroule
  <2>3. it = [s \in SUBSET ens |-> IF s = {} THEN <<>> ELSE suite(s)]
    <3> HIDE DEF comb, c, suite
    <3> QED BY <2>1, <2>2
  <2> QED BY <2>3 DEF Garde
<1>8. Garde(garde, a, sev)
  <2> HIDE DEF ens, val
  <2> QED BY <1>7
<1>9. /\ garde[{}] = <<>>
      /\ \A s \in SUBSET ens : s # {} =>
           garde[s] = IF a[G!Max(s)].severite = sev THEN Append(garde[s \ {G!Max(s)}], a[G!Max(s)])
                      ELSE garde[s \ {G!Max(s)}]
  <2> HIDE DEF garde
  <2>1. garde = [s \in SUBSET ens |->
                   IF s = {} THEN <<>>
                   ELSE IF a[G!Max(s)].severite = sev THEN Append(garde[s \ {G!Max(s)}], a[G!Max(s)])
                        ELSE garde[s \ {G!Max(s)}]]
    BY <1>8 DEF Garde
  <2>2. garde[{}] = <<>>
    BY <2>1
  <2>3. ASSUME NEW s \in SUBSET ens, s # {}
        PROVE  garde[s] = IF a[G!Max(s)].severite = sev THEN Append(garde[s \ {G!Max(s)}], a[G!Max(s)])
                          ELSE garde[s \ {G!Max(s)}]
    <3> HIDE DEF ens
    <3> QED BY <2>1, <2>3
  <2> QED BY <2>2, <2>3
<1> HIDE DEF garde
<1> DEFINE bons == {s \in SUBSET ens : garde[s] \in val /\ Len(garde[s]) = Cardinality(Parmi(a, s, sev))}
<1>10. {} \in bons
  <2>1. Parmi(a, {}, sev) = {}
    BY DEF Parmi
  <2>2. garde[{}] \in val /\ Len(garde[{}]) = 0
    BY <1>9
  <2> QED BY <2>1, <2>2, FS_EmptySet
<1>11. ASSUME NEW s \in SUBSET ens, s # {}, \A x \in s : s \ {x} \in bons PROVE s \in bons
  <2> DEFINE x == G!Max(s)
             reste == Parmi(a, s \ {x}, sev)
             w == garde[s \ {x}]
  <2>1. x \in s /\ garde[s] = IF a[x].severite = sev THEN Append(w, a[x]) ELSE w
    BY <1>3, <1>9, <1>11
  <2> HIDE DEF x
  <2>2. w \in val /\ Len(w) = Cardinality(reste)
    BY <1>11, <2>1
  <2>3. IsFiniteSet(reste)
    <3>1. reste \in SUBSET ens
      BY DEF Parmi
    <3> HIDE DEF reste, ens
    <3> QED BY <1>1, <3>1, FS_Subset
  <2>4. x \notin reste
    BY DEF Parmi
  <2>5. CASE a[x].severite = sev
    <3>1. Parmi(a, s, sev) = reste \cup {x}
      BY <2>1, <2>5 DEF Parmi
    <3> HIDE DEF reste
    <3>2. Cardinality(reste \cup {x}) = Cardinality(reste) + 1
      BY <2>3, <2>4, FS_AddElement
    <3>3. a[x] \in siennes
      BY <1>2, <2>1, <2>5 DEF DeSeverite
    <3>4. garde[s] = Append(w, a[x])
      BY <2>1, <2>5
    <3> HIDE DEF w, siennes
    <3>5. Append(w, a[x]) \in val /\ Len(Append(w, a[x])) = Len(w) + 1
      BY <2>2, <3>3 DEF val
    <3> QED BY <2>2, <3>1, <3>2, <3>4, <3>5
  <2>6. CASE a[x].severite # sev
    <3>1. Parmi(a, s, sev) = reste
      BY <2>1, <2>6 DEF Parmi
    <3>2. garde[s] = w
      BY <2>1, <2>6
    <3> HIDE DEF w, val
    <3> QED BY <2>2, <3>1, <3>2
  <2> QED BY <2>5, <2>6
<1>12. SUBSET ens \subseteq bons
  <2> HIDE DEF bons, ens
  <2> QED BY <1>1, <1>10, <1>11, RecurrenceFinie
<1> HIDE DEF val
<1>13. garde[ens] \in val /\ Len(garde[ens]) = Cardinality(Parmi(a, ens, sev))
  BY <1>12
<1> QED BY <1>13, DeGarde DEF garde, val, Combien

\* Two lists have the alerts of the one and those of the other.
LEMMA CombienAjoute ==
  ASSUME NEW Al, NEW a \in Seq(Al), NEW b \in Seq(Al), NEW sev
  PROVE  Combien(a \o b, sev) = Combien(a, sev) + Combien(b, sev)
<1> DEFINE n == Len(a)
           m == Len(b)
           ia == Parmi(a, DOMAIN a, sev)
           ib == Parmi(b, DOMAIN b, sev)
           plus == {i + n : i \in ib}
           f == [i \in ib |-> i + n]
<1>1. n \in Nat /\ m \in Nat /\ DOMAIN a = 1..n /\ DOMAIN b = 1..m
  OBVIOUS
<1>2. /\ DOMAIN (a \o b) = 1..(n + m)
      /\ \A i \in 1..(n + m) : (a \o b)[i] = IF i <= n THEN a[i] ELSE b[i - n]
  OBVIOUS
<1>3. ia \in SUBSET (1..n) /\ ib \in SUBSET (1..m)
  BY <1>1 DEF Parmi
<1>4. IsFiniteSet(ia) /\ IsFiniteSet(ib)
  <2>1. IsFiniteSet(1..n) /\ IsFiniteSet(1..m)
    BY <1>1, FS_Interval
  <2> HIDE DEF ia, ib, n, m
  <2> QED BY <1>3, <2>1, FS_Subset
<1>5. ExistsBijection(ib, plus)
  <2> HIDE DEF ib, n
  <2>0. \A i \in ib : i \in Int /\ n \in Int
    BY <1>1, <1>3
  <2>1. f \in Bijection(ib, plus)
    BY <2>0 DEF Bijection, Injection, Surjection, IsInjective
  <2> QED BY <2>1 DEF ExistsBijection
<1>6. Parmi(a \o b, DOMAIN (a \o b), sev) = ia \cup plus
  <2> DEFINE d == a \o b
  <2>1. ASSUME NEW i \in 1..(n + m) PROVE d[i].severite = sev <=> i \in ia \/ i \in plus
    <3>1. CASE i <= n
      <4>1. i \in 1..n /\ d[i] = a[i] /\ i \notin plus
        BY <1>1, <1>2, <1>3, <3>1
      <4> HIDE DEF plus, d
      <4> QED BY <1>1, <4>1 DEF Parmi
    <3>2. CASE i > n
      <4>1. i - n \in 1..m /\ d[i] = b[i - n] /\ i \notin ia
        BY <1>1, <1>2, <1>3, <3>2
      <4>2. i \in plus <=> i - n \in ib
        <5> HIDE DEF ib
        <5>1. (i - n) + n = i
          BY <1>1
        <5> QED BY <1>1, <1>3, <5>1
      <4>3. i - n \in ib <=> b[i - n].severite = sev
        BY <1>1, <4>1 DEF Parmi
      <4> HIDE DEF d, ia, ib, plus, n
      <4> QED BY <4>1, <4>2, <4>3
    <3> QED BY <1>1, <3>1, <3>2
  <2>2. ia \cup plus \in SUBSET (1..(n + m))
    <3> HIDE DEF ia, ib, n, m
    <3>1. \A i \in ib : i + n \in 1..(n + m)
      BY <1>1, <1>3
    <3>2. 1..n \subseteq 1..(n + m)
      BY <1>1
    <3> QED BY <1>3, <3>1, <3>2
  <2>3. Parmi(d, 1..(n + m), sev) = {i \in 1..(n + m) : d[i].severite = sev}
    BY DEF Parmi
  <2> HIDE DEF d, ia, plus, n, m
  <2> QED BY <1>2, <2>1, <2>2, <2>3 DEF d
<1>7. ia \cap plus = {}
  <2> HIDE DEF ia, ib
  <2> QED BY <1>1, <1>3
<1> HIDE DEF ia, ib, plus
<1>8. IsFiniteSet(plus) /\ Cardinality(plus) = Cardinality(ib)
  BY <1>4, <1>5, FS_Bijection
<1>9. Cardinality(ia \cup plus) = Cardinality(ia) + Cardinality(plus) - Cardinality(ia \cap plus)
  BY <1>4, <1>8, FS_Union
<1>10. Cardinality(ia) \in Nat /\ Cardinality(plus) \in Nat /\ Cardinality(ia \cap plus) = 0
  BY <1>4, <1>7, <1>8, FS_CardinalityType, FS_EmptySet
<1>11. Cardinality(ia \cup plus) = Cardinality(ia) + Cardinality(ib)
  BY ONLY <1>8, <1>9, <1>10
<1> QED BY <1>6, <1>11 DEF Combien, ia, ib

\* A function of 1..n is the list of its values.
LEMMA EnListe ==
  ASSUME NEW n \in Nat, NEW g, g = [i \in 1..n |-> g[i]]
  PROVE  g \in Seq({g[i] : i \in 1..n}) /\ Len(g) = n /\ DOMAIN g = 1..n
<1> DEFINE ens == {g[i] : i \in 1..n}
<1>1. \A i \in 1..n : g[i] \in ens
  OBVIOUS
<1> HIDE DEF ens
<1>2. g \in [1..n -> ens]
  BY <1>1
<1>3. g \in Seq(ens) /\ Len(g) = n
  BY <1>2
<1> QED BY <1>2, <1>3 DEF ens

\* Where the gravest come first, the critical alerts are the first ones, and as many as before.
LEMMA TriDesAlertes ==
  ASSUME NEW Al, NEW a \in Seq(Al)
  PROVE  /\ G!PlusGravesDabord(a) \in Seq(Al)
         /\ \A i, j \in DOMAIN G!PlusGravesDabord(a) :
              G!PlusGravesDabord(a)[i].severite = "critical" /\ G!PlusGravesDabord(a)[j].severite # "critical" => i < j
         /\ Len(G!De(G!PlusGravesDabord(a), "critical")) = Combien(a, "critical")
<1> DEFINE x == G!De(a, "critical")
           y == G!De(a, "warning")
           z == G!De(a, "info")
           t == G!PlusGravesDabord(a)
           n == Len(x)
<1>1. /\ x \in Seq(DeSeverite(Al, "critical")) /\ y \in Seq(DeSeverite(Al, "warning"))
      /\ z \in Seq(DeSeverite(Al, "info")) /\ n = Combien(a, "critical")
  BY DeBien
<1>2. t = (x \o y) \o z
  BY DEF G!PlusGravesDabord
<1> HIDE DEF x, y, z, t
<1>3. /\ \A i \in 1..Len(x) : x[i] \in Al /\ x[i].severite = "critical"
      /\ \A i \in 1..Len(y) : y[i] \in Al /\ y[i].severite # "critical"
      /\ \A i \in 1..Len(z) : z[i] \in Al /\ z[i].severite # "critical"
  <2>1. \A s : DeSeverite(Al, s) \in SUBSET Al /\ \A e \in DeSeverite(Al, s) : e.severite = s
    BY DEF DeSeverite
  <2>2. /\ \A i \in 1..Len(x) : x[i] \in DeSeverite(Al, "critical")
        /\ \A i \in 1..Len(y) : y[i] \in DeSeverite(Al, "warning")
        /\ \A i \in 1..Len(z) : z[i] \in DeSeverite(Al, "info")
    BY <1>1
  <2> QED BY <2>1, <2>2
<1>4. x \in Seq(Al) /\ y \in Seq(Al) /\ z \in Seq(Al)
  <2>1. \A s : DeSeverite(Al, s) \in SUBSET Al
    BY DEF DeSeverite
  <2> QED BY <1>1, <2>1, SeqMonotonic
<1>5. t \in Seq(Al)
  BY <1>2, <1>4
<1>6. Len(x) \in Nat /\ Len(y) \in Nat /\ Len(z) \in Nat /\ DOMAIN t = 1..(Len(x) + Len(y) + Len(z))
  BY <1>2, <1>4
<1>7. ASSUME NEW i \in DOMAIN t PROVE i \in Int /\ (i <= n <=> t[i].severite = "critical")
  <2>1. /\ i <= Len(x) => i \in 1..Len(x) /\ t[i] = x[i]
        /\ i > Len(x) /\ i <= Len(x) + Len(y) => i - Len(x) \in 1..Len(y) /\ t[i] = y[i - Len(x)]
        /\ i > Len(x) + Len(y) => i - (Len(x) + Len(y)) \in 1..Len(z) /\ t[i] = z[i - (Len(x) + Len(y))]
    BY <1>2, <1>4, <1>6
  <2> QED BY <1>3, <1>6, <2>1
<1>8. Parmi(t, DOMAIN t, "critical") = 1..n
  <2>1. ASSUME NEW i \in 1..n PROVE i \in DOMAIN t
    BY <1>6
  <2>2. n \in Nat /\ \A i \in DOMAIN t : i >= 1
    BY <1>6
  <2> HIDE DEF n
  <2> QED BY <1>7, <2>1, <2>2 DEF Parmi
<1>9. Cardinality(1..n) = n
  <2>1. n \in Nat
    BY <1>6
  <2> HIDE DEF n
  <2> QED BY <2>1, FS_Interval
<1>10. Len(G!De(t, "critical")) = n
  <2>1. Len(G!De(t, "critical")) = Combien(t, "critical")
    BY <1>5, DeBien
  <2> QED BY <1>8, <1>9, <2>1 DEF Combien
<1>11. \A i, j \in DOMAIN t : t[i].severite = "critical" /\ t[j].severite # "critical" => i < j
  <2>1. n \in Int
    BY <1>6
  <2> HIDE DEF n
  <2> QED BY <1>7, <2>1
<1> QED BY <1>1, <1>5, <1>10, <1>11 DEF t

\* The alerts made of scores, one each, are critical as the scores are.
GravesDe(v) == {k \in G!Mesurees(v) : v[k] < 60 * G!Point}

\* A list with one alert for each score of v has as many critical alerts as v has critical scores.
LEMMA AlertesDesScores ==
  ASSUME NEW n \in Nat, NEW v, NEW f, f \in Bijection(1..n, DOMAIN v), NEW a, DOMAIN a = 1..n,
         \A i \in 1..n : a[i].severite = G!SeveriteScore(v[f[i]])
  PROVE  Combien(a, "critical") = Cardinality(GravesDe(v))
<1> DEFINE p == Parmi(a, 1..n, "critical")
           g == [i \in p |-> f[i]]
           lim == 60 * G!Point
<1>1. \A x : G!SeveriteScore(x) = "critical" <=> x # G!ND /\ x < lim
  BY DEF G!SeveriteScore
<1>2. /\ \A i \in 1..n : f[i] \in DOMAIN v
      /\ \A i, j \in 1..n : f[i] = f[j] => i = j
      /\ \A k \in DOMAIN v : \E i \in 1..n : f[i] = k
  BY DEF Bijection, Injection, Surjection, IsInjective
<1>3. GravesDe(v) = {k \in DOMAIN v : v[k] # G!ND /\ v[k] < lim}
  BY DEF GravesDe, G!Mesurees
<1> HIDE DEF lim
<1>4. p \in SUBSET (1..n) /\ \A i \in 1..n : i \in p <=> f[i] \in GravesDe(v)
  BY <1>1, <1>2, <1>3 DEF Parmi
<1>5. GravesDe(v) \in SUBSET DOMAIN v
  BY <1>3
<1> HIDE DEF p
<1>6. g \in Bijection(p, GravesDe(v))
  <2> DEFINE t == GravesDe(v)
  <2> HIDE DEF t
  <2>1. \A i \in p : f[i] \in t
    BY <1>4 DEF t
  <2>2. \A k \in t : \E i \in p : f[i] = k
    BY <1>2, <1>4, <1>5 DEF t
  <2>3. \A i, j \in p : f[i] = f[j] => i = j
    BY <1>2, <1>4
  <2> QED BY <2>1, <2>2, <2>3 DEF Bijection, Injection, Surjection, IsInjective, t
<1>7. IsFiniteSet(p)
  <2>1. IsFiniteSet(1..n)
    BY FS_Interval
  <2> QED BY <1>4, <2>1, FS_Subset
<1>8. Cardinality(GravesDe(v)) = Cardinality(p)
  <2>1. ExistsBijection(p, GravesDe(v))
    BY <1>6 DEF ExistsBijection
  <2> QED BY <1>7, <2>1, FS_Bijection
<1> QED BY <1>8 DEF Combien, p

\* A finite set is listed once and only once.
LEMMA ListeDeLEnsemble ==
  ASSUME NEW ens, IsFiniteSet(ens)
  PROVE  /\ Cardinality(ens) \in Nat /\ DOMAIN G!SetToSeq(ens) = 1..Cardinality(ens)
         /\ G!SetToSeq(ens) \in Bijection(1..Cardinality(ens), ens)
<1> DEFINE n == Cardinality(ens)
<1>1. n \in Nat
  BY FS_CardinalityType
<1>2. PICK f : f \in Bijection(1..n, ens)
  <2>1. PICK m \in Nat : ExistsBijection(1..m, ens)
    BY FS_NatBijection
  <2>2. n = m
    BY <2>1, FS_CountingElements
  <2> QED BY <2>1, <2>2 DEF ExistsBijection
<1>3. \A g : G!IsInjective(g) <=> IsInjective(g)
  BY DEF G!IsInjective, IsInjective
<1>4. f \in [1..n -> ens] /\ G!IsInjective(f)
  BY <1>2, <1>3 DEF Bijection, Injection
<1>5. G!SetToSeq(ens) \in [1..n -> ens] /\ G!IsInjective(G!SetToSeq(ens))
  <2>1. G!SetToSeq(ens) = CHOOSE g \in [1..n -> ens] : G!IsInjective(g)
    BY MemesNotionsG DEF G!SetToSeq
  <2> HIDE DEF n
  <2> QED BY <1>4, <2>1
<1> DEFINE s == G!SetToSeq(ens)
<1>6. s \in Injection(1..n, ens)
  BY <1>3, <1>5 DEF Injection
<1>7. Cardinality(1..n) = n
  BY <1>1, FS_Interval
<1>8. s \in Surjection(1..n, ens)
  <2> HIDE DEF s
  <2> QED BY <1>6, <1>7, FS_Injection
<1> QED BY <1>1, <1>5, <1>6, <1>8 DEF Bijection

\* The domains are listed once each.
LEMMA DomainesUneFois ==
  /\ DOMAIN G!Domaines = 1..6 /\ G!Domaines = [i \in 1..6 |-> G!Domaines[i]]
  /\ G!Domaines \in Bijection(1..6, G!Range(G!Domaines))
<1> DEFINE s == G!Domaines
<1>1. DOMAIN s = 1..6 /\ s = [i \in 1..6 |-> s[i]]
  BY DEF G!Domaines
<1>2. \A i, j \in 1..6 : s[i] = s[j] => i = j
  <2>1. /\ s[1] = "immobilier" /\ s[2] = "finance" /\ s[3] = "commercial-clients" /\ s[4] = "capital-humain"
        /\ s[5] = "operations" /\ s[6] = "risques-conformite"
    BY DEF G!Domaines
  <2>2. \A i \in 1..6 : i = 1 \/ i = 2 \/ i = 3 \/ i = 4 \/ i = 5 \/ i = 6
    OBVIOUS
  <2> HIDE DEF s
  <2> QED BY <2>1, <2>2
<1>3. G!Range(s) = {s[i] : i \in DOMAIN s}
  BY DEF G!Range
<1> HIDE DEF s
<1>4. s \in Bijection(1..6, G!Range(s))
  BY <1>1, <1>2, <1>3 DEF Bijection, Injection, Surjection, IsInjective
<1> QED BY <1>1, <1>4 DEF s

\* The drop of the Group is never critical, and there is none before two months have a score.
LEMMA ChuteLegere ==
  ASSUME NEW t, IsFiniteSet(DOMAIN t)
  PROVE  \/ G!Chute(t) = <<>>
         \/ /\ Cardinality(G!Mesurees(t)) >= 2
            /\ \E x : G!Chute(t) = <<x>> /\ x.severite # "critical"
<1> DEFINE mois == G!Mesurees(t)
           perdus == t[G!Max(mois \ {G!Max(mois)})] - t[G!Max(mois)]
           x == G!Alerte(G!SeveriteChute(perdus), "Groupe", "trend", perdus)
<1>1. Cardinality(mois) \in Nat
  <2>1. mois \in SUBSET DOMAIN t
    BY DEF G!Mesurees
  <2> HIDE DEF mois
  <2> QED BY <2>1, FS_Subset, FS_CardinalityType
<1>2. G!Chute(t) = IF Cardinality(mois) < 2 THEN <<>> ELSE <<x>>
  BY MemesNotionsG DEF G!Chute
<1>3. x.severite # "critical"
  BY DEF G!Alerte, G!SeveriteChute
<1> HIDE DEF mois, x
<1> QED BY <1>1, <1>2, <1>3 DEF mois

\* What the alert centre says of a report.
LEMMA AlertesDuRapport ==
  ASSUME NEW r, IsFiniteSet(DOMAIN r.filiales), IsFiniteSet(DOMAIN r.tendance),
         DOMAIN r.domaines = G!Range(G!Domaines)
  PROVE  LET a == G!Alertes(r).alertes
         IN /\ \A i, j \in DOMAIN a : a[i].severite = "critical" /\ a[j].severite # "critical" => i < j
            /\ G!Alertes(r).comptes["critical"] =
                 Cardinality(GravesDe(r.domaines)) + Cardinality(GravesDe(r.filiales))
                   + Cardinality(GravesDe([groupe |-> r.global]))
            /\ (\E i \in DOMAIN a : a[i].genre = "trend") => Cardinality(G!Mesurees(r.tendance)) >= 2
<1> DEFINE score(p, v) == G!Alerte(G!SeveriteScore(v), p, "score", v)
           codes == G!SetToSeq(DOMAIN r.filiales)
           n == Cardinality(DOMAIN r.filiales)
           g1 == <<score("Groupe", r.global)>>
           g2 == [i \in DOMAIN G!Domaines |-> score(G!Domaines[i], r.domaines[G!Domaines[i]])]
           g3 == [i \in DOMAIN codes |-> score(codes[i], r.filiales[codes[i]])]
           g4 == G!Chute(r.tendance)
           toutes == g1 \o g2 \o g3 \o g4
           a == G!PlusGravesDabord(toutes)
           al1 == {g1[i] : i \in 1..1}
           al2 == {g2[i] : i \in 1..6}
           al3 == {g3[i] : i \in 1..n}
           lesScores == al1 \cup al2 \cup al3
           v1 == [groupe |-> r.global]
<1>1. G!Alertes(r).alertes = a /\ G!Alertes(r).comptes["critical"] = Len(G!De(a, "critical"))
  BY DEF G!Alertes
<1>2. \A p, v : score(p, v).severite = G!SeveriteScore(v) /\ score(p, v).genre = "score"
  BY DEF G!Alerte
<1>3. /\ n \in Nat /\ DOMAIN codes = 1..n /\ codes \in Bijection(1..n, DOMAIN r.filiales)
  BY ListeDeLEnsemble
<1>4. DOMAIN G!Domaines = 1..6 /\ G!Domaines \in Bijection(1..6, DOMAIN r.domaines)
  BY DomainesUneFois
<1> HIDE DEF score, codes, n
<1>5. /\ g1 \in Seq(al1) /\ Len(g1) = 1 /\ DOMAIN g1 = 1..1
      /\ g1[1].severite = G!SeveriteScore(r.global) /\ g1[1].genre = "score"
  <2>1. g1[1] = score("Groupe", r.global) /\ 1 \in 1..1
    OBVIOUS
  <2>2. g1 \in Seq(al1) /\ Len(g1) = 1 /\ DOMAIN g1 = 1..1
    OBVIOUS
  <2> HIDE DEF g1, al1
  <2> QED BY <1>2, <2>1, <2>2
<1>6. /\ g2 \in Seq(al2) /\ Len(g2) = 6 /\ DOMAIN g2 = 1..6
      /\ \A i \in 1..6 : g2[i].severite = G!SeveriteScore(r.domaines[G!Domaines[i]]) /\ g2[i].genre = "score"
  <2>1. g2 = [i \in 1..6 |-> g2[i]]
    BY <1>4
  <2>2. \A i \in 1..6 : g2[i] = score(G!Domaines[i], r.domaines[G!Domaines[i]])
    BY <1>4
  <2>3. 6 \in Nat
    OBVIOUS
  <2> HIDE DEF g2
  <2> QED BY <1>2, <2>1, <2>2, <2>3, EnListe
<1>7. /\ g3 \in Seq(al3) /\ Len(g3) = n /\ DOMAIN g3 = 1..n
      /\ \A i \in 1..n : g3[i].severite = G!SeveriteScore(r.filiales[codes[i]]) /\ g3[i].genre = "score"
  <2>1. g3 = [i \in 1..n |-> g3[i]]
    BY <1>3
  <2>2. \A i \in 1..n : g3[i] = score(codes[i], r.filiales[codes[i]])
    BY <1>3
  <2> HIDE DEF g3
  <2> QED BY <1>2, <1>3, <2>1, <2>2, EnListe
<1>8. \/ g4 = <<>>
      \/ /\ Cardinality(G!Mesurees(r.tendance)) >= 2
         /\ \E x : g4 = <<x>> /\ x.severite # "critical"
  BY ChuteLegere
<1>9. Combien(g1, "critical") = Cardinality(GravesDe(v1))
  <2> DEFINE f == [i \in 1..1 |-> "groupe"]
  <2>1. f \in Bijection(1..1, DOMAIN v1)
    <3>1. DOMAIN v1 = {"groupe"} /\ \A i \in 1..1 : i = 1
      OBVIOUS
    <3> QED BY <3>1 DEF Bijection, Injection, Surjection, IsInjective
  <2>2. \A i \in 1..1 : g1[i].severite = G!SeveriteScore(v1[f[i]])
    <3>1. \A i \in 1..1 : i = 1 /\ v1[f[i]] = r.global
      OBVIOUS
    <3> HIDE DEF g1, v1, f
    <3> QED BY <1>5, <3>1
  <2>3. 1 \in Nat
    OBVIOUS
  <2> HIDE DEF g1, v1, f
  <2> QED BY <1>5, <2>1, <2>2, <2>3, AlertesDesScores
<1>10. Combien(g2, "critical") = Cardinality(GravesDe(r.domaines))
  <2>1. 6 \in Nat
    OBVIOUS
  <2> HIDE DEF g2
  <2> QED BY <1>4, <1>6, <2>1, AlertesDesScores
<1>11. Combien(g3, "critical") = Cardinality(GravesDe(r.filiales))
  <2> HIDE DEF g3
  <2> QED BY <1>3, <1>7, AlertesDesScores
<1> HIDE DEF g1, g2, g3, g4, al1, al2, al3, v1
<1>12. lesScores \in SUBSET {x \in lesScores : x.genre = "score"}
  <2>1. \A x \in al1 : x.genre = "score"
    <3>1. \A i \in 1..1 : i = 1
      OBVIOUS
    <3> QED BY <1>5, <3>1 DEF al1
  <2>2. \A x \in al2 : x.genre = "score"
    BY <1>6 DEF al2
  <2>3. \A x \in al3 : x.genre = "score"
    BY <1>7 DEF al3
  <2> QED BY <2>1, <2>2, <2>3
<1>13. g1 \in Seq(lesScores) /\ g2 \in Seq(lesScores) /\ g3 \in Seq(lesScores)
  <2>1. al1 \in SUBSET lesScores /\ al2 \in SUBSET lesScores /\ al3 \in SUBSET lesScores
    OBVIOUS
  <2> HIDE DEF lesScores
  <2> QED BY <1>5, <1>6, <1>7, <2>1, SeqMonotonic
<1> DEFINE debut == g1 \o g2 \o g3
<1>14. debut \in Seq(lesScores)
  <2> HIDE DEF lesScores
  <2> QED BY <1>13
<1>15. Combien(debut, "critical") =
         Cardinality(GravesDe(v1)) + Cardinality(GravesDe(r.domaines)) + Cardinality(GravesDe(r.filiales))
  <2> HIDE DEF lesScores
  <2>1. Combien(g1 \o g2, "critical") = Combien(g1, "critical") + Combien(g2, "critical")
    BY <1>13, CombienAjoute
  <2>2. g1 \o g2 \in Seq(lesScores)
    BY <1>13
  <2>3. Combien(debut, "critical") = Combien(g1 \o g2, "critical") + Combien(g3, "critical")
    BY <1>13, <2>2, CombienAjoute
  <2> QED BY ONLY <1>9, <1>10, <1>11, <2>1, <2>3
<1>16. \A v : IsFiniteSet(DOMAIN v) => Cardinality(GravesDe(v)) \in Nat
  <2> SUFFICES ASSUME NEW v, IsFiniteSet(DOMAIN v) PROVE Cardinality(GravesDe(v)) \in Nat
    OBVIOUS
  <2> DEFINE ens == GravesDe(v)
  <2>1. ens \in SUBSET DOMAIN v
    BY DEF GravesDe, G!Mesurees
  <2> HIDE DEF ens
  <2>2. Cardinality(ens) \in Nat
    BY <2>1, FS_Subset, FS_CardinalityType
  <2> QED BY <2>2 DEF ens
<1>17. /\ Cardinality(GravesDe(v1)) \in Nat /\ Cardinality(GravesDe(r.domaines)) \in Nat
       /\ Cardinality(GravesDe(r.filiales)) \in Nat
  <2>1. IsFiniteSet(DOMAIN v1)
    <3>1. DOMAIN v1 = {"groupe"}
      BY DEF v1
    <3> QED BY <3>1, FS_Singleton
  <2>2. IsFiniteSet(DOMAIN r.domaines)
    BY DomainesFinis
  <2> QED BY <1>16, <2>1, <2>2
<1>18. \E Al : /\ toutes \in Seq(Al) /\ Combien(toutes, "critical") = Combien(debut, "critical")
               /\ (\E x \in Al : x.genre = "trend") => Cardinality(G!Mesurees(r.tendance)) >= 2
  <2>1. CASE g4 = <<>>
    <3>1. debut \o <<>> = debut
      BY <1>14
    <3>2. toutes = debut
      BY <2>1, <3>1
    <3> HIDE DEF toutes, debut, lesScores
    <3>3. \A x \in lesScores : x.genre # "trend"
      BY <1>12
    <3> QED BY <1>14, <3>2, <3>3
  <2>2. CASE Cardinality(G!Mesurees(r.tendance)) >= 2 /\ \E x : g4 = <<x>> /\ x.severite # "critical"
    <3>1. PICK x : g4 = <<x>> /\ x.severite # "critical"
      BY <2>2
    <3> DEFINE al == lesScores \cup {x}
    <3>2. lesScores \in SUBSET al /\ x \in al
      OBVIOUS
    <3> HIDE DEF al
    <3>3. g4 \in Seq(al) /\ debut \in Seq(al)
      <4>1. <<x>> \in Seq(al)
        BY <3>2
      <4>2. debut \in Seq(al)
        <5> HIDE DEF debut, lesScores
        <5> QED BY <1>14, <3>2, SeqMonotonic
      <4> QED BY <3>1, <4>1, <4>2
    <3>4. Combien(g4, "critical") = 0
      <4>1. DOMAIN g4 = 1..1 /\ g4[1] = x
        BY <3>1
      <4>2. \A i \in 1..1 : i = 1
        OBVIOUS
      <4>3. Parmi(g4, DOMAIN g4, "critical") = {}
        BY <3>1, <4>1, <4>2 DEF Parmi
      <4> QED BY <4>3, FS_EmptySet DEF Combien
    <3>5. toutes = debut \o g4
      OBVIOUS
    <3>6. Combien(toutes, "critical") = Combien(debut, "critical") + Combien(g4, "critical")
      <4> HIDE DEF debut, toutes
      <4> QED BY <3>3, <3>5, CombienAjoute
    <3>7. toutes \in Seq(al)
      <4> HIDE DEF debut, toutes
      <4> QED BY <3>3, <3>5
    <3>8. Combien(toutes, "critical") = Combien(debut, "critical")
      <4> HIDE DEF debut, toutes, v1
      <4> QED BY <1>15, <1>17, <3>4, <3>6
    <3> HIDE DEF debut, toutes
    <3> QED BY <2>2, <3>7, <3>8
  <2> QED BY <1>8, <2>1, <2>2
<1> HIDE DEF debut, toutes
<1>19. PICK Al : /\ toutes \in Seq(Al) /\ Combien(toutes, "critical") = Combien(debut, "critical")
                 /\ (\E x \in Al : x.genre = "trend") => Cardinality(G!Mesurees(r.tendance)) >= 2
  BY <1>18
<1>20. /\ a \in Seq(Al) /\ Len(G!De(a, "critical")) = Combien(toutes, "critical")
       /\ \A i, j \in DOMAIN a : a[i].severite = "critical" /\ a[j].severite # "critical" => i < j
  BY <1>19, TriDesAlertes
<1> HIDE DEF a
<1>21. \A i \in DOMAIN a : a[i] \in Al
  BY <1>20
<1>22. G!Alertes(r).comptes["critical"] =
         Cardinality(GravesDe(r.domaines)) + Cardinality(GravesDe(r.filiales)) + Cardinality(GravesDe(v1))
  <2>1. G!Alertes(r).comptes["critical"] =
          Cardinality(GravesDe(v1)) + Cardinality(GravesDe(r.domaines)) + Cardinality(GravesDe(r.filiales))
    BY <1>1, <1>15, <1>19, <1>20
  <2> QED BY ONLY <1>17, <2>1
<1>23. (\E i \in DOMAIN a : a[i].genre = "trend") => Cardinality(G!Mesurees(r.tendance)) >= 2
  BY <1>19, <1>21
<1> QED BY <1>1, <1>20, <1>22, <1>23 DEF v1

\* The alerts say what the scores shown are.
LEMMA AlertesTenues ==
  ASSUME Lu(x1), x2 = G!Pages(x1)
  PROVE  G!AlertesFondees
<1> DEFINE c == x1
           r == G!RapportGroupe(c)
<1> SUFFICES ASSUME ~c.panne
             PROVE  LET q == x2.groupe.corps
                        a == x2.alertes.corps.alertes
                    IN /\ \A i, j \in DOMAIN a : a[i].severite = "critical" /\ a[j].severite # "critical" => i < j
                       /\ x2.alertes.corps.comptes["critical"] =
                            Cardinality(GravesDe(q.domaines)) + Cardinality(GravesDe(q.filiales))
                              + Cardinality(GravesDe([groupe |-> q.global]))
                       /\ (\E i \in DOMAIN a : a[i].genre = "trend") => Cardinality(G!Mesurees(q.tendance)) >= 2
  BY MemesNotionsG DEF G!AlertesFondees, G!Servi, GravesDe
<1>1. x2.groupe.corps = r /\ x2.alertes.corps = G!Alertes(r)
  <2>1. G!Pages(c).groupe = G!PagesDuGroupe(c).groupe /\ G!Pages(c).alertes = G!PagesDuGroupe(c).alertes
    BY PagesLues
  <2> QED BY <2>1 DEF G!PagesDuGroupe, G!PagesDuRapport, G!Reponse
<1>2. DOMAIN r.domaines = G!Range(G!Domaines)
  BY RapportDe, NotesDuGroupe
<1>3. IsFiniteSet(DOMAIN r.filiales)
  <2> DEFINE p == Par(c)
  <2>1. DOMAIN r.filiales = UNION {DOMAIN p[d].filiales : d \in DOMAIN p}
    BY RapportDe
  <2>2. ASSUME NEW d \in DOMAIN p PROVE DOMAIN p[d].filiales \subseteq FilialesNotees
    <3>1. DOMAIN p[d].filiales = {x.fil : x \in Dedans(c, d)}
      BY NotesDuGroupe
    <3>2. \A x \in Dedans(c, d) : x.fil \in FilialesNotees
      BY VisiblesSaines DEF LignesSaines
    <3> HIDE DEF p
    <3> QED BY <3>1, <3>2
  <2> HIDE DEF p, r
  <2>3. DOMAIN r.filiales \in SUBSET FilialesNotees
    BY <2>1, <2>2
  <2> QED BY <2>3, FilialesFinies, FS_Subset
<1>4. IsFiniteSet(DOMAIN r.tendance)
  <2> DEFINE p == Par(c)
             f == [x \in c.scores |-> x.mois]
             mois == {f[x] : x \in c.scores}
  <2>1. DOMAIN r.tendance \subseteq UNION {DOMAIN p[d].tendance : d \in DOMAIN p}
    <3>1. r = G!Groupe(p)
      BY DEF G!RapportGroupe, Par
    <3> HIDE DEF p, r
    <3> QED BY <3>1 DEF G!Groupe, G!Derniers
  <2>2. ASSUME NEW d \in DOMAIN p PROVE DOMAIN p[d].tendance \subseteq mois
    <3>1. p[d] = G!Agregat(G!LignesVisibles(c, d), G!Trimestre(c.trimestre), G!Cadres[d])
      BY DEF Par
    <3>2. \A x \in G!LignesVisibles(c, d) : x.mois \in mois
      BY DEF G!LignesVisibles, G!Lues
    <3> DEFINE lignes == G!LignesVisibles(c, d)
               q == G!Trimestre(c.trimestre)
               w == G!Cadres[d]
    <3> HIDE DEF p, mois, lignes, q, w
    <3>3. DOMAIN G!Agregat(lignes, q, w).tendance \subseteq {x.mois : x \in lignes}
      BY DEF G!Agregat, G!Derniers
    <3> QED BY <3>1, <3>2, <3>3 DEF lignes, q, w
  <2>3. IsFiniteSet(mois)
    <3>1. IsFiniteSet(c.scores)
      BY CasLu DEF LignesSaines
    <3> HIDE DEF f
    <3> QED BY <3>1, ImageFinie
  <2> HIDE DEF p, r, mois
  <2>4. DOMAIN r.tendance \in SUBSET mois
    BY <2>1, <2>2
  <2> QED BY <2>3, <2>4, FS_Subset
<1> HIDE DEF r, c
<1>5. LET a == G!Alertes(r).alertes
      IN /\ \A i, j \in DOMAIN a : a[i].severite = "critical" /\ a[j].severite # "critical" => i < j
         /\ G!Alertes(r).comptes["critical"] =
              Cardinality(GravesDe(r.domaines)) + Cardinality(GravesDe(r.filiales))
                + Cardinality(GravesDe([groupe |-> r.global]))
         /\ (\E i \in DOMAIN a : a[i].genre = "trend") => Cardinality(G!Mesurees(r.tendance)) >= 2
  BY <1>2, <1>3, <1>4, AlertesDuRapport
<1> QED BY <1>1, <1>5

\* The pages of the mart (MartFidele) show nothing of the subsidiaries outside the reader's perimeter and filter, the
\* index lies between the domains that are measured, the alerts are those of the scores shown, the gravest first, and the HR
\* figures of the pages and of the copilot are the same while the mart holds a row; an empty one is blank on the HR page and
\* 0 elsewhere (module_views.py, group_score.py, services.py, value_resolver.py).
THEOREM MartIsFaithful == PlateformeSpec => []MartFidele
<1>1. MartLu => MartFidele
  <2> SUFFICES ASSUME MartLu, part = "gouvernance" PROVE /\ G!RienHorsPerimetre /\ G!IndiceDesMesures
                                                         /\ G!AlertesFondees /\ G!ChiffresRhConcordent
    BY DEF MartFidele
  <2>1. CASE x1 = Neant
    BY <2>1 DEF G!RienHorsPerimetre, G!IndiceDesMesures, G!AlertesFondees, G!ChiffresRhConcordent, G!Servi
  <2>2. CASE Lu(x1) /\ x2 = G!Pages(x1)
    BY <2>2, RienHorsPerimetreTenu, IndiceDesMesuresTenu, AlertesTenues, ChiffresRhTenus
  <2> QED BY <2>1, <2>2 DEF MartLu
<1> QED BY <1>1, MartLuInv, PTL

-----------------------------------------------------------------------------
(* The readings of Shield. *)

\* A case of a page: a source, what Shield holds, and the readings that fail.
Entier(c) == [c EXCEPT !.echecs = {}]
CasDePage(c) == c = [genre |-> c.genre, source |-> c.source, vrai |-> c.vrai, echecs |-> c.echecs]

\* Without a failure nothing else of a case changes.
LEMMA EntierDe ==
  ASSUME NEW c, CasDePage(c)
  PROVE  /\ Entier(c).genre = c.genre /\ Entier(c).source = c.source /\ Entier(c).vrai = c.vrai
         /\ Entier(c).echecs = {}
BY DEF CasDePage, Entier

\* A reading gives what it gives without a failure, or nothing.
LEMMA LireOuRien ==
  ASSUME NEW c, CasDePage(c), NEW k
  PROVE  /\ L!Lire(c, k) \in {L!ND, L!Lire(Entier(c), k)}
         /\ L!Lire(c, k) # L!ND => L!Lire(c, k) = L!Lire(Entier(c), k)
BY EntierDe DEF L!Lire

\* A page whose readings are all there is connected, and only then.
LEMMA TroisLues ==
  ASSUME NEW a, NEW b, NEW d, L!EtatDe(<<a, b, d>>) = "connected"
  PROVE  a # L!ND /\ b # L!ND /\ d # L!ND
<1> DEFINE lues == <<a, b, d>>
<1>1. DOMAIN lues = {1, 2, 3} /\ lues[1] = a /\ lues[2] = b /\ lues[3] = d
  OBVIOUS
<1>2. {i \in DOMAIN lues : lues[i] # L!ND} = DOMAIN lues
  <2> HIDE DEF lues
  <2> QED BY DEF L!EtatDe, lues
<1> HIDE DEF lues
<1> QED BY <1>1, <1>2

\* ... and so is a page of four readings.
LEMMA QuatreLues ==
  ASSUME NEW a, NEW b, NEW d, NEW e, L!EtatDe(<<a, b, d, e>>) = "connected"
  PROVE  a # L!ND /\ b # L!ND /\ d # L!ND /\ e # L!ND
<1> DEFINE lues == <<a, b, d, e>>
<1>1. DOMAIN lues = {1, 2, 3, 4} /\ lues[1] = a /\ lues[2] = b /\ lues[3] = d /\ lues[4] = e
  OBVIOUS
<1>2. {i \in DOMAIN lues : lues[i] # L!ND} = DOMAIN lues
  <2> HIDE DEF lues
  <2> QED BY DEF L!EtatDe, lues
<1> HIDE DEF lues
<1> QED BY <1>1, <1>2

\* What a page shows is honest: what it shows without a failure, or nothing.
Honnete(q, vraie) ==
  /\ \A k \in DOMAIN q.kpis : q.kpis[k] \in {L!ND, vraie.kpis[k]}
  /\ q.constats \subseteq vraie.constats
  /\ q.etat = "connected" => q.kpis = vraie.kpis

\* ... and a page of six.
LEMMA SixLues ==
  ASSUME NEW a, NEW b, NEW d, NEW e, NEW f, NEW g, L!EtatDe(<<a, b, d, e, f, g>>) = "connected"
  PROVE  a # L!ND /\ b # L!ND /\ d # L!ND /\ e # L!ND /\ f # L!ND /\ g # L!ND
<1> DEFINE lues == <<a, b, d, e, f, g>>
<1>1. /\ DOMAIN lues = {1, 2, 3, 4, 5, 6}
      /\ lues[1] = a /\ lues[2] = b /\ lues[3] = d /\ lues[4] = e /\ lues[5] = f /\ lues[6] = g
  OBVIOUS
<1>2. {i \in DOMAIN lues : lues[i] # L!ND} = DOMAIN lues
  <2> HIDE DEF lues
  <2> QED BY DEF L!EtatDe, lues
<1> HIDE DEF lues
<1> QED BY <1>1, <1>2

\* The key figures.
LEMMA HrHonnete ==
  ASSUME NEW c, CasDePage(c)
  PROVE  Honnete(L!Hr(c), L!Hr(Entier(c)))
<1> DEFINE v == Entier(c)
<1>1. v.source = c.source /\ v.vrai = c.vrai /\ v.echecs = {}
  BY EntierDe
<1>2. CASE ~L!Garde(c.source)
  <2>1. L!Hr(c) = L!Deconnecte(L!ClesHr) /\ L!Hr(v) = L!Deconnecte(L!ClesHr)
    BY <1>1, <1>2 DEF L!Hr
  <2> QED BY <2>1 DEF Honnete, L!Deconnecte
<1>3. CASE L!Garde(c.source)
  <2> DEFINE e == L!Lire(c, "employes")
             o == L!Lire(c, "ouvriers")
             s == L!Lire(c, "sites")
             ve == L!Lire(v, "employes")
             vo == L!Lire(v, "ouvriers")
             vs == L!Lire(v, "sites")
             t(k) == IF "resume" \in c.echecs THEN L!ND ELSE c.vrai[k]
             p == t("presents")
             a == t("absents")
             l == t("retards")
             vp == c.vrai["presents"]
             va == c.vrai["absents"]
             vl == c.vrai["retards"]
             r == IF "resume" \in c.echecs THEN L!ND ELSE 0
             Page(x, y, z, w, p1, a1, l1) ==
               [etat |-> L!EtatDe(<<x, y, z, w>>),
                kpis |-> [effectif_total |-> L!Plus(x, y), employes |-> x, ouvriers |-> y,
                       presents |-> p1, absents |-> a1, retards |-> l1,
                       taux_presence |-> L!TauxPresence(p1, a1), taux_absence_jour |-> L!PartAbsents(p1, a1),
                       taux_ponctualite |-> L!TauxPonctualite(l1, p1), sites |-> z],
                constats |-> L!EvaluerPresenceGlobale(p1, a1, l1)]
  <2>1. L!Hr(c) = Page(e, o, s, r, p, a, l)
    BY <1>3 DEF L!Hr
  <2>2. L!Hr(v) = Page(ve, vo, vs, 0, vp, va, vl)
    BY <1>1, <1>3 DEF L!Hr
  <2>3. /\ e \in {L!ND, ve} /\ o \in {L!ND, vo} /\ s \in {L!ND, vs}
        /\ r # L!ND => p = vp /\ a = va /\ l = vl
        /\ (p = L!ND /\ a = L!ND /\ l = L!ND) \/ (p = vp /\ a = va /\ l = vl)
    BY LireOuRien DEF L!ND
  <2> HIDE DEF e, o, s, ve, vo, vs, p, a, l, r, vp, va, vl, v
  <2>4. /\ L!Plus(e, o) \in {L!ND, L!Plus(ve, vo)}
        /\ L!TauxPresence(p, a) \in {L!ND, L!TauxPresence(vp, va)}
        /\ L!PartAbsents(p, a) \in {L!ND, L!PartAbsents(vp, va)}
        /\ L!TauxPonctualite(l, p) \in {L!ND, L!TauxPonctualite(vl, vp)}
    BY <2>3 DEF L!Plus, L!TauxPresence, L!PartAbsents, L!TauxPonctualite, L!PartRetards, L!Pct
  <2>5. L!EvaluerPresenceGlobale(p, a, l) \subseteq L!EvaluerPresenceGlobale(vp, va, vl)
    <3>1. CASE p = L!ND /\ a = L!ND /\ l = L!ND
      <4>1. L!TauxPresence(p, a) = L!ND /\ L!PartAbsents(p, a) = L!ND /\ L!PartRetards(l, p) = L!ND
        BY <3>1 DEF L!TauxPresence, L!PartAbsents, L!PartRetards, L!Pct
      <4>2. L!EvaluerPresenceGlobale(p, a, l) = {}
        BY <4>1 DEF L!EvaluerPresenceGlobale, L!Sous, L!Depasse
      <4> QED BY <4>2
    <3>2. CASE p = vp /\ a = va /\ l = vl
      BY <3>2
    <3> QED BY <2>3, <3>1, <3>2
  <2>6. ASSUME L!EtatDe(<<e, o, s, r>>) = "connected"
        PROVE  e = ve /\ o = vo /\ s = vs /\ p = vp /\ a = va /\ l = vl
    BY <2>3, <2>6, QuatreLues
  <2> DEFINE q == Page(e, o, s, r, p, a, l)
             w == Page(ve, vo, vs, 0, vp, va, vl)
  <2>7. \A k \in DOMAIN q.kpis : q.kpis[k] \in {L!ND, w.kpis[k]}
    BY <2>3, <2>4
  <2>8. q.constats \subseteq w.constats
    BY <2>5
  <2>9. q.etat = "connected" => q.kpis = w.kpis
    BY <2>6
  <2> HIDE DEF q, w
  <2> QED BY <2>1, <2>2, <2>7, <2>8, <2>9 DEF Honnete, q, w, v
<1> QED BY <1>2, <1>3

\* The security figures.
LEMMA SecuriteHonnete ==
  ASSUME NEW c, CasDePage(c)
  PROVE  Honnete(L!Securite(c), L!Securite(Entier(c)))
<1> DEFINE v == Entier(c)
<1>1. v.source = c.source /\ v.vrai = c.vrai /\ v.echecs = {}
  BY EntierDe
<1>2. CASE ~L!Garde(c.source)
  <2>1. L!Securite(c) = L!Deconnecte(L!ClesSecurite) /\ L!Securite(v) = L!Deconnecte(L!ClesSecurite)
    BY <1>1, <1>2 DEF L!Securite
  <2> QED BY <2>1 DEF Honnete, L!Deconnecte
<1>3. CASE L!Garde(c.source)
  <2> DEFINE crit == L!Lire(c, "critiques")
             ouv == L!Lire(c, "ouvertes")
             total == L!Lire(c, "total")
             refus == L!Lire(c, "refus")
             visites == L!Lire(c, "visites")
             hs == L!TerminauxHs(c)
             vcrit == L!Lire(v, "critiques")
             vouv == L!Lire(v, "ouvertes")
             vtotal == L!Lire(v, "total")
             vrefus == L!Lire(v, "refus")
             vvisites == L!Lire(v, "visites")
             vhs == L!TerminauxHs(v)
             Page(x, y, n, z, w, m) ==
               [etat |-> L!EtatDe(<<x, y, n, z, w, m>>),
                kpis |-> [alertes_critiques |-> x, alertes_ouvertes |-> y, acces_refuses |-> n, terminaux_hs |-> z,
                          terminaux_total |-> w, visiteurs_attente |-> m],
                constats |-> {k \in {"alertes", "terminaux", "terminaux_critique"} :
                                CASE k = "alertes" -> x > 0
                                  [] k = "terminaux" -> z > 0 /\ w > 0
                                  [] OTHER -> z > 0 /\ w > 0 /\ L!Pct(z, w) >= L!Seuils.terminaux_hs_critique}]
  <2>1. /\ L!Securite(c) = Page(crit, ouv, refus, hs, total, visites)
        /\ L!Securite(v) = Page(vcrit, vouv, vrefus, vhs, vtotal, vvisites)
    BY <1>1, <1>3 DEF L!Securite
  <2>2. hs \in {L!ND, vhs}
    BY <1>1 DEF L!TerminauxHs
  <2>3. /\ crit \in {L!ND, vcrit} /\ ouv \in {L!ND, vouv} /\ total \in {L!ND, vtotal}
        /\ refus \in {L!ND, vrefus} /\ visites \in {L!ND, vvisites}
    BY LireOuRien
  <2> HIDE DEF crit, ouv, total, refus, visites, hs, vcrit, vouv, vtotal, vrefus, vvisites, vhs, v
  <2> DEFINE q == Page(crit, ouv, refus, hs, total, visites)
             w == Page(vcrit, vouv, vrefus, vhs, vtotal, vvisites)
  <2>4. \A k \in DOMAIN q.kpis : q.kpis[k] \in {L!ND, w.kpis[k]}
    BY <2>2, <2>3
  <2>5. q.constats \subseteq w.constats
    <3>1. ~(L!ND > 0)
      BY DEF L!ND
    <3>2. (crit > 0 => crit = vcrit) /\ (hs > 0 => hs = vhs) /\ (total > 0 => total = vtotal)
      BY <2>2, <2>3, <3>1
    <3> QED BY <3>2
  <2>6. q.etat = "connected" => q.kpis = w.kpis
    <3> SUFFICES ASSUME L!EtatDe(<<crit, ouv, refus, hs, total, visites>>) = "connected"
             PROVE  q.kpis = w.kpis
      OBVIOUS
    <3>1. crit = vcrit /\ ouv = vouv /\ refus = vrefus /\ hs = vhs /\ total = vtotal /\ visites = vvisites
      BY <2>2, <2>3, SixLues
    <3> QED BY <3>1
  <2> HIDE DEF q, w
  <2> QED BY <2>1, <2>4, <2>5, <2>6 DEF Honnete, q, w, v
<1> QED BY <1>2, <1>3

\* The overview.
LEMMA OverviewHonnete ==
  ASSUME NEW c, CasDePage(c)
  PROVE  Honnete(L!Overview(c), L!Overview(Entier(c)))
<1> DEFINE v == Entier(c)
           cles == {"workforce", "sites_actifs", "alertes_critiques"}
<1>1. v.source = c.source
  BY EntierDe
<1>2. CASE ~L!Garde(c.source)
  <2>1. L!Overview(c) = L!Deconnecte(cles) /\ L!Overview(v) = L!Deconnecte(cles)
    BY <1>1, <1>2 DEF L!Overview
  <2> QED BY <2>1 DEF Honnete, L!Deconnecte
<1>3. CASE L!Garde(c.source)
  <2> DEFINE w(d) == L!Plus(L!Lire(d, "employes"), L!Lire(d, "ouvriers"))
             s(d) == L!Lire(d, "sites")
             a(d) == L!Lire(d, "critiques")
             Page(x, y, z) == [etat |-> L!EtatDe(<<x, y, z>>),
                               kpis |-> [workforce |-> x, sites_actifs |-> y, alertes_critiques |-> z], constats |-> {}]
  <2>1. L!Overview(c) = Page(w(c), s(c), a(c)) /\ L!Overview(v) = Page(w(v), s(v), a(v))
    BY <1>1, <1>3 DEF L!Overview
  <2>2. w(c) \in {L!ND, w(v)} /\ s(c) \in {L!ND, s(v)} /\ a(c) \in {L!ND, a(v)}
    BY LireOuRien DEF L!Plus
  <2> HIDE DEF w, s, a, v
  <2> DEFINE q == Page(w(c), s(c), a(c))
             r == Page(w(v), s(v), a(v))
  <2>3. (\A k \in DOMAIN q.kpis : q.kpis[k] \in {L!ND, r.kpis[k]}) /\ q.constats \subseteq r.constats
    BY <2>2
  <2>4. q.etat = "connected" => q.kpis = r.kpis
    <3> SUFFICES ASSUME L!EtatDe(<<w(c), s(c), a(c)>>) = "connected" PROVE q.kpis = r.kpis
      OBVIOUS
    <3>1. w(c) = w(v) /\ s(c) = s(v) /\ a(c) = a(v)
      BY <2>2, TroisLues
    <3> QED BY <3>1
  <2> HIDE DEF q, r
  <2> QED BY <2>1, <2>3, <2>4 DEF Honnete, q, r, v
<1> QED BY <1>2, <1>3
-----------------------------------------------------------------------------
(* The series of Shield. *)
\* The instances of the readings speak of the same finite sets, cardinals and extrema.
LEMMA MemesNotionsL ==
  /\ \A s : (L!IsFiniteSet(s) <=> IsFiniteSet(s)) /\ L!Cardinality(s) = Cardinality(s)
  /\ \A s : L!Max(s) = I!Max(s) /\ L!Min(s) = I!Min(s)
<1>1. \A s : L!IsFiniteSet(s) <=> IsFiniteSet(s)
  BY DEF L!IsFiniteSet, IsFiniteSet
<1>2. \A s : L!Cardinality(s) = Cardinality(s)
  BY <1>1 DEF L!Cardinality, Cardinality
<1>3. \A s : L!Max(s) = I!Max(s) /\ L!Min(s) = I!Min(s)
  BY DEF L!Max, I!Max, L!Min, I!Min
<1> QED BY <1>1, <1>2, <1>3

\* The limits of the readings.
LEMMA LimitesLues == JoursSerie \in Nat /\ MaxLignes \in Nat /\ MaxFiches \in Nat
BY Constantes, Zenon DEF L!ShieldConstantes

\* The sums of the readings are the ones proved about.
LEMMA SommeL ==
  ASSUME NEW f, NEW ens
  PROVE  L!SommeSur(f, ens) = Total([k \in ens |-> f[k]])
<1> DEFINE g == [k \in ens |-> f[k]]
           Autre(it) == it = [s \in SUBSET ens |-> IF s = {} THEN 0 ELSE f[Pris(s)] + it[s \ {Pris(s)}]]
<1>1. L!SommeSur(f, ens) = (CHOOSE it : Autre(it))[ens]
  BY Zenon DEF L!SommeSur, L!FoldFunctionOnSet, L!MapThenFoldSet, Pris
<1>2. ASSUME NEW it PROVE Autre(it) <=> Enroule(it, g)
  <2>1. \A s \in SUBSET ens : s # {} => g[Pris(s)] = f[Pris(s)]
    BY DEF Pris
  <2>2. DOMAIN g = ens
    OBVIOUS
  <2> HIDE DEF g
  <2>3. [s \in SUBSET ens |-> IF s = {} THEN 0 ELSE f[Pris(s)] + it[s \ {Pris(s)}]]
          = [s \in SUBSET ens |-> IF s = {} THEN 0 ELSE g[Pris(s)] + it[s \ {Pris(s)}]]
    BY <2>1
  <2> QED BY <2>2, <2>3 DEF Enroule
<1>3. (CHOOSE it : Autre(it)) = (CHOOSE it : Enroule(it, g))
  <2> HIDE DEF Autre, g
  <2> QED BY <1>2
<1>4. DOMAIN g = ens
  OBVIOUS
<1> HIDE DEF Autre, g
<1> QED BY <1>1, <1>3, <1>4 DEF Total, g

\* A sum of counts is one.
LEMMA SommePositive ==
  ASSUME NEW Ens, IsFiniteSet(Ens), NEW f \in [Ens -> Int], \A x \in Ens : f[x] >= 0, NEW it, EstSomme(it, f, Ens)
  PROVE  \A s \in SUBSET Ens : it[s] \in Int /\ it[s] >= 0
<1> DEFINE Bons == {s \in SUBSET Ens : it[s] \in Int /\ it[s] >= 0}
<1>1. {} \in Bons
  BY DEF EstSomme
<1>2. ASSUME NEW s \in SUBSET Ens, s # {}, \A x \in s : s \ {x} \in Bons PROVE s \in Bons
  <2> DEFINE x == Pris(s)
  <2>1. x \in s /\ it[s] = f[x] + it[s \ {x}]
    BY <1>2 DEF EstSomme
  <2> HIDE DEF x
  <2>2. f[x] \in Int /\ f[x] >= 0 /\ it[s \ {x}] \in Int /\ it[s \ {x}] >= 0
    BY <1>2, <2>1
  <2> QED BY <2>1, <2>2
<1>3. SUBSET Ens \subseteq Bons
  <2> HIDE DEF Bons
  <2> QED BY <1>1, <1>2, RecurrenceFinie
<1> QED BY <1>3

\* The sums over the parts of a set, all at once.
LEMMA SommesDesParts ==
  ASSUME NEW Ens, IsFiniteSet(Ens), NEW f \in [Ens -> Int], NEW it, EstSomme(it, f, Ens)
  PROVE  /\ \A p \in SUBSET Ens : Total([x \in p |-> f[x]]) = it[p]
         /\ \A p \in SUBSET Ens : \A a \in p : it[p] = f[a] + it[p \ {a}]
         /\ \A a, b \in SUBSET Ens : a \cap b = {} => it[a \cup b] = it[a] + it[b]
<1>1. ASSUME NEW p \in SUBSET Ens PROVE Total([x \in p |-> f[x]]) = it[p]
  BY PartDuTotal
<1>2. ASSUME NEW p \in SUBSET Ens, NEW a \in p PROVE it[p] = f[a] + it[p \ {a}]
  BY SommeSans
<1>3. ASSUME NEW a \in SUBSET Ens, NEW b \in SUBSET Ens, a \cap b = {} PROVE it[a \cup b] = it[a] + it[b]
  BY <1>3, SommeUnion
<1> QED BY <1>1, <1>2, <1>3

\* Rows come newest first: those of a day are read after those of the days that follow it.
LEMMA RangDuJour ==
  ASSUME NEW n \in [L!Jours -> Nat], NEW j \in L!Jours
  PROVE  /\ L!Apres(n, j) \in Int /\ L!Somme(n) \in Int
         /\ n[j] + L!Apres(n, j) <= L!Somme(n)
         /\ \A m \in L!Jours : m < j => L!Apres(n, m) \in Int /\ n[j] + L!Apres(n, j) <= L!Apres(n, m)
<1> DEFINE jours == L!Jours
           ap(m) == (m + 1)..JoursSerie
<1>1. IsFiniteSet(jours) /\ jours = 1..JoursSerie
  BY LimitesLues, FS_Interval DEF L!Jours
<1>2. \A m \in jours : ap(m) \in SUBSET jours /\ m \notin ap(m)
  BY <1>1, LimitesLues
<1>3. n \in [jours -> Int] /\ \A x \in jours : n[x] >= 0 /\ n[x] \in Int
  OBVIOUS
<1>4. \A ens : L!SommeSur(n, ens) = Total([k \in ens |-> n[k]])
  BY SommeL
<1>5. \A m : L!Apres(n, m) = L!SommeSur(n, ap(m))
  BY DEF L!Apres
<1>6. L!Somme(n) = L!SommeSur(n, jours)
  BY DEF L!Somme
<1> HIDE DEF jours
<1>7. PICK it : EstSomme(it, n, jours)
  BY <1>1, <1>3, Sommation
<1>0. /\ \A p \in SUBSET jours : Total([x \in p |-> n[x]]) = it[p]
      /\ \A p \in SUBSET jours : \A a \in p : it[p] = n[a] + it[p \ {a}]
      /\ \A a, b \in SUBSET jours : a \cap b = {} => it[a \cup b] = it[a] + it[b]
  <2>1. IsFiniteSet(jours) /\ n \in [jours -> Int]
    BY <1>1, <1>3
  <2> QED BY <1>7, <2>1, SommesDesParts
<1>8. \A p \in SUBSET jours : L!SommeSur(n, p) = it[p]
  BY <1>0, <1>4
<1>9. \A p \in SUBSET jours : it[p] \in Int /\ it[p] >= 0
  BY <1>1, <1>3, <1>7, SommePositive
<1>10. j \in jours
  BY DEF jours
<1>11. ASSUME NEW p \in SUBSET jours, ap(j) \in SUBSET p, j \in p
       PROVE  n[j] + it[ap(j)] <= it[p]
  <2> DEFINE a == ap(j)
             r == (p \ {j}) \ a
  <2>1. a \in SUBSET jours /\ j \notin a
    BY <1>2, <1>10
  <2> HIDE DEF a
  <2>2. it[p] = n[j] + it[p \ {j}]
    BY <1>0, <1>11
  <2>3. r \cup a = p \ {j} /\ r \cap a = {} /\ r \in SUBSET jours /\ p \ {j} \in SUBSET jours
    BY <1>11, <2>1 DEF a
  <2> HIDE DEF r
  <2>4. it[r \cup a] = it[r] + it[a]
    BY <1>0, <2>1, <2>3
  <2>5. it[r] \in Int /\ it[r] >= 0 /\ it[a] \in Int /\ n[j] \in Int
    BY <1>3, <1>9, <1>10, <2>1, <2>3
  <2>6. it[p] = n[j] + (it[r] + it[a])
    BY <2>2, <2>3, <2>4
  <2>7. n[j] + it[a] <= it[p]
    <3> DEFINE u == n[j]
               s == it[r]
               t == it[a]
               z == it[p]
    <3>1. z = u + (s + t) /\ s \in Int /\ s >= 0 /\ t \in Int /\ u \in Int
      BY <2>5, <2>6
    <3> HIDE DEF u, s, t, z
    <3>2. u + t <= z
      BY ONLY <3>1
    <3> QED BY <3>2 DEF u, s, t, z
  <2> QED BY <2>7 DEF a
<1>12. L!Apres(n, j) = it[ap(j)] /\ L!Somme(n) = it[jours]
  BY <1>2, <1>5, <1>6, <1>8, <1>10
<1>13. n[j] + it[ap(j)] <= it[jours]
  BY <1>2, <1>10, <1>11
<1>14. ASSUME NEW m \in jours, m < j PROVE L!Apres(n, m) = it[ap(m)] /\ n[j] + it[ap(j)] <= it[ap(m)]
  <2>1. ap(j) \in SUBSET ap(m) /\ j \in ap(m)
    BY <1>1, <1>10, <1>14, LimitesLues
  <2> QED BY <1>2, <1>5, <1>8, <1>11, <2>1
<1> QED BY <1>2, <1>9, <1>12, <1>13, <1>14 DEF jours

\* The rows of a day that the limit leaves room for are all read.
LEMMA JourLu ==
  ASSUME NEW c, NEW f, c.vrai[f] \in [L!Jours -> Nat], f \notin c.echecs, NEW j \in L!Jours,
         c.vrai[f][j] + L!Apres(c.vrai[f], j) <= MaxLignes
  PROVE  L!Obtenu(c, f, j) = c.vrai[f][j]
<1> DEFINE x == c.vrai[f][j]
           reste == MaxLignes - L!Apres(c.vrai[f], j)
<1>1. x \in Nat /\ reste \in Int /\ x <= reste
  BY RangDuJour, LimitesLues
<1>2. L!Obtenu(c, f, j) = IF reste <= 0 THEN 0 ELSE L!Min({x, reste})
  BY DEF L!Obtenu
<1> HIDE DEF x, reste
<1>3. L!Min({x, reste}) = x
  BY <1>1 DEF L!Min
<1>4. L!Obtenu(c, f, j) = x
  BY <1>1, <1>2, <1>3
<1> QED BY <1>4 DEF x

\* There are finitely many days.
LEMMA JoursDeSerie == L!Jours \in SUBSET Int /\ IsFiniteSet(L!Jours)
<1>1. IsFiniteSet(L!Jours)
  BY LimitesLues, FS_Interval DEF L!Jours
<1>2. L!Jours \in SUBSET Int
  BY LimitesLues DEF L!Jours
<1> QED BY <1>1, <1>2

\* The days of which some row was read.
LEMMA DatesLues ==
  ASSUME NEW c, NEW f, c.vrai[f] \in [L!Jours -> Nat]
  PROVE  /\ L!Dates(c, f) \in SUBSET L!Jours /\ L!Dates(c, f) \in SUBSET Int /\ IsFiniteSet(L!Dates(c, f))
         /\ \A m \in L!Dates(c, f) : L!Apres(c.vrai[f], m) < MaxLignes
<1>1. L!Jours \in SUBSET Int /\ IsFiniteSet(L!Jours)
  BY JoursDeSerie
<1>2. L!Dates(c, f) \in SUBSET L!Jours
  BY DEF L!Dates
<1>3. ASSUME NEW m \in L!Dates(c, f) PROVE L!Apres(c.vrai[f], m) < MaxLignes
  <2>1. m \in L!Jours /\ L!Obtenu(c, f, m) > 0
    BY DEF L!Dates
  <2>2. ~(MaxLignes - L!Apres(c.vrai[f], m) <= 0)
    BY <2>1 DEF L!Obtenu
  <2>3. L!Apres(c.vrai[f], m) \in Int
    BY <2>1, RangDuJour
  <2> QED BY <2>2, <2>3, LimitesLues
<1> QED BY <1>1, <1>2, <1>3, FS_Subset

\* A truncated reading that has reached two days is trusted after the first of them.
LEMMA DateFiable ==
  ASSUME NEW s \in SUBSET Int, IsFiniteSet(s), s # {}
  PROVE  /\ L!PlusAncienneFiable(s) \in s
         /\ Cardinality(s) > 1 => \E m \in s : m < L!PlusAncienneFiable(s)
<1> DEFINE m == L!Min(s)
           r == s \ {m}
<1>1. m \in s /\ \A y \in s : m <= y
  BY MaxDesJuges, MemesNotionsL
<1>2. CASE ~(Cardinality(s) > 1)
  BY <1>1, <1>2, MemesNotionsL DEF L!PlusAncienneFiable
<1>3. CASE Cardinality(s) > 1
  <2>1. L!PlusAncienneFiable(s) = L!Min(r)
    BY <1>3, MemesNotionsL DEF L!PlusAncienneFiable
  <2>2. r # {}
    <3> SUFFICES ASSUME r = {} PROVE FALSE
      OBVIOUS
    <3>1. s = {m}
      BY <1>1
    <3> HIDE DEF m
    <3> QED BY <1>3, <3>1, FS_Singleton
  <2>3. IsFiniteSet(r) /\ r \in SUBSET Int
    BY FS_Subset
  <2> HIDE DEF m, r
  <2>4. L!Min(r) \in r
    BY <2>2, <2>3, MaxDesJuges, MemesNotionsL
  <2>5. m < L!Min(r) /\ L!Min(r) \in s
    <3>1. L!Min(r) \in s /\ L!Min(r) # m
      BY <2>4 DEF r
    <3>2. m \in Int /\ L!Min(r) \in Int /\ m <= L!Min(r)
      BY <1>1, <3>1
    <3> QED BY <3>1, <3>2
  <2> QED BY <1>1, <2>1, <2>5
<1> QED BY <1>2, <1>3

\* No day is trusted before the cut of a truncated reading.
LEMMA CoupureApres ==
  ASSUME NEW c, \A f \in L!Flags : c.vrai[f] \in [L!Jours -> Nat]
  PROVE  /\ L!Coupure(c) \in Int
         /\ \A f \in L!Flags : L!Tronque(c, f) /\ L!Dates(c, f) # {} =>
              L!PlusAncienneFiable(L!Dates(c, f)) <= L!Coupure(c)
<1> DEFINE coupes == {g \in L!Flags : L!Tronque(c, g) /\ L!Dates(c, g) # {}}
           d == [f \in coupes |-> L!PlusAncienneFiable(L!Dates(c, f))]
           fins == {d[f] : f \in coupes}
           tout == {L!ND} \cup fins
<1>1. \A f \in coupes : d[f] \in Int
  <2> SUFFICES ASSUME NEW f \in coupes PROVE d[f] \in Int
    OBVIOUS
  <2>1. f \in L!Flags /\ L!Dates(c, f) # {} /\ d[f] = L!PlusAncienneFiable(L!Dates(c, f))
    OBVIOUS
  <2>2. L!Dates(c, f) \in SUBSET Int /\ IsFiniteSet(L!Dates(c, f))
    BY <2>1, DatesLues
  <2>3. L!PlusAncienneFiable(L!Dates(c, f)) \in L!Dates(c, f)
    BY <2>1, <2>2, DateFiable
  <2> QED BY <2>1, <2>2, <2>3
<1>2. IsFiniteSet(coupes)
  <2>1. L!Flags = {"present", "absent"} \cup {"late"}
    BY DEF L!Flags
  <2>2. IsFiniteSet(L!Flags)
    BY <2>1, PaireFinie, FS_Singleton, FS_Union
  <2> QED BY <2>2, FS_Subset
<1>3. IsFiniteSet(fins)
  <2> HIDE DEF d, coupes
  <2> QED BY <1>2, ImageFinie
<1>4. tout \in SUBSET Int /\ tout # {}
  <2>1. L!ND \in Int
    BY DEF L!ND
  <2>2. \A x \in fins : x \in Int
    <3> HIDE DEF d, coupes
    <3> QED BY <1>1
  <2> HIDE DEF fins
  <2> QED BY <2>1, <2>2
<1>5. IsFiniteSet(tout)
  <2> HIDE DEF fins
  <2> QED BY <1>3, FS_Singleton, FS_Union
<1>6. L!Coupure(c) = L!Max(tout)
  BY DEF L!Coupure
<1>7. \A f \in coupes : L!PlusAncienneFiable(L!Dates(c, f)) \in tout
  OBVIOUS
<1> HIDE DEF tout
<1>8. L!Max(tout) \in tout /\ \A y \in tout : y <= L!Max(tout)
  BY <1>4, <1>5, MaxDesJuges, MemesNotionsL
<1> QED BY <1>4, <1>6, <1>7, <1>8

\* A day that is not before the cut was read whole.
LEMMA JourEntier ==
  ASSUME NEW c, \A f \in L!Flags : c.vrai[f] \in [L!Jours -> Nat], NEW f \in L!Flags, f \notin c.echecs,
         L!Tronque(c, f) => Cardinality(L!Dates(c, f)) > 1, NEW j \in L!Jours, L!Coupure(c) <= j
  PROVE  L!Obtenu(c, f, j) = c.vrai[f][j]
<1> DEFINE n == c.vrai[f]
           dates == L!Dates(c, f)
<1>1. /\ n \in [L!Jours -> Nat] /\ n[j] \in Nat /\ j \in Int
  BY LimitesLues DEF L!Jours
<1>2. n[j] + L!Apres(n, j) <= MaxLignes
  <2>1. CASE ~L!Tronque(c, f)
    <3>1. ~(L!Somme(n) > MaxLignes)
      BY <2>1 DEF L!Tronque
    <3>2. n[j] + L!Apres(n, j) <= L!Somme(n) /\ L!Somme(n) \in Int /\ L!Apres(n, j) \in Int
      BY <1>1, RangDuJour
    <3> HIDE DEF n
    <3> QED BY <1>1, <3>1, <3>2, LimitesLues
  <2>2. CASE L!Tronque(c, f)
    <3>1. /\ dates \in SUBSET L!Jours /\ dates \in SUBSET Int /\ IsFiniteSet(dates)
          /\ \A m \in dates : L!Apres(n, m) < MaxLignes
      BY DatesLues
    <3>2. dates # {}
      <4> SUFFICES ASSUME dates = {} PROVE FALSE
        OBVIOUS
      <4>1. Cardinality(dates) = 0
        BY FS_EmptySet
      <4> QED BY <2>2, <4>1
    <3>3. L!PlusAncienneFiable(dates) <= L!Coupure(c) /\ L!Coupure(c) \in Int
      BY <2>2, <3>2, CoupureApres
    <3> HIDE DEF n, dates
    <3>4. PICK m \in dates : m < L!PlusAncienneFiable(dates) /\ L!PlusAncienneFiable(dates) \in dates
      BY <2>2, <3>1, <3>2, DateFiable DEF dates
    <3>5. m < j /\ m \in L!Jours
      <4>1. m \in Int /\ L!PlusAncienneFiable(dates) \in Int
        BY <3>1, <3>4
      <4> QED BY <1>1, <3>1, <3>3, <3>4, <4>1
    <3>6. n[j] + L!Apres(n, j) <= L!Apres(n, m) /\ L!Apres(n, m) \in Int /\ L!Apres(n, j) \in Int
      BY <1>1, <3>5, RangDuJour
    <3>7. L!Apres(n, m) < MaxLignes
      BY <3>1
    <3> QED BY <1>1, <3>6, <3>7, LimitesLues
  <2> QED BY <2>1, <2>2
<1> QED BY <1>1, <1>2, JourLu

\* A series gives the counts of Shield, or says that it has none.
LEMMA SerieTenue ==
  ASSUME \A f \in L!Flags : x1.vrai[f] \in [L!Jours -> Nat], x2 = L!Serie(x1)
  PROVE  L!SerieExacte
<1> DEFINE c == x1
           douteux(j) == L!Flags \cap c.echecs # {} \/ j < L!Coupure(c)
           points == [j \in L!Jours |-> [f \in L!Flags |-> IF douteux(j) THEN L!ND ELSE L!Obtenu(c, f, j)]]
<1> SUFFICES ASSUME L!DeuxDates, NEW j \in L!Jours, x2.points[j].present # L!ND, NEW f \in L!Flags
             PROVE  x2.points[j][f] = c.vrai[f][j]
  BY DEF L!SerieExacte, L!Exact
<1>1. x2.points = points
  BY DEF L!Serie
<1>2. points[j] = [g \in L!Flags |-> IF douteux(j) THEN L!ND ELSE L!Obtenu(c, g, j)]
  OBVIOUS
<1> HIDE DEF points
<1>3. "present" \in L!Flags
  BY DEF L!Flags
<1>4. ~douteux(j) /\ x2.points[j][f] = L!Obtenu(c, f, j)
  BY <1>1, <1>2, <1>3
<1>5. f \notin c.echecs /\ L!Coupure(c) <= j
  <2>1. L!Coupure(c) \in Int /\ j \in Int
    BY CoupureApres, LimitesLues DEF L!Jours
  <2> QED BY <1>4, <2>1
<1>6. L!Tronque(c, f) => Cardinality(L!Dates(c, f)) > 1
  BY MemesNotionsL DEF L!DeuxDates
<1>7. L!Obtenu(c, f, j) = c.vrai[f][j]
  BY <1>5, <1>6, JourEntier
<1> QED BY <1>4, <1>7
-----------------------------------------------------------------------------
(* The sites, the structure and the windows of Shield. *)
\* A site has its own counts, or none.
LEMMA SitesTenus ==
  ASSUME x2 = L!ParSite(x1)
  PROVE  L!SiteExact
<1> DEFINE c == x1
           lu(f, s) == L!DeLaPeriode(c, f, s)
<1> SUFFICES ASSUME c.obtenu = c.vrai, NEW s \in DOMAIN x2.lignes
             PROVE  /\ x2.lignes[s].present \in {L!ND, c.vrai.present[s]}
                    /\ x2.lignes[s].absent \in {L!ND, c.vrai.absent[s]}
                    /\ s \in x2.constats =>
                         L!Sous(L!TauxPresence(c.vrai.present[s], c.vrai.absent[s]), L!Seuils.presence_site_critique)
  BY DEF L!SiteExact
<1>1. "sites" \notin c.echecs
  BY DEF L!ParSite
<1> DEFINE lignes == [t \in L!SitesLus |-> L!LigneDeSite(c, t)]
<1>2. /\ x2.lignes = lignes
      /\ x2.constats = {t \in L!SitesLus : L!Sous(lignes[t].taux, L!Seuils.presence_site_critique)}
  BY <1>1 DEF L!ParSite
<1>3. s \in L!SitesLus /\ lignes[s] = L!LigneDeSite(c, s)
  BY <1>2
<1>4. /\ L!LigneDeSite(c, s).present = lu("present", s) /\ L!LigneDeSite(c, s).absent = lu("absent", s)
      /\ L!LigneDeSite(c, s).taux = L!TauxPresence(lu("present", s), lu("absent", s))
  BY DEF L!LigneDeSite
<1> DEFINE p == lu("present", s)
           a == lu("absent", s)
           vp == c.vrai.present[s]
           va == c.vrai.absent[s]
<1>5. p \in {L!ND, vp} /\ a \in {L!ND, va}
  BY DEF L!DeLaPeriode
<1> HIDE DEF lignes, p, a, vp, va
<1>6. s \in x2.constats => L!Sous(L!TauxPresence(p, a), L!Seuils.presence_site_critique)
  BY <1>2, <1>3, <1>4 DEF p, a
<1>7. L!Sous(L!TauxPresence(p, a), L!Seuils.presence_site_critique) =>
        L!Sous(L!TauxPresence(vp, va), L!Seuils.presence_site_critique)
  <2>1. CASE p = L!ND \/ a = L!ND
    <3>1. L!TauxPresence(p, a) = L!ND
      BY <2>1 DEF L!TauxPresence
    <3> QED BY <3>1 DEF L!Sous
  <2>2. CASE ~(p = L!ND \/ a = L!ND)
    BY <1>5, <2>2
  <2> QED BY <2>1, <2>2
<1> QED BY <1>2, <1>3, <1>4, <1>5, <1>6, <1>7 DEF p, a, vp, va

\* A list that is not cut is whole.
LEMMA ListeEntiere ==
  ASSUME NEW c, DOMAIN c.vrai \in SUBSET Int, IsFiniteSet(DOMAIN c.vrai), NEW nature, nature \notin c.echecs,
         ~L!Coupee(L!Fiches(c, nature))
  PROVE  L!Fiches(c, nature) = {i \in DOMAIN c.vrai : c.vrai[i].nature = nature}
<1> DEFINE t == {i \in DOMAIN c.vrai : c.vrai[i].nature = nature}
           avant(i) == {j \in t : j < i}
           f == L!Fiches(c, nature)
<1>1. f = {i \in t : Cardinality(avant(i)) < MaxFiches}
  BY MemesNotionsL DEF L!Fiches
<1>2. t \in SUBSET Int /\ IsFiniteSet(t)
  <2>1. t \in SUBSET DOMAIN c.vrai
    OBVIOUS
  <2> QED BY <2>1, FS_Subset
<1>3. ~(Cardinality(f) >= MaxFiches)
  BY MemesNotionsL DEF L!Coupee
<1> HIDE DEF t, f
<1>4. SUFFICES ASSUME t \ f # {} PROVE FALSE
  BY <1>1 DEF t, f
<1>5. t \ f \in SUBSET Int /\ IsFiniteSet(t \ f) /\ f \in SUBSET t
  BY <1>1, <1>2, FS_Subset
<1> DEFINE r == t \ f
<1>6. PICK m \in t \ f : \A y \in t \ f : m <= y
  <2>1. r \in SUBSET Int /\ IsFiniteSet(r) /\ r # {}
    BY <1>4, <1>5
  <2> HIDE DEF r
  <2>2. \E m \in r : \A y \in r : m <= y
    BY <2>1, PlusPetit
  <2> QED BY <2>2 DEF r
<1>7. avant(m) \in SUBSET f
  <2> SUFFICES ASSUME NEW j \in t, j < m PROVE j \in f
    OBVIOUS
  <2>1. j \in Int /\ m \in Int
    BY <1>2, <1>6
  <2> QED BY <1>6, <2>1
<1>8. IsFiniteSet(f)
  BY <1>2, <1>5, FS_Subset
<1> DEFINE a == avant(m)
<1>9. a \in SUBSET f
  BY <1>7
<1> HIDE DEF a
<1>10. Cardinality(a) <= Cardinality(f) /\ Cardinality(a) \in Nat /\ Cardinality(f) \in Nat
  BY <1>8, <1>9, FS_Subset, FS_CardinalityType
<1>11. Cardinality(a) < MaxFiches
  BY <1>3, <1>10, LimitesLues
<1> QED BY <1>1, <1>6, <1>11 DEF a

\* Among the people that were collected, those of one nature are those of its list,
LEMMA DeSaListe ==
  ASSUME NEW c, \A i \in DOMAIN c.vrai : c.vrai[i].nature \in {"employe", "ouvrier"},
         NEW nature \in {"employe", "ouvrier"}
  PROVE  {i \in L!Collecte(c).lignes : c.vrai[i].nature = nature} = L!Fiches(c, nature)
<1>1. L!Collecte(c).lignes = L!Fiches(c, "employe") \cup L!Fiches(c, "ouvrier")
  BY DEF L!Collecte
<1>2. \A n \in {"employe", "ouvrier"} : \A i \in L!Fiches(c, n) : c.vrai[i].nature = n
  BY DEF L!Fiches
<1> QED BY <1>1, <1>2

\* ... all of them when it was read in full, and nobody when it failed.
LEMMA ComptesDeListe ==
  ASSUME NEW c, DOMAIN c.vrai \in SUBSET Int, IsFiniteSet(DOMAIN c.vrai),
         \A i \in DOMAIN c.vrai : c.vrai[i].nature \in {"employe", "ouvrier"},
         NEW nature \in {"employe", "ouvrier"}
  PROVE  LET gens == {i \in {j \in L!Collecte(c).lignes : c.filtre \in {"", c.vrai[j].societe}} :
                        c.vrai[i].nature = nature}
         IN /\ L!EnEntier(c, nature) => gens = L!DeNature(c, nature)
            /\ nature \in c.echecs => gens = {}
<1> DEFINE gens == {i \in {j \in L!Collecte(c).lignes : c.filtre \in {"", c.vrai[j].societe}} :
                      c.vrai[i].nature = nature}
<1>1. gens = {i \in L!Fiches(c, nature) : c.filtre \in {"", c.vrai[i].societe}}
  <2> DEFINE lignes == L!Collecte(c).lignes
             fiches == L!Fiches(c, nature)
  <2>1. {i \in lignes : c.vrai[i].nature = nature} = fiches
    BY DeSaListe, Zenon
  <2> HIDE DEF lignes, fiches
  <2>2. {i \in {j \in lignes : c.filtre \in {"", c.vrai[j].societe}} : c.vrai[i].nature = nature}
          = {i \in fiches : c.filtre \in {"", c.vrai[i].societe}}
    BY ONLY <2>1
  <2> QED BY <2>2 DEF lignes, fiches
<1>2. L!EnEntier(c, nature) => gens = L!DeNature(c, nature)
  <2> SUFFICES ASSUME L!EnEntier(c, nature) PROVE gens = L!DeNature(c, nature)
    OBVIOUS
  <2>1. L!Fiches(c, nature) = {i \in DOMAIN c.vrai : c.vrai[i].nature = nature}
    BY ListeEntiere DEF L!EnEntier
  <2> HIDE DEF gens
  <2> QED BY <1>1, <2>1 DEF L!DeNature
<1>3. nature \in c.echecs => gens = {}
  <2>1. nature \in c.echecs => L!Fiches(c, nature) = {}
    BY DEF L!Fiches
  <2> HIDE DEF gens
  <2> QED BY <1>1, <2>1
<1> QED BY <1>2, <1>3

\* A structure counts whole lists and says when it does not.
LEMMA StructureTenue ==
  ASSUME DOMAIN x1.vrai \in SUBSET Int, IsFiniteSet(DOMAIN x1.vrai),
         \A i \in DOMAIN x1.vrai : x1.vrai[i].nature \in {"employe", "ouvrier"}, x2 = L!Structure(x1)
  PROVE  L!StructureExacte
<1> DEFINE c == x1
           charge == L!Collecte(c)
           gens(n) == {i \in {j \in charge.lignes : c.filtre \in {"", c.vrai[j].societe}} : c.vrai[i].nature = n}
           sansFin == [echus |-> L!ND, a90 |-> L!ND]
           muette == charge.lignes = {} /\ charge.etat = "error"
<1>1. /\ muette => x2.etat = "error" /\ x2.total = L!ND
      /\ ~muette => /\ x2.etat = charge.etat /\ x2.employes = Cardinality(gens("employe"))
                    /\ x2.ouvriers = Cardinality(gens("ouvrier"))
  BY MemesNotionsL DEF L!Structure
<1>2. /\ charge.etat = "connected" =>
           c.echecs = {} /\ ~L!Coupee(L!Fiches(c, "employe")) /\ ~L!Coupee(L!Fiches(c, "ouvrier"))
      /\ c.echecs # {} /\ ~muette => charge.etat = "partial"
  BY DEF L!Collecte
<1>3. \A n \in {"employe", "ouvrier"} :
        /\ L!EnEntier(c, n) => gens(n) = L!DeNature(c, n)
        /\ n \in c.echecs => gens(n) = {}
  BY ComptesDeListe
<1>4. ASSUME "contrats" \in c.echecs PROVE x2.echeances = sansFin
  <2>1. charge.contrats = FALSE
    BY <1>4 DEF L!Collecte
  <2>2. \A employes : L!Echeances(c, charge, employes) = sansFin
    BY <2>1 DEF L!Echeances
  <2> HIDE DEF charge
  <2>3. L!Structure(c).echeances = sansFin
    BY <2>2 DEF L!Structure, charge
  <2> QED BY <2>3
<1> HIDE DEF gens, charge
<1>5. x2.etat = "connected" => c.echecs = {} /\ L!EnEntier(c, "employe") /\ L!EnEntier(c, "ouvrier")
  BY <1>1, <1>2 DEF L!EnEntier
<1>6. x2.total # L!ND =>
        /\ L!EnEntier(c, "employe") => x2.employes = Cardinality(L!DeNature(c, "employe"))
        /\ L!EnEntier(c, "ouvrier") => x2.ouvriers = Cardinality(L!DeNature(c, "ouvrier"))
        /\ "employe" \in c.echecs => x2.employes = 0 /\ x2.etat = "partial"
  <2>1. Cardinality({}) = 0
    BY FS_EmptySet
  <2> QED BY <1>1, <1>2, <1>3, <2>1
<1> QED BY <1>4, <1>5, <1>6, MemesNotionsL DEF L!StructureExacte

\* A window ends today at the latest, and is the one asked for or says it is not.
LEMMA FenetreTenue ==
  ASSUME x1.debut \in Int, x1.fin \in Int, x2 = L!Fenetre(x1)
  PROVE  L!FenetreDite
<1> DEFINE c == x1
           fin == IF c.fin > 0 THEN 0 ELSE c.fin
           jours == IF c.days \in L!FenetresJours THEN c.days ELSE 30
<1> USE DEF L!Aujourdhui, L!MaxJours, L!MaxJoursExplicite
<1>1. jours \in {7, 30} /\ fin \in Int
  BY DEF L!FenetresJours
<1>2. CASE ~c.datee
  <2>1. x2 = [debut |-> 0 - jours + 1, fin |-> 0, avis |-> FALSE]
    BY <1>2 DEF L!Fenetre
  <2> HIDE DEF jours
  <2> QED BY <1>1, <1>2, <2>1 DEF L!FenetreDite
<1>3. CASE c.datee /\ c.debut > fin
  <2>1. x2 = [debut |-> 0 - 30 + 1, fin |-> 0, avis |-> TRUE]
    BY <1>3 DEF L!Fenetre
  <2> QED BY <2>1 DEF L!FenetreDite
<1>4. CASE c.datee /\ ~(c.debut > fin)
  <2> DEFINE trop == fin - c.debut + 1 > 92
  <2>1. x2 = [debut |-> IF trop THEN fin - 92 + 1 ELSE c.debut, fin |-> fin, avis |-> c.fin > 0 \/ trop]
    BY <1>4 DEF L!Fenetre, L!Ramener
  <2>2. (x1.fin > 0 => fin = 0) /\ (~(x1.fin > 0) => fin = x1.fin) /\ fin <= 0 /\ x1.debut <= fin
    BY <1>4
  <2> HIDE DEF fin
  <2>3. /\ x2.debut = (IF trop THEN fin - 92 + 1 ELSE x1.debut) /\ x2.fin = fin
        /\ x2.avis = (x1.fin > 0 \/ trop)
    BY <2>1
  <2>4. /\ x2.debut <= x2.fin /\ x2.fin <= 0 /\ x2.fin - x2.debut < 92
        /\ x2.avis \/ (x2.debut = x1.debut /\ x2.fin = x1.fin)
    <3>1. CASE trop
      <4>0. x2.avis
        <5>1. x2.avis = TRUE
          BY <2>3, <3>1
        <5> QED BY <5>1
      <4>2. x2.debut = fin - 92 + 1 /\ x2.fin = fin
        BY <2>3, <3>1
      <4> HIDE DEF trop
      <4>1. x2.debut = fin - 91 /\ x2.fin = fin /\ x2.avis
        BY <1>1, <4>0, <4>2
      <4> QED BY <1>1, <2>2, <4>1
    <3>2. CASE ~trop
      <4>1. x2.debut = x1.debut /\ x2.fin = fin /\ x2.avis = (x1.fin > 0) /\ fin - x1.debut < 92
        BY <1>1, <2>3, <3>2
      <4> HIDE DEF trop
      <4> QED BY <1>1, <2>2, <4>1
    <3> QED BY <3>1, <3>2
  <2> QED BY <2>4 DEF L!FenetreDite
<1> QED BY <1>2, <1>3, <1>4

-----------------------------------------------------------------------------
(* What is published of Shield is what one of the cases gives. *)
CasShield == UNION {L!CasHr, L!CasSecurite, L!CasOverview, L!CasSerie, L!CasSites, L!CasStructure, L!CasFenetre}
ShieldLu == part = "shield" => x1 = Neant \/ (x1 \in CasShield /\ x2 = L!Publication(x1))

\* Every reachable case of Shield is one of those, and what is published is what the code makes of it.
LEMMA ShieldLuInv == PlateformeSpec => []ShieldLu
<1>1. PlateformeInit => ShieldLu
  BY DEF PlateformeInit, ShieldLu, L!Init
<1>2. ShieldLu /\ [PlateformeNext]_plateforme => ShieldLu'
  <2> SUFFICES ASSUME ShieldLu, [PlateformeNext]_plateforme, part' = "shield" PROVE ShieldLu'
    BY DEF ShieldLu
  <2>1. part = "shield" /\ (L!Next \/ UNCHANGED registers)
    BY PartFixe DEF PlateformeNext, plateforme
  <2>2. CASE L!Next
    <3>1. ASSUME NEW s \in SUBSET CasShield, L!Publier(s) PROVE x1' \in CasShield /\ x2' = L!Publication(x1')
      BY <3>1 DEF L!Publier
    <3>2. /\ L!CasHr \in SUBSET CasShield /\ L!CasSecurite \in SUBSET CasShield /\ L!CasOverview \in SUBSET CasShield
          /\ L!CasSerie \in SUBSET CasShield /\ L!CasSites \in SUBSET CasShield
          /\ L!CasStructure \in SUBSET CasShield /\ L!CasFenetre \in SUBSET CasShield
      BY DEF CasShield
    <3>3. x1' \in CasShield /\ x2' = L!Publication(x1')
      BY <2>2, <3>1, <3>2, Zenon DEF L!Next
    <3> QED BY <3>3 DEF ShieldLu
  <2>3. CASE UNCHANGED registers
    <3>1. x1' = x1 /\ x2' = x2
      BY <2>3 DEF registers
    <3> QED BY <2>1, <3>1, Zenon DEF ShieldLu
  <2> QED BY <2>1, <2>2, <2>3
<1> QED BY <1>1, <1>2, PTL DEF PlateformeSpec

\* What each kind of case is made of.
LEMMA GenresDeShield ==
  /\ \A c \in L!CasHr : c.genre = "hr" /\ CasDePage(c)
  /\ \A c \in L!CasSecurite : c.genre = "securite" /\ CasDePage(c)
  /\ \A c \in L!CasOverview : c.genre = "overview" /\ CasDePage(c)
  /\ \A c \in L!CasSerie : c.genre = "serie" /\ \A f \in L!Flags : c.vrai[f] \in [L!Jours -> Nat]
  /\ \A c \in L!CasSites : c.genre = "sites"
  /\ \A c \in L!CasStructure :
       /\ c.genre = "structure" /\ DOMAIN c.vrai \in SUBSET Int /\ IsFiniteSet(DOMAIN c.vrai)
       /\ \A i \in DOMAIN c.vrai : c.vrai[i].nature \in {"employe", "ouvrier"}
  /\ \A c \in L!CasFenetre : c.genre = "fenetre" /\ c.debut \in Int /\ c.fin \in Int
<1>1. \A c \in L!CasHr : c.genre = "hr" /\ CasDePage(c)
  BY DEF L!CasHr, CasDePage
<1>2. \A c \in L!CasSecurite : c.genre = "securite" /\ CasDePage(c)
  BY DEF L!CasSecurite, CasDePage
<1>3. \A c \in L!CasOverview : c.genre = "overview" /\ CasDePage(c)
  BY DEF L!CasOverview, CasDePage
<1>4. \A c \in L!CasSerie : c.genre = "serie" /\ \A f \in L!Flags : c.vrai[f] \in [L!Jours -> Nat]
  <2>0. \A c \in L!CasSerie : c.genre = "serie"
    BY DEF L!CasSerie
  <2> SUFFICES ASSUME NEW c \in L!CasSerie, NEW f \in L!Flags
               PROVE  c.vrai[f] \in [L!Jours -> Nat]
    BY <2>0
  <2>1. c.vrai \in [present : L!Journees, absent : L!Journees, late : L!Journees]
    BY DEF L!CasSerie
  <2>2. c.vrai[f] \in L!Journees
    BY <2>1 DEF L!Flags
  <2>3. L!Decomptes \in SUBSET Nat
    BY DEF L!Decomptes
  <2> QED BY <2>1, <2>2, <2>3 DEF L!Journees
<1>5. \A c \in L!CasSites : c.genre = "sites"
  BY DEF L!CasSites
<1>6. ASSUME NEW c \in L!CasStructure
      PROVE  /\ c.genre = "structure" /\ DOMAIN c.vrai \in SUBSET Int /\ IsFiniteSet(DOMAIN c.vrai)
             /\ \A i \in DOMAIN c.vrai : c.vrai[i].nature \in {"employe", "ouvrier"}
  <2>1. c.genre = "structure" /\ c.vrai \in UNION {[1..n -> L!Fiche] : n \in 0..3}
    BY DEF L!CasStructure
  <2>2. PICK n \in 0..3 : c.vrai \in [1..n -> L!Fiche]
    BY <2>1
  <2>3. DOMAIN c.vrai = 1..n /\ \A i \in 1..n : c.vrai[i] \in L!Fiche
    BY <2>2
  <2>4. IsFiniteSet(1..n) /\ 1..n \in SUBSET Int
    <3>1. \A k \in 0..3 : IsFiniteSet(1..k) /\ 1..k \in SUBSET Int
      <4>1. \A k \in 0..3 : k \in Int
        OBVIOUS
      <4>2. \A k \in 0..3 : IsFiniteSet(1..k)
        BY <4>1, FS_Interval
      <4>3. \A k \in 0..3 : 1..k \in SUBSET Int
        BY <4>1
      <4> QED BY ONLY <4>2, <4>3
    <3> QED BY ONLY <3>1, n \in 0..3
  <2>5. \A p \in L!Fiche : p.nature \in {"employe", "ouvrier"}
    BY DEF L!Fiche
  <2> QED BY <2>1, <2>3, <2>4, <2>5
<1>7. \A c \in L!CasFenetre : c.genre = "fenetre" /\ c.debut \in Int /\ c.fin \in Int
  BY DEF L!CasFenetre
<1> QED BY <1>1, <1>2, <1>3, <1>4, <1>5, <1>6, <1>7

\* What is published of each.
LEMMA PublicationDe ==
  ASSUME NEW c
  PROVE  /\ c.genre = "hr" => L!Publication(c) = L!Hr(c)
         /\ c.genre = "securite" => L!Publication(c) = L!Securite(c)
         /\ c.genre = "overview" => L!Publication(c) = L!Overview(c)
         /\ c.genre = "serie" => L!Publication(c) = L!Serie(c)
         /\ c.genre = "sites" => L!Publication(c) = L!ParSite(c)
         /\ c.genre = "structure" => L!Publication(c) = L!Structure(c)
         /\ c.genre = "fenetre" => L!Publication(c) = L!Fenetre(c)
BY DEF L!Publication

\* A page is honest: its failures remove, and its state says so.
LEMMA PagesHonnetes ==
  ASSUME x1 \in L!CasHr \cup L!CasSecurite \cup L!CasOverview, x2 = L!Publication(x1)
  PROVE  L!EchecRetire /\ L!EtatHonnete
<1>1. CasDePage(x1) /\ x1.genre \in {"hr", "securite", "overview"}
  BY GenresDeShield
<1>2. L!Verite(x1) = L!Publication(Entier(x1)) /\ Entier(x1).genre = x1.genre
  BY <1>1, EntierDe DEF L!Verite, Entier
<1>3. Honnete(x2, L!Verite(x1))
  <2>1. CASE x1.genre = "hr"
    BY <1>1, <1>2, <2>1, PublicationDe, HrHonnete
  <2>2. CASE x1.genre = "securite"
    BY <1>1, <1>2, <2>2, PublicationDe, SecuriteHonnete
  <2>3. CASE x1.genre = "overview"
    BY <1>1, <1>2, <2>3, PublicationDe, OverviewHonnete
  <2> QED BY <1>1, <2>1, <2>2, <2>3
<1> QED BY <1>3 DEF L!EchecRetire, L!EtatHonnete, Honnete

\* What is published of Shield is what was read.
LEMMA ShieldFidele ==
  ASSUME x1 = Neant \/ (x1 \in CasShield /\ x2 = L!Publication(x1))
  PROVE  /\ L!EchecRetire /\ L!EtatHonnete /\ L!SerieExacte /\ L!SiteExact /\ L!StructureExacte /\ L!FenetreDite
<1> DEFINE autre(g) == ~L!Genre(g)
<1>0. /\ ~L!TouteLecture => L!EchecRetire /\ L!EtatHonnete
      /\ ~L!Genre("serie") => L!SerieExacte
      /\ ~L!Genre("sites") => L!SiteExact
      /\ ~L!Genre("structure") => L!StructureExacte
      /\ ~L!Genre("fenetre") => L!FenetreDite
  BY DEF L!EchecRetire, L!EtatHonnete, L!SerieExacte, L!SiteExact, L!StructureExacte, L!FenetreDite
<1>1. CASE x1 = Neant
  <2>1. ~L!TouteLecture /\ \A g : ~L!Genre(g)
    BY <1>1 DEF L!TouteLecture, L!Genre
  <2> QED BY <1>0, <2>1
<1>2. CASE x1 \in CasShield /\ x2 = L!Publication(x1)
  <2>1. L!TouteLecture => L!EchecRetire /\ L!EtatHonnete
    <3> SUFFICES ASSUME L!TouteLecture PROVE L!EchecRetire /\ L!EtatHonnete
      OBVIOUS
    <3>1. x1.genre \in {"hr", "securite", "overview"}
      BY DEF L!TouteLecture, L!Genre
    <3>2. x1 \in L!CasHr \cup L!CasSecurite \cup L!CasOverview
      BY <1>2, <3>1, GenresDeShield DEF CasShield
    <3> QED BY <1>2, <3>2, PagesHonnetes
  <2>2. L!Genre("serie") => L!SerieExacte
    <3> SUFFICES ASSUME x1.genre = "serie" PROVE L!SerieExacte
      BY DEF L!Genre
    <3>1. x1 \in L!CasSerie
      BY <1>2, GenresDeShield DEF CasShield
    <3> QED BY <1>2, <3>1, GenresDeShield, PublicationDe, SerieTenue
  <2>3. L!Genre("sites") => L!SiteExact
    <3> SUFFICES ASSUME x1.genre = "sites" PROVE L!SiteExact
      BY DEF L!Genre
    <3> QED BY <1>2, PublicationDe, SitesTenus
  <2>4. L!Genre("structure") => L!StructureExacte
    <3> SUFFICES ASSUME x1.genre = "structure" PROVE L!StructureExacte
      BY DEF L!Genre
    <3>1. x1 \in L!CasStructure
      BY <1>2, GenresDeShield DEF CasShield
    <3> QED BY <1>2, <3>1, GenresDeShield, PublicationDe, StructureTenue
  <2>5. L!Genre("fenetre") => L!FenetreDite
    <3> SUFFICES ASSUME x1.genre = "fenetre" PROVE L!FenetreDite
      BY DEF L!Genre
    <3>1. x1 \in L!CasFenetre
      BY <1>2, GenresDeShield DEF CasShield
    <3> QED BY <1>2, <3>1, GenresDeShield, PublicationDe, FenetreTenue
  <2> QED BY <1>0, <2>1, <2>2, <2>3, <2>4, <2>5
<1> QED BY <1>1, <1>2
-----------------------------------------------------------------------------
(* The readings of Odoo. *)

\* The instance of the readings of Odoo speaks of the same finite sets, cardinals and extrema.
LEMMA MemesNotionsR ==
  /\ \A s : (R!IsFiniteSet(s) <=> IsFiniteSet(s)) /\ R!Cardinality(s) = Cardinality(s)
  /\ \A s : R!Min(s) = I!Min(s)
<1>1. \A s : R!IsFiniteSet(s) <=> IsFiniteSet(s)
  BY DEF R!IsFiniteSet, IsFiniteSet
<1>2. \A s : R!Cardinality(s) = Cardinality(s)
  BY <1>1 DEF R!Cardinality, Cardinality
<1>3. \A s : R!Min(s) = I!Min(s)
  BY DEF R!Min, I!Min
<1> QED BY <1>1, <1>2, <1>3

\* The companies are finitely many, and the limits of the readings are counts.
LEMMA SocietesFinies == IsFiniteSet(SocietesLues) /\ MaxLus \in Nat /\ MaxPostes \in Nat
BY Constantes, MemesNotionsR, Zenon DEF R!OdooConstantes

\* A case of Odoo: companies asked for, rows in finite number, and a job list and departments of the companies.
CasOdoo(c) ==
  /\ c = R!Cas(c.societes, c.employes, c.ensuite, c.reponses, c.champs, c.source, c.uid, c.verifiee)
  /\ c.societes \in R!Demandees
  /\ IsFiniteSet(c.employes) /\ IsFiniteSet(c.ensuite)

\* What is published of Odoo.
OdooPublie(c) == [rh |-> R!Chiffres(c), reference |-> R!Reference(c), sante |-> R!Sante(c)]
OdooLu == part = "odoo" => x1 = Neant \/ (CasOdoo(x1) /\ x2 = OdooPublie(x1))

\* The employees of a case are finitely many, whatever the companies they are of.
LEMMA EffectifsFinis ==
  /\ \A e \in R!Effectifs : IsFiniteSet(e)
  /\ IsFiniteSet(R!Effectif)
<1>1. ASSUME NEW e \in R!Effectifs PROVE IsFiniteSet(e)
  <2>0. PICK K \in SUBSET (SocietesLues \X {1, 2}) :
             \E f \in [K -> [actif : BOOLEAN, departement : {"d1", R!SansDepartement}]] :
                e = {R!Employe(k[1], k[2], f[k].actif, f[k].departement) : k \in DOMAIN f}
    BY <1>1 DEF R!Effectifs
  <2>1. PICK f \in [K -> [actif : BOOLEAN, departement : {"d1", R!SansDepartement}]] :
             e = {R!Employe(k[1], k[2], f[k].actif, f[k].departement) : k \in DOMAIN f}
    BY <2>0
  <2>2. IsFiniteSet(K)
    <3>1. IsFiniteSet({1, 2})
      <4>1. {1, 2} = 1..2 /\ 1 \in Int /\ 2 \in Int
        OBVIOUS
      <4>2. IsFiniteSet(1..2)
        BY <4>1, FS_Interval
      <4> QED BY <4>1, <4>2
    <3>2. IsFiniteSet(SocietesLues \X {1, 2})
      BY <3>1, SocietesFinies, FS_Product
    <3> QED BY <3>2, FS_Subset
  <2> DEFINE g == [k \in K |-> R!Employe(k[1], k[2], f[k].actif, f[k].departement)]
  <2>3. e = {g[k] : k \in K}
    BY <2>1
  <2> HIDE DEF g
  <2> QED BY <2>2, <2>3, ImageFinie
<1>2. IsFiniteSet(R!Effectif)
  <2> DEFINE g == [s \in SocietesLues |-> R!Employe(s, 1, TRUE, "d1")]
             h == [s \in SocietesLues |-> R!Employe(s, 2, FALSE, R!SansDepartement)]
  <2>1. R!Effectif = {g[s] : s \in SocietesLues} \cup {h[s] : s \in SocietesLues}
    BY DEF R!Effectif
  <2> HIDE DEF g, h
  <2>2. IsFiniteSet({g[s] : s \in SocietesLues}) /\ IsFiniteSet({h[s] : s \in SocietesLues})
    BY SocietesFinies, ImageFinie
  <2> QED BY <2>1, <2>2, FS_Union
<1> QED BY <1>1, <1>2

\* The fields of a case.
LEMMA CasDe ==
  ASSUME NEW so, NEW e, NEW f, NEW r, NEW ch, NEW src, NEW u, NEW v, so \in R!Demandees,
         IsFiniteSet(e), IsFiniteSet(f)
  PROVE  CasOdoo(R!Cas(so, e, f, r, ch, src, u, v))
BY DEF CasOdoo, R!Cas

\* Every reachable case is one, published as the code publishes it.
LEMMA OdooLuInv == PlateformeSpec => []OdooLu
<1>1. PlateformeInit => OdooLu
  BY DEF PlateformeInit, OdooLu, R!Init
<1>2. OdooLu /\ [PlateformeNext]_plateforme => OdooLu'
  <2> SUFFICES ASSUME OdooLu, [PlateformeNext]_plateforme, part' = "odoo" PROVE OdooLu'
    BY DEF OdooLu
  <2>1. part = "odoo" /\ (R!Next \/ UNCHANGED registers)
    BY PartFixe DEF PlateformeNext, plateforme
  <2>2. CASE R!Next
    <3>1. \E so \in R!Demandees : \E e, f, r, ch, src, u, v :
             IsFiniteSet(e) /\ IsFiniteSet(f) /\ x1' = R!Cas(so, e, f, r, ch, src, u, v)
      <4>1. PICK so \in R!Demandees :
           \/ \E e \in R!Effectifs, f \in R!Effectifs :
                 x1' = R!Cas(so, e, f, R!ToutRepond, R!Champs, "connectee", "ok", "connected")
           \/ \E a, b \in R!Appels, p, q \in R!Pannes \cup {R!Repris}, ch \in SUBSET R!Champs :
                 x1' = R!Cas(so, R!Effectif, R!Effectif, [R!ToutRepond EXCEPT ![a] = p, ![b] = q], ch,
                             "connectee", "ok", "connected")
           \/ \E p \in R!Pannes :
                 x1' = R!Cas(so, R!Effectif, R!Effectif, [a \in R!Appels |-> p], R!Champs, "connectee", "ok", "connected")
           \/ \E source \in {"connectee", "non_connectee", "absente"}, u \in {"ok", "auth", "config", "base", "reseau"},
                 v \in {"", "connected", "stale", "auth_required"} :
                 x1' = R!Cas(so, R!Effectif, R!Effectif, R!ToutRepond, R!Champs, source, u, v)
        BY <2>2, Zenon DEF R!Next
      <4> HIDE <2>2
      <4> DEFINE but == \E e, f, r, ch, src, u, v :
                      IsFiniteSet(e) /\ IsFiniteSet(f) /\ x1' = R!Cas(so, e, f, r, ch, src, u, v)
      <4>2. ASSUME NEW e, NEW f, NEW r, NEW ch, NEW src, NEW u, NEW v, IsFiniteSet(e), IsFiniteSet(f),
                   x1' = R!Cas(so, e, f, r, ch, src, u, v)
            PROVE  but
        BY <4>2, Zenon
      <4>3. so \in R!Demandees /\ but
        <5> HIDE DEF but
        <5> QED BY <4>1, <4>2, EffectifsFinis, Zenon
      <4> QED BY <4>3, Zenon
    <3>2. x2' = OdooPublie(x1)'
      BY <2>2 DEF R!Next, OdooPublie
    <3>3. CasOdoo(x1')
      BY <3>1, CasDe
    <3> QED BY <3>2, <3>3 DEF OdooLu
  <2>3. CASE UNCHANGED registers
    <3>1. x1' = x1 /\ x2' = x2
      BY <2>3 DEF registers
    <3> QED BY <2>1, <3>1, Zenon DEF OdooLu
  <2> QED BY <2>1, <2>2, <2>3
<1> QED BY <1>1, <1>2, PTL DEF PlateformeSpec

\* What is known of the rows of a case: finite, and of the companies the filter lets through.
LEMMA LignesOdoo ==
  ASSUME NEW c, CasOdoo(c)
  PROVE  /\ R!Filtre(c) \in SUBSET SocietesLues
         /\ \A a : IsFiniteSet(R!Employes(c, a))
         /\ IsFiniteSet(R!EmployesEnsuite(c))
         /\ IsFiniteSet(R!Postes(c)) /\ \A p \in R!Postes(c) : p.ouverts = 2
         /\ IsFiniteSet(R!Departements(c))
         /\ c.societes # R!Toutes => IsFiniteSet(c.societes)
<1>1. c.societes = R!Toutes \/ c.societes \in SUBSET SocietesLues
  BY DEF CasOdoo, R!Demandees
<1>2. R!Filtre(c) \in SUBSET SocietesLues
  BY <1>1 DEF R!Filtre
<1>3. (\A a : IsFiniteSet(R!Employes(c, a))) /\ IsFiniteSet(R!EmployesEnsuite(c))
  <2>1. (\A a : R!Employes(c, a) \subseteq c.employes) /\ R!EmployesEnsuite(c) \subseteq c.ensuite
    BY DEF R!Employes, R!EmployesEnsuite
  <2> QED BY <2>1, FS_Subset DEF CasOdoo
<1>4. c.postes = R!LesPostes /\ c.departements = R!LesDepartements
  BY DEF CasOdoo, R!Cas
<1>5. IsFiniteSet(R!LesPostes) /\ \A p \in R!LesPostes : p.ouverts = 2
  <2> DEFINE g == [s \in SocietesLues |-> [societe |-> s, ouverts |-> 2]]
  <2>1. R!LesPostes = {g[s] : s \in SocietesLues}
    BY DEF R!LesPostes
  <2>2. \A p \in R!LesPostes : p.ouverts = 2
    BY DEF R!LesPostes
  <2> HIDE DEF g
  <2> QED BY <2>1, <2>2, SocietesFinies, ImageFinie
<1>6. IsFiniteSet(R!LesDepartements)
  <2> DEFINE g == [s \in SocietesLues |-> [societe |-> s]]
  <2>1. R!LesDepartements = {g[s] : s \in SocietesLues}
    BY DEF R!LesDepartements
  <2> HIDE DEF g
  <2> QED BY <2>1, SocietesFinies, ImageFinie
<1>7. R!Postes(c) \subseteq R!LesPostes /\ R!Departements(c) \subseteq R!LesDepartements
  BY <1>4 DEF R!Postes, R!Departements
<1> QED BY <1>1, <1>2, <1>3, <1>5, <1>6, <1>7, SocietesFinies, FS_Subset

\* No key figure without an answer.
Ferme(c) == R!Bloque(c) \/ c.uid # "ok"

\* The card of a key figure, when the session is open.
CarteDe(c, k) ==
  CASE k = "actifs" -> R!Carte(R!Issue(c, "actifs"), Cardinality(R!Employes(c, TRUE)))
    [] k = "sortis" -> R!Carte(R!Issue(c, "sortis"), Cardinality(R!Employes(c, FALSE)))
    [] k = "departements" -> R!Carte(R!Issue(c, "departements"), Cardinality(R!Departements(c)))
    [] k = "metiers" -> R!Carte(R!Issue(c, "metiers"), Cardinality(R!Postes(c)))
    [] k = "postes" -> R!PostesOuverts(c)
    [] k = "societes" -> IF c.societes = R!Toutes THEN R!Carte(R!Issue(c, "societes"), Cardinality(SocietesLues))
                         ELSE R!Carte("ok", Cardinality(c.societes))
PartDe(a, s) ==
  [valeur |-> IF a.valeur # R!ND /\ s.valeur # R!ND THEN R!Pourcentage(s.valeur, a.valeur + s.valeur) ELSE R!ND,
   statut |-> IF a.valeur # R!ND /\ s.valeur # R!ND THEN "connected" ELSE "disconnected"]

\* The cards, one by one.
LEMMA ChiffresDe ==
  ASSUME NEW c
  PROVE  /\ DOMAIN R!Chiffres(c).kpis = R!Lues \cup {"postes", "part"}
         /\ Ferme(c) => /\ \A k \in R!Lues \cup {"postes", "part"} :
                              R!Chiffres(c).kpis[k] = [valeur |-> R!ND, statut |-> "disconnected"]
                        /\ R!Chiffres(c).departements.sans = R!ND
                        /\ R!Chiffres(c).statut # "connected"
                        /\ \E s \in {"disconnected", "error"} : R!Chiffres(c) = R!Vide(s, s)
         /\ ~Ferme(c) => /\ \A k \in R!Lues \cup {"postes"} : R!Chiffres(c).kpis[k] = CarteDe(c, k)
                         /\ R!Chiffres(c).kpis["part"] = PartDe(CarteDe(c, "actifs"), CarteDe(c, "sortis"))
                         /\ R!Chiffres(c).departements = R!Repartition(c)
                         /\ R!Chiffres(c).statut = "connected" =>
                              \A k \in R!Lues : R!Chiffres(c).kpis[k].valeur # R!ND
<1>1. CASE Ferme(c)
  <2>1. PICK s \in {"disconnected", "error"} : R!Chiffres(c) = R!Vide(s, s)
    BY <1>1, Zenon DEF R!Chiffres, Ferme
  <2> DEFINE q == R!Chiffres(c)
  <2>2. /\ q.kpis = R!Deconnectes /\ q.statut # "connected" /\ q.departements.sans = R!ND
    BY <2>1 DEF R!Vide, R!SansRepartition
  <2> HIDE DEF q
  <2>3. /\ DOMAIN q.kpis = R!Lues \cup {"postes", "part"}
        /\ \A k \in R!Lues \cup {"postes", "part"} : q.kpis[k] = [valeur |-> R!ND, statut |-> "disconnected"]
    BY <2>2 DEF R!Deconnectes, R!Lues
  <2> QED BY <1>1, <2>1, <2>2, <2>3 DEF q
<1>2. CASE ~Ferme(c)
  <2> DEFINE kpis == [actifs |-> CarteDe(c, "actifs"), sortis |-> CarteDe(c, "sortis"),
                      societes |-> CarteDe(c, "societes"), departements |-> CarteDe(c, "departements"),
                      metiers |-> CarteDe(c, "metiers"), postes |-> CarteDe(c, "postes"),
                      part |-> PartDe(CarteDe(c, "actifs"), CarteDe(c, "sortis"))]
             reussies == {k \in R!Lues : kpis[k].valeur # R!ND}
             q == R!Chiffres(c)
  <2>1. q = [statut |-> IF reussies = R!Lues THEN "connected" ELSE IF reussies # {} THEN "partial" ELSE "error",
             kpis |-> kpis, departements |-> R!Repartition(c)]
    <3>1. /\ CarteDe(c, "actifs") = R!Carte(R!Issue(c, "actifs"), R!Cardinality(R!Employes(c, TRUE)))
          /\ CarteDe(c, "sortis") = R!Carte(R!Issue(c, "sortis"), R!Cardinality(R!Employes(c, FALSE)))
          /\ CarteDe(c, "departements") = R!Carte(R!Issue(c, "departements"), R!Cardinality(R!Departements(c)))
          /\ CarteDe(c, "metiers") = R!Carte(R!Issue(c, "metiers"), R!Cardinality(R!Postes(c)))
          /\ CarteDe(c, "postes") = R!PostesOuverts(c)
          /\ CarteDe(c, "societes") =
               IF c.societes = R!Toutes THEN R!Carte(R!Issue(c, "societes"), R!Cardinality(SocietesLues))
               ELSE R!Carte("ok", R!Cardinality(c.societes))
      BY MemesNotionsR DEF CarteDe
    <3>2. ~R!Bloque(c) /\ c.uid = "ok"
      BY <1>2 DEF Ferme
    <3> HIDE DEF reussies, kpis
    <3> QED BY <3>1, <3>2 DEF R!Chiffres, PartDe, kpis, reussies
  <2>2. q.kpis = kpis /\ q.departements = R!Repartition(c) /\ (q.statut = "connected" => reussies = R!Lues)
    <3> HIDE DEF kpis, reussies, q
    <3> QED BY <2>1
  <2>3. /\ DOMAIN kpis = R!Lues \cup {"postes", "part"}
        /\ \A k \in R!Lues \cup {"postes"} : kpis[k] = CarteDe(c, k)
        /\ kpis["part"] = PartDe(CarteDe(c, "actifs"), CarteDe(c, "sortis"))
    BY DEF R!Lues
  <2>4. reussies = R!Lues => \A k \in R!Lues : kpis[k].valeur # R!ND
    <3> HIDE DEF kpis
    <3> QED OBVIOUS
  <2> HIDE DEF kpis, reussies, q
  <2> QED BY <1>2, <2>2, <2>3, <2>4 DEF q
<1> QED BY <1>1, <1>2

\* The same companies, the same cards: an Odoo that holds nothing else, read for the whole Group.
LEMMA SocietesSeulesTenues ==
  ASSUME CasOdoo(x1), x2 = OdooPublie(x1)
  PROVE  R!SocietesSeules
<1> DEFINE c == x1
           De(ens) == {x \in ens : x.societe \in R!Filtre(c)}
           r == [c EXCEPT !.societes = R!Toutes, !.employes = De(@), !.ensuite = De(@), !.postes = De(@),
                          !.departements = De(@)]
<1>1. /\ r.societes = R!Toutes /\ r.employes = De(c.employes) /\ r.postes = De(c.postes)
      /\ r.ensuite = De(c.ensuite) /\ r.departements = De(c.departements)
      /\ r.reponses = c.reponses /\ r.champs = c.champs /\ r.source = c.source /\ r.uid = c.uid
  BY DEF CasOdoo, R!Cas
<1>2. R!Filtre(r) = SocietesLues /\ R!Filtre(c) \in SUBSET SocietesLues
  BY <1>1, LignesOdoo DEF R!Filtre
<1> HIDE DEF r
<1>3. /\ \A a : R!Employes(r, a) = R!Employes(c, a)
      /\ R!EmployesEnsuite(r) = R!EmployesEnsuite(c)
      /\ R!Postes(r) = R!Postes(c) /\ R!Departements(r) = R!Departements(c)
  BY <1>1, <1>2 DEF R!Employes, R!EmployesEnsuite, R!Postes, R!Departements
<1> HIDE DEF De, c
<1>4. \A a : R!Issue(r, a) = R!Issue(c, a)
  BY <1>1 DEF R!Issue
<1>5. R!PostesOuverts(r) = R!PostesOuverts(c)
  BY <1>1, <1>3, <1>4 DEF R!PostesOuverts, R!LirePostes
<1>6. R!Repartition(r) = R!Repartition(c)
  <2>1. /\ R!EmployesEnsuite(r) = R!EmployesEnsuite(c) /\ r.champs = c.champs
        /\ R!Issue(r, "employes") = R!Issue(c, "employes")
        /\ R!Issue(r, "champs_employes") = R!Issue(c, "champs_employes")
    BY <1>1, <1>3, <1>4
  <2> QED BY ONLY <2>1 DEF R!Repartition
<1>7. Ferme(r) <=> Ferme(c)
  BY <1>1 DEF Ferme, R!Bloque
<1>8. \A k \in (R!Lues \cup {"postes"}) \ {"societes"} : CarteDe(r, k) = CarteDe(c, k)
  BY <1>3, <1>4, <1>5 DEF CarteDe, R!Lues
<1>9. x2.rh = R!Chiffres(c)
  BY DEF OdooPublie, c
<1>10. /\ \A k \in DOMAIN x2.rh.kpis \ {"societes"} : x2.rh.kpis[k] = R!Chiffres(r).kpis[k]
       /\ x2.rh.departements = R!Chiffres(r).departements
  <2>1. CASE Ferme(c)
    <3>1. /\ DOMAIN R!Chiffres(c).kpis = R!Lues \cup {"postes", "part"}
          /\ \A k \in R!Lues \cup {"postes", "part"} : R!Chiffres(c).kpis[k] = R!Chiffres(r).kpis[k]
      BY <1>7, <2>1, ChiffresDe
    <3>2. R!Chiffres(c) = R!Chiffres(r)
      BY <1>1, <1>7, <2>1 DEF R!Chiffres, Ferme, R!Bloque
    <3> QED BY <1>9, <3>2
  <2>2. CASE ~Ferme(c)
    <3>1. \A k \in (R!Lues \cup {"postes"}) \ {"societes"} : R!Chiffres(c).kpis[k] = R!Chiffres(r).kpis[k]
      BY <1>7, <1>8, <2>2, ChiffresDe
    <3>2. "actifs" \in R!Lues /\ "sortis" \in R!Lues
      BY DEF R!Lues
    <3>3. R!Chiffres(c).kpis["part"] = R!Chiffres(r).kpis["part"]
      BY <1>7, <1>8, <2>2, <3>2, ChiffresDe
    <3>4. R!Chiffres(c).departements = R!Chiffres(r).departements
      BY <1>6, <1>7, <2>2, ChiffresDe
    <3>5. DOMAIN R!Chiffres(c).kpis = R!Lues \cup {"postes", "part"}
      BY ChiffresDe
    <3> QED BY <1>9, <3>1, <3>3, <3>4, <3>5
  <2> QED BY <2>1, <2>2
<1> QED BY <1>10 DEF R!SocietesSeules, r, De, c

\* A failure of the transport alone is tried again, and a new registration is asked for only of what Odoo refused.
LEMMA RepriseTenue ==
  ASSUME x2 = OdooPublie(x1)
  PROVE  R!RepriseEtSante
<1>1. ASSUME NEW reponses PROVE R!AppelerBrut(reponses).appels = 2 <=> reponses[1] \in R!Transport
  <2> DEFINE f == {n \in 1..R!MaxTentatives : n = R!MaxTentatives \/ reponses[n] \notin R!Transport}
  <2>1. R!AppelerBrut(reponses).appels = I!Min(f)
    BY MemesNotionsR DEF R!AppelerBrut
  <2>2. f = IF reponses[1] \in R!Transport THEN {2} ELSE {1, 2}
    BY DEF R!MaxTentatives
  <2>3. I!Min({2}) = 2 /\ I!Min({1, 2}) = 1
    BY DEF I!Min
  <2> HIDE DEF f
  <2> QED BY <2>1, <2>2, <2>3
<1>2. R!Sante(x1) = "auth_required" => x1.uid # "reseau" \/ x1.verifiee = "auth_required"
  BY DEF R!Sante
<1> QED BY <1>1, <1>2 DEF R!RepriseEtSante, OdooPublie

\* The jobs that are open are a count.
LEMMA OuvertsComptes ==
  ASSUME NEW s, IsFiniteSet(s), \A p \in s : p.ouverts \in Nat
  PROVE  R!Ouverts(s) \in Nat
<1> DEFINE f == [p \in s |-> p.ouverts]
           Autre(it) == it = [t \in SUBSET s |-> IF t = {} THEN 0 ELSE Pris(t).ouverts + it[t \ {Pris(t)}]]
<1>1. R!Ouverts(s) = (CHOOSE it : Autre(it))[s]
  BY Zenon DEF R!Ouverts, R!MapThenSumSet, R!MapThenFoldSet, Pris
<1>2. ASSUME NEW it PROVE Autre(it) <=> Enroule(it, f)
  <2>1. \A t \in SUBSET s : t # {} => f[Pris(t)] = Pris(t).ouverts
    BY DEF Pris
  <2>2. DOMAIN f = s
    OBVIOUS
  <2> HIDE DEF f
  <2>3. [t \in SUBSET s |-> IF t = {} THEN 0 ELSE Pris(t).ouverts + it[t \ {Pris(t)}]]
          = [t \in SUBSET s |-> IF t = {} THEN 0 ELSE f[Pris(t)] + it[t \ {Pris(t)}]]
    BY <2>1
  <2> QED BY <2>2, <2>3 DEF Enroule
<1>3. (CHOOSE it : Autre(it)) = (CHOOSE it : Enroule(it, f))
  <2> HIDE DEF Autre, f
  <2> QED BY <1>2
<1>4. DOMAIN f = s /\ f \in [s -> Int] /\ \A x \in s : f[x] >= 0
  OBVIOUS
<1> HIDE DEF Autre, f
<1>5. R!Ouverts(s) = Total(f)
  BY <1>1, <1>3, <1>4 DEF Total
<1>6. PICK it : EstSomme(it, f, s)
  BY <1>4, Sommation
<1>7. it[s] \in Int /\ it[s] >= 0
  BY <1>4, <1>6, SommePositive
<1>8. Total(f) = it[s]
  BY <1>6 DEF EstSomme
<1> QED BY <1>5, <1>7, <1>8

\* A finite set has parts of every size up to its own.
LEMMA PartDeTaille ==
  ASSUME NEW Ens, IsFiniteSet(Ens), NEW n \in Nat, n <= Cardinality(Ens)
  PROVE  \E t \in SUBSET Ens : Cardinality(t) = n
<1> DEFINE Bons == {s \in SUBSET Ens : n <= Cardinality(s) => \E t \in SUBSET Ens : Cardinality(t) = n}
<1>1. {} \in Bons
  <2>1. Cardinality({}) = 0
    BY FS_EmptySet
  <2>2. n <= Cardinality({}) => Cardinality({}) = n
    BY <2>1
  <2>3. {} \in SUBSET Ens
    OBVIOUS
  <2> QED BY <2>2, <2>3
<1>2. ASSUME NEW s \in SUBSET Ens, s # {}, \A x \in s : s \ {x} \in Bons PROVE s \in Bons
  <2> SUFFICES ASSUME n <= Cardinality(s), Cardinality(s) # n PROVE \E t \in SUBSET Ens : Cardinality(t) = n
    OBVIOUS
  <2>1. PICK x \in s : TRUE
    BY <1>2
  <2>2. IsFiniteSet(s) /\ Cardinality(s) \in Nat
    BY FS_Subset, FS_CardinalityType
  <2>3. Cardinality(s \ {x}) = Cardinality(s) - 1
    BY <2>2, FS_RemoveElement
  <2>4. n <= Cardinality(s \ {x})
    BY <2>2, <2>3
  <2> QED BY <1>2, <2>4
<1>3. SUBSET Ens \subseteq Bons
  <2> HIDE DEF Bons
  <2> QED BY <1>1, <1>2, RecurrenceFinie
<1> QED BY <1>3

\* A bounded reading gives rows that are there: all of them, or as many as the bound.
LEMMA LectureBornee ==
  ASSUME NEW s, IsFiniteSet(s), NEW n \in Nat
  PROVE  /\ R!Bornees(s, n) \in SUBSET s
         /\ Cardinality(s) <= n => R!Bornees(s, n) = s
         /\ ~(Cardinality(s) <= n) => Cardinality(R!Bornees(s, n)) = n
<1>1. Cardinality(s) <= n => R!Bornees(s, n) = s
  BY MemesNotionsR DEF R!Bornees
<1>2. CASE Cardinality(s) <= n
  BY <1>1, <1>2
<1>3. CASE ~(Cardinality(s) <= n)
  <2>1. R!Bornees(s, n) = CHOOSE lues \in SUBSET s : R!Cardinality(lues) = n
    BY <1>3, MemesNotionsR DEF R!Bornees
  <2>2. n <= Cardinality(s)
    BY <1>3, FS_CardinalityType
  <2>3. \E t \in SUBSET s : R!Cardinality(t) = n
    BY <2>2, PartDeTaille, MemesNotionsR
  <2>4. R!Bornees(s, n) \in SUBSET s /\ R!Cardinality(R!Bornees(s, n)) = n
    BY <2>1, <2>3
  <2> QED BY <1>3, <2>4, MemesNotionsR
<1> QED BY <1>2, <1>3

\* Every card says what it rests on, and never a zero for what is unknown.
LEMMA CarteParCarteTenue ==
  ASSUME CasOdoo(x1), x2 = OdooPublie(x1)
  PROVE  R!CarteParCarte
<1> DEFINE c == x1
           k == x2.rh.kpis
           ouverte == c.source = "connectee" /\ c.uid = "ok"
<1>1. x2.rh = R!Chiffres(c)
  BY DEF OdooPublie
<1>2. ouverte <=> ~Ferme(c)
  BY DEF Ferme, R!Bloque
<1>3. /\ Cardinality(R!Employes(c, TRUE)) # R!ND /\ Cardinality(R!Employes(c, FALSE)) # R!ND
      /\ Cardinality(R!Departements(c)) # R!ND /\ Cardinality(R!Postes(c)) # R!ND
      /\ Cardinality(SocietesLues) # R!ND
      /\ c.societes # R!Toutes => Cardinality(c.societes) # R!ND
  <2>1. \A s : IsFiniteSet(s) => Cardinality(s) # R!ND
    <3>1. \A s : IsFiniteSet(s) => Cardinality(s) \in Nat
      BY FS_CardinalityType
    <3> QED BY <3>1 DEF R!ND
  <2> QED BY <2>1, LignesOdoo, SocietesFinies
<1>4. R!LirePostes(c) # R!ND
  <2>1. R!Bornees(R!Postes(c), MaxPostes) \in SUBSET R!Postes(c)
    BY LectureBornee, LignesOdoo, SocietesFinies
  <2>2. IsFiniteSet(R!Bornees(R!Postes(c), MaxPostes))
    BY <2>1, FS_Subset, LignesOdoo
  <2>3. \A p \in R!Bornees(R!Postes(c), MaxPostes) : p.ouverts \in Nat
    BY <2>1, LignesOdoo
  <2>4. R!LirePostes(c) \in Nat
    BY <2>2, <2>3, OuvertsComptes DEF R!LirePostes
  <2> QED BY <2>4 DEF R!ND
<1>5. \A issue, v : v # R!ND => /\ R!Carte(issue, v).valeur # R!ND <=> issue = "ok"
                                /\ R!Carte(issue, v).statut = "connected" <=> issue = "ok"
  BY DEF R!Carte, R!Valeur, R!EtatDe
<1>6. /\ CarteDe(c, "postes").valeur # R!ND <=>
           /\ R!Issue(c, "champs_postes") = "ok" /\ R!Issue(c, "postes") = "ok"
           /\ "no_of_recruitment" \in c.champs
      /\ CarteDe(c, "postes").valeur # R!ND <=> CarteDe(c, "postes").statut = "connected"
  <2>1. CarteDe(c, "postes") = R!PostesOuverts(c)
    BY DEF CarteDe
  <2>2. CASE R!Issue(c, "champs_postes") # "ok"
    <3>1. R!PostesOuverts(c) = R!Carte(R!Issue(c, "champs_postes"), 0)
      BY <2>2 DEF R!PostesOuverts
    <3>2. 0 # R!ND
      BY DEF R!ND
    <3> QED BY <1>5, <2>1, <2>2, <3>1, <3>2
  <2>3. CASE R!Issue(c, "champs_postes") = "ok" /\ "no_of_recruitment" \notin c.champs
    <3>1. R!PostesOuverts(c) = [valeur |-> R!ND, statut |-> "disconnected"]
      BY <2>3 DEF R!PostesOuverts
    <3> QED BY <2>1, <2>3, <3>1
  <2>4. CASE R!Issue(c, "champs_postes") = "ok" /\ "no_of_recruitment" \in c.champs
    <3>1. R!PostesOuverts(c) = R!Carte(R!Issue(c, "postes"), R!LirePostes(c))
      BY <2>4 DEF R!PostesOuverts
    <3> QED BY <1>4, <1>5, <2>1, <2>4, <3>1
  <2> QED BY <2>2, <2>3, <2>4
<1>7. /\ CarteDe(c, "actifs") = R!Carte(R!Issue(c, "actifs"), Cardinality(R!Employes(c, TRUE)))
      /\ CarteDe(c, "sortis") = R!Carte(R!Issue(c, "sortis"), Cardinality(R!Employes(c, FALSE)))
      /\ CarteDe(c, "departements") = R!Carte(R!Issue(c, "departements"), Cardinality(R!Departements(c)))
      /\ CarteDe(c, "metiers") = R!Carte(R!Issue(c, "metiers"), Cardinality(R!Postes(c)))
      /\ CarteDe(c, "societes") = IF c.societes = R!Toutes
                                  THEN R!Carte(R!Issue(c, "societes"), Cardinality(SocietesLues))
                                  ELSE R!Carte("ok", Cardinality(c.societes))
  BY DEF CarteDe
<1>8. \A m \in {"actifs", "sortis", "departements", "metiers"} :
         /\ CarteDe(c, m).valeur # R!ND <=> R!Issue(c, m) = "ok"
         /\ CarteDe(c, m).statut = "connected" <=> R!Issue(c, m) = "ok"
  <2> HIDE DEF c
  <2>1. /\ CarteDe(c, "actifs").valeur # R!ND <=> R!Issue(c, "actifs") = "ok"
        /\ CarteDe(c, "actifs").statut = "connected" <=> R!Issue(c, "actifs") = "ok"
    <3> DEFINE n == Cardinality(R!Employes(c, TRUE))
    <3>1. n # R!ND
      BY <1>3
    <3>2. CarteDe(c, "actifs") = R!Carte(R!Issue(c, "actifs"), n)
      BY <1>7
    <3> HIDE DEF n
    <3> QED BY <1>5, <3>1, <3>2
  <2>2. /\ CarteDe(c, "sortis").valeur # R!ND <=> R!Issue(c, "sortis") = "ok"
        /\ CarteDe(c, "sortis").statut = "connected" <=> R!Issue(c, "sortis") = "ok"
    <3> DEFINE n == Cardinality(R!Employes(c, FALSE))
    <3>1. n # R!ND
      BY <1>3
    <3>2. CarteDe(c, "sortis") = R!Carte(R!Issue(c, "sortis"), n)
      BY <1>7
    <3> HIDE DEF n
    <3> QED BY <1>5, <3>1, <3>2
  <2>3. /\ CarteDe(c, "departements").valeur # R!ND <=> R!Issue(c, "departements") = "ok"
        /\ CarteDe(c, "departements").statut = "connected" <=> R!Issue(c, "departements") = "ok"
    BY <1>3, <1>5, <1>7
  <2>4. /\ CarteDe(c, "metiers").valeur # R!ND <=> R!Issue(c, "metiers") = "ok"
        /\ CarteDe(c, "metiers").statut = "connected" <=> R!Issue(c, "metiers") = "ok"
    BY <1>3, <1>5, <1>7
  <2> QED BY ONLY <2>1, <2>2, <2>3, <2>4
<1>9. \A m \in R!Lues \cup {"postes"} :
         CarteDe(c, m).valeur # R!ND <=> CarteDe(c, m).statut = "connected"
  <2>1. CarteDe(c, "societes").valeur # R!ND <=> CarteDe(c, "societes").statut = "connected"
    BY <1>3, <1>5, <1>7
  <2> QED BY <1>6, <1>8, <2>1 DEF R!Lues
<1> HIDE DEF c, k, ouverte
<1>10. /\ DOMAIN k = R!Lues \cup {"postes", "part"}
       /\ ~ouverte => \A m \in R!Lues \cup {"postes", "part"} :
                         k[m] = [valeur |-> R!ND, statut |-> "disconnected"]
       /\ ouverte => /\ \A m \in R!Lues \cup {"postes"} : k[m] = CarteDe(c, m)
                     /\ k["part"] = PartDe(CarteDe(c, "actifs"), CarteDe(c, "sortis"))
       /\ x2.rh.statut = "connected" => \A m \in R!Lues : k[m].valeur # R!ND
  BY <1>1, <1>2, ChiffresDe DEF k
<1>11. "actifs" \in R!Lues /\ "sortis" \in R!Lues /\ "departements" \in R!Lues /\ "metiers" \in R!Lues
  BY DEF R!Lues
<1>12. /\ \A m \in {"actifs", "sortis", "departements", "metiers"} :
             k[m].valeur # R!ND <=> ouverte /\ R!Issue(c, m) = "ok"
       /\ k["postes"].valeur # R!ND <=> /\ ouverte
                                        /\ R!Issue(c, "champs_postes") = "ok" /\ R!Issue(c, "postes") = "ok"
                                        /\ "no_of_recruitment" \in c.champs
  BY <1>6, <1>8, <1>10, <1>11
<1>13. \A m \in DOMAIN k \ {"part"} : k[m].valeur # R!ND <=> k[m].statut = "connected"
  BY <1>9, <1>10
<1>14. k["part"].valeur # R!ND => {k["actifs"].valeur, k["sortis"].valeur} \cap {R!ND} = {}
  BY <1>10, <1>11 DEF PartDe
<1> DEFINE Rests == [actifs |-> {"actifs"}, sortis |-> {"sortis"}, departements |-> {"departements"},
                     metiers |-> {"metiers"}, postes |-> {"champs_postes", "postes"}]
<1>15. \A m \in DOMAIN Rests :
          k[m].valeur # R!ND <=> /\ ouverte /\ \A a \in Rests[m] : R!Issue(c, a) = "ok"
                                 /\ m = "postes" => "no_of_recruitment" \in c.champs
  <2>1. /\ DOMAIN Rests = {"actifs", "sortis", "departements", "metiers", "postes"}
        /\ Rests["postes"] = {"champs_postes", "postes"}
        /\ \A m \in {"actifs", "sortis", "departements", "metiers"} : Rests[m] = {m}
    OBVIOUS
  <2> HIDE DEF Rests
  <2> QED BY <1>12, <2>1
<1> QED BY <1>10, <1>13, <1>14, <1>15, Zenon DEF R!CarteParCarte, c, k, ouverte

\* The sum of the departments is the one proved about.
LEMMA SommeR ==
  ASSUME NEW f
  PROVE  R!FoldFunctionOnSet(+, 0, f, DOMAIN f) = Total(f)
<1> DEFINE ens == DOMAIN f
           Autre(it) == it = [s \in SUBSET ens |-> IF s = {} THEN 0 ELSE f[Pris(s)] + it[s \ {Pris(s)}]]
<1>1. R!FoldFunctionOnSet(+, 0, f, DOMAIN f) = (CHOOSE it : Autre(it))[ens]
  BY Zenon DEF R!FoldFunctionOnSet, R!MapThenFoldSet, Pris
<1>2. \A it : Autre(it) <=> Enroule(it, f)
  BY DEF Enroule
<1>3. (CHOOSE it : Autre(it)) = (CHOOSE it : Enroule(it, f))
  <2> HIDE DEF Autre
  <2> QED BY <1>2
<1> HIDE DEF Autre
<1> QED BY <1>1, <1>3 DEF Total

\* The departments add up to the employees read, who are all the active ones unless the reading was cut.
LEMMA DepartementsEntiersTenus ==
  ASSUME CasOdoo(x1), x2 = OdooPublie(x1)
  PROVE  R!DepartementsEntiers
<1> DEFINE c == x1
           d == x2.rh.departements
           somme == d.sans + R!FoldFunctionOnSet(+, 0, d.lignes, DOMAIN d.lignes)
           actifs == x2.rh.kpis["actifs"].valeur
           tous == R!EmployesEnsuite(c)
           lus == R!Bornees(tous, MaxLus)
           De(x) == {e \in lus : e.departement = x}
           ens == {e.departement : e \in lus} \ {R!SansDepartement}
           f == [x \in ens |-> Cardinality(De(x))]
<1>0. SUFFICES ASSUME d.sans # R!ND, actifs # R!ND, c.ensuite = c.employes
               PROVE  /\ somme <= actifs
                      /\ d.statut = "connected" => somme = actifs
                      /\ d.statut \in {"connected", "partial"}
  BY Zenon DEF R!DepartementsEntiers
<1>1. x2.rh = R!Chiffres(c)
  BY DEF OdooPublie
<1>2. ~Ferme(c)
  BY <1>0, <1>1, ChiffresDe
<1>3. actifs = Cardinality(tous)
  <2>1. "actifs" \in R!Lues
    BY DEF R!Lues
  <2>2. x2.rh.kpis["actifs"] = CarteDe(c, "actifs")
    BY <1>1, <1>2, <2>1, ChiffresDe
  <2>3. CarteDe(c, "actifs") = R!Carte(R!Issue(c, "actifs"), Cardinality(tous))
    <3>1. R!Employes(c, TRUE) = tous
      BY <1>0 DEF R!Employes, R!EmployesEnsuite
    <3> HIDE DEF tous, c
    <3> QED BY <3>1 DEF CarteDe
  <2>4. R!Carte(R!Issue(c, "actifs"), Cardinality(tous)).valeur \in {R!ND, Cardinality(tous)}
    BY DEF R!Carte, R!Valeur
  <2> HIDE DEF tous, c
  <2> QED BY <1>0, <2>2, <2>3, <2>4
<1>4. /\ d.statut = IF Cardinality(lus) >= MaxLus THEN "partial" ELSE "connected"
      /\ d.lignes = f /\ d.sans = Cardinality(De(R!SansDepartement))
  <2>1. d = R!Repartition(c)
    BY <1>1, <1>2, ChiffresDe
  <2> DEFINE r == [statut |-> IF Cardinality(lus) >= MaxLus THEN "partial" ELSE "connected",
                   lignes |-> f, sans |-> Cardinality(De(R!SansDepartement))]
  <2>2. \A s : R!SansRepartition(s).sans = R!ND
    BY DEF R!SansRepartition
  <2>3. R!Repartition(c) =
             [statut |-> IF R!Cardinality(lus) >= MaxLus THEN "partial" ELSE "connected",
              lignes |-> [x \in ens |-> R!Cardinality(De(x))], sans |-> R!Cardinality(De(R!SansDepartement))]
          \/ \E s : R!Repartition(c) = R!SansRepartition(s)
    BY DEF R!Repartition
  <2>4. R!Cardinality(lus) = Cardinality(lus) /\ \A x : R!Cardinality(De(x)) = Cardinality(De(x))
    BY MemesNotionsR
  <2>5. R!Repartition(c) = r \/ \E s : R!Repartition(c) = R!SansRepartition(s)
    <3> HIDE DEF lus, De, ens, d
    <3> QED BY <2>3, <2>4
  <2>6. d = r
    <3> HIDE DEF r, d
    <3> QED BY <1>0, <2>1, <2>2, <2>5
  <2> QED BY <2>6
<1>5. IsFiniteSet(tous) /\ lus \in SUBSET tous /\ (Cardinality(tous) <= MaxLus => lus = tous)
      /\ (~(Cardinality(tous) <= MaxLus) => Cardinality(lus) = MaxLus)
  BY LignesOdoo, LectureBornee, SocietesFinies
<1> HIDE DEF tous, lus
<1>6. IsFiniteSet(lus) /\ Cardinality(lus) \in Nat /\ Cardinality(tous) \in Nat /\ Cardinality(lus) <= Cardinality(tous)
  BY <1>5, FS_Subset, FS_CardinalityType
<1>7. IsFiniteSet(ens)
  <2> DEFINE lab == [e \in lus |-> e.departement]
  <2>1. {e.departement : e \in lus} = {lab[e] : e \in lus}
    OBVIOUS
  <2> HIDE DEF lab
  <2>2. IsFiniteSet({lab[e] : e \in lus})
    BY <1>6, ImageFinie
  <2>3. ens \in SUBSET {e.departement : e \in lus}
    OBVIOUS
  <2> HIDE DEF ens
  <2> QED BY <2>1, <2>2, <2>3, FS_Subset
<1>8. \A x : IsFiniteSet(De(x)) /\ Cardinality(De(x)) \in Int
  <2>1. \A x : De(x) \in SUBSET lus
    OBVIOUS
  <2> HIDE DEF De
  <2> QED BY <1>6, <2>1, FS_Subset, FS_CardinalityType
<1>9. Total(f) = Cardinality({e \in lus : e.departement \in ens})
  <2> DEFINE lab == [e \in lus |-> e.departement]
  <2>1. \A x : De(x) = {e \in lus : lab[e] = x}
    OBVIOUS
  <2>2. f \in [ens -> Int] /\ \A x \in ens : f[x] = Cardinality({e \in lus : lab[e] = x})
    <3> HIDE DEF De, lab, ens
    <3> QED BY <1>8, <2>1
  <2>3. {e \in lus : lab[e] \in ens} = {e \in lus : e.departement \in ens}
    <3> HIDE DEF ens
    <3> QED OBVIOUS
  <2>4. Total(f) = Cardinality({e \in lus : lab[e] \in ens})
    <3> HIDE DEF lab, ens, f
    <3> QED BY <1>6, <1>7, <2>2, TotalDesEtiquettes
  <2> HIDE DEF lab, ens, f
  <2> QED BY <2>3, <2>4
<1>10. somme = Cardinality(lus)
  <2> DEFINE avec == {e \in lus : e.departement \in ens}
             sans == De(R!SansDepartement)
  <2>1. avec \cup sans = lus /\ avec \cap sans = {} /\ avec \in SUBSET lus /\ sans \in SUBSET lus
    OBVIOUS
  <2> HIDE DEF avec, sans
  <2>2. IsFiniteSet(avec) /\ IsFiniteSet(sans) /\ Cardinality(avec) \in Nat /\ Cardinality(sans) \in Nat
    BY <1>6, <2>1, FS_Subset, FS_CardinalityType
  <2>3. Cardinality(avec \cup sans) = Cardinality(avec) + Cardinality(sans) - Cardinality(avec \cap sans)
    BY <2>2, FS_Union
  <2>4. Cardinality(avec \cap sans) = 0
    BY <2>1, FS_EmptySet
  <2>5. Cardinality(lus) = Cardinality(sans) + Cardinality(avec)
    <3>1. Cardinality(avec \cup sans) = Cardinality(lus)
      BY <2>1
    <3> DEFINE a == Cardinality(avec)
               b == Cardinality(sans)
    <3>2. Cardinality(lus) = a + b - 0 /\ a \in Int /\ b \in Int
      BY <2>2, <2>3, <2>4, <3>1
    <3> HIDE DEF a, b
    <3>3. Cardinality(lus) = b + a
      BY <3>2
    <3> QED BY <3>3 DEF a, b
  <2>6. R!FoldFunctionOnSet(+, 0, d.lignes, DOMAIN d.lignes) = Cardinality(avec)
    <3>1. R!FoldFunctionOnSet(+, 0, d.lignes, DOMAIN d.lignes) = Total(d.lignes)
      BY SommeR
    <3>2. Total(d.lignes) = Total(f)
      <4> HIDE DEF f, d
      <4> QED BY <1>4
    <3> HIDE DEF f, d, ens
    <3> QED BY <1>9, <3>1, <3>2 DEF avec
  <2>7. d.sans = Cardinality(sans)
    BY <1>4 DEF sans
  <2> HIDE DEF d
  <2> QED BY <2>5, <2>6, <2>7
<1> HIDE DEF somme, actifs, d, f, De, ens
<1>11. d.statut = "connected" => lus = tous
  BY <1>4, <1>5, <1>6, SocietesFinies
<1> QED BY <1>3, <1>4, <1>6, <1>10, <1>11

\* What is published of Odoo is what was read.
LEMMA OdooFidele ==
  ASSUME x1 = Neant \/ (CasOdoo(x1) /\ x2 = OdooPublie(x1))
  PROVE  R!SocietesSeules /\ R!CarteParCarte /\ R!DepartementsEntiers /\ R!RepriseEtSante
<1>1. CASE x1 = Neant
  BY <1>1, Zenon DEF R!SocietesSeules, R!CarteParCarte, R!DepartementsEntiers, R!RepriseEtSante, R!Publie
<1>2. CASE CasOdoo(x1) /\ x2 = OdooPublie(x1)
  BY <1>2, SocietesSeulesTenues, CarteParCarteTenue, DepartementsEntiersTenus, RepriseTenue
<1> QED BY <1>1, <1>2

\* What is published of Shield and of Odoo is what was read (LectureFidele): on the pages of Shield a failed reading removes
\* its figures and the state says so; a list of the structure read in full is counted exactly, and employees that could not
\* be read count 0 under a state that says so; series and sites of days read in full are exact; no figure of Odoo counts a
\* company that was not asked for, and its departments add up to the card while Odoo did not change between the two calls
\* (shield.py, shield_structure.py, odoo.py, odoo_client.py).
THEOREM ReadingsAreFaithful == PlateformeSpec => []LectureFidele
<1>1. ShieldLu /\ OdooLu => LectureFidele
  BY ShieldFidele, OdooFidele, Zenon DEF ShieldLu, OdooLu, LectureFidele
<1> QED BY <1>1, ShieldLuInv, OdooLuInv, PTL
=============================================================================
