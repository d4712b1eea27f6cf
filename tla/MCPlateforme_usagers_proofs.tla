---------------------- MODULE MCPlateforme_usagers_proofs ----------------------
(***************************************************************************)
(* Proofs about what the users of the platform see, for any value of the   *)
(* constants of MCPlateforme: who is served what, the chat, the answers to *)
(* a question on the catalogue of metrics, the browser's session; then the *)
(* client of Shield and the shared payload, and the types of every part.   *)
(***************************************************************************)
EXTENDS MCPlateforme_proofs

-----------------------------------------------------------------------------
(* Who is served what, for any accounts, subsidiaries, companies and       *)
(* mapping between them.  x1 is the correspondence of the companies, x2    *)
(* the shared payloads, x3 the answer just given.                          *)

\* The shared payload of a key adds up the companies of the key.
ChargesJustes == \A k \in DOMAIN x2 : (k = Tous \/ k \in SUBSET SocietesOdoo) /\ x2[k] = k
CorrespondanceTypee == x1 \in [SocietesOdoo -> Filiales \cup {Aucune}]

\* A value that may be served to an account under these filters: within its perimeter, of a domain open to it,
\* and what the filters ask for.
DansPerimetre(u, v) == A!EstGroupe(u) \/ A!Couvert(u, v)
Ouvert(u, v) == v.source # "mart" => A!CanAccessDomain(u, v.domaine)
Filtre(v, f) == v.quand = "periode" => A!Honore(v, f)
Bonne(u, f, v) == DansPerimetre(u, v) /\ Ouvert(u, v) /\ Filtre(v, f)
Bonnes(u, f, valeurs) == \A v \in valeurs : Bonne(u, f, v)

AccesIInv ==
  /\ CorrespondanceTypee /\ ChargesJustes
  /\ x3 # Neant => x3.u \in Comptes /\ x3.f \in A!Filtres /\ Bonnes(x3.u, x3.f, x3.valeurs)

-----------------------------------------------------------------------------
(* The values, one by one.                                                 *)
LEMMA DuJour ==
  ASSUME NEW u, NEW f, NEW source, NEW domaine, NEW dim, NEW codes,
         A!CanAccessDomain(u, domaine), A!EstGroupe(u) \/ A!Couvert(u, A!Val("jour", source, domaine, dim, codes))
  PROVE  Bonne(u, f, A!Val("jour", source, domaine, dim, codes))
<1> DEFINE v == A!Val("jour", source, domaine, dim, codes)
<1>1. v.quand = "jour" /\ v.domaine = domaine
  BY DEF A!Val
<1> HIDE DEF v
<1>2. A!EstGroupe(u) \/ A!Couvert(u, v)
  BY DEF v
<1>3. Bonne(u, f, v)
  BY <1>1, <1>2 DEF Bonne, DansPerimetre, Ouvert, Filtre
<1> QED BY <1>3 DEF v

\* The companies an account reads: those of its subsidiaries, unless it is the Group's.
LEMMA Cle ==
  ASSUME A!AccesConstantes, CorrespondanceTypee, ChargesJustes, NEW u
  PROVE  /\ A!CleOdoo(u) = Tous \/ A!CleOdoo(u) \in SUBSET SocietesOdoo
         /\ A!ChargeOdoo(A!CleOdoo(u)) = A!CleOdoo(u)
         /\ ~A!EstGroupe(u) => /\ A!CleOdoo(u) # Tous
                               /\ \A c \in A!CleOdoo(u) : x1[c] \in u.filiales
<1>1. A!CleOdoo(u) = Tous \/ A!CleOdoo(u) \in SUBSET SocietesOdoo
  BY DEF A!CleOdoo, A!SocietesDesFiliales
<1>2. A!ChargeOdoo(A!CleOdoo(u)) = A!CleOdoo(u)
  BY DEF A!ChargeOdoo, A!CleDeCharge, ChargesJustes
<1>3. ASSUME ~A!EstGroupe(u) PROVE A!CleOdoo(u) # Tous /\ \A c \in A!CleOdoo(u) : x1[c] \in u.filiales
  <2>1. A!CleOdoo(u) = A!SocietesDesFiliales(u.filiales)
    BY <1>3 DEF A!CleOdoo
  <2>2. A!SocietesDesFiliales(u.filiales) \in SUBSET SocietesOdoo
    BY DEF A!SocietesDesFiliales
  <2>3. \A c \in A!SocietesDesFiliales(u.filiales) : x1[c] \in u.filiales
    BY DEF A!SocietesDesFiliales
  <2> QED BY <2>1, <2>2, <2>3 DEF A!AccesConstantes
<1> QED BY <1>1, <1>2, <1>3

\* The payload of Odoo that a reader of HR is served is one they may see.
LEMMA ValeurOdoo ==
  ASSUME A!AccesConstantes, CorrespondanceTypee, ChargesJustes, NEW u, NEW f, A!Rh(u)
  PROVE  Bonne(u, f, A!Val("jour", "odoo", "capital-humain", "societe", A!ChargeOdoo(A!CleOdoo(u))))
<1> DEFINE v == A!Val("jour", "odoo", "capital-humain", "societe", A!ChargeOdoo(A!CleOdoo(u)))
<1>1. v.dim = "societe" /\ v.codes = A!CleOdoo(u)
  <2>1. v.dim = "societe" /\ v.codes = A!ChargeOdoo(A!CleOdoo(u))
    BY DEF A!Val
  <2> QED BY <2>1, Cle
<1>2. A!EstGroupe(u) \/ A!Couvert(u, v)
  BY <1>1, Cle DEF A!Couvert
<1>3. A!CanAccessDomain(u, "capital-humain")
  BY DEF A!Rh
<1> QED BY <1>2, <1>3, DuJour, Zenon

\* The values a metric resolves to are ones the reader may see.
LEMMA Resolues ==
  ASSUME A!AccesConstantes, CorrespondanceTypee, ChargesJustes, NEW u, NEW f, NEW m
  PROVE  /\ Bonnes(u, f, A!Resoudre(u, m))
         /\ \A v \in A!Resoudre(u, m) : A!Rh(u) /\ (v.source = "shield" => A!EstGroupe(u))
<1>1. CASE ~A!Rh(u)
  BY <1>1 DEF A!Resoudre, Bonnes
<1>2. CASE A!Rh(u)
  <2> DEFINE g == A!Val("jour", "shield", "capital-humain", "groupe", Tous)
             o == A!Val("jour", "odoo", "capital-humain", "societe", A!ChargeOdoo(A!CleOdoo(u)))
  <2>1. A!Resoudre(u, m) \subseteq {o} \cup {w \in {g} : A!EstGroupe(u)}
    BY <1>2 DEF A!Resoudre
  <2>2. g.source = "shield" /\ o.source = "odoo"
    BY DEF A!Val
  <2>3. Bonne(u, f, o)
    BY <1>2, ValeurOdoo
  <2>4. A!EstGroupe(u) => Bonne(u, f, g)
    BY <1>2, DuJour, Zenon DEF A!Rh
  <2> HIDE DEF g, o
  <2> QED BY <1>2, <2>1, <2>2, <2>3, <2>4 DEF Bonnes
<1> QED BY <1>1, <1>2

\* ... the values of the day too, under a filter,
LEMMA DuJourFiltrees ==
  ASSUME A!AccesConstantes, CorrespondanceTypee, ChargesJustes, NEW u, NEW f, NEW m
  PROVE  Bonnes(u, f, A!ValeurDuJour(u, m, f))
<1> DEFINE b == A!Resoudre(u, m)
           w == A!Val("jour", "shield", "capital-humain", f.maille, Tous)
<1>1. Bonnes(u, f, b) /\ \A v \in b : A!Rh(u) /\ (v.source = "shield" => A!EstGroupe(u))
  BY Resolues
<1>2. A!ValeurDuJour(u, m, f) \subseteq b \cup {x \in {w} : A!Rh(u) /\ A!EstGroupe(u)}
  <2> HIDE DEF b, w
  <2>1. CASE f.maille = "aucune"
    BY <2>1 DEF A!ValeurDuJour, b
  <2>2. CASE f.maille # "aucune"
    <3>1. ASSUME NEW x \in A!ValeurDuJour(u, m, f) PROVE x = w /\ \E v \in b : v.source = "shield"
      BY <2>2, <3>1 DEF A!ValeurDuJour, b, w
    <3> QED BY <1>1, <3>1
  <2> QED BY <2>1, <2>2
<1>3. A!Rh(u) /\ A!EstGroupe(u) => Bonne(u, f, w)
  BY DuJour, Zenon DEF A!Rh
<1> HIDE DEF b, w
<1> QED BY <1>1, <1>2, <1>3 DEF Bonnes

-----------------------------------------------------------------------------
(* Values of a period.                                                     *)
\* What a reading is allowed is within the perimeter and is what the filters ask for.
LEMMA Lisible ==
  ASSUME A!AccesConstantes, CorrespondanceTypee, NEW u, NEW f \in A!Filtres, NEW m, A!Portee(u, m, f).refus = 0
  PROVE  LET p == A!Portee(u, m, f) IN
         \/ /\ p.dim \in {"groupe", "site", "type", "departement"} /\ p.codes = Tous
            /\ A!EstGroupe(u) /\ f.filiale = Aucune
            /\ f.maille # "aucune" => p.dim = f.maille
            /\ p.dim = "groupe" => f.maille = "aucune"
         \/ /\ p.dim = "societe" /\ p.codes \in SUBSET SocietesOdoo /\ f.maille = "aucune"
            /\ f.filiale # Aucune => \A c \in p.codes : x1[c] = f.filiale
            /\ ~A!EstGroupe(u) => \A c \in p.codes : x1[c] \in u.filiales
<1> DEFINE restreint == f.filiale # Aucune \/ ~A!EstGroupe(u)
           fs == IF f.filiale # Aucune THEN {f.filiale} ELSE u.filiales
           societes == A!SocietesDesFiliales(fs)
           p == A!Portee(u, m, f)
<1>1. /\ A!Refus(403).refus = 403 /\ A!Refus(200).refus = 200
      /\ \A d, c : A!Lecture(d, c).dim = d /\ A!Lecture(d, c).codes = c
  BY DEF A!Refus, A!Lecture
<1>2. f.maille \in {"aucune", "site", "type", "departement"}
  BY DEF A!Filtres, A!Mailles
<1>3. societes \in SUBSET SocietesOdoo /\ \A c \in societes : x1[c] \in fs
  BY DEF A!SocietesDesFiliales
<1>4. p = IF f.filiale # Aucune /\ ~A!EstGroupe(u) /\ f.filiale \notin u.filiales THEN A!Refus(403)
          ELSE
          CASE A!SourceDe[m] = "shield" ->
                 IF restreint \/ f.maille = "departement" \/ (f.maille # "aucune" /\ m # "presents")
                 THEN A!Refus(200)
                 ELSE A!Lecture(IF f.maille = "aucune" THEN "groupe" ELSE f.maille, Tous)
            [] A!SourceDe[m] = "odoo" ->
                 IF \/ f.maille \in {"site", "type"}
                    \/ f.maille = "departement" /\ (restreint \/ m # "actifs_odoo")
                    \/ restreint /\ societes = {}
                 THEN A!Refus(200)
                 ELSE IF f.maille = "departement" THEN A!Lecture("departement", Tous)
                 ELSE IF restreint THEN A!Lecture("societe", societes) ELSE A!Lecture("groupe", Tous)
            [] OTHER -> A!Refus(200)
  BY DEF A!Portee
<1>5. p.refus = 0
  OBVIOUS
<1> HIDE DEF p, societes
<1>6. CASE f.filiale # Aucune /\ ~A!EstGroupe(u) /\ f.filiale \notin u.filiales
  <2>1. p = A!Refus(403)
    BY <1>4, <1>6
  <2> QED BY <1>1, <1>5, <2>1
<1>7. CASE ~(f.filiale # Aucune /\ ~A!EstGroupe(u) /\ f.filiale \notin u.filiales)
  <2>1. \/ p = A!Refus(200) \/ p = A!Refus(403)
        \/ ~restreint /\ f.maille = "departement" /\ p = A!Lecture("departement", Tous)
        \/ ~restreint /\ f.maille # "departement" /\ f.maille # "aucune" /\ p = A!Lecture(f.maille, Tous)
        \/ ~restreint /\ f.maille = "aucune" /\ p = A!Lecture("groupe", Tous)
        \/ f.maille = "aucune" /\ p = A!Lecture("societe", societes)
    BY <1>2, <1>4, <1>7
  <2>2. f.filiale # Aucune => fs = {f.filiale}
    OBVIOUS
  <2>3. ~A!EstGroupe(u) => fs \subseteq u.filiales
    BY <1>7
  <2>4. f.filiale # Aucune => \A c \in societes : x1[c] = f.filiale
    BY <1>3, <2>2
  <2>5. ~A!EstGroupe(u) => \A c \in societes : x1[c] \in u.filiales
    BY <1>3, <2>3
  <2> HIDE DEF fs
  <2> QED BY <1>1, <1>2, <1>3, <1>5, <2>1, <2>4, <2>5 DEF p
<1> QED BY <1>6, <1>7

\* ... those of a period,
LEMMA Periodes ==
  ASSUME A!AccesConstantes, CorrespondanceTypee, NEW u, NEW f \in A!Filtres, NEW m, A!Rh(u)
  PROVE  Bonnes(u, f, A!ValeurPeriode(u, m, f))
<1> DEFINE p == A!Portee(u, m, f)
           v == A!Val("periode", A!SourceDe[m], "capital-humain", p.dim, p.codes)
<1> SUFFICES ASSUME p.refus = 0 PROVE Bonne(u, f, v)
  BY DEF A!ValeurPeriode, Bonnes
<1>1. v.domaine = "capital-humain" /\ v.dim = p.dim /\ v.codes = p.codes
  BY DEF A!Val
<1>2. \/ /\ p.dim \in {"groupe", "site", "type", "departement"} /\ p.codes = Tous
         /\ A!EstGroupe(u) /\ f.filiale = Aucune
         /\ f.maille # "aucune" => p.dim = f.maille
      \/ /\ p.dim = "societe" /\ p.codes \in SUBSET SocietesOdoo /\ f.maille = "aucune"
         /\ f.filiale # Aucune => \A c \in p.codes : x1[c] = f.filiale
         /\ ~A!EstGroupe(u) => \A c \in p.codes : x1[c] \in u.filiales
  BY Lisible
<1>3. p.codes \in SUBSET SocietesOdoo => p.codes # Tous
  BY DEF A!AccesConstantes
<1> HIDE DEF p, v
<1>4. DansPerimetre(u, v)
  BY <1>1, <1>2, <1>3 DEF DansPerimetre, A!Couvert
<1>5. A!Honore(v, f)
  BY <1>1, <1>2, <1>3 DEF A!Honore
<1>6. Ouvert(u, v)
  BY <1>1 DEF Ouvert, A!Rh
<1> QED BY <1>4, <1>5, <1>6 DEF Bonne, Filtre

\* ... those of a ranking,
LEMMA Classements ==
  ASSUME A!AccesConstantes, CorrespondanceTypee, NEW u, NEW f \in A!Filtres, NEW m, A!Rh(u)
  PROVE  Bonnes(u, f, A!Classement(u, m, f))
<1> DEFINE p == A!Portee(u, m, f)
           v == A!Val("periode", "shield", "capital-humain", "site", Tous)
<1> SUFFICES ASSUME p = A!Lecture("groupe", Tous) PROVE Bonne(u, f, v)
  BY DEF A!Classement, Bonnes
<1>1. v.domaine = "capital-humain"
  BY DEF A!Val
<1>2. p.refus = 0 /\ p.dim = "groupe"
  BY DEF A!Lecture
<1>3. A!EstGroupe(u) /\ f.filiale = Aucune /\ f.maille = "aucune"
  BY <1>2, Lisible
<1> HIDE DEF p, v
<1>4. A!Honore(v, f)
  BY <1>3 DEF A!Honore
<1> QED BY <1>1, <1>3, <1>4 DEF Bonne, DansPerimetre, Ouvert, Filtre, A!Rh

\* ... and the structure.
LEMMA Structures ==
  ASSUME A!AccesConstantes, NEW u, NEW f, A!Rh(u)
  PROVE  Bonnes(u, f, A!StructureVisible(u))
<1> DEFINE visibles == {s \in SocietesShield : CompanyMapping[s] \in u.filiales}
           g == A!Val("jour", "shield", "capital-humain", "groupe", Tous)
           c == A!Val("jour", "shield", "capital-humain", "societe_shield", visibles)
<1>1. A!StructureVisible(u) \subseteq {w \in {g} : A!EstGroupe(u)} \cup {c}
  BY DEF A!StructureVisible, A!Shield
<1>2. A!EstGroupe(u) => Bonne(u, f, g)
  BY DuJour, Zenon DEF A!Rh
<1>3. A!Couvert(u, c)
  <2>1. c.dim = "societe_shield" /\ c.codes = visibles
    BY DEF A!Val
  <2> HIDE DEF c
  <2> QED BY <2>1 DEF A!Couvert
<1>4. Bonne(u, f, c)
  BY <1>3, DuJour, Zenon DEF A!Rh
<1> HIDE DEF g, c
<1> QED BY <1>1, <1>2, <1>4 DEF Bonnes

\* The figures of the Group, once the totals are withheld from whoever is not its reader.
LEMMA Totaux ==
  ASSUME NEW u, NEW f, NEW domaine, NEW dims, A!CanAccessDomain(u, domaine)
  PROVE  Bonnes(u, f, A!RetenirLesTotaux(u, A!Shield(domaine, dims)))
<1> SUFFICES ASSUME A!EstGroupe(u), NEW d \in dims
             PROVE  Bonne(u, f, A!Val("jour", "shield", domaine, d, Tous))
  BY DEF A!RetenirLesTotaux, A!Shield, Bonnes
<1> QED BY DuJour, Zenon

\* The rows of the mart: those of the perimeter, in a domain that is open.
LEMMA Lignes ==
  ASSUME NEW u, NEW f \in A!Filtres, NEW domaine
  PROVE  Bonnes(u, f, A!Mart(u, domaine, f))
<1> DEFINE codes == {c \in A!Perimetre(u) : f.filiale \in {Aucune, c}}
           v == A!Val("periode", "mart", domaine, "filiale", codes)
<1> SUFFICES ASSUME codes # {} PROVE Bonne(u, f, v)
  BY DEF A!Mart, Bonnes
<1>1. v.source = "mart" /\ v.dim = "filiale" /\ v.codes = codes
  BY DEF A!Val
<1>2. ~A!EstGroupe(u) => codes \subseteq u.filiales
  BY DEF A!Perimetre
<1>3. f.filiale # Aucune => codes = {f.filiale}
  OBVIOUS
<1> HIDE DEF codes, v
<1>4. DansPerimetre(u, v)
  BY <1>1, <1>2 DEF DansPerimetre, A!Couvert
<1>5. A!Honore(v, f)
  BY <1>1, <1>3 DEF A!Honore
<1> QED BY <1>1, <1>4, <1>5 DEF Bonne, Ouvert, Filtre

-----------------------------------------------------------------------------
(* The doors.                                                              *)
LEMMA Reunion ==
  ASSUME NEW u, NEW f, NEW X, NEW Y, Bonnes(u, f, X), Bonnes(u, f, Y)
  PROVE  Bonnes(u, f, X \cup Y)
BY DEF Bonnes

\* Nothing shown is nothing forbidden.
LEMMA Rien == ASSUME NEW u, NEW f PROVE Bonnes(u, f, {})
BY DEF Bonnes

\* An HR page opens to those who have the right to HR.
LEMMA OuvreRh == ASSUME NEW u, NEW page, A!PeutModuleRh(u, page) PROVE A!Rh(u)
BY DEF A!PeutModuleRh

\* The doors of Shield and of Odoo show only what the reader may see.
LEMMA PortesShield ==
  ASSUME A!AccesConstantes, CorrespondanceTypee, ChargesJustes, NEW u, NEW f
  PROVE  /\ Bonnes(u, f, A!ShieldHrKpi(u)) /\ Bonnes(u, f, A!ShieldSerie(u)) /\ Bonnes(u, f, A!ShieldSecurite(u))
         /\ Bonnes(u, f, A!ShieldOverview(u)) /\ Bonnes(u, f, A!OdooHrKpi(u)) /\ Bonnes(u, f, A!ShieldStructure(u))
<1>1. Bonnes(u, f, A!ShieldHrKpi(u))
  BY Totaux, Rien DEF A!ShieldHrKpi, A!Rh
<1>2. Bonnes(u, f, A!ShieldSerie(u))
  <2>1. CASE A!Rh(u) /\ A!EstGroupe(u)
    <3>1. A!ShieldSerie(u) = A!RetenirLesTotaux(u, A!Shield("capital-humain", {"groupe"}))
      BY <2>1 DEF A!ShieldSerie, A!RetenirLesTotaux
    <3> QED BY <2>1, <3>1, Totaux DEF A!Rh
  <2>2. CASE ~(A!Rh(u) /\ A!EstGroupe(u))
    BY <2>2, Rien DEF A!ShieldSerie
  <2> QED BY <2>1, <2>2
<1>3. Bonnes(u, f, A!ShieldSecurite(u))
  BY Totaux, Rien DEF A!ShieldSecurite
<1>4. Bonnes(u, f, A!ShieldOverview(u))
  <2> DEFINE o == A!Shield("overview", {"groupe"})
             h == A!Shield("capital-humain", {"groupe"})
  <2>1. \A v \in o : v.domaine = "overview"
    BY DEF A!Shield, A!Val
  <2>2. \A v \in h : v.domaine = "capital-humain"
    BY DEF A!Shield, A!Val
  <2>3. A!CanAccessDomain(u, "overview") => Bonnes(u, f, A!RetenirLesTotaux(u, o))
    BY Totaux
  <2>4. A!Rh(u) => Bonnes(u, f, A!RetenirLesTotaux(u, h))
    BY Totaux DEF A!Rh
  <2> HIDE DEF o, h
  <2>5. ASSUME NEW v \in A!ShieldOverview(u) PROVE Bonne(u, f, v)
    <3>1. /\ A!CanAccessDomain(u, "overview") /\ v \in A!RetenirLesTotaux(u, o \cup h)
          /\ v.domaine = "capital-humain" => A!Rh(u)
      BY DEF A!ShieldOverview, A!HorsEffectif, o, h
    <3>2. v \in A!RetenirLesTotaux(u, o) \/ (v \in A!RetenirLesTotaux(u, h) /\ v \in h)
      BY <3>1 DEF A!RetenirLesTotaux
    <3> QED BY <2>2, <2>3, <2>4, <3>1, <3>2 DEF Bonnes
  <2> QED BY <2>5 DEF Bonnes
<1>5. Bonnes(u, f, A!OdooHrKpi(u))
  BY ValeurOdoo DEF A!OdooHrKpi, Bonnes
<1>6. Bonnes(u, f, A!ShieldStructure(u))
  BY Structures, OuvreRh, Rien DEF A!ShieldStructure
<1> QED BY <1>1, <1>2, <1>3, <1>4, <1>5, <1>6

\* So do those of the mart,
LEMMA PortesDuMart ==
  ASSUME A!AccesConstantes, NEW u, NEW f \in A!Filtres
  PROVE  /\ A!SansFiltre \in A!Filtres
         /\ Bonnes(u, A!SansFiltre, A!HrKpi(u)) /\ Bonnes(u, A!SansFiltre, A!GovernanceOverview(u))
         /\ Bonnes(u, A!SansFiltre, A!Dimensions(u))
         /\ Bonnes(u, f, A!DomainScore(u, f)) /\ Bonnes(u, f, A!GroupScore(u, f)) /\ Bonnes(u, f, A!Alerts(u, f))
<1>1. A!SansFiltre \in A!Filtres /\ A!SansFiltre.filiale = Aucune /\ A!SansFiltre.maille = "aucune"
  BY DEF A!SansFiltre, A!Filtres, A!Mailles
<1>2. Bonnes(u, A!SansFiltre, A!HrKpi(u)) /\ Bonnes(u, A!SansFiltre, A!GovernanceOverview(u))
  BY <1>1, Lignes DEF A!HrKpi, A!GovernanceOverview
<1>3. Bonnes(u, A!SansFiltre, A!Dimensions(u))
  <2> SUFFICES ASSUME A!Rh(u), A!EstGroupe(u), NEW d
               PROVE  Bonne(u, A!SansFiltre, A!Val("periode", "shield", "capital-humain", d, Tous))
    BY DEF A!Dimensions, Bonnes
  <2> DEFINE v == A!Val("periode", "shield", "capital-humain", d, Tous)
  <2>1. v.domaine = "capital-humain"
    BY DEF A!Val
  <2> HIDE DEF v
  <2>2. A!Honore(v, A!SansFiltre)
    BY <1>1 DEF A!Honore
  <2>3. Bonne(u, A!SansFiltre, v)
    BY <2>1, <2>2 DEF Bonne, DansPerimetre, Ouvert, Filtre, A!Rh
  <2> QED BY <2>3 DEF v
<1>4. Bonnes(u, f, A!DomainScore(u, f)) /\ Bonnes(u, f, A!GroupScore(u, f)) /\ Bonnes(u, f, A!Alerts(u, f))
  BY Lignes DEF A!DomainScore, A!GroupScore, A!Alerts
<1> QED BY <1>1, <1>2, <1>3, <1>4

\* ... those that take a filter,
LEMMA PortesFiltrees ==
  ASSUME A!AccesConstantes, CorrespondanceTypee, ChargesJustes, NEW u, NEW f \in A!Filtres
  PROVE  /\ Bonnes(u, f, A!Score(u, f)) /\ Bonnes(u, f, A!Signaux(u, f))
         /\ Bonnes(u, f, A!Decision(u, f)) /\ Bonnes(u, f, A!Rapport(u, f))
<1>1. A!Rh(u) => Bonnes(u, f, A!EvaluerSignaux(u, f))
  BY Periodes, Classements, Zenon DEF A!EvaluerSignaux, Bonnes
<1>3. A!Rh(u) => Bonnes(u, f, A!StructureVisible(u))
  BY Structures
<1>4. Bonnes(u, f, A!Score(u, f))
  BY Periodes, OuvreRh, Rien DEF A!Score
<1>5. Bonnes(u, f, A!Signaux(u, f))
  BY <1>1, OuvreRh, Rien DEF A!Signaux
<1>6. Bonnes(u, f, A!Decision(u, f))
  BY <1>1, <1>3, Reunion, OuvreRh, Rien DEF A!Decision
<1>7. Bonnes(u, f, A!Rapport(u, f))
  <2>1. CASE A!Rh(u)
    <3>1. ASSUME NEW v \in A!Rapport(u, f)
          PROVE  \/ v \in A!EvaluerSignaux(u, f) \/ v \in A!StructureVisible(u)
                 \/ \E m : v \in A!ValeurPeriode(u, m, f)
      BY <3>1 DEF A!Rapport
    <3>2. \A m : Bonnes(u, f, A!ValeurPeriode(u, m, f))
      BY <2>1, Periodes
    <3> QED BY <1>1, <1>3, <2>1, <3>1, <3>2 DEF Bonnes
  <2>2. CASE ~A!Rh(u)
    BY <2>2, OuvreRh, Rien DEF A!Rapport
  <2> QED BY <2>1, <2>2
<1> QED BY <1>4, <1>5, <1>6, <1>7

\* ... the pages of the modules and of the history,
LEMMA PortesDesPages ==
  ASSUME A!AccesConstantes, CorrespondanceTypee, ChargesJustes, NEW u, NEW f \in A!Filtres, NEW objet
  PROVE  Bonnes(u, f, A!Module(u, objet, f)) /\ Bonnes(u, f, A!Historique(u, objet, f))
<1>1. A!Rh(u) => \A m : Bonnes(u, f, A!ValeurPeriode(u, m, f)) /\ Bonnes(u, f, A!Classement(u, m, f))
  BY Periodes, Classements
<1>2. \A m : Bonnes(u, f, A!ValeurDuJour(u, m, f)) /\ Bonnes(u, f, A!Resoudre(u, m))
  BY DuJourFiltrees, Resolues
<1>3. ASSUME NEW v \in A!Module(u, objet, f) PROVE Bonne(u, f, v)
  <2>1. \E m : A!Rh(u) /\ v \in A!ValeurPeriode(u, m, f) \cup A!ValeurDuJour(u, m, f)
    BY DEF A!Module
  <2> QED BY <1>1, <1>2, <2>1 DEF Bonnes
<1>4. Bonnes(u, f, A!Historique(u, objet, f))
  <2>1. CASE A!Rh(u)
    <3>1. \/ A!Historique(u, objet, f) = {}
          \/ A!Historique(u, objet, f)
               = (A!ValeurPeriode(u, objet, f) \cup A!Classement(u, objet, f)) \cup A!Resoudre(u, objet)
      BY DEF A!Historique
    <3> QED BY <1>1, <1>2, <2>1, <3>1 DEF Bonnes
  <2>2. CASE ~A!Rh(u)
    BY <2>2, Rien DEF A!Historique
  <2> QED BY <2>1, <2>2
<1> QED BY <1>3, <1>4 DEF Bonnes

\* ... and all of them.
LEMMA Portes ==
  ASSUME A!AccesConstantes, CorrespondanceTypee, ChargesJustes, NEW u, NEW f \in A!Filtres,
         NEW porte \in A!Portes \cup A!PortesFiltrees \cup A!Objets,
         porte \in A!Portes => f = A!SansFiltre
  PROVE  Bonnes(u, f, A!Servi(u, porte, f))
<1>1. CASE porte \in A!Portes
  <2>1. f = A!SansFiltre
    BY <1>1
  <2>2. CASE porte \in {"shield/hr-kpi", "shield/series", "shield/security", "shield/overview", "odoo/hr-kpi",
                        "shield/structure"}
    BY <2>2, PortesShield DEF A!Servi, A!Liaisons, A!Metriques
  <2>3. CASE porte \in {"hr/dimensions", "hr/kpi", "overview"}
    BY <2>1, <2>3, PortesDuMart DEF A!Servi, A!Liaisons, A!Metriques
  <2> QED BY <1>1, <2>2, <2>3 DEF A!Portes
<1>2. CASE porte \in A!PortesFiltrees
  BY <1>2, PortesDuMart, PortesFiltrees DEF A!PortesFiltrees, A!Servi, A!Liaisons, A!Metriques
<1>3. CASE porte \in A!Objets
  BY <1>3, PortesDesPages DEF A!Objets, A!Servi, A!Liaisons, A!Metriques
<1> QED BY <1>1, <1>2, <1>3

-----------------------------------------------------------------------------
(* The steps.                                                              *)
LEMMA UneDemande ==
  ASSUME A!AccesConstantes, AccesIInv, NEW u \in Comptes, NEW f \in A!Filtres,
         NEW porte \in A!Portes \cup A!PortesFiltrees \cup A!Objets,
         porte \in A!Portes => f = A!SansFiltre, A!Demander(u, porte, f)
  PROVE  AccesIInv'
<1>1. /\ x3' = [u |-> u, f |-> f, valeurs |-> A!Servi(u, porte, f)] /\ x1' = x1
      /\ x2' = x2 \/ x2' = A!Gardee(A!CleDeCharge(A!CleOdoo(u)), A!ChargeOdoo(A!CleOdoo(u)))
  BY DEF A!Demander
<1>2. CorrespondanceTypee /\ ChargesJustes
  BY DEF AccesIInv
<1>3. ChargesJustes'
  <2> DEFINE k == A!CleOdoo(u)
  <2>1. (k = Tous \/ k \in SUBSET SocietesOdoo) /\ A!ChargeOdoo(k) = k
    BY <1>2, Cle
  <2> HIDE DEF k
  <2>2. CASE x2' = A!Gardee(k, k)
    BY <1>2, <2>1, <2>2 DEF ChargesJustes, A!Gardee
  <2>3. CASE x2' = x2
    BY <1>2, <2>3 DEF ChargesJustes
  <2>4. x2' = x2 \/ x2' = A!Gardee(k, k)
    BY <1>1, <2>1 DEF A!CleDeCharge, k
  <2> QED BY <2>2, <2>3, <2>4
<1>4. CorrespondanceTypee'
  BY <1>1, <1>2 DEF CorrespondanceTypee
<1>5. Bonnes(u, f, A!Servi(u, porte, f))
  BY <1>2, Portes
<1>6. x3'.u = u /\ x3'.f = f /\ x3'.valeurs = A!Servi(u, porte, f)
  BY <1>1
<1>7. ASSUME NEW v \in x3'.valeurs PROVE Bonne(x3.u, x3.f, v)'
  <2>1. Bonne(u, f, v)
    BY <1>5, <1>6, <1>7 DEF Bonnes
  <2> QED BY <1>1, <1>6, <2>1
          DEF Bonne, DansPerimetre, Ouvert, Filtre, A!Couvert, A!Honore, A!EstGroupe, A!ScopeGroupe,
              A!CanAccessDomain, A!Total, A!Permissions
<1> QED BY <1>3, <1>4, <1>6, <1>7 DEF AccesIInv, Bonnes

\* Every step of the access keeps its inductive invariant.
LEMMA AccesPas ==
  ASSUME A!AccesConstantes, AccesIInv, A!Next \/ UNCHANGED registers
  PROVE  AccesIInv'
<1>0. A!SansFiltre \in A!Filtres
  BY DEF A!SansFiltre, A!Filtres, A!Mailles
<1>1. ASSUME NEW u \in Comptes, NEW porte \in A!Portes, A!Demander(u, porte, A!SansFiltre) PROVE AccesIInv'
  BY <1>0, <1>1, UneDemande
<1>2. ASSUME NEW u \in Comptes, NEW porte \in A!PortesFiltrees \cup A!Objets, NEW f \in A!Filtres,
             A!Demander(u, porte, f)
      PROVE  AccesIInv'
  <2>1. porte \notin A!Portes
    BY DEF A!Portes, A!PortesFiltrees, A!Objets, A!Liaisons, A!Metriques
  <2> QED BY <1>2, <2>1, UneDemande
<1>3. CASE A!Rendre
  BY <1>3 DEF A!Rendre, AccesIInv, CorrespondanceTypee, ChargesJustes
<1>4. ASSUME NEW c \in SocietesOdoo, NEW fil \in Filiales \cup {Aucune}, A!Declarer(c, fil) PROVE AccesIInv'
  BY <1>4 DEF A!Declarer, AccesIInv, CorrespondanceTypee, ChargesJustes
<1>5. ASSUME NEW k \in DOMAIN x2, A!Expirer(k) PROVE AccesIInv'
  <2>1. /\ DOMAIN x2' \subseteq DOMAIN x2 /\ (\A j \in DOMAIN x2' : x2'[j] = x2[j]) /\ x1' = x1 /\ x3' = Neant
    BY <1>5 DEF A!Expirer, A!Restrict
  <2> QED BY <2>1 DEF AccesIInv, CorrespondanceTypee, ChargesJustes
<1>6. CASE UNCHANGED registers
  <2>1. UNCHANGED <<x1, x2, x3>>
    BY <1>6 DEF registers
  <2>2. \A u, f, v : Bonne(u, f, v) => Bonne(u, f, v)'
    BY <2>1 DEF Bonne, DansPerimetre, Ouvert, Filtre, A!Couvert, A!Honore, A!EstGroupe, A!ScopeGroupe,
                A!CanAccessDomain, A!Total, A!Permissions
  <2> QED BY <2>1, <2>2 DEF AccesIInv, CorrespondanceTypee, ChargesJustes, Bonnes
<1> QED BY <1>1, <1>2, <1>3, <1>4, <1>5, <1>6 DEF A!Next

AccesInv == part = "acces" => AccesIInv

\* The inductive invariant of the access always holds.
LEMMA AccesTenus == PlateformeSpec => []AccesInv
<1>1. A!AccesConstantes
  BY Constantes
<1>2. PlateformeInit => AccesInv
  <2> SUFFICES ASSUME A!Init PROVE AccesIInv
    BY Depart DEF AccesInv
  <2> QED BY DEF A!Init, AccesIInv, CorrespondanceTypee, ChargesJustes
<1>3. AccesInv /\ [PlateformeNext]_plateforme => AccesInv'
  <2> SUFFICES ASSUME part = "acces", AccesIInv, [PlateformeNext]_plateforme PROVE AccesIInv'
    BY PartFixe DEF AccesInv
  <2>1. A!Next \/ UNCHANGED registers
    BY Pas DEF Suit
  <2> QED BY <1>1, <2>1, AccesPas
<1> QED BY <1>2, <1>3, PTL DEF PlateformeSpec

\* Whoever filled the shared payloads before, and whatever company is declared meanwhile, nobody is served beyond
\* the perimeter of their account, a director of subsidiary least of all: at every door, for any accounts,
\* subsidiaries and companies (accounts/models.py, hr_sources.py, lecture_rh.py, integrations/views.py).
THEOREM NobodySeesBeyondTheirPerimeter == PlateformeSpec => []PerimetreTenu
<1>1. AccesInv => PerimetreTenu
  <2> SUFFICES ASSUME AccesIInv PROVE A!DansLePerimetre /\ A!DirecteurRestreint
    BY DEF AccesInv, PerimetreTenu
  <2>1. x3 # Neant => \A v \in x3.valeurs : A!EstGroupe(x3.u) \/ A!Couvert(x3.u, v)
    BY DEF AccesIInv, Bonnes, Bonne, DansPerimetre
  <2>2. x3.u.role = "DIR_FILIALE" => ~A!EstGroupe(x3.u)
    BY DEF A!EstGroupe, A!ScopeGroupe
  <2> QED BY <2>1, <2>2 DEF A!DansLePerimetre, A!DirecteurRestreint
<1> QED BY <1>1, AccesTenus, PTL

\* Two doors onto the same figures let the same people in, and the filter asked for is the one applied to the
\* value of a period, or nothing is served (rbac.py, lecture_rh.py, module_views.py, history_views.py).
THEOREM DoorsAgree == PlateformeSpec => []PortesConcordent
<1>1. AccesInv => PortesConcordent
  <2> SUFFICES ASSUME AccesIInv PROVE A!PortesConcordent /\ A!FiltreHonore
    BY DEF AccesInv, PortesConcordent
  <2> QED BY DEF AccesIInv, Bonnes, Bonne, Ouvert, Filtre, A!PortesConcordent, A!FiltreHonore
<1> QED BY <1>1, AccesTenus, PTL

-----------------------------------------------------------------------------
(* The chat.                                                               *)
Billets == [de : Equipe, role : {"user", "assistant"}]
Fils == [existe : BOOLEAN, messages : Seq(Billets)]
Voix == {"aucun", "tool", V!Last(V!Tentatives)}
\* What the provider that the router stops at does; the traces and the ends there are when it does that.
Sort == V!Conduite(V!Last(V!Tentatives))
Suites == IF Sort = "casse" THEN {<<>>} ELSE {<<>>, V!Tentatives}
\* What a message sent has come to; the providers it tried are those there are to try.
EtapesEnvoi ==
  {"attente", "recu", "repondu", "question", "reponse", "fin"}
    \cup (IF Sort \in {"casse", "muet"} THEN {"brisee", "muette"} ELSE {})
Actes == {"aucune", "done", "error", "denied", "approval_required"}
Codes == {0, 200, 404, 500}
EnvoisJusque(k) ==
  [etape : EtapesEnvoi, sur : 0..k,
   intention : V!Intentions \cup {"aucune"}, action : Actes,
   moteur : Voix, essais : Suites, code : Codes]
Envois == EnvoisJusque(Len(x1))

ConversationTypes ==
  /\ x1 \in Seq(Fils) /\ Len(x1) \in 0..MaxConversations
  /\ x2 \in [Equipe -> Envois]
  /\ \A a \in Equipe : x2[a].etape = "attente" => x2[a].sur = 0
  /\ x3 \subseteq [de : Equipe, sur : 0..MaxConversations]
  /\ x4 \subseteq Equipe
  /\ x5 \in [{"deepseek", "claude"} -> V!Conduites]

\* What a conversation holds of a call, by how far the call has come: nothing, its question, or its question and
\* then its answer.
Ecoutes == {"question", "reponse", "fin", "muette"}
Avant == {"attente", "recu", "repondu", "brisee"}
Parle(s, a) == \E i \in 1..Len(s) : s[i].de = a
Classe(s, a, etape) ==
  /\ etape \in Avant => ~Parle(s, a)
  /\ etape \in {"question", "muette"} =>
       \E i \in 1..Len(s) : s[i] = V!Message(a, "user") /\ \A k \in 1..Len(s) : s[k].de = a => k = i
  /\ etape \in {"reponse", "fin"} =>
       \E i, j \in 1..Len(s) :
         /\ i < j /\ s[i] = V!Message(a, "user") /\ s[j] = V!Message(a, "assistant")
         /\ \A k \in 1..Len(s) : s[k].de = a => k = i \/ k = j

\* A message stored is of a call whose conversation this is, and which is past the storing of its question.
Rattaches ==
  \A n \in 1..Len(x1), a \in Equipe : Parle(x1[n].messages, a) => x2[a].sur = n /\ x2[a].etape \in Ecoutes

Classee(a) ==
  x2[a].sur \in V!Presentes =>
    /\ Classe(x1[x2[a].sur].messages, a, x2[a].etape)
    /\ x2[a].etape = "fin" => x2[a].code = 200

\* What a call did, what it says it did, and the request it left.
Dite(a) ==
  /\ x2[a].etape \in {"attente", "recu"} => x2[a].action = "aucune"
  /\ IF x2[a].action = "approval_required" THEN \E d \in x3 : {e \in x3 : e.de = a} = {d}
     ELSE {e \in x3 : e.de = a} = {}
  /\ a \in x4 <=> x2[a].action = "done"
  /\ a \in x4 => x2[a].intention = "lecture"

ConversationIInv ==
  /\ ConversationTypes
  /\ Rattaches /\ \A a \in Equipe : Classee(a)
  /\ (\A d \in x3 : d.sur = 0 \/ d.sur \in V!Presentes) /\ \A a \in Equipe : Dite(a)

\* The conversations count as everyone does.
LEMMA MemeCardinalV == \A s : V!Cardinality(s) = Cardinality(s)
<1>1. \A s : V!IsFiniteSet(s) <=> IsFiniteSet(s)
  BY DEF V!IsFiniteSet, IsFiniteSet
<1> QED BY <1>1 DEF V!Cardinality, Cardinality

\* The provider that the router stops at is the first that does not step aside, and the grounded sentence comes after all of them.
LEMMA Choix ==
  /\ V!Choisi \in 1..3
  /\ V!Choisi # 3 => V!Arrete(<<"deepseek", "claude">>[V!Choisi])
  /\ \A i \in 1..2 : i < V!Choisi => ~V!Arrete(<<"deepseek", "claude">>[i])
<1> DEFINE M2 == <<"deepseek", "claude">>
           bons == {i \in DOMAIN M2 : V!Arrete(M2[i])}
<1>1. DOMAIN M2 = 1..2 /\ Len(M2) = 2
  OBVIOUS
<1>2. CASE bons = {}
  <2>1. V!Choisi = 3
    BY <1>1, <1>2 DEF V!Choisi
  <2> QED BY <1>1, <1>2, <2>1
<1>3. CASE bons # {}
  <2>1. V!Choisi = V!Min(bons)
    BY <1>3 DEF V!Choisi
  <2> HIDE DEF M2
  <2>2. bons \subseteq 1..2
    BY <1>1
  <2> HIDE DEF bons
  <2>3. \E x \in bons : \A y \in bons : x <= y
    <3>1. CASE 1 \in bons
      BY <2>2, <3>1
    <3>2. CASE 1 \notin bons
      <4>1. PICK y \in bons : TRUE
        BY <1>3
      <4>2. \A z \in bons : z = 2
        BY <2>2, <3>2
      <4> QED BY <4>1, <4>2
    <3> QED BY <3>1, <3>2
  <2>4. V!Choisi \in bons /\ \A y \in bons : V!Choisi <= y
    BY <2>1, <2>3 DEF V!Min
  <2> QED BY <1>1, <2>2, <2>4 DEF bons, M2
<1> QED BY <1>2, <1>3

Noms == {"deepseek", "claude", "offline-grounded"}
Ordre == <<"deepseek", "claude">>

\* A third element comes after two.
LEMMA Ajout ==
  ASSUME NEW S2, NEW s \in Seq(S2), Len(s) = 2, NEW c \in S2
  PROVE  /\ Append(s, c) \in Seq(S2) /\ Len(Append(s, c)) = 3
         /\ Append(s, c)[3] = c /\ Append(s, c)[1] = s[1] /\ Append(s, c)[2] = s[2]
OBVIOUS

\* The models tried are the first of the order, up to the one chosen, the third being the offline one.
LEMMA Essayes ==
  /\ V!Tentatives \in Seq(Noms) /\ Len(V!Tentatives) = V!Choisi /\ V!Tentatives # <<>>
  /\ \A i \in 1..V!Choisi : V!Tentatives[i] = IF i = 3 THEN "offline-grounded" ELSE Ordre[i]
<1>1. V!Tentatives = SubSeq(Append(Ordre, "offline-grounded"), 1, V!Choisi)
  BY Zenon DEF V!Tentatives, V!HorsLigne, Ordre
<1>2. Ordre \in Seq(Noms) /\ Len(Ordre) = 2 /\ "offline-grounded" \in Noms
  BY DEF Ordre, Noms
<1> DEFINE tous == Append(Ordre, "offline-grounded")
<1>3. /\ tous \in Seq(Noms) /\ Len(tous) = 3
      /\ tous[3] = "offline-grounded" /\ tous[1] = Ordre[1] /\ tous[2] = Ordre[2]
  BY <1>2, Ajout, Zenon
<1>4. V!Choisi \in 1..3
  BY Choix
<1> HIDE DEF tous
<1>5. /\ SubSeq(tous, 1, V!Choisi) \in Seq(Noms) /\ Len(SubSeq(tous, 1, V!Choisi)) = V!Choisi
      /\ \A i \in 1..V!Choisi : SubSeq(tous, 1, V!Choisi)[i] = tous[i]
  BY <1>3, <1>4
<1>6. V!Tentatives = SubSeq(tous, 1, V!Choisi)
  BY <1>1 DEF tous
<1>7. V!Tentatives # <<>>
  <2>1. Len(V!Tentatives) # 0
    BY <1>4, <1>5, <1>6
  <2> QED BY <2>1
<1> QED BY <1>3, <1>4, <1>5, <1>6, <1>7

\* The providers do not change.
LEMMA MemesMoteurs ==
  UNCHANGED x5 =>
    Voix' = Voix /\ Suites' = Suites /\ V!Tentatives' = V!Tentatives /\ EtapesEnvoi' = EtapesEnvoi /\ Sort' = Sort
BY DEF Voix, Suites, EtapesEnvoi, Sort, V!Conduite, V!Tentatives, V!Choisi, V!Arrete, V!Last

\* What the provider that the router stops at does, and whether its text is null.
LEMMA Arret ==
  /\ V!Last(V!Tentatives) = V!Tentatives[V!Choisi]
  /\ x5 \in [{"deepseek", "claude"} -> V!Conduites] =>
       /\ V!Choisi = 3 => Sort = "repond"
       /\ V!Choisi # 3 => Sort = x5[Ordre[V!Choisi]] /\ Sort # "passe"
       /\ Sort \in V!Conduites \ {"passe"}
       /\ \A v \in Voix : V!Conduite(v) = "muet" => Sort = "muet"
<1>1. V!Last(V!Tentatives) = V!Tentatives[V!Choisi]
  BY Essayes DEF V!Last
<1>2. ASSUME x5 \in [{"deepseek", "claude"} -> V!Conduites]
      PROVE  /\ V!Choisi = 3 => Sort = "repond"
             /\ V!Choisi # 3 => Sort = x5[Ordre[V!Choisi]] /\ Sort # "passe"
             /\ Sort \in V!Conduites \ {"passe"}
             /\ \A v \in Voix : V!Conduite(v) = "muet" => Sort = "muet"
  <2>1. DOMAIN x5 = {"deepseek", "claude"}
    BY <1>2
  <2>2. CASE V!Choisi = 3
    <3>1. V!Last(V!Tentatives) = "offline-grounded"
      BY <1>1, <2>2, Essayes, Choix
    <3>2. Sort = "repond"
      BY <2>1, <3>1 DEF Sort, V!Conduite
    <3> QED BY <2>1, <2>2, <3>1, <3>2 DEF V!Conduites, Voix, V!Conduite
  <2>3. CASE V!Choisi # 3
    <3>1. V!Choisi \in 1..2 /\ V!Arrete(Ordre[V!Choisi])
      BY <2>3, Choix DEF Ordre
    <3>2. V!Last(V!Tentatives) = Ordre[V!Choisi] /\ Ordre[V!Choisi] \in {"deepseek", "claude"}
      <4>1. V!Tentatives[V!Choisi] = Ordre[V!Choisi]
        BY <2>3, <3>1, Essayes, Choix
      <4> QED BY <1>1, <3>1, <4>1 DEF Ordre
    <3>3. Sort = x5[Ordre[V!Choisi]]
      BY <2>1, <3>2 DEF Sort, V!Conduite
    <3>4. Sort \in V!Conduites \ {"passe"}
      BY <1>2, <3>1, <3>2, <3>3 DEF V!Arrete
    <3>5. \A v \in Voix : V!Conduite(v) = "muet" => Sort = "muet"
      BY <2>1, <3>2 DEF Voix, V!Conduite, Sort
    <3> QED BY <2>3, <3>3, <3>4, <3>5
  <2> QED BY <2>2, <2>3
<1> QED BY <1>1, <1>2

\* The changes made to a call, each to the fields it sets.
LEMMA EnvoiModifie ==
  ASSUME NEW k \in Nat, NEW q \in EnvoisJusque(k), NEW e \in EtapesEnvoi
  PROVE  /\ [q EXCEPT !.etape = e] \in EnvoisJusque(k)
         /\ \A c \in Codes : [q EXCEPT !.etape = e, !.code = c] \in EnvoisJusque(k)
         /\ \A act \in Actes, v \in Voix : [q EXCEPT !.etape = e, !.action = act, !.moteur = v] \in EnvoisJusque(k)
         /\ \A s \in Suites, v \in Voix : [q EXCEPT !.etape = e, !.essais = s, !.moteur = v] \in EnvoisJusque(k)
         /\ \A n \in 0..k, i \in V!Intentions \cup {"aucune"} :
              [q EXCEPT !.etape = e, !.sur = n, !.intention = i] \in EnvoisJusque(k)
<1>1. [q EXCEPT !.etape = e] \in EnvoisJusque(k)
  BY DEF EnvoisJusque
<1>2. ASSUME NEW c \in Codes PROVE [q EXCEPT !.etape = e, !.code = c] \in EnvoisJusque(k)
  BY DEF EnvoisJusque
<1>3. ASSUME NEW act \in Actes, NEW v \in Voix
      PROVE  [q EXCEPT !.etape = e, !.action = act, !.moteur = v] \in EnvoisJusque(k)
  BY DEF EnvoisJusque
<1>4. ASSUME NEW s \in Suites, NEW v \in Voix
      PROVE  [q EXCEPT !.etape = e, !.essais = s, !.moteur = v] \in EnvoisJusque(k)
  BY DEF EnvoisJusque
<1>5. ASSUME NEW n \in 0..k, NEW i \in V!Intentions \cup {"aucune"}
      PROVE  [q EXCEPT !.etape = e, !.sur = n, !.intention = i] \in EnvoisJusque(k)
  BY DEF EnvoisJusque
<1> QED BY <1>1, <1>2, <1>3, <1>4, <1>5

\* A message about one of k conversations is about one of k + 1.
LEMMA EnvoisDePlus ==
  ASSUME NEW k \in Nat
  PROVE  EnvoisJusque(k) \subseteq EnvoisJusque(k + 1)
BY DEF EnvoisJusque

\* The changes a message makes to its call.
LEMMA EnvoisFaits ==
  ASSUME ConversationTypes, NEW a \in Equipe
  PROVE  /\ \A c \in Codes : [x2[a] EXCEPT !.etape = "fin", !.code = c] \in Envois
         /\ \A act \in Actes : [x2[a] EXCEPT !.etape = "repondu", !.action = act, !.moteur = "tool"] \in Envois
         /\ \A e \in EtapesEnvoi : [x2[a] EXCEPT !.etape = e] \in Envois
         /\ \A n \in 0..Len(x1), i \in V!Intentions :
              [x2[a] EXCEPT !.etape = "recu", !.sur = n, !.intention = i] \in Envois
         /\ \A i \in V!Intentions :
              [x2[a] EXCEPT !.etape = "recu", !.sur = Len(x1) + 1, !.intention = i] \in EnvoisJusque(Len(x1) + 1)
<1> DEFINE k == Len(x1)
<1>1. k \in Nat /\ x2[a] \in EnvoisJusque(k) /\ x2[a] \in EnvoisJusque(k + 1)
  BY EnvoisDePlus DEF ConversationTypes, Envois
<1>2. "fin" \in EtapesEnvoi /\ "repondu" \in EtapesEnvoi /\ "recu" \in EtapesEnvoi
  BY DEF EtapesEnvoi
<1>3. "tool" \in Voix
  BY DEF Voix
<1>4. \A i \in V!Intentions : i \in V!Intentions \cup {"aucune"}
  OBVIOUS
<1>5. k + 1 \in Nat /\ k + 1 \in 0..(k + 1)
  BY <1>1
<1> HIDE DEF k
<1>6. \A i \in V!Intentions :
        [x2[a] EXCEPT !.etape = "recu", !.sur = k + 1, !.intention = i] \in EnvoisJusque(k + 1)
  BY <1>1, <1>2, <1>4, <1>5, EnvoiModifie, Zenon
<1>7. /\ \A c \in Codes : [x2[a] EXCEPT !.etape = "fin", !.code = c] \in EnvoisJusque(k)
      /\ \A act \in Actes :
           [x2[a] EXCEPT !.etape = "repondu", !.action = act, !.moteur = "tool"] \in EnvoisJusque(k)
  BY <1>1, <1>2, <1>3, EnvoiModifie, Zenon
<1>8. /\ \A e \in EtapesEnvoi : [x2[a] EXCEPT !.etape = e] \in EnvoisJusque(k)
      /\ \A n \in 0..k, i \in V!Intentions :
           [x2[a] EXCEPT !.etape = "recu", !.sur = n, !.intention = i] \in EnvoisJusque(k)
  BY <1>1, <1>2, <1>4, EnvoiModifie, Zenon
<1> QED BY <1>6, <1>7, <1>8 DEF Envois, k

\* A provider that breaks fails the page; one that does not is named, with those tried before it.
LEMMA EnvoisDesMoteurs ==
  ASSUME ConversationTypes, NEW a \in Equipe
  PROVE  /\ \A e \in EtapesEnvoi : [x2[a] EXCEPT !.etape = e, !.code = 500] \in Envois
         /\ Sort # "casse" =>
              [x2[a] EXCEPT !.etape = "repondu", !.essais = V!Tentatives, !.moteur = V!Last(V!Tentatives)] \in Envois
<1> DEFINE k == Len(x1)
<1>1. k \in Nat /\ x2[a] \in EnvoisJusque(k)
  BY DEF ConversationTypes, Envois
<1>2. "repondu" \in EtapesEnvoi /\ 500 \in Codes
  BY DEF EtapesEnvoi, Codes
<1>3. (Sort # "casse" => V!Tentatives \in Suites) /\ V!Last(V!Tentatives) \in Voix
  BY DEF Voix, Suites
<1> HIDE DEF k
<1>4. ASSUME NEW e \in EtapesEnvoi PROVE [x2[a] EXCEPT !.etape = e, !.code = 500] \in EnvoisJusque(k)
  <2>1. \A c \in Codes : [x2[a] EXCEPT !.etape = e, !.code = c] \in EnvoisJusque(k)
    BY <1>1, EnvoiModifie, Zenon
  <2> QED BY <1>2, <2>1
<1>5. ASSUME Sort # "casse"
      PROVE  [x2[a] EXCEPT !.etape = "repondu", !.essais = V!Tentatives, !.moteur = V!Last(V!Tentatives)]
               \in EnvoisJusque(k)
  BY <1>1, <1>2, <1>3, <1>5, EnvoiModifie, Zenon
<1> QED BY <1>4, <1>5 DEF Envois, k

\* A message sent by one changes nothing of the others.
LEMMA EnvoiChange ==
  ASSUME ConversationTypes, NEW a \in Equipe, NEW r, x2' = [x2 EXCEPT ![a] = r]
  PROVE  x2'[a] = r /\ \A b \in Equipe \ {a} : x2'[b] = x2[b]
BY DEF ConversationTypes

\* What a call may become while the conversations are those there are, and after one is opened.
LEMMA EnvoisTypes ==
  ASSUME V!ConversationConstantes, ConversationTypes, NEW a \in Equipe, NEW r \in Envois, r.etape # "attente",
         x2' = [x2 EXCEPT ![a] = r], Len(x1') = Len(x1), UNCHANGED x5
  PROVE  x2' \in [Equipe -> Envois'] /\ \A b \in Equipe : x2'[b].etape = "attente" => x2'[b].sur = 0
<1>1. Envois' = Envois
  BY MemesMoteurs DEF Envois, EnvoisJusque
<1> QED BY <1>1 DEF ConversationTypes

\* Every step of the conversations keeps the types.
LEMMA ConversationTypesPas ==
  ASSUME V!ConversationConstantes, ConversationTypes, V!Next \/ UNCHANGED registers
  PROVE  ConversationTypes'
<1> USE DEF V!ConversationConstantes
<1>0. x1 \in Seq(Fils) /\ Len(x1) \in Nat /\ DOMAIN x1 = 1..Len(x1) /\ V!Presentes \subseteq 1..Len(x1)
  BY DEF ConversationTypes, V!Presentes
<1>1. ASSUME NEW a \in Equipe, NEW n \in V!SansConversation..MaxConversations, NEW i \in V!Intentions,
             V!Recevoir(a, n, i)
      PROVE  ConversationTypes'
  <2>1. x2[a] \in Envois /\ UNCHANGED <<x3, x4, x5>>
    BY <1>1 DEF ConversationTypes, V!Recevoir
  <2>2. CASE Len(x1) < MaxConversations /\ x1' = Append(x1, V!Ouverte) /\ x2' = V!Recu(a, Len(x1) + 1, i)
    <3>1. V!Ouverte \in Fils
      BY DEF V!Ouverte, Fils
    <3>2. x1' \in Seq(Fils) /\ Len(x1') = Len(x1) + 1
      BY <1>0, <2>2, <3>1
    <3> DEFINE r == [x2[a] EXCEPT !.etape = "recu", !.sur = Len(x1) + 1, !.intention = i]
    <3>3. Envois' = EnvoisJusque(Len(x1) + 1)
      BY <2>1, <3>2, MemesMoteurs DEF Envois, EnvoisJusque
    <3>5. \A b \in Equipe : x2[b] \in Envois'
      BY <1>0, <3>3, EnvoisDePlus DEF Envois, ConversationTypes
    <3>4. r \in Envois'
      BY <3>3, EnvoisFaits, Zenon
    <3>7. r.etape = "recu"
      BY <2>1 DEF Envois, EnvoisJusque
    <3>6. x2' = [x2 EXCEPT ![a] = r]
      BY <2>2 DEF V!Recu
    <3> HIDE DEF r
    <3> QED BY <1>0, <2>1, <2>2, <3>2, <3>4, <3>5, <3>6, <3>7 DEF ConversationTypes
  <2>3. CASE n \in V!Presentes /\ x2' = V!Recu(a, n, i) /\ x1' = x1
    <3> DEFINE r == [x2[a] EXCEPT !.etape = "recu", !.sur = n, !.intention = i]
    <3>3. n \in 0..Len(x1)
      BY <1>0, <2>3
    <3>4. r \in Envois
      BY <3>3, EnvoisFaits, Zenon
    <3>1. r \in Envois /\ r.etape # "attente"
      BY <2>1, <3>4 DEF Envois, EnvoisJusque
    <3>2. x2' = [x2 EXCEPT ![a] = r]
      BY <2>3 DEF V!Recu
    <3> HIDE DEF r
    <3> QED BY <2>1, <2>3, <3>1, <3>2, EnvoisTypes DEF ConversationTypes
  <2>4. CASE x2' = V!Echouer(a, 404) /\ x1' = x1
    <3> DEFINE r == [x2[a] EXCEPT !.etape = "fin", !.code = 404]
    <3>4. 404 \in Codes
      BY DEF Codes
    <3>3. r \in Envois
      BY <3>4, EnvoisFaits, Zenon
    <3>1. r \in Envois /\ r.etape # "attente"
      BY <2>1, <3>3 DEF Envois, EnvoisJusque
    <3>2. x2' = [x2 EXCEPT ![a] = r]
      BY <2>4 DEF V!Echouer
    <3> HIDE DEF r
    <3> QED BY <2>1, <2>4, <3>1, <3>2, EnvoisTypes DEF ConversationTypes
  <2> QED BY <1>1, <2>2, <2>3, <2>4 DEF V!Recevoir
<1>2. ASSUME NEW a \in Equipe, NEW h \in BOOLEAN, V!Agir(a, h) PROVE ConversationTypes'
  <2> DEFINE r(action) == [x2[a] EXCEPT !.etape = "repondu", !.action = action, !.moteur = "tool"]
             e == [x2[a] EXCEPT !.etape = "fin", !.code = 500]
  <2>1. x2[a] \in Envois /\ UNCHANGED <<x1, x5>>
    BY <1>2 DEF ConversationTypes, V!Agir
  <2>2. /\ \A action \in {"done", "error", "denied", "approval_required"} : r(action) \in Envois /\ r(action).etape # "attente"
        /\ e \in Envois /\ e.etape # "attente"
    <3>1. \A action \in {"done", "error", "denied", "approval_required"} : r(action) \in Envois
      BY EnvoisFaits DEF Actes
    <3>2. e \in Envois
      BY EnvoisFaits DEF Codes
    <3>3. e.etape = "fin" /\ \A action : r(action).etape = "repondu"
      BY <2>1 DEF Envois, EnvoisJusque
    <3> HIDE DEF e, r
    <3> QED BY <3>1, <3>2, <3>3
  <2>3. x3' \subseteq [de : Equipe, sur : 0..MaxConversations] /\ x4' \subseteq Equipe
    BY <1>0, <1>2 DEF ConversationTypes, V!Agir
  <2>4. \E q \in Envois : q.etape # "attente" /\ x2' = [x2 EXCEPT ![a] = q]
    <3>1. \/ x2' = [x2 EXCEPT ![a] = e]
          \/ \E action \in {"done", "error", "denied", "approval_required"} : x2' = [x2 EXCEPT ![a] = r(action)]
      BY <1>2, Zenon DEF V!Agir, V!Echouer
    <3> HIDE DEF r, e
    <3> QED BY <2>2, <3>1
  <2>5. x2' \in [Equipe -> Envois'] /\ \A b \in Equipe : x2'[b].etape = "attente" => x2'[b].sur = 0
    BY <2>1, <2>4, EnvoisTypes
  <2> QED BY <2>1, <2>3, <2>5 DEF ConversationTypes
<1>3. ASSUME NEW a \in Equipe, V!Repondre(a) PROVE ConversationTypes'
  <2> DEFINE r == IF Sort = "casse" THEN [x2[a] EXCEPT !.etape = "brisee", !.code = 500]
                  ELSE [x2[a] EXCEPT !.etape = "repondu", !.essais = V!Tentatives, !.moteur = V!Last(V!Tentatives)]
  <2>1. x2[a] \in Envois /\ UNCHANGED <<x1, x3, x4, x5>> /\ x2' = [x2 EXCEPT ![a] = r]
    BY <1>3 DEF ConversationTypes, V!Repondre, V!Tomber, Sort
  <2>2. r \in Envois
    <3>1. Sort = "casse" => "brisee" \in EtapesEnvoi
      BY DEF EtapesEnvoi
    <3> QED BY <3>1, EnvoisDesMoteurs
  <2>3. r.etape \in {"brisee", "repondu"}
    BY <2>1 DEF Envois, EnvoisJusque
  <2> HIDE DEF r
  <2> QED BY <2>1, <2>2, <2>3, EnvoisTypes DEF ConversationTypes
<1>4. ASSUME NEW a \in Equipe, NEW etape, NEW role \in {"user", "assistant"}, NEW suivante \in {"question", "reponse"},
             V!Stocker(a, etape, role, suivante)
      PROVE  ConversationTypes'
  <2> DEFINE n == x2[a].sur
             f == [x1[n] EXCEPT !.messages = Append(@, V!Message(a, role))]
             r == [x2[a] EXCEPT !.etape = suivante]
             e == [x2[a] EXCEPT !.etape = "fin", !.code = 500]
             m == [x2[a] EXCEPT !.etape = "muette", !.code = 500]
  <2>1. x2[a] \in Envois /\ UNCHANGED <<x3, x4, x5>>
    BY <1>4 DEF ConversationTypes, V!Stocker
  <2>2. r \in Envois /\ r.etape # "attente" /\ e \in Envois /\ e.etape # "attente"
    <3>1. r \in Envois
      BY EnvoisFaits DEF EtapesEnvoi
    <3>2. e \in Envois
      BY EnvoisFaits DEF Codes
    <3>3. e.etape = "fin" /\ r.etape = suivante
      BY <2>1 DEF Envois, EnvoisJusque
    <3> HIDE DEF e, r
    <3> QED BY <3>1, <3>2, <3>3
  <2>3. CASE n \in V!Presentes /\ x1' = [x1 EXCEPT ![n] = f] /\ x2' = [x2 EXCEPT ![a] = r]
    <3>1. x1[n] \in Fils /\ n \in 1..Len(x1)
      BY <1>0, <2>3
    <3>2. V!Message(a, role) \in Billets
      BY DEF V!Message, Billets
    <3>3. f \in Fils
      <4>1. x1[n].messages \in Seq(Billets)
        BY <3>1 DEF Fils
      <4>2. Append(x1[n].messages, V!Message(a, role)) \in Seq(Billets)
        BY <3>2, <4>1
      <4> QED BY <3>1, <4>2 DEF Fils
    <3> HIDE DEF f, r, n
    <3>4. x1' \in Seq(Fils) /\ Len(x1') = Len(x1)
      BY <1>0, <2>3, <3>1, <3>3
    <3> QED BY <2>1, <2>2, <2>3, <3>4, EnvoisTypes DEF ConversationTypes
  <2>4. CASE x1' = x1 /\ x2' = [x2 EXCEPT ![a] = e]
    <3> HIDE DEF e
    <3> QED BY <2>1, <2>2, <2>4, EnvoisTypes DEF ConversationTypes
  <2>5. CASE x1' = x1 /\ x2' = [x2 EXCEPT ![a] = m] /\ V!SansTexte(a, role)
    <3>1. "muette" \in EtapesEnvoi
      <4>1. x2[a].moteur \in Voix
        BY <2>1 DEF Envois, EnvoisJusque
      <4>2. Sort = "muet"
        BY <2>5, <4>1, Arret DEF V!SansTexte, ConversationTypes
      <4> QED BY <4>2 DEF EtapesEnvoi
    <3>2. m \in Envois
      BY <3>1, EnvoisDesMoteurs
    <3>3. m.etape = "muette"
      BY <2>1 DEF Envois, EnvoisJusque
    <3> HIDE DEF m
    <3> QED BY <2>1, <2>5, <3>2, <3>3, EnvoisTypes DEF ConversationTypes
  <2> QED BY <1>4, <2>3, <2>4, <2>5 DEF V!Stocker, V!Echouer, V!Tomber
<1>5. ASSUME NEW a \in Equipe, V!Rendre(a) PROVE ConversationTypes'
  <2> DEFINE code == IF x2[a].sur \in V!Presentes THEN 200 ELSE 500
             r == [x2[a] EXCEPT !.etape = "fin", !.code = code]
  <2>1. x2[a] \in Envois /\ UNCHANGED <<x1, x3, x4, x5>> /\ x2' = [x2 EXCEPT ![a] = r]
    BY <1>5 DEF ConversationTypes, V!Rendre, V!Echouer
  <2>2. code \in Codes
    BY DEF Codes
  <2>3. r \in Envois /\ r.etape = "fin"
    <3> HIDE DEF code
    <3>1. r \in Envois
      BY <2>2, EnvoisFaits
    <3> QED BY <2>1, <3>1 DEF Envois, EnvoisJusque
  <2> HIDE DEF r
  <2> QED BY <2>1, <2>3, EnvoisTypes DEF ConversationTypes
<1>6. ASSUME NEW n \in 1..MaxConversations, V!Supprimer(n) PROVE ConversationTypes'
  <2>1. V!Effacee \in Fils
    BY DEF V!Effacee, Fils
  <2>2. n \in 1..Len(x1) /\ x1' = [x1 EXCEPT ![n] = V!Effacee] /\ UNCHANGED <<x2, x4, x5>>
    BY <1>0, <1>6 DEF V!Supprimer
  <2>3. x1' \in Seq(Fils) /\ Len(x1') = Len(x1)
    BY <1>0, <2>1, <2>2
  <2>4. x3' \subseteq [de : Equipe, sur : 0..MaxConversations]
    BY <1>6 DEF V!Supprimer, V!SansConversation, ConversationTypes
  <2>5. Envois' = Envois
    BY <2>2, <2>3, MemesMoteurs DEF Envois, EnvoisJusque
  <2> QED BY <2>2, <2>3, <2>4, <2>5 DEF ConversationTypes
<1>7. CASE UNCHANGED registers
  <2>1. UNCHANGED <<x1, x2, x3, x4, x5>>
    BY <1>7 DEF registers
  <2>2. Envois' = Envois
    BY <2>1, MemesMoteurs DEF Envois, EnvoisJusque
  <2> QED BY <2>1, <2>2 DEF ConversationTypes
<1> QED
  BY <1>1, <1>2, <1>3, <1>4, <1>5, <1>6, <1>7 DEF V!Next, V!StockerQuestion, V!StockerReponse

\* A message put at the end of a conversation.
LEMMA Ajoute ==
  ASSUME NEW s \in Seq(Billets), NEW b \in Equipe, NEW role \in {"user", "assistant"}
  PROVE  LET t == Append(s, V!Message(b, role)) IN
         /\ t \in Seq(Billets)
         /\ \A a \in Equipe : Parle(t, a) => Parle(s, a) \/ a = b
         /\ \A a \in Equipe \ {b} : \A e : Classe(s, a, e) => Classe(t, a, e)
         /\ Classe(s, b, "repondu") /\ role = "user" => Classe(t, b, "question")
         /\ Classe(s, b, "question") /\ role = "assistant" => Classe(t, b, "reponse")
<1> DEFINE v == V!Message(b, role)
           t == Append(s, v)
<1>1. v \in Billets /\ v.de = b
  BY DEF V!Message, Billets
<1> HIDE DEF v
<1>2. /\ t \in Seq(Billets) /\ Len(t) = Len(s) + 1 /\ Len(s) \in Nat /\ t[Len(s) + 1] = v
      /\ \A i \in 1..Len(s) : t[i] = s[i]
  BY <1>1
<1> HIDE DEF t
<1>3. ASSUME NEW a \in Equipe, Parle(t, a), a # b PROVE Parle(s, a)
  BY <1>1, <1>2, <1>3 DEF Parle
<1>4. ASSUME NEW a \in Equipe \ {b}, NEW e, Classe(s, a, e) PROVE Classe(t, a, e)
  <2>1. \A k \in 1..Len(t) : t[k].de = a => k \in 1..Len(s) /\ s[k].de = a
    BY <1>1, <1>2
  <2>2. e \in Avant => ~Parle(t, a)
    BY <1>3, <1>4 DEF Classe
  <2>3. ASSUME e \in {"question", "muette"}
        PROVE  \E i \in 1..Len(t) : t[i] = V!Message(a, "user") /\ \A k \in 1..Len(t) : t[k].de = a => k = i
    <3>1. PICK i \in 1..Len(s) : s[i] = V!Message(a, "user") /\ \A k \in 1..Len(s) : s[k].de = a => k = i
      BY <1>4, <2>3 DEF Classe
    <3>2. i \in 1..Len(t) /\ t[i] = s[i]
      BY <1>2
    <3> QED BY <2>1, <3>1, <3>2
  <2>4. ASSUME e \in {"reponse", "fin"}
        PROVE  \E i, j \in 1..Len(t) :
                 /\ i < j /\ t[i] = V!Message(a, "user") /\ t[j] = V!Message(a, "assistant")
                 /\ \A k \in 1..Len(t) : t[k].de = a => k = i \/ k = j
    <3>1. PICK i, j \in 1..Len(s) :
             /\ i < j /\ s[i] = V!Message(a, "user") /\ s[j] = V!Message(a, "assistant")
             /\ \A k \in 1..Len(s) : s[k].de = a => k = i \/ k = j
      BY <1>4, <2>4 DEF Classe
    <3>2. i \in 1..Len(t) /\ t[i] = s[i] /\ j \in 1..Len(t) /\ t[j] = s[j]
      BY <1>2
    <3> QED BY <2>1, <3>1, <3>2
  <2> QED BY <2>2, <2>3, <2>4 DEF Classe
<1>5. ASSUME Classe(s, b, "repondu"), role = "user" PROVE Classe(t, b, "question")
  <2>1. ~Parle(s, b)
    BY <1>5 DEF Classe, Avant
  <2>2. t[Len(s) + 1] = V!Message(b, "user") /\ Len(s) + 1 \in 1..Len(t)
    BY <1>2, <1>5 DEF v
  <2>3. \A k \in 1..Len(t) : t[k].de = b => k = Len(s) + 1
    BY <1>2, <2>1 DEF Parle
  <2> QED BY <2>2, <2>3 DEF Classe, Avant
<1>6. ASSUME Classe(s, b, "question"), role = "assistant" PROVE Classe(t, b, "reponse")
  <2>1. PICK i \in 1..Len(s) : s[i] = V!Message(b, "user") /\ \A k \in 1..Len(s) : s[k].de = b => k = i
    BY <1>6 DEF Classe
  <2>2. t[Len(s) + 1] = V!Message(b, "assistant") /\ Len(s) + 1 \in 1..Len(t)
    BY <1>2, <1>6 DEF v
  <2>3. i \in 1..Len(t) /\ i < Len(s) + 1 /\ t[i] = V!Message(b, "user")
    BY <1>2, <2>1
  <2>4. \A k \in 1..Len(t) : t[k].de = b => k = i \/ k = Len(s) + 1
    BY <1>2, <2>1
  <2> QED BY <2>2, <2>3, <2>4 DEF Classe, Avant
<1> QED BY <1>2, <1>3, <1>4, <1>5, <1>6 DEF t, v

\* A call that moves on without storing anything.
LEMMA SansDepot ==
  ASSUME ConversationTypes, Rattaches, \A a \in Equipe : Classee(a), NEW a \in Equipe, NEW r,
         UNCHANGED x1, x2' = [x2 EXCEPT ![a] = r],
         x2[a].etape \in Ecoutes => r.etape \in Ecoutes /\ r.sur = x2[a].sur,
         \/ r.sur \notin V!Presentes
         \/ r.etape \in Avant /\ x2[a].etape = "attente"
         \/ r.etape \in Avant /\ x2[a].etape \in Avant /\ r.sur = x2[a].sur
         \/ r.etape = "fin" /\ r.code = 200 /\ x2[a].etape = "reponse" /\ r.sur = x2[a].sur
         \/ r.etape = "muette" /\ x2[a].etape = "question" /\ r.sur = x2[a].sur
  PROVE  Rattaches' /\ \A b \in Equipe : Classee(b)'
<1>1. x2'[a] = r /\ \A b \in Equipe \ {a} : x2'[b] = x2[b]
  BY EnvoiChange
<1>2. V!Presentes' = V!Presentes /\ V!Presentes \subseteq 1..Len(x1)
  BY DEF V!Presentes, ConversationTypes
<1>3. Rattaches'
  BY <1>1 DEF Rattaches
<1>4. ASSUME NEW b \in Equipe, b # a PROVE Classee(b)'
  BY <1>1, <1>2, <1>4 DEF Classee
<1>5. Classee(a)'
  <2>1. CASE r.sur \notin V!Presentes
    BY <1>1, <1>2, <2>1 DEF Classee
  <2>2. CASE r.etape \in Avant /\ x2[a].etape = "attente" /\ r.sur \in V!Presentes
    <3>1. ~Parle(x1[r.sur].messages, a)
      BY <1>2, <2>2 DEF Rattaches, Ecoutes
    <3> QED BY <1>1, <2>2, <3>1 DEF Classee, Classe, Avant
  <2>3. CASE r.etape \in Avant /\ x2[a].etape \in Avant /\ r.sur = x2[a].sur
    BY <1>1, <1>2, <2>3 DEF Classee, Classe, Avant
  <2>4. CASE r.etape = "fin" /\ r.code = 200 /\ x2[a].etape = "reponse" /\ r.sur = x2[a].sur
    <3>1. \A s : Classe(s, a, "reponse") => Classe(s, a, "fin")
      BY DEF Classe, Avant
    <3>2. r.sur \in V!Presentes => Classe(x1[r.sur].messages, a, "reponse")
      BY <2>4 DEF Classee
    <3> QED BY <1>1, <1>2, <2>4, <3>1, <3>2 DEF Classee
  <2>5. CASE r.etape = "muette" /\ x2[a].etape = "question" /\ r.sur = x2[a].sur
    <3>1. \A s : Classe(s, a, "question") => Classe(s, a, "muette")
      BY DEF Classe, Avant
    <3>2. r.sur \in V!Presentes => Classe(x1[r.sur].messages, a, "question")
      BY <2>5 DEF Classee
    <3> QED BY <1>1, <1>2, <2>5, <3>1, <3>2 DEF Classee
  <2> QED BY <2>1, <2>2, <2>3, <2>4, <2>5
<1> QED BY <1>3, <1>4, <1>5

\* A conversation that opens disturbs no other.
LEMMA Ouvertes ==
  ASSUME ConversationTypes, Rattaches, \A a \in Equipe : Classee(a), NEW a \in Equipe, NEW i \in V!Intentions,
         x2[a].etape = "attente", x1' = Append(x1, V!Ouverte), x2' = V!Recu(a, Len(x1) + 1, i)
  PROVE  /\ Rattaches' /\ \A b \in Equipe : Classee(b)'
         /\ V!Presentes \subseteq V!Presentes'
<1> DEFINE k == Len(x1) + 1
           r == [x2[a] EXCEPT !.etape = "recu", !.sur = k, !.intention = i]
<1>1. x2' = [x2 EXCEPT ![a] = r]
  BY DEF V!Recu
<1>2. r.etape = "recu" /\ r.sur = k
  <2>1. x2[a] \in Envois
    BY DEF ConversationTypes
  <2> QED BY <2>1 DEF Envois, EnvoisJusque
<1> HIDE DEF r
<1>3. x2'[a] = r /\ \A b \in Equipe \ {a} : x2'[b] = x2[b]
  BY <1>1, EnvoiChange
<1>4. x1 \in Seq(Fils) /\ Len(x1) \in Nat /\ DOMAIN x1 = 1..Len(x1)
  BY DEF ConversationTypes
<1>5. ~Parle(V!Ouverte.messages, a) /\ \A b : ~Parle(V!Ouverte.messages, b)
  BY DEF V!Ouverte, Parle
<1>6. /\ Len(x1') = k /\ DOMAIN x1' = 1..k /\ x1'[k] = V!Ouverte /\ \A n \in 1..Len(x1) : x1'[n] = x1[n]
  <2>1. V!Ouverte \in Fils
    BY DEF V!Ouverte, Fils
  <2> QED BY <1>4, <2>1
<1>7. /\ V!Presentes' \subseteq V!Presentes \cup {k} /\ V!Presentes \subseteq 1..Len(x1)
      /\ V!Presentes \subseteq V!Presentes'
  BY <1>4, <1>6 DEF V!Presentes
<1>8. Rattaches'
  <2> SUFFICES ASSUME NEW n \in 1..Len(x1'), NEW b \in Equipe, Parle(x1'[n].messages, b)
               PROVE  x2'[b].sur = n /\ x2'[b].etape \in Ecoutes
    BY DEF Rattaches
  <2>1. n # k
    BY <1>5, <1>6
  <2>2. n \in 1..Len(x1) /\ x1'[n] = x1[n]
    BY <1>4, <1>6, <2>1
  <2>3. x2[b].sur = n /\ x2[b].etape \in Ecoutes
    BY <2>2 DEF Rattaches
  <2> QED BY <1>3, <2>3 DEF Ecoutes
<1>9. ASSUME NEW b \in Equipe, b # a PROVE Classee(b)'
  <2>1. x2[b].sur \in 0..Len(x1) /\ x2'[b] = x2[b]
    BY <1>3, <1>9 DEF ConversationTypes, Envois, EnvoisJusque
  <2>2. x2[b].sur \in V!Presentes' => x2[b].sur \in V!Presentes /\ x1'[x2[b].sur] = x1[x2[b].sur]
    BY <1>4, <1>6, <1>7, <2>1
  <2>3. Classee(b)
    OBVIOUS
  <2> QED BY <2>1, <2>2, <2>3, Zenon DEF Classee
<1>10. Classee(a)'
  <2> HIDE DEF k
  <2> QED BY <1>2, <1>3, <1>5, <1>6 DEF Classee, Classe, Avant
<1> QED BY <1>7, <1>8, <1>9, <1>10

\* A message written in a conversation by one of those who speak in it leaves every message attached.
LEMMA RattachesApres ==
  ASSUME Rattaches, NEW a \in Equipe, NEW n \in 1..Len(x1), NEW t, Len(x1') = Len(x1),
         x1'[n].messages = t, \A m \in 1..Len(x1) \ {n} : x1'[m] = x1[m],
         \A b \in Equipe : Parle(t, b) => Parle(x1[n].messages, b) \/ b = a,
         x2[a].sur = n, x2'[a].sur = n, x2'[a].etape \in Ecoutes, \A b \in Equipe \ {a} : x2'[b] = x2[b]
  PROVE  Rattaches'
<1> SUFFICES ASSUME NEW m \in 1..Len(x1), NEW b \in Equipe, Parle(x1'[m].messages, b)
             PROVE  x2'[b].sur = m /\ x2'[b].etape \in Ecoutes
  BY DEF Rattaches
<1>1. Parle(x1[m].messages, b) \/ (m = n /\ b = a)
  <2>1. CASE m = n
    <3>1. Parle(t, b)
      BY <2>1
    <3> QED BY <2>1, <3>1
  <2>2. CASE m # n
    BY <2>2
  <2> QED BY <2>1, <2>2
<1>2. Parle(x1[m].messages, b) => x2[b].sur = m /\ x2[b].etape \in Ecoutes
  BY DEF Rattaches
<1>3. CASE b = a
  <2>1. m = n
    BY <1>1, <1>2, <1>3
  <2> QED BY <1>3, <2>1
<1>4. CASE b # a
  BY <1>1, <1>2, <1>4
<1> QED BY <1>3, <1>4

\* ... and leaves those of the others where they are.
LEMMA ClasseesApres ==
  ASSUME NEW a \in Equipe, NEW n, NEW t, x1'[n].messages = t, \A m \in V!Presentes \ {n} : x1'[m] = x1[m],
         V!Presentes' = V!Presentes, NEW b \in Equipe \ {a}, Classee(b), x2'[b] = x2[b],
         \A e : Classe(x1[n].messages, b, e) => Classe(t, b, e)
  PROVE  Classee(b)'
<1> SUFFICES ASSUME x2[b].sur \in V!Presentes
             PROVE  /\ Classe(x1'[x2[b].sur].messages, b, x2[b].etape)
                    /\ x2[b].etape = "fin" => x2[b].code = 200
  BY DEF Classee
<1>1. /\ Classe(x1[x2[b].sur].messages, b, x2[b].etape)
      /\ x2[b].etape = "fin" => x2[b].code = 200
  BY DEF Classee
<1>2. CASE x2[b].sur = n
  BY <1>1, <1>2
<1>3. CASE x2[b].sur # n
  BY <1>1, <1>3
<1> QED BY <1>1, <1>2, <1>3

\* A message stored keeps every conversation in order.
LEMMA Deposees ==
  ASSUME ConversationTypes, Rattaches, \A a \in Equipe : Classee(a), NEW a \in Equipe,
         NEW role \in {"user", "assistant"}, NEW suivante,
         \/ x2[a].etape = "repondu" /\ role = "user" /\ suivante = "question"
         \/ x2[a].etape = "question" /\ role = "assistant" /\ suivante = "reponse",
         x2[a].sur \in V!Presentes,
         x1' = [x1 EXCEPT ![x2[a].sur].messages = Append(@, V!Message(a, role))],
         x2' = [x2 EXCEPT ![a].etape = suivante]
  PROVE  Rattaches' /\ (\A b \in Equipe : Classee(b)') /\ V!Presentes' = V!Presentes
<1> DEFINE n == x2[a].sur
           s == x1[n].messages
           t == Append(s, V!Message(a, role))
           f == [x1[n] EXCEPT !.messages = Append(@, V!Message(a, role))]
           r == [x2[a] EXCEPT !.etape = suivante]
<1>1. /\ x1 \in Seq(Fils) /\ DOMAIN x1 = 1..Len(x1) /\ V!Presentes \subseteq 1..Len(x1)
      /\ x1[n] \in Fils /\ s \in Seq(Billets)
  <2>1. x1 \in Seq(Fils) /\ DOMAIN x1 = 1..Len(x1) /\ V!Presentes \subseteq 1..Len(x1)
    BY DEF ConversationTypes, V!Presentes
  <2>2. x1[n] \in Fils
    BY <2>1
  <2> QED BY <2>1, <2>2 DEF Fils
<1>2. f.messages = t /\ f.existe = x1[n].existe /\ x1' = [x1 EXCEPT ![n] = f]
  BY <1>1 DEF Fils
<1>3. x2' = [x2 EXCEPT ![a] = r] /\ r.etape = suivante /\ r.sur = n /\ x2[a] \in Envois
  BY DEF ConversationTypes, Envois, EnvoisJusque
<1>4. /\ \A b \in Equipe : Parle(t, b) => Parle(s, b) \/ b = a
      /\ \A b \in Equipe \ {a} : \A e : Classe(s, b, e) => Classe(t, b, e)
      /\ Classe(s, a, "repondu") /\ role = "user" => Classe(t, a, "question")
      /\ Classe(s, a, "question") /\ role = "assistant" => Classe(t, a, "reponse")
  <2> HIDE DEF s
  <2> QED BY <1>1, Ajoute, Zenon
<1> HIDE DEF r, f, t, s
<1>5. x2'[a] = r /\ \A b \in Equipe \ {a} : x2'[b] = x2[b]
  BY <1>3, EnvoiChange
<1>6. /\ DOMAIN x1' = 1..Len(x1) /\ Len(x1') = Len(x1) /\ x1'[n] = f
      /\ \A m \in 1..Len(x1) \ {n} : x1'[m] = x1[m]
  BY <1>1, <1>2
<1>7. V!Presentes' = V!Presentes
  BY <1>1, <1>2, <1>6 DEF V!Presentes
<1>8. suivante \in Ecoutes
  BY DEF Ecoutes
<1>9. Rattaches'
  <2>1. n \in 1..Len(x1) /\ x1'[n].messages = t /\ x2[a].sur = n /\ x2'[a].sur = n /\ x2'[a].etape \in Ecoutes
    BY <1>1, <1>2, <1>3, <1>5, <1>6, <1>8
  <2>2. \A b \in Equipe : Parle(t, b) => Parle(x1[n].messages, b) \/ b = a
    BY <1>4 DEF s
  <2> HIDE DEF n
  <2> QED BY <1>5, <1>6, <2>1, <2>2, RattachesApres
<1>10. ASSUME NEW b \in Equipe \ {a} PROVE Classee(b)'
  <2>1. x2'[b] = x2[b] /\ Classee(b) /\ x1'[n].messages = t
    BY <1>2, <1>5, <1>6
  <2>2. \A e : Classe(x1[n].messages, b, e) => Classe(t, b, e)
    BY <1>4 DEF s
  <2>3. \A m \in V!Presentes \ {n} : x1'[m] = x1[m]
    BY <1>1, <1>6
  <2> HIDE DEF n
  <2> QED BY <1>7, <2>1, <2>2, <2>3, ClasseesApres
<1>11. Classee(a)'
  <2>1. Classe(s, a, x2[a].etape)
    BY DEF Classee, s
  <2>2. Classe(t, a, suivante)
    BY <1>4, <2>1
  <2>3. suivante # "fin"
    OBVIOUS
  <2> QED BY <1>2, <1>3, <1>5, <1>6, <2>2, <2>3 DEF Classee
<1> QED BY <1>7, <1>9, <1>10, <1>11

\* What a call deposited stays where it is, in a conversation that still exists.
LEMMA Echanges ==
  ASSUME V!ConversationConstantes, ConversationTypes, Rattaches, \A a \in Equipe : Classee(a),
         V!Next \/ UNCHANGED registers
  PROVE  Rattaches' /\ \A a \in Equipe : Classee(a)'
<1>0. ASSUME NEW a \in Equipe
      PROVE  /\ x2[a] \in Envois /\ 0 \notin V!Presentes
             /\ LET e(c) == [x2[a] EXCEPT !.etape = "fin", !.code = c] IN
                \A c : e(c).etape = "fin" /\ e(c).code = c /\ e(c).sur = x2[a].sur
  BY DEF ConversationTypes, Envois, EnvoisJusque, V!Presentes
<1>1. ASSUME NEW a \in Equipe, NEW n \in V!SansConversation..MaxConversations, NEW i \in V!Intentions,
             V!Recevoir(a, n, i)
      PROVE  Rattaches' /\ \A b \in Equipe : Classee(b)'
  <2>1. x2[a].etape = "attente" /\ x2[a].sur = 0
    BY <1>1 DEF V!Recevoir, ConversationTypes
  <2>2. CASE x1' = Append(x1, V!Ouverte) /\ x2' = V!Recu(a, Len(x1) + 1, i)
    BY <2>1, <2>2, Ouvertes
  <2>3. CASE x2' = V!Recu(a, n, i) /\ x1' = x1
    <3> DEFINE r == [x2[a] EXCEPT !.etape = "recu", !.sur = n, !.intention = i]
    <3>1. x2' = [x2 EXCEPT ![a] = r]
      BY <2>3 DEF V!Recu
    <3>2. r.etape = "recu"
      BY <1>0 DEF Envois, EnvoisJusque
    <3> HIDE DEF r
    <3>3. r.etape \in Avant /\ x2[a].etape \notin Ecoutes
      BY <2>1, <3>2 DEF Avant, Ecoutes
    <3> QED BY <2>1, <2>3, <3>1, <3>3, SansDepot
  <2>4. CASE x2' = V!Echouer(a, 404) /\ x1' = x1
    <3> DEFINE r == [x2[a] EXCEPT !.etape = "fin", !.code = 404]
    <3>1. x2' = [x2 EXCEPT ![a] = r]
      BY <2>4 DEF V!Echouer
    <3>2. r.etape \in Ecoutes /\ r.sur = x2[a].sur /\ r.sur \notin V!Presentes
      BY <1>0, <2>1 DEF Ecoutes
    <3> HIDE DEF r
    <3> QED BY <2>4, <3>1, <3>2, SansDepot
  <2> QED BY <1>1, <2>2, <2>3, <2>4 DEF V!Recevoir
<1>2. ASSUME NEW a \in Equipe, NEW h \in BOOLEAN, V!Agir(a, h) PROVE Rattaches' /\ \A b \in Equipe : Classee(b)'
  <2>1. x2[a].etape = "recu" /\ x1' = x1
    BY <1>2 DEF V!Agir
  <2>2. ASSUME NEW act \in {"done", "error", "denied", "approval_required"},
               x2' = [x2 EXCEPT ![a] = [@ EXCEPT !.etape = "repondu", !.action = act, !.moteur = "tool"]]
        PROVE  Rattaches' /\ \A b \in Equipe : Classee(b)'
    <3> DEFINE r == [x2[a] EXCEPT !.etape = "repondu", !.action = act, !.moteur = "tool"]
    <3>1. x2' = [x2 EXCEPT ![a] = r]
      BY <2>2
    <3>2. r.etape = "repondu" /\ r.sur = x2[a].sur
      BY <1>0 DEF Envois, EnvoisJusque
    <3> HIDE DEF r
    <3>3. r.etape \in Avant /\ x2[a].etape \in Avant /\ x2[a].etape \notin Ecoutes
      BY <2>1, <3>2 DEF Avant, Ecoutes
    <3> QED BY <2>1, <3>1, <3>2, <3>3, SansDepot
  <2>3. CASE x2' = V!Echouer(a, 500) /\ x2[a].sur \notin V!Presentes
    <3> DEFINE r == [x2[a] EXCEPT !.etape = "fin", !.code = 500]
    <3>1. x2' = [x2 EXCEPT ![a] = r]
      BY <2>3 DEF V!Echouer
    <3>2. r.etape \in Ecoutes /\ r.sur = x2[a].sur /\ r.sur \notin V!Presentes
      BY <1>0, <2>3 DEF Ecoutes
    <3> HIDE DEF r
    <3> QED BY <2>1, <3>1, <3>2, SansDepot
  <2> QED BY <1>2, <2>2, <2>3 DEF V!Agir
<1>3. ASSUME NEW a \in Equipe, V!Repondre(a) PROVE Rattaches' /\ \A b \in Equipe : Classee(b)'
  <2> DEFINE r == IF Sort = "casse" THEN [x2[a] EXCEPT !.etape = "brisee", !.code = 500]
                  ELSE [x2[a] EXCEPT !.etape = "repondu", !.essais = V!Tentatives, !.moteur = V!Last(V!Tentatives)]
  <2>1. x2[a].etape = "recu" /\ x1' = x1 /\ x2' = [x2 EXCEPT ![a] = r]
    BY <1>3 DEF V!Repondre, V!Tomber, Sort
  <2>2. r.etape \in {"repondu", "brisee"} /\ r.sur = x2[a].sur
    BY <1>0 DEF Envois, EnvoisJusque
  <2> HIDE DEF r
  <2>3. r.etape \in Avant /\ x2[a].etape \in Avant /\ x2[a].etape \notin Ecoutes
    BY <2>1, <2>2 DEF Avant, Ecoutes
  <2> QED BY <2>1, <2>2, <2>3, SansDepot
<1>4. ASSUME NEW a \in Equipe, NEW etape, NEW role \in {"user", "assistant"}, NEW suivante,
             \/ etape = "repondu" /\ role = "user" /\ suivante = "question"
             \/ etape = "question" /\ role = "assistant" /\ suivante = "reponse",
             V!Stocker(a, etape, role, suivante)
      PROVE  Rattaches' /\ \A b \in Equipe : Classee(b)'
  <2>1. x2[a].etape = etape
    BY <1>4 DEF V!Stocker
  <2>2. CASE /\ x2[a].sur \in V!Presentes
             /\ x1' = [x1 EXCEPT ![x2[a].sur].messages = Append(@, V!Message(a, role))]
             /\ x2' = [x2 EXCEPT ![a].etape = suivante]
    BY <1>4, <2>1, <2>2, Deposees
  <2>3. CASE x2[a].sur \notin V!Presentes /\ x2' = V!Echouer(a, 500) /\ x1' = x1
    <3> DEFINE r == [x2[a] EXCEPT !.etape = "fin", !.code = 500]
    <3>1. x2' = [x2 EXCEPT ![a] = r]
      BY <2>3 DEF V!Echouer
    <3>2. r.etape \in Ecoutes /\ r.sur = x2[a].sur /\ r.sur \notin V!Presentes
      BY <1>0, <2>3 DEF Ecoutes
    <3> HIDE DEF r
    <3> QED BY <2>3, <3>1, <3>2, SansDepot
  <2>4. CASE x2' = V!Tomber(a, "muette") /\ x1' = x1 /\ role = "assistant"
    <3> DEFINE r == [x2[a] EXCEPT !.etape = "muette", !.code = 500]
    <3>1. x2' = [x2 EXCEPT ![a] = r] /\ x2[a].etape = "question"
      BY <1>4, <2>1, <2>4 DEF V!Tomber
    <3>2. r.etape = "muette" /\ r.etape \in Ecoutes /\ r.sur = x2[a].sur
      BY <1>0 DEF Ecoutes, Envois, EnvoisJusque
    <3> HIDE DEF r
    <3> QED BY <2>4, <3>1, <3>2, SansDepot
  <2> QED BY <1>4, <2>2, <2>3, <2>4 DEF V!Stocker, V!SansTexte
<1>5. ASSUME NEW a \in Equipe, V!Rendre(a) PROVE Rattaches' /\ \A b \in Equipe : Classee(b)'
  <2> DEFINE code == IF x2[a].sur \in V!Presentes THEN 200 ELSE 500
             r == [x2[a] EXCEPT !.etape = "fin", !.code = code]
  <2>1. x2[a].etape = "reponse" /\ x1' = x1 /\ x2' = [x2 EXCEPT ![a] = r]
    BY <1>5 DEF V!Rendre, V!Echouer
  <2>2. r.etape = "fin" /\ r.code = code /\ r.sur = x2[a].sur
    BY <1>0
  <2>3. r.etape \in Ecoutes /\ (r.sur \notin V!Presentes \/ r.code = 200)
    BY <2>2 DEF Ecoutes
  <2> HIDE DEF r, code
  <2> QED BY <2>1, <2>2, <2>3, SansDepot
<1>6. ASSUME NEW n \in 1..MaxConversations, V!Supprimer(n) PROVE Rattaches' /\ \A b \in Equipe : Classee(b)'
  <2>1. /\ x1 \in Seq(Fils) /\ DOMAIN x1 = 1..Len(x1) /\ n \in V!Presentes /\ V!Presentes \subseteq 1..Len(x1)
        /\ x1' = [x1 EXCEPT ![n] = V!Effacee] /\ x2' = x2
    BY <1>6 DEF ConversationTypes, V!Supprimer, V!Presentes
  <2>2. ~V!Effacee.existe /\ \A b : ~Parle(V!Effacee.messages, b)
    BY DEF V!Effacee, Parle
  <2> HIDE DEF V!Effacee
  <2>3. /\ Len(x1') = Len(x1) /\ DOMAIN x1' = 1..Len(x1) /\ x1'[n] = V!Effacee
        /\ \A m \in 1..Len(x1) \ {n} : x1'[m] = x1[m]
    BY <2>1
  <2>4. V!Presentes' = V!Presentes \ {n}
    BY <2>1, <2>2, <2>3 DEF V!Presentes
  <2>5. ASSUME NEW m \in 1..Len(x1'), NEW b \in Equipe, Parle(x1'[m].messages, b)
        PROVE  x2'[b].sur = m /\ x2'[b].etape \in Ecoutes
    <3>1. m \in 1..Len(x1) /\ m # n
      BY <2>2, <2>3, <2>5
    <3>2. x1'[m] = x1[m]
      BY <2>3, <3>1
    <3> QED BY <2>1, <2>5, <3>1, <3>2 DEF Rattaches
  <2>6. ASSUME NEW b \in Equipe PROVE Classee(b)'
    <3>1. x2[b].sur \in V!Presentes' => x2[b].sur \in V!Presentes /\ x1'[x2[b].sur] = x1[x2[b].sur]
      BY <2>1, <2>3, <2>4
    <3> QED BY <2>1, <3>1, Zenon DEF Classee
  <2>7. Rattaches'
    BY <2>5 DEF Rattaches
  <2> QED BY <2>6, <2>7
<1>7. CASE UNCHANGED registers
  <2>1. UNCHANGED <<x1, x2>>
    BY <1>7 DEF registers
  <2>2. Rattaches'
    BY <2>1 DEF Rattaches
  <2>3. V!Presentes' = V!Presentes
    BY <2>1 DEF V!Presentes
  <2>4. ASSUME NEW b \in Equipe PROVE Classee(b)'
    <3>1. Classee(b)
      OBVIOUS
    <3> QED BY <2>1, <2>3, <3>1 DEF Classee
  <2> QED BY <2>2, <2>4
<1> QED
  BY <1>1, <1>2, <1>3, <1>4, <1>5, <1>6, <1>7 DEF V!Next, V!StockerQuestion, V!StockerReponse

\* A call that moves on without acting.
LEMMA SansActe ==
  ASSUME ConversationTypes, \A a \in Equipe : Dite(a), NEW a \in Equipe, NEW r,
         UNCHANGED <<x3, x4>>, x2' = [x2 EXCEPT ![a] = r], r.action = x2[a].action,
         r.etape \in {"attente", "recu"} => x2[a].etape \in {"attente", "recu"},
         r.intention = x2[a].intention \/ x2[a].etape = "attente"
  PROVE  \A b \in Equipe : Dite(b)'
<1>1. x2'[a] = r /\ \A b \in Equipe \ {a} : x2'[b] = x2[b]
  BY EnvoiChange
<1>2. ASSUME NEW b \in Equipe, b # a PROVE Dite(b)'
  <2>1. Dite(b)
    OBVIOUS
  <2> QED BY <1>1, <1>2, <2>1 DEF Dite
<1>3. Dite(a)'
  <2>1. Dite(a)
    OBVIOUS
  <2>2. a \in x4 => r.intention = x2[a].intention
    BY <2>1 DEF Dite
  <2> QED BY <1>1, <2>1, <2>2 DEF Dite
<1> QED BY <1>2, <1>3

\* What a call did is what it says, whatever the others do; and a request names a conversation that exists.
LEMMA Dites ==
  ASSUME V!ConversationConstantes, ConversationTypes, V!Next \/ UNCHANGED registers,
         \A a \in Equipe : Dite(a), \A d \in x3 : d.sur = 0 \/ d.sur \in V!Presentes,
         Rattaches, \A a \in Equipe : Classee(a)
  PROVE  (\A a \in Equipe : Dite(a)') /\ \A d \in x3' : d.sur = 0 \/ d.sur \in V!Presentes'
<1>0. ASSUME NEW a \in Equipe
      PROVE  /\ x2[a] \in Envois
             /\ LET e(c) == [x2[a] EXCEPT !.etape = "fin", !.code = c] IN
                \A c : e(c).etape = "fin" /\ e(c).action = x2[a].action /\ e(c).intention = x2[a].intention
  BY DEF ConversationTypes, Envois, EnvoisJusque
<1>a. ASSUME NEW a \in Equipe, NEW c, x2' = V!Echouer(a, c), UNCHANGED <<x1, x3, x4>>
      PROVE  (\A b \in Equipe : Dite(b)') /\ \A d \in x3' : d.sur = 0 \/ d.sur \in V!Presentes'
  <2> DEFINE r == [x2[a] EXCEPT !.etape = "fin", !.code = c]
  <2>1. x2' = [x2 EXCEPT ![a] = r]
    BY <1>a DEF V!Echouer
  <2>2. r.etape \notin {"attente", "recu"} /\ r.action = x2[a].action /\ r.intention = x2[a].intention
    BY <1>0
  <2>3. V!Presentes' = V!Presentes
    BY <1>a DEF V!Presentes
  <2> HIDE DEF r
  <2>4. \A b \in Equipe : Dite(b)'
    BY <1>a, <2>1, <2>2, SansActe
  <2> QED BY <1>a, <2>3, <2>4
<1>b. ASSUME NEW a \in Equipe, NEW e \in {"brisee", "muette"}, x2' = V!Tomber(a, e), UNCHANGED <<x1, x3, x4>>
      PROVE  (\A b \in Equipe : Dite(b)') /\ \A d \in x3' : d.sur = 0 \/ d.sur \in V!Presentes'
  <2> DEFINE r == [x2[a] EXCEPT !.etape = e, !.code = 500]
  <2>1. x2' = [x2 EXCEPT ![a] = r]
    BY <1>b DEF V!Tomber
  <2>2. r.etape = e /\ r.action = x2[a].action /\ r.intention = x2[a].intention
    BY <1>0 DEF Envois, EnvoisJusque
  <2>3. V!Presentes' = V!Presentes
    BY <1>b DEF V!Presentes
  <2> HIDE DEF r
  <2>4. \A b \in Equipe : Dite(b)'
    BY <1>b, <2>1, <2>2, SansActe
  <2> QED BY <1>b, <2>3, <2>4
<1>1. ASSUME NEW a \in Equipe, NEW n \in V!SansConversation..MaxConversations, NEW i \in V!Intentions,
             V!Recevoir(a, n, i)
      PROVE  (\A b \in Equipe : Dite(b)') /\ \A d \in x3' : d.sur = 0 \/ d.sur \in V!Presentes'
  <2>1. x2[a].etape = "attente" /\ UNCHANGED <<x3, x4>>
    BY <1>1 DEF V!Recevoir
  <2>2. ASSUME NEW m, x2' = V!Recu(a, m, i) PROVE \A b \in Equipe : Dite(b)'
    <3> DEFINE r == [x2[a] EXCEPT !.etape = "recu", !.sur = m, !.intention = i]
    <3>1. x2' = [x2 EXCEPT ![a] = r]
      BY <2>2 DEF V!Recu
    <3>2. r.action = x2[a].action
      BY <1>0 DEF Envois, EnvoisJusque
    <3> HIDE DEF r
    <3> QED BY <2>1, <3>1, <3>2, SansActe
  <2>3. CASE x1' = Append(x1, V!Ouverte) /\ x2' = V!Recu(a, Len(x1) + 1, i)
    <3>1. V!Presentes \subseteq V!Presentes'
      BY <2>1, <2>3, Ouvertes
    <3> QED BY <2>1, <2>2, <2>3, <3>1
  <2>4. CASE x2' = V!Recu(a, n, i) /\ x1' = x1
    <3>1. V!Presentes' = V!Presentes
      BY <2>4 DEF V!Presentes
    <3> QED BY <2>1, <2>2, <2>4, <3>1
  <2>5. CASE x2' = V!Echouer(a, 404) /\ x1' = x1
    BY <1>a, <2>1, <2>5
  <2> QED BY <1>1, <2>3, <2>4, <2>5 DEF V!Recevoir
<1>2. ASSUME NEW a \in Equipe, NEW h \in BOOLEAN, V!Agir(a, h)
      PROVE  (\A b \in Equipe : Dite(b)') /\ \A d \in x3' : d.sur = 0 \/ d.sur \in V!Presentes'
  <2> DEFINE r(act) == [x2[a] EXCEPT !.etape = "repondu", !.action = act, !.moteur = "tool"]
  <2>1. x2[a].etape = "recu" /\ x2[a].action = "aucune" /\ a \notin x4 /\ {e \in x3 : e.de = a} = {} /\ x1' = x1
    <3>1. Dite(a)
      OBVIOUS
    <3> QED BY <1>2, <3>1 DEF V!Agir, Dite
  <2>2. V!Presentes' = V!Presentes
    BY <2>1 DEF V!Presentes
  <2>3. \A act : r(act).etape = "repondu" /\ r(act).action = act /\ r(act).intention = x2[a].intention
    BY <1>0 DEF Envois, EnvoisJusque
  <2>4. ASSUME NEW act, x2' = [x2 EXCEPT ![a] = [@ EXCEPT !.etape = "repondu", !.action = act, !.moteur = "tool"]]
        PROVE  x2'[a] = r(act) /\ \A b \in Equipe \ {a} : x2'[b] = x2[b]
    BY <2>4 DEF ConversationTypes
  <2> HIDE DEF r
  <2>5. CASE /\ x2[a].intention = "lecture" /\ x4' = x4 \cup {a} /\ x3' = x3
             /\ x2' = [x2 EXCEPT ![a] = [@ EXCEPT !.etape = "repondu", !.action = "done", !.moteur = "tool"]]
    <3>1. x2'[a] = r("done") /\ \A b \in Equipe \ {a} : x2'[b] = x2[b]
      BY <2>4, <2>5
    <3>2. ASSUME NEW b \in Equipe, b # a PROVE Dite(b)'
      <4>1. Dite(b)
        OBVIOUS
      <4> QED BY <2>5, <3>1, <3>2, <4>1 DEF Dite
    <3>3. Dite(a)'
      BY <2>1, <2>3, <2>5, <3>1 DEF Dite
    <3> QED BY <2>2, <2>5, <3>2, <3>3
  <2>6. ASSUME NEW act \in {"denied", "error"}, x4' = x4 /\ x3' = x3,
               x2' = [x2 EXCEPT ![a] = [@ EXCEPT !.etape = "repondu", !.action = act, !.moteur = "tool"]]
        PROVE  (\A b \in Equipe : Dite(b)') /\ \A d \in x3' : d.sur = 0 \/ d.sur \in V!Presentes'
    <3>1. x2'[a] = r(act) /\ \A b \in Equipe \ {a} : x2'[b] = x2[b]
      BY <2>4, <2>6
    <3>2. ASSUME NEW b \in Equipe, b # a PROVE Dite(b)'
      <4>1. Dite(b)
        OBVIOUS
      <4> QED BY <2>6, <3>1, <3>2, <4>1 DEF Dite
    <3>3. Dite(a)'
      BY <2>1, <2>3, <2>6, <3>1 DEF Dite
    <3> QED BY <2>2, <2>6, <3>2, <3>3
  <2>7. CASE /\ x4' = x4 /\ x2[a].sur \in V!Presentes /\ x3' = x3 \cup {[de |-> a, sur |-> x2[a].sur]}
             /\ x2' = [x2 EXCEPT ![a] =
                         [@ EXCEPT !.etape = "repondu", !.action = "approval_required", !.moteur = "tool"]]
    <3> DEFINE d == [de |-> a, sur |-> x2[a].sur]
    <3>0. d.de = a /\ d.sur = x2[a].sur /\ x3' = x3 \cup {d}
      BY <2>7
    <3>1. x2'[a] = r("approval_required") /\ \A b \in Equipe \ {a} : x2'[b] = x2[b]
      BY <2>4, <2>7
    <3> HIDE DEF d
    <3>2. ASSUME NEW b \in Equipe, b # a PROVE Dite(b)'
      <4>1. Dite(b)
        OBVIOUS
      <4>2. {e \in x3' : e.de = b} = {e \in x3 : e.de = b}
        BY <3>0, <3>2
      <4>3. x2'[b].action = "approval_required" => \E e1 \in x3' : {e \in x3' : e.de = b} = {e1}
        BY <3>0, <3>1, <3>2, <4>1, <4>2 DEF Dite
      <4>4. x2'[b].action # "approval_required" => {e \in x3' : e.de = b} = {}
        BY <3>1, <3>2, <4>1, <4>2 DEF Dite
      <4> QED BY <2>7, <3>1, <3>2, <4>1, <4>3, <4>4 DEF Dite
    <3>3. {e \in x3' : e.de = a} = {d} /\ d \in x3'
      BY <2>1, <3>0
    <3>4. Dite(a)'
      BY <2>1, <2>3, <2>7, <3>1, <3>3 DEF Dite
    <3>5. \A e \in x3' : e.sur = 0 \/ e.sur \in V!Presentes'
      BY <2>2, <2>7, <3>0
    <3> QED BY <3>2, <3>4, <3>5
  <2>8. CASE x2' = V!Echouer(a, 500) /\ UNCHANGED <<x3, x4>>
    BY <1>a, <2>1, <2>8
  <2> QED BY <1>2, <2>5, <2>6, <2>7, <2>8 DEF V!Agir
<1>3. ASSUME NEW a \in Equipe, V!Repondre(a)
      PROVE  (\A b \in Equipe : Dite(b)') /\ \A d \in x3' : d.sur = 0 \/ d.sur \in V!Presentes'
  <2>5. CASE x2' = V!Tomber(a, "brisee") /\ UNCHANGED <<x1, x3, x4>>
    BY <1>b, <2>5
  <2> DEFINE r == [x2[a] EXCEPT !.etape = "repondu", !.essais = V!Tentatives, !.moteur = V!Last(V!Tentatives)]
  <2> SUFFICES ASSUME UNCHANGED <<x1, x3, x4>>, x2' = [x2 EXCEPT ![a] = r]
               PROVE  (\A b \in Equipe : Dite(b)') /\ \A d \in x3' : d.sur = 0 \/ d.sur \in V!Presentes'
    BY <1>3, <2>5 DEF V!Repondre
  <2>1. UNCHANGED <<x1, x3, x4>> /\ x2' = [x2 EXCEPT ![a] = r]
    OBVIOUS
  <2>2. r.etape = "repondu" /\ r.action = x2[a].action /\ r.intention = x2[a].intention
    BY <1>0 DEF Envois, EnvoisJusque
  <2>3. V!Presentes' = V!Presentes
    BY <2>1 DEF V!Presentes
  <2> HIDE DEF r
  <2>4. \A b \in Equipe : Dite(b)'
    BY <2>1, <2>2, SansActe
  <2> QED BY <2>1, <2>3, <2>4
<1>4. ASSUME NEW a \in Equipe, NEW etape, NEW role \in {"user", "assistant"}, NEW suivante,
             \/ etape = "repondu" /\ role = "user" /\ suivante = "question"
             \/ etape = "question" /\ role = "assistant" /\ suivante = "reponse",
             V!Stocker(a, etape, role, suivante)
      PROVE  (\A b \in Equipe : Dite(b)') /\ \A d \in x3' : d.sur = 0 \/ d.sur \in V!Presentes'
  <2>1. x2[a].etape = etape /\ UNCHANGED <<x3, x4>>
    BY <1>4 DEF V!Stocker
  <2>2. CASE /\ x2[a].sur \in V!Presentes
             /\ x1' = [x1 EXCEPT ![x2[a].sur].messages = Append(@, V!Message(a, role))]
             /\ x2' = [x2 EXCEPT ![a].etape = suivante]
    <3>1. V!Presentes' = V!Presentes
      BY <1>4, <2>1, <2>2, Deposees
    <3> DEFINE r == [x2[a] EXCEPT !.etape = suivante]
    <3>2. x2' = [x2 EXCEPT ![a] = r] /\ r.etape = suivante /\ r.action = x2[a].action /\ r.intention = x2[a].intention
      BY <1>0, <2>2 DEF Envois, EnvoisJusque
    <3> HIDE DEF r
    <3>3. \A b \in Equipe : Dite(b)'
      BY <1>4, <2>1, <3>2, SansActe
    <3> QED BY <2>1, <3>1, <3>3
  <2>3. CASE x2' = V!Echouer(a, 500) /\ x1' = x1
    BY <1>a, <2>1, <2>3
  <2>4. CASE x2' = V!Tomber(a, "muette") /\ x1' = x1
    BY <1>b, <2>1, <2>4
  <2> QED BY <1>4, <2>2, <2>3, <2>4 DEF V!Stocker
<1>5. ASSUME NEW a \in Equipe, V!Rendre(a)
      PROVE  (\A b \in Equipe : Dite(b)') /\ \A d \in x3' : d.sur = 0 \/ d.sur \in V!Presentes'
  <2>1. UNCHANGED <<x1, x3, x4>> /\ \E c : x2' = V!Echouer(a, c)
    BY <1>5 DEF V!Rendre
  <2> QED BY <1>a, <2>1
<1>6. ASSUME NEW n \in 1..MaxConversations, V!Supprimer(n)
      PROVE  (\A b \in Equipe : Dite(b)') /\ \A d \in x3' : d.sur = 0 \/ d.sur \in V!Presentes'
  <2> DEFINE f(d) == IF d.sur = n THEN [d EXCEPT !.sur = 0] ELSE d
  <2>1. x3' = {f(d) : d \in x3} /\ UNCHANGED <<x2, x4>>
    BY <1>6 DEF V!Supprimer, V!SansConversation
  <2>2. \A d \in x3 : f(d).de = d.de /\ f(d).sur # n /\ (f(d).sur = 0 \/ f(d).sur = d.sur)
    BY DEF ConversationTypes
  <2>3. V!Presentes' = V!Presentes \ {n}
    <3>1. /\ x1 \in Seq(Fils) /\ DOMAIN x1 = 1..Len(x1) /\ n \in V!Presentes /\ V!Presentes \subseteq 1..Len(x1)
          /\ x1' = [x1 EXCEPT ![n] = V!Effacee]
      BY <1>6 DEF ConversationTypes, V!Supprimer, V!Presentes
    <3>2. ~V!Effacee.existe
      BY DEF V!Effacee
    <3> HIDE DEF V!Effacee
    <3> QED BY <3>1, <3>2 DEF V!Presentes
  <2> HIDE DEF f
  <2>4. \A d \in x3' : d.sur = 0 \/ d.sur \in V!Presentes'
    BY <2>1, <2>2, <2>3
  <2>5. ASSUME NEW b \in Equipe PROVE Dite(b)'
    <3>1. Dite(b)
      OBVIOUS
    <3>2. {e \in x3' : e.de = b} = {f(e) : e \in {d \in x3 : d.de = b}}
      BY <2>1, <2>2
    <3>3. ASSUME x2[b].action = "approval_required" PROVE \E d \in x3' : {e \in x3' : e.de = b} = {d}
      <4>1. PICK d \in x3 : {e \in x3 : e.de = b} = {d}
        BY <3>1, <3>3 DEF Dite
      <4>2. {e \in x3' : e.de = b} = {f(d)} /\ f(d) \in x3'
        BY <2>1, <3>2, <4>1
      <4> QED BY <4>2
    <3>4. x2[b].action # "approval_required" => {e \in x3' : e.de = b} = {}
      BY <3>1, <3>2 DEF Dite
    <3> QED BY <2>1, <3>1, <3>3, <3>4 DEF Dite
  <2> QED BY <2>4, <2>5
<1>7. CASE UNCHANGED registers
  <2>1. UNCHANGED <<x1, x2, x3, x4>> /\ V!Presentes' = V!Presentes
    BY <1>7 DEF registers, V!Presentes
  <2>2. ASSUME NEW b \in Equipe PROVE Dite(b)'
    <3>1. Dite(b)
      OBVIOUS
    <3> QED BY <2>1, <3>1 DEF Dite
  <2> QED BY <2>1, <2>2
<1> QED
  BY <1>1, <1>2, <1>3, <1>4, <1>5, <1>6, <1>7 DEF V!Next, V!StockerQuestion, V!StockerReponse

\* The conversations start in their inductive invariant.
LEMMA ConversationInit == ASSUME V!ConversationConstantes, V!Init PROVE ConversationIInv
<1>0. x1 = <<>> /\ x2 = [a \in Equipe |-> V!Attente] /\ x3 = {} /\ x4 = {}
      /\ x5 \in [{"deepseek", "claude"} -> V!Conduites]
  <2>1. V!ToSet(<<"deepseek", "claude">>) = {"deepseek", "claude"}
    BY DEF V!ToSet
  <2> QED BY <2>1 DEF V!Init
<1>1. x1 \in Seq(Fils) /\ Len(x1) = 0 /\ DOMAIN x1 = {}
  BY <1>0
<1>2. V!Presentes = {}
  BY <1>1 DEF V!Presentes
<1>3. \A a \in Equipe : x2[a] = V!Attente
  BY <1>0
<1>4. V!Attente \in EnvoisJusque(0)
  <2> DEFINE q(e, n, i, act, v, s, c) == [etape |-> e, sur |-> n, intention |-> i, action |-> act, moteur |-> v,
                                          essais |-> s, code |-> c]
  <2>1. /\ "attente" \in EtapesEnvoi /\ 0 \in 0..0 /\ "aucune" \in V!Intentions \cup {"aucune"} /\ "aucune" \in Actes
        /\ "aucun" \in Voix /\ <<>> \in Suites /\ 0 \in Codes
    BY DEF EtapesEnvoi, Actes, Codes, Voix, Suites
  <2>2. ASSUME NEW e \in EtapesEnvoi, NEW n \in 0..0, NEW i \in V!Intentions \cup {"aucune"}, NEW act \in Actes,
               NEW v \in Voix, NEW s \in Suites, NEW c \in Codes
        PROVE  q(e, n, i, act, v, s, c) \in EnvoisJusque(0)
    BY DEF EnvoisJusque
  <2>3. V!Attente = q("attente", 0, "aucune", "aucune", "aucun", <<>>, 0)
    BY Zenon DEF V!Attente, V!SansConversation
  <2> HIDE DEF q
  <2> QED BY <2>1, <2>2, <2>3, Zenon
<1>5. V!Attente.etape = "attente" /\ V!Attente.sur = 0 /\ V!Attente.action = "aucune"
  BY DEF V!Attente, V!SansConversation
<1>6. x2 \in [Equipe -> Envois]
  BY <1>0, <1>1, <1>4 DEF Envois
<1>7. ConversationTypes
  BY <1>0, <1>1, <1>3, <1>5, <1>6 DEF ConversationTypes, V!ConversationConstantes
<1>8. Rattaches
  BY <1>1 DEF Rattaches
<1>9. \A a \in Equipe : Classee(a)
  BY <1>2 DEF Classee
<1>10. \A a \in Equipe : Dite(a)
  BY <1>0, <1>3, <1>5 DEF Dite
<1> QED BY <1>0, <1>7, <1>8, <1>9, <1>10 DEF ConversationIInv

ConversationInv == part = "conversation" => ConversationIInv

\* The inductive invariant of the conversations always holds.
LEMMA ConversationTenue == PlateformeSpec => []ConversationInv
<1>1. V!ConversationConstantes
  BY Constantes
<1>2. PlateformeInit => ConversationInv
  BY <1>1, Depart, ConversationInit DEF ConversationInv
<1>3. ConversationInv /\ [PlateformeNext]_plateforme => ConversationInv'
  <2> SUFFICES ASSUME part = "conversation", ConversationIInv, [PlateformeNext]_plateforme PROVE ConversationIInv'
    BY PartFixe DEF ConversationInv
  <2>1. V!Next \/ UNCHANGED registers
    BY Pas DEF Suit
  <2>2. ConversationTypes'
    BY <1>1, <2>1, ConversationTypesPas DEF ConversationIInv
  <2>3. Rattaches' /\ \A a \in Equipe : Classee(a)'
    BY <1>1, <2>1, Echanges DEF ConversationIInv
  <2>4. (\A a \in Equipe : Dite(a)') /\ \A d \in x3' : d.sur = 0 \/ d.sur \in V!Presentes'
    BY <1>1, <2>1, Dites DEF ConversationIInv
  <2> QED BY <2>2, <2>3, <2>4 DEF ConversationIInv
<1> QED BY <1>2, <1>3, PTL DEF PlateformeSpec

\* How many are none, or one.
LEMMA UnOuAucun ==
  ASSUME NEW s
  PROVE  /\ s = {} => V!Cardinality(s) = 0
         /\ (\E e : s = {e}) => V!Cardinality(s) = 1
BY MemeCardinalV, FS_EmptySet, FS_Singleton

\* The messages of a call in its conversation, counted.
LEMMA EnPaires == ASSUME ConversationIInv PROVE V!Paires
<1> SUFFICES ASSUME NEW a \in Equipe, x2[a].sur \in V!Presentes
             PROVE  LET n == x2[a].sur
                        questions == V!Places(n, a, "user")
                        reponses == V!Places(n, a, "assistant")
                    IN /\ V!Cardinality(questions) = IF x2[a].etape \in {"question", "reponse", "fin", "muette"} THEN 1 ELSE 0
                       /\ V!Cardinality(reponses) = IF x2[a].etape \in {"reponse", "fin"} THEN 1 ELSE 0
                       /\ \A i \in questions, j \in reponses : i < j
                       /\ x2[a].etape = "fin" => x2[a].code = 200
  BY DEF V!Paires
<1> DEFINE n == x2[a].sur
           s == x1[n].messages
           questions == V!Places(n, a, "user")
           reponses == V!Places(n, a, "assistant")
<1>1. x2[a].etape = "fin" => x2[a].code = 200
  BY DEF ConversationIInv, Classee
<1>2. Classe(s, a, x2[a].etape)
  BY DEF ConversationIInv, Classee
<1>3. DOMAIN s = 1..Len(s) /\ \A i \in 1..Len(s) : s[i] \in Billets
  <2>1. x1 \in Seq(Fils) /\ n \in DOMAIN x1
    BY DEF ConversationIInv, ConversationTypes, V!Presentes
  <2>2. x1[n] \in Fils
    BY <2>1
  <2> HIDE DEF n
  <2>3. s \in Seq(Billets)
    BY <2>2 DEF Fils
  <2> HIDE DEF s
  <2> QED BY <2>3
<1>4. /\ questions = {i \in 1..Len(s) : s[i] = V!Message(a, "user")}
      /\ reponses = {i \in 1..Len(s) : s[i] = V!Message(a, "assistant")}
  BY <1>3 DEF V!Places
<1>5. V!Message(a, "user") # V!Message(a, "assistant") /\ \A r : V!Message(a, r).de = a
  BY DEF V!Message
<1>6. x2[a].etape \in EtapesEnvoi
  BY DEF ConversationIInv, ConversationTypes, Envois, EnvoisJusque
<1> HIDE DEF s, questions, reponses, n
<1>7. CASE x2[a].etape \in Avant
  <2>1. questions = {} /\ reponses = {}
    BY <1>2, <1>4, <1>5, <1>7 DEF Classe, Parle
  <2>2. V!Cardinality(questions) = 0 /\ V!Cardinality(reponses) = 0
    BY <2>1, UnOuAucun
  <2> QED BY <1>1, <1>7, <2>1, <2>2 DEF Avant, n, questions, reponses
<1>8. CASE x2[a].etape \in {"question", "muette"}
  <2>1. PICK i \in 1..Len(s) : s[i] = V!Message(a, "user") /\ \A k \in 1..Len(s) : s[k].de = a => k = i
    BY <1>2, <1>8 DEF Classe
  <2>2. questions = {i} /\ reponses = {}
    BY <1>4, <1>5, <2>1
  <2>3. V!Cardinality(questions) = 1 /\ V!Cardinality(reponses) = 0
    BY <2>2, UnOuAucun
  <2> QED BY <1>1, <1>8, <2>2, <2>3 DEF n, questions, reponses
<1>9. CASE x2[a].etape \in {"reponse", "fin"}
  <2>1. PICK i, j \in 1..Len(s) :
          /\ i < j /\ s[i] = V!Message(a, "user") /\ s[j] = V!Message(a, "assistant")
          /\ \A k \in 1..Len(s) : s[k].de = a => k = i \/ k = j
    BY <1>2, <1>9 DEF Classe
  <2>2. questions = {i} /\ reponses = {j}
    BY <1>4, <1>5, <2>1
  <2>3. V!Cardinality(questions) = 1 /\ V!Cardinality(reponses) = 1
    BY <2>2, UnOuAucun
  <2> QED BY <1>1, <1>9, <2>1, <2>2, <2>3 DEF n, questions, reponses
<1> QED BY <1>6, <1>7, <1>8, <1>9 DEF Avant, EtapesEnvoi

\* The inductive invariant gives that what was done is said.
LEMMA EnParoles == ASSUME ConversationIInv PROVE V!ActionsDites
<1>1. \A d \in x3 : d.sur = V!SansConversation \/ d.sur \in V!Presentes
  BY DEF ConversationIInv, V!SansConversation
<1>2. ASSUME NEW a \in Equipe
      PROVE  /\ V!Cardinality({d \in x3 : d.de = a}) = IF x2[a].action = "approval_required" THEN 1 ELSE 0
             /\ a \in x4 <=> x2[a].action = "done"
             /\ a \in x4 => x2[a].intention = "lecture"
  <2>1. Dite(a)
    BY DEF ConversationIInv
  <2> DEFINE siennes == {d \in x3 : d.de = a}
  <2>2. IF x2[a].action = "approval_required" THEN \E d : siennes = {d} ELSE siennes = {}
    BY <2>1 DEF Dite
  <2> HIDE DEF siennes
  <2>3. V!Cardinality(siennes) = IF x2[a].action = "approval_required" THEN 1 ELSE 0
    BY <2>2, UnOuAucun
  <2> QED BY <2>1, <2>3 DEF Dite, siennes
<1> QED BY <1>1, <1>2 DEF V!ActionsDites

\* The providers are tried in order up to the first that does not step aside.
LEMMA EnRepli == ASSUME ConversationIInv PROVE V!RepliAssure
<1>1. /\ V!Choisi \in 1..3
      /\ V!Choisi # 3 => V!Arrete(Ordre[V!Choisi])
      /\ \A i \in 1..2 : i < V!Choisi => x5[Ordre[i]] = "passe"
  BY Choix DEF Ordre, V!Arrete
<1>2. x5 \in [{"deepseek", "claude"} -> V!Conduites]
  BY DEF ConversationIInv, ConversationTypes
<1>3. ASSUME NEW a \in Equipe, x2[a].essais # <<>>
      PROVE  /\ V!Conduite(V!Last(x2[a].essais)) \in {"repond", "muet"}
             /\ \A i \in DOMAIN V!Front(x2[a].essais) : x5[x2[a].essais[i]] = "passe"
  <2> DEFINE s == V!Tentatives
  <2>1. x2[a].essais = s /\ Sort # "casse"
    BY <1>3 DEF ConversationIInv, ConversationTypes, Envois, EnvoisJusque, Suites
  <2>2. V!Conduite(V!Last(s)) \in {"repond", "muet"}
    BY <1>2, <2>1, Arret DEF Sort, V!Conduites
  <2>3. /\ s \in Seq(Noms) /\ Len(s) = V!Choisi
        /\ \A i \in 1..V!Choisi : s[i] = IF i = 3 THEN "offline-grounded" ELSE Ordre[i]
    BY Essayes
  <2> HIDE DEF s
  <2>4. DOMAIN V!Front(s) = 1..(V!Choisi - 1)
    BY <1>1, <2>3 DEF V!Front
  <2>5. ASSUME NEW i \in DOMAIN V!Front(s) PROVE x5[s[i]] = "passe"
    <3>1. i \in 1..2 /\ i < V!Choisi /\ i \in 1..V!Choisi
      BY <1>1, <2>4
    <3>2. s[i] = Ordre[i]
      BY <2>3, <3>1
    <3> QED BY <1>1, <3>1, <3>2
  <2> QED BY <2>1, <2>2, <2>5
<1>4. ASSUME NEW a \in Equipe, x2[a].etape \in {"brisee", "muette"}
      PROVE  \E i \in 1..2 : /\ x5[Ordre[i]] \in {"casse", "muet"}
                             /\ \A j \in 1..(i - 1) : x5[Ordre[j]] = "passe"
  <2>1. Sort \in {"casse", "muet"}
    BY <1>4 DEF ConversationIInv, ConversationTypes, Envois, EnvoisJusque, EtapesEnvoi
  <2>2. V!Choisi # 3 /\ Sort = x5[Ordre[V!Choisi]]
    BY <1>2, <2>1, Arret
  <2>3. V!Choisi \in 1..2 /\ \A j \in 1..(V!Choisi - 1) : x5[Ordre[j]] = "passe"
    BY <1>1, <2>2
  <2> QED BY <2>1, <2>2, <2>3
<1>5. DOMAIN Ordre = 1..2
  BY DEF Ordre
<1> QED BY <1>3, <1>4, <1>5 DEF V!RepliAssure, Ordre

\* The automations of the copilot run reading tools alone, and none runs twice within its interval but in the
\* cases named in Espacees; the chat stores its messages in pairs, says what it did, and leaves a question whose
\* conversation is kept without an answer only when a provider broke or gave a null text: for any number of
\* ticks, tabs, automations and conversations (ai_copilot/tasks.py, services.py, providers.py).
THEOREM CopilotKeepsItsWord == PlateformeSpec => []CopiloteTenu
<1>1. AutomatesInv /\ ConversationInv => CopiloteTenu
  <2>1. ASSUME AutomatesIInv PROVE M!LectureSeule /\ M!Espacees
    <3>1. \A a \in Automations \ x9 : a \notin x8
      BY <2>1 DEF AutomatesIInv, Surveillee
    <3> QED BY <2>1, <3>1 DEF AutomatesIInv, AutomatesTypes, M!Espacees
  <2> QED BY <2>1, EnPaires, EnParoles, EnRepli DEF AutomatesInv, ConversationInv, CopiloteTenu
<1> QED BY <1>1, AutomatesTenus, ConversationTenue, PTL

-----------------------------------------------------------------------------
(* The catalogue of metrics.  A label is known by a word that no other metric has, or by two that no  *)
(* other has together: number of the metric in CATALOG that each word, or key, is for.                *)
Proprietaire ==
  [effectif |-> 1, entrees |-> 2, sorties |-> 3, turnover |-> 4, absenteisme |-> 5, brut |-> 6,
    fonciere |-> 7, construction |-> 8, vrd |-> 9, commercialisation |-> 10, locatif |-> 11,
    projet |-> 12, jalons |-> 13, accidents |-> 14, provisionnes |-> 15, nette |-> 16, jours |-> 17,
    dso |-> 18, dpo |-> 20, reel |-> 21, marge |-> 22, echeances |-> 23, valorisation |-> 25,
    approvisionnement |-> 26, commande |-> 27, disponibilite |-> 29, maintenance |-> 30,
    projets |-> 31, livraisons |-> 32, operationnels |-> 33, conversion |-> 34, cycle |-> 35,
    affaires |-> 36, concretisation |-> 37, reclamations |-> 38, satisfaction |-> 39, clients |-> 40,
    ventes |-> 41, crm |-> 42, audit |-> 43, controles |-> 45, correctifs |-> 46, comptes |-> 47,
    documents |-> 49, actifs |-> 50, cartographie |-> 51]
Paires ==
  {<<24, "previsions", "tresorerie">>, <<28, "fiabilite", "stocks">>, <<44, "critiques", "retard">>,
   <<48, "delai", "incidents">>}
NumeroDeCle(c) ==
  CASE c = "hr.headcount" -> 1
    [] c = "hr.entries" -> 2
    [] c = "hr.exits" -> 3
    [] c = "hr.turnover_rate" -> 4
    [] c = "hr.absenteeism_rate" -> 5
    [] c = "hr.payroll_mass" -> 6
    [] c = "immobilier.taux_securisation_fonciere" -> 7
    [] c = "immobilier.avancement_construction" -> 8
    [] c = "immobilier.avancement_vrd" -> 9
    [] c = "immobilier.taux_commercialisation" -> 10
    [] c = "immobilier.taux_occupation_locatif" -> 11
    [] c = "immobilier.ecart_budget_projet" -> 12
    [] c = "immobilier.retard_jalons_livraison" -> 13
    [] c = "immobilier.taux_frequence_accidents_chantier" -> 14
    [] c = "immobilier.couverture_risques_provisionnes" -> 15
    [] c = "finance.tresorerie_nette" -> 16
    [] c = "finance.jours_couverture_tresorerie" -> 17
    [] c = "finance.dso" -> 18
    [] c = "finance.taux_recouvrement" -> 19
    [] c = "finance.dpo" -> 20
    [] c = "finance.ecart_budgetaire" -> 21
    [] c = "finance.marge_operationnelle" -> 22
    [] c = "finance.taux_conformite_fiscale" -> 23
    [] c = "finance.fiabilite_prevision_tresorerie" -> 24
    [] c = "operations.stock_value" -> 25
    [] c = "operations.service_rate" -> 26
    [] c = "operations.purchase_lead_time" -> 27
    [] c = "operations.inventory_accuracy" -> 28
    [] c = "operations.fleet_availability" -> 29
    [] c = "operations.maintenance_mttr" -> 30
    [] c = "operations.project_progress" -> 31
    [] c = "operations.supplier_on_time_rate" -> 32
    [] c = "operations.open_incidents" -> 33
    [] c = "commercial.taux_conversion_pipeline" -> 34
    [] c = "commercial.delai_moyen_cycle_vente" -> 35
    [] c = "commercial.chiffre_affaires_signe" -> 36
    [] c = "commercial.taux_concretisation_reservations" -> 37
    [] c = "commercial.delai_traitement_reclamation" -> 38
    [] c = "commercial.satisfaction_client" -> 39
    [] c = "commercial.taux_retention_clients" -> 40
    [] c = "commercial.fiabilite_previsions_ventes" -> 41
    [] c = "commercial.qualite_donnees_crm" -> 42
    [] c = "risques.taux_cloture_recommandations_audit" -> 43
    [] c = "risques.recommandations_critiques_en_retard" -> 44
    [] c = "risques.taux_couverture_controles_conformite" -> 45
    [] c = "risques.taux_respect_sla_correctifs_securite" -> 46
    [] c = "risques.comptes_dormants_a_privileges" -> 47
    [] c = "risques.delai_moyen_resolution_incidents" -> 48
    [] c = "risques.documents_critiques_expires" -> 49
    [] c = "risques.provision_litiges_actifs" -> 50
    [] c = "risques.taux_couverture_cartographie_risques" -> 51

\* Words that are enough to tell the metric i; only one metric has no such word: its label is a word of another.
Marque(i, mots) ==
  \/ \E w \in mots : w \in DOMAIN Proprietaire /\ Proprietaire[w] = i
  \/ \E p \in Paires : p[1] = i /\ p[2] \in mots /\ p[3] \in mots
Recouvrement == 19

Reconnue(i, m) ==
  /\ NumeroDeCle(m.cle) = i
  /\ m.libelle \subseteq m.termes /\ m.libelle # {}
  /\ i # Recouvrement => Marque(i, m.libelle)
  /\ i = Recouvrement => m.termes = {"recouvrement"}
  /\ \A k \in Int : Marque(k, m.termes) => k = i

\* A few words are a finite set.
LEMMA Finis ==
  ASSUME NEW a, NEW b, NEW c, NEW d, NEW e
  PROVE  /\ IsFiniteSet({}) /\ IsFiniteSet({a}) /\ IsFiniteSet({a, b}) /\ IsFiniteSet({a, b, c})
         /\ IsFiniteSet({a, b, c, d}) /\ IsFiniteSet({a, b, c, d, e})
<1>1. IsFiniteSet({}) /\ IsFiniteSet({a})
  BY FS_EmptySet, FS_Singleton
<1>2. {a, b} = {a} \cup {b} /\ {a, b, c} = {a, b} \cup {c} /\ {a, b, c, d} = {a, b, c} \cup {d}
      /\ {a, b, c, d, e} = {a, b, c, d} \cup {e}
  OBVIOUS
<1>3. IsFiniteSet({a, b})
  BY <1>1, <1>2, FS_AddElement
<1>4. IsFiniteSet({a, b, c})
  BY <1>2, <1>3, FS_AddElement
<1>5. IsFiniteSet({a, b, c, d})
  BY <1>2, <1>4, FS_AddElement
<1>6. IsFiniteSet({a, b, c, d, e})
  BY <1>2, <1>5, FS_AddElement
<1> QED BY <1>1, <1>3, <1>4, <1>5, <1>6

\* What the domains hold: metrics that their words, or their keys, tell apart.
LEMMA MetriquesRh ==
  /\ Len(D!Rh) = 6 /\ D!Rh = [k \in 1..6 |-> D!Rh[k]]
  /\ \A k \in 1..6 : IsFiniteSet(D!Rh[k].termes) /\ Reconnue(k, D!Rh[k])
<1>1. /\ IsFiniteSet({"absenteeism", "rate"}) /\ IsFiniteSet({"absenteisme"})
      /\ IsFiniteSet({"brut", "masse", "salariale"}) /\ IsFiniteSet({"effectif"})
      /\ IsFiniteSet({"entrees"}) /\ IsFiniteSet({"entries"}) /\ IsFiniteSet({"exits"})
      /\ IsFiniteSet({"headcount"}) /\ IsFiniteSet({"mass", "payroll"}) /\ IsFiniteSet({"rate"})
      /\ IsFiniteSet({"sorties"}) /\ IsFiniteSet({"turnover"})
  BY Finis, Zenon
<1>2. /\ IsFiniteSet({"effectif"} \cup {"headcount"}) /\ IsFiniteSet({"entrees"} \cup {"entries"})
      /\ IsFiniteSet({"sorties"} \cup {"exits"}) /\ IsFiniteSet({"turnover"} \cup {"rate"})
      /\ IsFiniteSet({"absenteisme"} \cup {"absenteeism", "rate"})
      /\ IsFiniteSet({"brut", "masse", "salariale"} \cup {"mass", "payroll"})
  BY <1>1, FS_Union, Zenon
<1>3. /\ D!Rh[1].termes = {"effectif"} \cup {"headcount"} /\ D!Rh[2].termes = {"entrees"} \cup {"entries"}
      /\ D!Rh[3].termes = {"sorties"} \cup {"exits"} /\ D!Rh[4].termes = {"turnover"} \cup {"rate"}
      /\ D!Rh[5].termes = {"absenteisme"} \cup {"absenteeism", "rate"}
      /\ D!Rh[6].termes = {"brut", "masse", "salariale"} \cup {"mass", "payroll"}
  BY DEF D!Rh, D!Mesure
<1>4. /\ IsFiniteSet(D!Rh[1].termes) /\ IsFiniteSet(D!Rh[2].termes) /\ IsFiniteSet(D!Rh[3].termes)
      /\ IsFiniteSet(D!Rh[4].termes) /\ IsFiniteSet(D!Rh[5].termes) /\ IsFiniteSet(D!Rh[6].termes)
  BY <1>2, <1>3, Zenon
<1>5. Reconnue(1, D!Rh[1])
  BY DEF Reconnue, D!Rh, D!Mesure, NumeroDeCle, Marque, Proprietaire, Paires, Recouvrement
<1>6. Reconnue(2, D!Rh[2])
  BY DEF Reconnue, D!Rh, D!Mesure, NumeroDeCle, Marque, Proprietaire, Paires, Recouvrement
<1>7. Reconnue(3, D!Rh[3])
  BY DEF Reconnue, D!Rh, D!Mesure, NumeroDeCle, Marque, Proprietaire, Paires, Recouvrement
<1>8. Reconnue(4, D!Rh[4])
  BY DEF Reconnue, D!Rh, D!Mesure, NumeroDeCle, Marque, Proprietaire, Paires, Recouvrement
<1>9. Reconnue(5, D!Rh[5])
  BY DEF Reconnue, D!Rh, D!Mesure, NumeroDeCle, Marque, Proprietaire, Paires, Recouvrement
<1>10. Reconnue(6, D!Rh[6])
  BY DEF Reconnue, D!Rh, D!Mesure, NumeroDeCle, Marque, Proprietaire, Paires, Recouvrement
<1>11. Len(D!Rh) = 6 /\ D!Rh = [k \in 1..6 |-> D!Rh[k]]
  BY DEF D!Rh
<1> QED BY <1>4, <1>5, <1>6, <1>7, <1>8, <1>9, <1>10, <1>11

\* The metrics of the real estate: nine, numbered 7 to 15, each recognised by words of its own.
LEMMA MetriquesImmobilier ==
  /\ Len(D!Immobilier) = 9 /\ D!Immobilier = [k \in 1..9 |-> D!Immobilier[k]]
  /\ \A k \in 1..9 : IsFiniteSet(D!Immobilier[k].termes) /\ Reconnue(6 + k, D!Immobilier[k])
<1>1. /\ IsFiniteSet({"accidents", "chantier", "frequence"}) /\ IsFiniteSet({"avancement", "construction"})
      /\ IsFiniteSet({"avancement", "vrd"}) /\ IsFiniteSet({"budget"})
      /\ IsFiniteSet({"budgetaire", "ecart", "projet"}) /\ IsFiniteSet({"commercialisation"})
      /\ IsFiniteSet({"couverture", "provisionnes", "risques"})
      /\ IsFiniteSet({"fonciere", "securisation"}) /\ IsFiniteSet({"jalons", "livraison", "retard"})
      /\ IsFiniteSet({"locatif", "occupation"}) /\ IsFiniteSet({})
  BY Finis, Zenon
<1>2. /\ IsFiniteSet({"fonciere", "securisation"} \cup {})
      /\ IsFiniteSet({"avancement", "construction"} \cup {}) /\ IsFiniteSet({"avancement", "vrd"} \cup {})
      /\ IsFiniteSet({"commercialisation"} \cup {}) /\ IsFiniteSet({"locatif", "occupation"} \cup {})
      /\ IsFiniteSet({"budgetaire", "ecart", "projet"} \cup {"budget"})
      /\ IsFiniteSet({"jalons", "livraison", "retard"} \cup {})
      /\ IsFiniteSet({"accidents", "chantier", "frequence"} \cup {})
      /\ IsFiniteSet({"couverture", "provisionnes", "risques"} \cup {})
  BY <1>1, FS_Union, Zenon
<1>3. /\ D!Immobilier[1].termes = {"fonciere", "securisation"} \cup {}
      /\ D!Immobilier[2].termes = {"avancement", "construction"} \cup {}
      /\ D!Immobilier[3].termes = {"avancement", "vrd"} \cup {}
      /\ D!Immobilier[4].termes = {"commercialisation"} \cup {}
      /\ D!Immobilier[5].termes = {"locatif", "occupation"} \cup {}
      /\ D!Immobilier[6].termes = {"budgetaire", "ecart", "projet"} \cup {"budget"}
      /\ D!Immobilier[7].termes = {"jalons", "livraison", "retard"} \cup {}
      /\ D!Immobilier[8].termes = {"accidents", "chantier", "frequence"} \cup {}
      /\ D!Immobilier[9].termes = {"couverture", "provisionnes", "risques"} \cup {}
  BY DEF D!Immobilier, D!Mesure
<1>4. /\ IsFiniteSet(D!Immobilier[1].termes) /\ IsFiniteSet(D!Immobilier[2].termes)
      /\ IsFiniteSet(D!Immobilier[3].termes) /\ IsFiniteSet(D!Immobilier[4].termes)
      /\ IsFiniteSet(D!Immobilier[5].termes) /\ IsFiniteSet(D!Immobilier[6].termes)
      /\ IsFiniteSet(D!Immobilier[7].termes) /\ IsFiniteSet(D!Immobilier[8].termes)
      /\ IsFiniteSet(D!Immobilier[9].termes)
  BY <1>2, <1>3, Zenon
<1>5. Reconnue(7, D!Immobilier[1])
  BY DEF Reconnue, D!Immobilier, D!Mesure, NumeroDeCle, Marque, Proprietaire, Paires, Recouvrement
<1>6. Reconnue(8, D!Immobilier[2])
  BY DEF Reconnue, D!Immobilier, D!Mesure, NumeroDeCle, Marque, Proprietaire, Paires, Recouvrement
<1>7. Reconnue(9, D!Immobilier[3])
  BY DEF Reconnue, D!Immobilier, D!Mesure, NumeroDeCle, Marque, Proprietaire, Paires, Recouvrement
<1>8. Reconnue(10, D!Immobilier[4])
  BY DEF Reconnue, D!Immobilier, D!Mesure, NumeroDeCle, Marque, Proprietaire, Paires, Recouvrement
<1>9. Reconnue(11, D!Immobilier[5])
  BY DEF Reconnue, D!Immobilier, D!Mesure, NumeroDeCle, Marque, Proprietaire, Paires, Recouvrement
<1>10. Reconnue(12, D!Immobilier[6])
  BY DEF Reconnue, D!Immobilier, D!Mesure, NumeroDeCle, Marque, Proprietaire, Paires, Recouvrement
<1>11. Reconnue(13, D!Immobilier[7])
  BY DEF Reconnue, D!Immobilier, D!Mesure, NumeroDeCle, Marque, Proprietaire, Paires, Recouvrement
<1>12. Reconnue(14, D!Immobilier[8])
  BY DEF Reconnue, D!Immobilier, D!Mesure, NumeroDeCle, Marque, Proprietaire, Paires, Recouvrement
<1>13. Reconnue(15, D!Immobilier[9])
  BY DEF Reconnue, D!Immobilier, D!Mesure, NumeroDeCle, Marque, Proprietaire, Paires, Recouvrement
<1>14. Len(D!Immobilier) = 9 /\ D!Immobilier = [k \in 1..9 |-> D!Immobilier[k]]
  BY DEF D!Immobilier
<1> QED BY <1>4, <1>5, <1>6, <1>7, <1>8, <1>9, <1>10, <1>11, <1>12, <1>13, <1>14

\* The metrics of finance: nine, numbered 16 to 24, each recognised by words of its own.
LEMMA MetriquesFinance ==
  /\ Len(D!Finance) = 9 /\ D!Finance = [k \in 1..9 |-> D!Finance[k]]
  /\ \A k \in 1..9 : IsFiniteSet(D!Finance[k].termes) /\ Reconnue(15 + k, D!Finance[k])
<1>1. /\ IsFiniteSet({"budget", "budgetaire", "ecart", "reel", "vs"})
      /\ IsFiniteSet({"client", "delai", "dso", "recouvrement"}) /\ IsFiniteSet({"conformite", "fiscale"})
      /\ IsFiniteSet({"couverture", "jours", "tresorerie"})
      /\ IsFiniteSet({"delai", "dpo", "fournisseurs", "reglement"})
      /\ IsFiniteSet({"echeances", "fiscales", "respect"})
      /\ IsFiniteSet({"fiabilite", "previsions", "tresorerie"}) /\ IsFiniteSet({"marge", "operationnelle"})
      /\ IsFiniteSet({"nette", "tresorerie"}) /\ IsFiniteSet({"prevision"})
      /\ IsFiniteSet({"recouvrement"}) /\ IsFiniteSet({})
  BY Finis, Zenon
<1>2. /\ IsFiniteSet({"nette", "tresorerie"} \cup {})
      /\ IsFiniteSet({"couverture", "jours", "tresorerie"} \cup {})
      /\ IsFiniteSet({"client", "delai", "dso", "recouvrement"} \cup {})
      /\ IsFiniteSet({"recouvrement"} \cup {})
      /\ IsFiniteSet({"delai", "dpo", "fournisseurs", "reglement"} \cup {})
      /\ IsFiniteSet({"budget", "budgetaire", "ecart", "reel", "vs"} \cup {})
      /\ IsFiniteSet({"marge", "operationnelle"} \cup {})
      /\ IsFiniteSet({"echeances", "fiscales", "respect"} \cup {"conformite", "fiscale"})
      /\ IsFiniteSet({"fiabilite", "previsions", "tresorerie"} \cup {"prevision"})
  BY <1>1, FS_Union, Zenon
<1>3. /\ D!Finance[1].termes = {"nette", "tresorerie"} \cup {}
      /\ D!Finance[2].termes = {"couverture", "jours", "tresorerie"} \cup {}
      /\ D!Finance[3].termes = {"client", "delai", "dso", "recouvrement"} \cup {}
      /\ D!Finance[4].termes = {"recouvrement"} \cup {}
      /\ D!Finance[5].termes = {"delai", "dpo", "fournisseurs", "reglement"} \cup {}
      /\ D!Finance[6].termes = {"budget", "budgetaire", "ecart", "reel", "vs"} \cup {}
      /\ D!Finance[7].termes = {"marge", "operationnelle"} \cup {}
      /\ D!Finance[8].termes = {"echeances", "fiscales", "respect"} \cup {"conformite", "fiscale"}
      /\ D!Finance[9].termes = {"fiabilite", "previsions", "tresorerie"} \cup {"prevision"}
  BY DEF D!Finance, D!Mesure
<1>4. /\ IsFiniteSet(D!Finance[1].termes) /\ IsFiniteSet(D!Finance[2].termes)
      /\ IsFiniteSet(D!Finance[3].termes) /\ IsFiniteSet(D!Finance[4].termes)
      /\ IsFiniteSet(D!Finance[5].termes) /\ IsFiniteSet(D!Finance[6].termes)
      /\ IsFiniteSet(D!Finance[7].termes) /\ IsFiniteSet(D!Finance[8].termes)
      /\ IsFiniteSet(D!Finance[9].termes)
  BY <1>2, <1>3, Zenon
<1>5. Reconnue(16, D!Finance[1])
  BY DEF Reconnue, D!Finance, D!Mesure, NumeroDeCle, Marque, Proprietaire, Paires, Recouvrement
<1>6. Reconnue(17, D!Finance[2])
  BY DEF Reconnue, D!Finance, D!Mesure, NumeroDeCle, Marque, Proprietaire, Paires, Recouvrement
<1>7. Reconnue(18, D!Finance[3])
  BY DEF Reconnue, D!Finance, D!Mesure, NumeroDeCle, Marque, Proprietaire, Paires, Recouvrement
<1>8. Reconnue(19, D!Finance[4])
  BY DEF Reconnue, D!Finance, D!Mesure, NumeroDeCle, Marque, Proprietaire, Paires, Recouvrement
<1>9. Reconnue(20, D!Finance[5])
  BY DEF Reconnue, D!Finance, D!Mesure, NumeroDeCle, Marque, Proprietaire, Paires, Recouvrement
<1>10. Reconnue(21, D!Finance[6])
  BY DEF Reconnue, D!Finance, D!Mesure, NumeroDeCle, Marque, Proprietaire, Paires, Recouvrement
<1>11. Reconnue(22, D!Finance[7])
  BY DEF Reconnue, D!Finance, D!Mesure, NumeroDeCle, Marque, Proprietaire, Paires, Recouvrement
<1>12. Reconnue(23, D!Finance[8])
  BY DEF Reconnue, D!Finance, D!Mesure, NumeroDeCle, Marque, Proprietaire, Paires, Recouvrement
<1>13. Reconnue(24, D!Finance[9])
  BY DEF Reconnue, D!Finance, D!Mesure, NumeroDeCle, Marque, Proprietaire, Paires, Recouvrement
<1>14. Len(D!Finance) = 9 /\ D!Finance = [k \in 1..9 |-> D!Finance[k]]
  BY DEF D!Finance
<1> QED BY <1>4, <1>5, <1>6, <1>7, <1>8, <1>9, <1>10, <1>11, <1>12, <1>13, <1>14

\* The metrics of the operations: nine, numbered 25 to 33, each recognised by words of its own.
LEMMA MetriquesOperations ==
  /\ Len(D!Operations) = 9 /\ D!Operations = [k \in 1..9 |-> D!Operations[k]]
  /\ \A k \in 1..9 : IsFiniteSet(D!Operations[k].termes) /\ Reconnue(24 + k, D!Operations[k])
<1>1. /\ IsFiniteSet({"accuracy", "inventory"}) /\ IsFiniteSet({"approvisionnement", "service"})
      /\ IsFiniteSet({"availability", "fleet"}) /\ IsFiniteSet({"avancement", "projets"})
      /\ IsFiniteSet({"commande", "delai", "demande"})
      /\ IsFiniteSet({"delai", "maintenance", "resolution"}) /\ IsFiniteSet({"disponibilite", "flotte"})
      /\ IsFiniteSet({"fiabilite", "stocks"}) /\ IsFiniteSet({"fournisseurs", "livraisons", "temps"})
      /\ IsFiniteSet({"incidents", "operationnels", "ouverts"})
      /\ IsFiniteSet({"lead", "purchase", "time"}) /\ IsFiniteSet({"mttr"})
      /\ IsFiniteSet({"on", "rate", "supplier", "time"}) /\ IsFiniteSet({"open"})
      /\ IsFiniteSet({"progress", "project"}) /\ IsFiniteSet({"rate"}) /\ IsFiniteSet({"stock", "value"})
      /\ IsFiniteSet({"stocks", "valorisation"})
  BY Finis, Zenon
<1>2. /\ IsFiniteSet({"stocks", "valorisation"} \cup {"stock", "value"})
      /\ IsFiniteSet({"approvisionnement", "service"} \cup {"rate"})
      /\ IsFiniteSet({"commande", "delai", "demande"} \cup {"lead", "purchase", "time"})
      /\ IsFiniteSet({"fiabilite", "stocks"} \cup {"accuracy", "inventory"})
      /\ IsFiniteSet({"disponibilite", "flotte"} \cup {"availability", "fleet"})
      /\ IsFiniteSet({"delai", "maintenance", "resolution"} \cup {"mttr"})
      /\ IsFiniteSet({"avancement", "projets"} \cup {"progress", "project"})
      /\ IsFiniteSet({"fournisseurs", "livraisons", "temps"} \cup {"on", "rate", "supplier", "time"})
      /\ IsFiniteSet({"incidents", "operationnels", "ouverts"} \cup {"open"})
  BY <1>1, FS_Union, Zenon
<1>3. /\ D!Operations[1].termes = {"stocks", "valorisation"} \cup {"stock", "value"}
      /\ D!Operations[2].termes = {"approvisionnement", "service"} \cup {"rate"}
      /\ D!Operations[3].termes = {"commande", "delai", "demande"} \cup {"lead", "purchase", "time"}
      /\ D!Operations[4].termes = {"fiabilite", "stocks"} \cup {"accuracy", "inventory"}
      /\ D!Operations[5].termes = {"disponibilite", "flotte"} \cup {"availability", "fleet"}
      /\ D!Operations[6].termes = {"delai", "maintenance", "resolution"} \cup {"mttr"}
      /\ D!Operations[7].termes = {"avancement", "projets"} \cup {"progress", "project"}
      /\ D!Operations[8].termes = {"fournisseurs", "livraisons", "temps"} \cup {"on", "rate", "supplier", "time"}
      /\ D!Operations[9].termes = {"incidents", "operationnels", "ouverts"} \cup {"open"}
  BY DEF D!Operations, D!Mesure
<1>4. /\ IsFiniteSet(D!Operations[1].termes) /\ IsFiniteSet(D!Operations[2].termes)
      /\ IsFiniteSet(D!Operations[3].termes) /\ IsFiniteSet(D!Operations[4].termes)
      /\ IsFiniteSet(D!Operations[5].termes) /\ IsFiniteSet(D!Operations[6].termes)
      /\ IsFiniteSet(D!Operations[7].termes) /\ IsFiniteSet(D!Operations[8].termes)
      /\ IsFiniteSet(D!Operations[9].termes)
  BY <1>2, <1>3, Zenon
<1>5. Reconnue(25, D!Operations[1])
  BY DEF Reconnue, D!Operations, D!Mesure, NumeroDeCle, Marque, Proprietaire, Paires, Recouvrement
<1>6. Reconnue(26, D!Operations[2])
  BY DEF Reconnue, D!Operations, D!Mesure, NumeroDeCle, Marque, Proprietaire, Paires, Recouvrement
<1>7. Reconnue(27, D!Operations[3])
  BY DEF Reconnue, D!Operations, D!Mesure, NumeroDeCle, Marque, Proprietaire, Paires, Recouvrement
<1>8. Reconnue(28, D!Operations[4])
  BY DEF Reconnue, D!Operations, D!Mesure, NumeroDeCle, Marque, Proprietaire, Paires, Recouvrement
<1>9. Reconnue(29, D!Operations[5])
  BY DEF Reconnue, D!Operations, D!Mesure, NumeroDeCle, Marque, Proprietaire, Paires, Recouvrement
<1>10. Reconnue(30, D!Operations[6])
  BY DEF Reconnue, D!Operations, D!Mesure, NumeroDeCle, Marque, Proprietaire, Paires, Recouvrement
<1>11. Reconnue(31, D!Operations[7])
  BY DEF Reconnue, D!Operations, D!Mesure, NumeroDeCle, Marque, Proprietaire, Paires, Recouvrement
<1>12. Reconnue(32, D!Operations[8])
  BY DEF Reconnue, D!Operations, D!Mesure, NumeroDeCle, Marque, Proprietaire, Paires, Recouvrement
<1>13. Reconnue(33, D!Operations[9])
  BY DEF Reconnue, D!Operations, D!Mesure, NumeroDeCle, Marque, Proprietaire, Paires, Recouvrement
<1>14. Len(D!Operations) = 9 /\ D!Operations = [k \in 1..9 |-> D!Operations[k]]
  BY DEF D!Operations
<1> QED BY <1>4, <1>5, <1>6, <1>7, <1>8, <1>9, <1>10, <1>11, <1>12, <1>13, <1>14

\* The commercial metrics: nine, numbered 34 to 42, each recognised by words of its own.
LEMMA MetriquesCommercial ==
  /\ Len(D!Commercial) = 9 /\ D!Commercial = [k \in 1..9 |-> D!Commercial[k]]
  /\ \A k \in 1..9 : IsFiniteSet(D!Commercial[k].termes) /\ Reconnue(33 + k, D!Commercial[k])
<1>1. /\ IsFiniteSet({"affaires", "chiffre", "signe"}) /\ IsFiniteSet({"client", "satisfaction"})
      /\ IsFiniteSet({"clients", "retention"}) /\ IsFiniteSet({"concretisation", "reservations"})
      /\ IsFiniteSet({"conversion", "pipeline"}) /\ IsFiniteSet({"crm", "donnees", "qualite"})
      /\ IsFiniteSet({"cycle", "delai", "vente"}) /\ IsFiniteSet({"delai", "reclamations", "traitement"})
      /\ IsFiniteSet({"fiabilite", "previsions", "ventes"}) /\ IsFiniteSet({"reclamation"})
      /\ IsFiniteSet({})
  BY Finis, Zenon
<1>2. /\ IsFiniteSet({"conversion", "pipeline"} \cup {})
      /\ IsFiniteSet({"cycle", "delai", "vente"} \cup {})
      /\ IsFiniteSet({"affaires", "chiffre", "signe"} \cup {})
      /\ IsFiniteSet({"concretisation", "reservations"} \cup {})
      /\ IsFiniteSet({"delai", "reclamations", "traitement"} \cup {"reclamation"})
      /\ IsFiniteSet({"client", "satisfaction"} \cup {}) /\ IsFiniteSet({"clients", "retention"} \cup {})
      /\ IsFiniteSet({"fiabilite", "previsions", "ventes"} \cup {})
      /\ IsFiniteSet({"crm", "donnees", "qualite"} \cup {})
  BY <1>1, FS_Union, Zenon
<1>3. /\ D!Commercial[1].termes = {"conversion", "pipeline"} \cup {}
      /\ D!Commercial[2].termes = {"cycle", "delai", "vente"} \cup {}
      /\ D!Commercial[3].termes = {"affaires", "chiffre", "signe"} \cup {}
      /\ D!Commercial[4].termes = {"concretisation", "reservations"} \cup {}
      /\ D!Commercial[5].termes = {"delai", "reclamations", "traitement"} \cup {"reclamation"}
      /\ D!Commercial[6].termes = {"client", "satisfaction"} \cup {}
      /\ D!Commercial[7].termes = {"clients", "retention"} \cup {}
      /\ D!Commercial[8].termes = {"fiabilite", "previsions", "ventes"} \cup {}
      /\ D!Commercial[9].termes = {"crm", "donnees", "qualite"} \cup {}
  BY DEF D!Commercial, D!Mesure
<1>4. /\ IsFiniteSet(D!Commercial[1].termes) /\ IsFiniteSet(D!Commercial[2].termes)
      /\ IsFiniteSet(D!Commercial[3].termes) /\ IsFiniteSet(D!Commercial[4].termes)
      /\ IsFiniteSet(D!Commercial[5].termes) /\ IsFiniteSet(D!Commercial[6].termes)
      /\ IsFiniteSet(D!Commercial[7].termes) /\ IsFiniteSet(D!Commercial[8].termes)
      /\ IsFiniteSet(D!Commercial[9].termes)
  BY <1>2, <1>3, Zenon
<1>5. Reconnue(34, D!Commercial[1])
  BY DEF Reconnue, D!Commercial, D!Mesure, NumeroDeCle, Marque, Proprietaire, Paires, Recouvrement
<1>6. Reconnue(35, D!Commercial[2])
  BY DEF Reconnue, D!Commercial, D!Mesure, NumeroDeCle, Marque, Proprietaire, Paires, Recouvrement
<1>7. Reconnue(36, D!Commercial[3])
  BY DEF Reconnue, D!Commercial, D!Mesure, NumeroDeCle, Marque, Proprietaire, Paires, Recouvrement
<1>8. Reconnue(37, D!Commercial[4])
  BY DEF Reconnue, D!Commercial, D!Mesure, NumeroDeCle, Marque, Proprietaire, Paires, Recouvrement
<1>9. Reconnue(38, D!Commercial[5])
  BY DEF Reconnue, D!Commercial, D!Mesure, NumeroDeCle, Marque, Proprietaire, Paires, Recouvrement
<1>10. Reconnue(39, D!Commercial[6])
  BY DEF Reconnue, D!Commercial, D!Mesure, NumeroDeCle, Marque, Proprietaire, Paires, Recouvrement
<1>11. Reconnue(40, D!Commercial[7])
  BY DEF Reconnue, D!Commercial, D!Mesure, NumeroDeCle, Marque, Proprietaire, Paires, Recouvrement
<1>12. Reconnue(41, D!Commercial[8])
  BY DEF Reconnue, D!Commercial, D!Mesure, NumeroDeCle, Marque, Proprietaire, Paires, Recouvrement
<1>13. Reconnue(42, D!Commercial[9])
  BY DEF Reconnue, D!Commercial, D!Mesure, NumeroDeCle, Marque, Proprietaire, Paires, Recouvrement
<1>14. Len(D!Commercial) = 9 /\ D!Commercial = [k \in 1..9 |-> D!Commercial[k]]
  BY DEF D!Commercial
<1> QED BY <1>4, <1>5, <1>6, <1>7, <1>8, <1>9, <1>10, <1>11, <1>12, <1>13, <1>14

\* The metrics of the risks: nine, numbered 43 to 51, each recognised by words of its own.
LEMMA MetriquesRisques ==
  /\ Len(D!Risques) = 9 /\ D!Risques = [k \in 1..9 |-> D!Risques[k]]
  /\ \A k \in 1..9 : IsFiniteSet(D!Risques[k].termes) /\ Reconnue(42 + k, D!Risques[k])
<1>1. /\ IsFiniteSet({"actifs", "juridiques", "litiges", "provision"})
      /\ IsFiniteSet({"audit", "cloture", "recommandations"})
      /\ IsFiniteSet({"cartographie", "couverture", "risques"})
      /\ IsFiniteSet({"comptes", "dormants", "privileges"})
      /\ IsFiniteSet({"conformite", "controles", "couverture"})
      /\ IsFiniteSet({"correctifs", "respect", "securite", "sla"})
      /\ IsFiniteSet({"critiques", "documents", "expires"})
      /\ IsFiniteSet({"critiques", "recommandations", "retard"})
      /\ IsFiniteSet({"delai", "incidents", "resolution"}) /\ IsFiniteSet({})
  BY Finis, Zenon
<1>2. /\ IsFiniteSet({"audit", "cloture", "recommandations"} \cup {})
      /\ IsFiniteSet({"critiques", "recommandations", "retard"} \cup {})
      /\ IsFiniteSet({"conformite", "controles", "couverture"} \cup {})
      /\ IsFiniteSet({"correctifs", "respect", "securite", "sla"} \cup {})
      /\ IsFiniteSet({"comptes", "dormants", "privileges"} \cup {})
      /\ IsFiniteSet({"delai", "incidents", "resolution"} \cup {})
      /\ IsFiniteSet({"critiques", "documents", "expires"} \cup {})
      /\ IsFiniteSet({"actifs", "juridiques", "litiges", "provision"} \cup {})
      /\ IsFiniteSet({"cartographie", "couverture", "risques"} \cup {})
  BY <1>1, FS_Union, Zenon
<1>3. /\ D!Risques[1].termes = {"audit", "cloture", "recommandations"} \cup {}
      /\ D!Risques[2].termes = {"critiques", "recommandations", "retard"} \cup {}
      /\ D!Risques[3].termes = {"conformite", "controles", "couverture"} \cup {}
      /\ D!Risques[4].termes = {"correctifs", "respect", "securite", "sla"} \cup {}
      /\ D!Risques[5].termes = {"comptes", "dormants", "privileges"} \cup {}
      /\ D!Risques[6].termes = {"delai", "incidents", "resolution"} \cup {}
      /\ D!Risques[7].termes = {"critiques", "documents", "expires"} \cup {}
      /\ D!Risques[8].termes = {"actifs", "juridiques", "litiges", "provision"} \cup {}
      /\ D!Risques[9].termes = {"cartographie", "couverture", "risques"} \cup {}
  BY DEF D!Risques, D!Mesure
<1>4. /\ IsFiniteSet(D!Risques[1].termes) /\ IsFiniteSet(D!Risques[2].termes)
      /\ IsFiniteSet(D!Risques[3].termes) /\ IsFiniteSet(D!Risques[4].termes)
      /\ IsFiniteSet(D!Risques[5].termes) /\ IsFiniteSet(D!Risques[6].termes)
      /\ IsFiniteSet(D!Risques[7].termes) /\ IsFiniteSet(D!Risques[8].termes)
      /\ IsFiniteSet(D!Risques[9].termes)
  BY <1>2, <1>3, Zenon
<1>5. Reconnue(43, D!Risques[1])
  BY DEF Reconnue, D!Risques, D!Mesure, NumeroDeCle, Marque, Proprietaire, Paires, Recouvrement
<1>6. Reconnue(44, D!Risques[2])
  BY DEF Reconnue, D!Risques, D!Mesure, NumeroDeCle, Marque, Proprietaire, Paires, Recouvrement
<1>7. Reconnue(45, D!Risques[3])
  BY DEF Reconnue, D!Risques, D!Mesure, NumeroDeCle, Marque, Proprietaire, Paires, Recouvrement
<1>8. Reconnue(46, D!Risques[4])
  BY DEF Reconnue, D!Risques, D!Mesure, NumeroDeCle, Marque, Proprietaire, Paires, Recouvrement
<1>9. Reconnue(47, D!Risques[5])
  BY DEF Reconnue, D!Risques, D!Mesure, NumeroDeCle, Marque, Proprietaire, Paires, Recouvrement
<1>10. Reconnue(48, D!Risques[6])
  BY DEF Reconnue, D!Risques, D!Mesure, NumeroDeCle, Marque, Proprietaire, Paires, Recouvrement
<1>11. Reconnue(49, D!Risques[7])
  BY DEF Reconnue, D!Risques, D!Mesure, NumeroDeCle, Marque, Proprietaire, Paires, Recouvrement
<1>12. Reconnue(50, D!Risques[8])
  BY DEF Reconnue, D!Risques, D!Mesure, NumeroDeCle, Marque, Proprietaire, Paires, Recouvrement
<1>13. Reconnue(51, D!Risques[9])
  BY DEF Reconnue, D!Risques, D!Mesure, NumeroDeCle, Marque, Proprietaire, Paires, Recouvrement
<1>14. Len(D!Risques) = 9 /\ D!Risques = [k \in 1..9 |-> D!Risques[k]]
  BY DEF D!Risques
<1> QED BY <1>4, <1>5, <1>6, <1>7, <1>8, <1>9, <1>10, <1>11, <1>12, <1>13, <1>14

\* The catalogue is its domains one after the other.
LEMMA Enchaine ==
  ASSUME NEW Ens, NEW s \in Seq(Ens), NEW t \in Seq(Ens), NEW n \in Nat, NEW p \in Nat, Len(s) = n, Len(t) = p,
         \A k \in 1..n : IsFiniteSet(s[k].termes) /\ Reconnue(k, s[k]),
         \A k \in 1..p : IsFiniteSet(t[k].termes) /\ Reconnue(n + k, t[k])
  PROVE  /\ s \o t \in Seq(Ens) /\ Len(s \o t) = n + p
         /\ \A k \in 1..(n + p) : IsFiniteSet((s \o t)[k].termes) /\ Reconnue(k, (s \o t)[k])
<1>1. /\ s \o t \in Seq(Ens) /\ Len(s \o t) = n + p
      /\ \A k \in 1..(n + p) : (s \o t)[k] = IF k <= n THEN s[k] ELSE t[k - n]
  BY ConcatProperties
<1>2. ASSUME NEW k \in 1..(n + p) PROVE IsFiniteSet((s \o t)[k].termes) /\ Reconnue(k, (s \o t)[k])
  <2>1. CASE k <= n
    <3>1. k \in 1..n
      BY <2>1
    <3> QED BY <1>1, <2>1, <3>1
  <2>2. CASE k > n
    <3>1. k - n \in 1..p /\ n + (k - n) = k
      BY <2>2
    <3> QED BY <1>1, <2>2, <3>1
  <2> QED BY <2>1, <2>2
<1> QED BY <1>1, <1>2

\* The whole catalogue: fifty-one metrics, each recognised by words of its own.
LEMMA CatalogueEntier ==
  /\ DOMAIN D!CATALOG = 1..51
  /\ \A k \in 1..51 : IsFiniteSet(D!CATALOG[k].termes) /\ Reconnue(k, D!CATALOG[k])
<1> DEFINE De(s, n) == {s[k] : k \in 1..n}
           Ens == De(D!Rh, 6) \cup De(D!Immobilier, 9) \cup De(D!Finance, 9) \cup De(D!Operations, 9)
                    \cup De(D!Commercial, 9) \cup De(D!Risques, 9)
<1>1. ASSUME NEW s, NEW n \in Nat, s = [k \in 1..n |-> s[k]], De(s, n) \subseteq Ens PROVE s \in Seq(Ens)
  <2> HIDE DEF Ens
  <2>1. s \in [1..n -> Ens]
    BY <1>1
  <2> QED BY <2>1
<1>2. /\ De(D!Rh, 6) \subseteq Ens /\ De(D!Immobilier, 9) \subseteq Ens /\ De(D!Finance, 9) \subseteq Ens
      /\ De(D!Operations, 9) \subseteq Ens /\ De(D!Commercial, 9) \subseteq Ens /\ De(D!Risques, 9) \subseteq Ens
  <2> HIDE DEF De
  <2> QED OBVIOUS
<1> HIDE DEF De, Ens
<1>3. /\ D!Rh \in Seq(Ens) /\ D!Immobilier \in Seq(Ens) /\ D!Finance \in Seq(Ens)
      /\ D!Operations \in Seq(Ens) /\ D!Commercial \in Seq(Ens) /\ D!Risques \in Seq(Ens)
  <2>1. D!Rh \in Seq(Ens)
    BY <1>1, <1>2, MetriquesRh
  <2>2. D!Immobilier \in Seq(Ens)
    BY <1>1, <1>2, MetriquesImmobilier
  <2>3. D!Finance \in Seq(Ens)
    BY <1>1, <1>2, MetriquesFinance
  <2>4. D!Operations \in Seq(Ens)
    BY <1>1, <1>2, MetriquesOperations
  <2>5. D!Commercial \in Seq(Ens)
    BY <1>1, <1>2, MetriquesCommercial
  <2>6. D!Risques \in Seq(Ens)
    BY <1>1, <1>2, MetriquesRisques
  <2> QED BY <2>1, <2>2, <2>3, <2>4, <2>5, <2>6
<1> DEFINE s2 == D!Rh \o D!Immobilier
           s3 == s2 \o D!Finance
           s4 == s3 \o D!Operations
           s5 == s4 \o D!Commercial
           s6 == s5 \o D!Risques
           Tenue(s, n) == /\ s \in Seq(Ens) /\ Len(s) = n
                          /\ \A k \in 1..n : IsFiniteSet(s[k].termes) /\ Reconnue(k, s[k])
<1>4. ASSUME NEW s, NEW t \in Seq(Ens), NEW n \in Nat, Tenue(s, n), Len(t) = 9,
             \A k \in 1..9 : IsFiniteSet(t[k].termes) /\ Reconnue(n + k, t[k])
      PROVE  Tenue(s \o t, n + 9)
  <2> DEFINE u == s \o t
  <2>1. 9 \in Nat /\ s \in Seq(Ens) /\ Len(s) = n
        /\ \A k \in 1..n : IsFiniteSet(s[k].termes) /\ Reconnue(k, s[k])
    BY <1>4
  <2>2. u \in Seq(Ens) /\ Len(u) = n + 9 /\ \A k \in 1..(n + 9) : IsFiniteSet(u[k].termes) /\ Reconnue(k, u[k])
    BY <1>4, <2>1, Enchaine, Zenon
  <2> QED BY <2>2
<1>5. Tenue(D!Rh, 6)
  BY <1>3, MetriquesRh
<1> HIDE DEF Tenue
<1>6. Tenue(s2, 15)
  <2>1. Tenue(D!Rh \o D!Immobilier, 6 + 9)
    BY <1>3, <1>4, <1>5, MetriquesImmobilier
  <2> QED BY <2>1
<1> HIDE DEF s2
<1>7. Tenue(s3, 24)
  <2>1. Tenue(s2 \o D!Finance, 15 + 9)
    BY <1>3, <1>4, <1>6, MetriquesFinance
  <2> QED BY <2>1
<1> HIDE DEF s3
<1>8. Tenue(s4, 33)
  <2>1. Tenue(s3 \o D!Operations, 24 + 9)
    BY <1>3, <1>4, <1>7, MetriquesOperations
  <2> QED BY <2>1
<1> HIDE DEF s4
<1>9. Tenue(s5, 42)
  <2>1. Tenue(s4 \o D!Commercial, 33 + 9)
    BY <1>3, <1>4, <1>8, MetriquesCommercial
  <2> QED BY <2>1
<1> HIDE DEF s5
<1>10. Tenue(s6, 51)
  <2>1. Tenue(s5 \o D!Risques, 42 + 9)
    BY <1>3, <1>4, <1>9, MetriquesRisques
  <2> QED BY <2>1
<1>11. D!CATALOG = s6
  BY DEF D!CATALOG, s2, s3, s4, s5
<1> HIDE DEF s6
<1> QED BY <1>10, <1>11 DEF Tenue

\* A key is of one metric.
LEMMA CleUnique ==
  ASSUME NEW i \in 1..51, NEW j \in 1..51, D!CATALOG[i].cle = D!CATALOG[j].cle
  PROVE  i = j
BY CatalogueEntier DEF Reconnue

\* A metric whose words hold the label of another has more words than it.
LEMMA PlusDeMots ==
  ASSUME NEW i \in 1..51, NEW j \in 1..51, i # j, D!CATALOG[i].libelle \subseteq D!CATALOG[j].termes
  PROVE  Cardinality(D!CATALOG[i].termes) < Cardinality(D!CATALOG[j].termes)
<1> DEFINE a == D!CATALOG[i]
           b == D!CATALOG[j]
<1>1. Reconnue(i, a) /\ Reconnue(j, b) /\ IsFiniteSet(a.termes) /\ IsFiniteSet(b.termes)
  BY CatalogueEntier
<1>2. i = Recouvrement
  <2> SUFFICES ASSUME i # Recouvrement PROVE FALSE
    OBVIOUS
  <2>1. Marque(i, a.libelle)
    BY <1>1 DEF Reconnue
  <2>2. Marque(i, b.termes)
    BY <2>1 DEF Marque
  <2> QED BY <1>1, <2>2 DEF Reconnue
<1>3. a.termes = {"recouvrement"} /\ a.termes \subseteq b.termes
  BY <1>1, <1>2 DEF Reconnue
<1>4. Marque(j, b.libelle)
  BY <1>1, <1>2 DEF Reconnue
<1>5. \E w \in b.termes : w # "recouvrement"
  BY <1>1, <1>4 DEF Reconnue, Marque, Proprietaire, Paires
<1> HIDE DEF a, b
<1>6. Cardinality(a.termes) <= Cardinality(b.termes) /\ Cardinality(a.termes) # Cardinality(b.termes)
  BY <1>1, <1>3, <1>5, FS_Subset
<1>7. Cardinality(a.termes) \in Int /\ Cardinality(b.termes) \in Int
  BY <1>1, FS_CardinalityType
<1> QED BY <1>6, <1>7 DEF a, b

-----------------------------------------------------------------------------
(* The resolution of a question. *)
LEMMA MemesNotionsD == \A s : D!Cardinality(s) = Cardinality(s)
<1>1. \A s : D!IsFiniteSet(s) <=> IsFiniteSet(s)
  BY DEF D!IsFiniteSet, IsFiniteSet
<1> QED BY <1>1 DEF D!Cardinality, Cardinality

\* How many words a question and a metric share is a number, positive when they share one.
LEMMA CommunsDe ==
  ASSUME NEW q, NEW k \in 1..51
  PROVE  LET s == q.mots \cap D!CATALOG[k].termes
         IN /\ D!Communs(q, D!CATALOG[k]) = Cardinality(s) /\ IsFiniteSet(s) /\ Cardinality(s) \in Nat
            /\ Cardinality(s) > 0 <=> s # {}
            /\ D!Cardinality(D!CATALOG[k].termes) = Cardinality(D!CATALOG[k].termes)
            /\ Cardinality(D!CATALOG[k].termes) \in Nat
<1> DEFINE t == D!CATALOG[k].termes
           s == q.mots \cap t
<1>1. IsFiniteSet(t)
  BY CatalogueEntier
<1>2. D!Communs(q, D!CATALOG[k]) = Cardinality(s) /\ D!Cardinality(t) = Cardinality(t)
  BY MemesNotionsD DEF D!Communs
<1>3. s \in SUBSET t
  OBVIOUS
<1> HIDE DEF s, t
<1>4. IsFiniteSet(s)
  BY <1>1, <1>3, FS_Subset
<1>5. Cardinality(s) \in Nat /\ (Cardinality(s) = 0 <=> s = {}) /\ Cardinality(t) \in Nat
  BY <1>1, <1>4, FS_CardinalityType, FS_EmptySet
<1>6. Cardinality(s) > 0 <=> s # {}
  BY <1>5
<1> QED BY <1>2, <1>4, <1>5, <1>6 DEF s, t

\* The numbers of the metrics are finitely many.
LEMMA NumerosFinis == IsFiniteSet(1..51)
<1>1. 1 \in Int /\ 51 \in Int
  OBVIOUS
<1>2. \A a, b \in Int : IsFiniteSet(a..b)
  BY FS_Interval
<1> QED BY <1>1, <1>2, Zenon

\* Metrics that are some have a first.
LEMMA PlusPetitD ==
  ASSUME NEW Ens \in SUBSET (1..51), Ens # {}
  PROVE  D!Min(Ens) \in Ens
<1>1. IsFiniteSet(1..51)
  BY NumerosFinis
<1>2. IsFiniteSet(Ens)
  BY <1>1, FS_Subset
<1>3. Ens \in SUBSET Int
  OBVIOUS
<1>4. PICK x \in Ens : \A y \in Ens : x <= y
  BY <1>2, <1>3, PlusPetit
<1> QED BY <1>4 DEF D!Min

\* Among metrics that share words with a question, one is placed behind no other.
LEMMA UneMeilleure ==
  ASSUME NEW q, NEW Ens \in SUBSET (1..51), Ens # {}
  PROVE  \E k \in Ens : \A j \in Ens : ~D!MieuxPlace(q, D!CATALOG[j], D!CATALOG[k])
<1> DEFINE Mots(k) == D!Communs(q, D!CATALOG[k])
           Taille(k) == D!Cardinality(D!CATALOG[k].termes)
<1>1. \A k \in 1..51 : Mots(k) \in Int /\ Taille(k) \in Int
  <2> SUFFICES ASSUME NEW k \in 1..51 PROVE Mots(k) \in Int /\ Taille(k) \in Int
    OBVIOUS
  <2>1. PICK a \in Nat, b \in Nat : Mots(k) = a /\ Taille(k) = b
    BY CommunsDe, Zenon
  <2> QED BY <2>1
<1> HIDE DEF Mots, Taille
<1> DEFINE Devant(j, k) == Mots(j) > Mots(k) \/ (Mots(j) = Mots(k) /\ Taille(j) < Taille(k))
           Bons == {s \in SUBSET Ens : s # {} => \E k \in s : \A j \in s : ~Devant(j, k)}
<1>2. IsFiniteSet(Ens)
  BY NumerosFinis, FS_Subset
<1>3. {} \in Bons
  OBVIOUS
<1>4. ASSUME NEW s \in SUBSET Ens, s # {}, \A x \in s : s \ {x} \in Bons PROVE s \in Bons
  <2>1. PICK z \in s : TRUE
    BY <1>4
  <2>2. ~Devant(z, z)
    BY <1>1
  <2>3. CASE s \ {z} = {}
    <3>1. \A j \in s : j = z
      BY <2>3
    <3> QED BY <2>2, <3>1
  <2>4. CASE s \ {z} # {}
    <3>1. PICK x \in s \ {z} : \A j \in s \ {z} : ~Devant(j, x)
      BY <1>4, <2>4
    <3>2. CASE ~Devant(z, x)
      BY <3>1, <3>2
    <3>3. CASE Devant(z, x)
      <4>1. ASSUME NEW j \in s, Devant(j, z) PROVE FALSE
        <5>1. j # z /\ ~Devant(j, x)
          BY <2>2, <3>1, <4>1
        <5>2. /\ Mots(x) \in Int /\ Mots(z) \in Int /\ Mots(j) \in Int
              /\ Taille(x) \in Int /\ Taille(z) \in Int /\ Taille(j) \in Int
          BY <1>1
        <5> QED BY <3>3, <4>1, <5>1, <5>2
      <4> QED BY <4>1
    <3> QED BY <3>2, <3>3
  <2> QED BY <2>3, <2>4
<1>5. SUBSET Ens \subseteq Bons
  <2> HIDE DEF Bons
  <2> QED BY <1>2, <1>3, <1>4, RecurrenceFinie
<1>6. \E k \in Ens : \A j \in Ens : ~Devant(j, k)
  BY <1>5
<1> QED BY <1>6 DEF Mots, Taille, D!MieuxPlace

\* What is found: the metric of the key; nothing, when no word is known; or a metric behind no other.
LEMMA Resolution ==
  ASSUME NEW q, \A c \in q.cles : \E k \in 1..51 : D!CATALOG[k].cle = c
  PROVE  \/ /\ q.cles # {}
            /\ \E k \in 1..51 : D!Resoudre(q) = D!CATALOG[k] /\ D!CATALOG[k].cle \in q.cles
         \/ /\ q.cles = {} /\ D!Resoudre(q) = Neant
            /\ \A j \in 1..51 : q.mots \cap D!CATALOG[j].termes = {}
         \/ /\ q.cles = {}
            /\ \E k \in 1..51 :
                 /\ D!Resoudre(q) = D!CATALOG[k] /\ q.mots \cap D!CATALOG[k].termes # {}
                 /\ \A j \in 1..51 : q.mots \cap D!CATALOG[j].termes # {} => ~D!MieuxPlace(q, D!CATALOG[j], D!CATALOG[k])
<1> DEFINE citees == {i \in DOMAIN D!CATALOG : D!CATALOG[i].cle \in q.cles}
           proches == {i \in DOMAIN D!CATALOG : D!Communs(q, D!CATALOG[i]) > 0}
           meilleures == {i \in proches : \A j \in proches : ~D!MieuxPlace(q, D!CATALOG[j], D!CATALOG[i])}
<1>1. D!Resoudre(q) = IF citees # {} THEN D!CATALOG[D!Min(citees)]
                      ELSE IF proches = {} THEN Neant ELSE D!CATALOG[D!Min(meilleures)]
  BY Zenon DEF D!Resoudre
<1>2. citees \in SUBSET (1..51) /\ proches \in SUBSET (1..51) /\ meilleures \in SUBSET proches
      /\ \A k \in 1..51 : k \in proches <=> q.mots \cap D!CATALOG[k].termes # {}
  <2>1. DOMAIN D!CATALOG = 1..51
    BY CatalogueEntier
  <2>2. ASSUME NEW k \in 1..51 PROVE D!Communs(q, D!CATALOG[k]) > 0 <=> q.mots \cap D!CATALOG[k].termes # {}
    BY CommunsDe
  <2> QED BY <2>1, <2>2
<1>3. citees # {} <=> q.cles # {}
  <2>1. DOMAIN D!CATALOG = 1..51
    BY CatalogueEntier
  <2> QED BY <2>1
<1>4. \A k \in citees : D!CATALOG[k].cle \in q.cles
  OBVIOUS
<1>5. \A k \in meilleures : \A j \in proches : ~D!MieuxPlace(q, D!CATALOG[j], D!CATALOG[k])
  OBVIOUS
<1>6. proches # {} => meilleures # {}
  <2> SUFFICES ASSUME proches # {} PROVE meilleures # {}
    OBVIOUS
  <2> DEFINE p == proches
  <2>1. p \in SUBSET (1..51) /\ p # {}
    BY <1>2
  <2>2. \E k \in p : \A j \in p : ~D!MieuxPlace(q, D!CATALOG[j], D!CATALOG[k])
    <3> HIDE DEF p
    <3> QED BY <2>1, UneMeilleure
  <2> QED BY <2>2
<1> HIDE DEF citees, proches, meilleures
<1>7. CASE citees # {}
  <2>1. D!Min(citees) \in citees
    BY <1>2, <1>7, PlusPetitD
  <2> QED BY <1>1, <1>2, <1>3, <1>4, <1>7, <2>1
<1>8. CASE citees = {} /\ proches = {}
  BY <1>1, <1>2, <1>3, <1>8
<1>9. CASE citees = {} /\ proches # {}
  <2>1. D!Min(meilleures) \in meilleures
    BY <1>2, <1>6, <1>9, PlusPetitD
  <2>2. D!Min(meilleures) \in 1..51 /\ D!Min(meilleures) \in proches
    BY <1>2, <2>1
  <2> QED BY <1>1, <1>2, <1>3, <1>5, <1>9, <2>1, <2>2
<1> QED BY <1>7, <1>8, <1>9

\* The questions: the name of a metric and a word, a key and the name of another metric, nothing known.
LEMMA QuestionDe ==
  ASSUME NEW q \in D!Questions
  PROVE  /\ \A c \in q.cles : \E k \in 1..51 : D!CATALOG[k].cle = c
         /\ \/ \E i \in 1..51 : \E w : q.nom = i /\ q.cles = {} /\ q.mots = D!CATALOG[i].libelle \cup {w}
            \/ \E i \in 1..51 : q.nom = i /\ q.cles = {D!CATALOG[i].cle}
            \/ q.nom = 0
<1>1. DOMAIN D!CATALOG = 1..51
  BY CatalogueEntier
<1> DEFINE Une == {D!Question(i, D!CATALOG[i].libelle \cup {w}, {}, TRUE) : i \in DOMAIN D!CATALOG, w \in D!Vocabulaire \cup {D!Bruit}}
           Deux == {D!Question(i, D!CATALOG[j].libelle, {D!CATALOG[i].cle}, TRUE) : i, j \in DOMAIN D!CATALOG}
           Trois == {D!Question(0, mots, {}, texte) : mots \in {{}, {D!Bruit}}, texte \in BOOLEAN}
<1>2. CASE q \in Une
  <2>1. PICK i \in DOMAIN D!CATALOG, w \in D!Vocabulaire \cup {D!Bruit} :
          q.nom = i /\ q.cles = {} /\ q.mots = D!CATALOG[i].libelle \cup {w}
    BY <1>2 DEF D!Question
  <2> QED BY <1>1, <2>1, Zenon
<1>3. CASE q \in Deux
  <2>1. PICK i \in DOMAIN D!CATALOG, j \in DOMAIN D!CATALOG : q.nom = i /\ q.cles = {D!CATALOG[i].cle}
    BY <1>3 DEF D!Question
  <2> QED BY <1>1, <2>1
<1>4. CASE q \in Trois
  <2>1. q.nom = 0 /\ q.cles = {}
    BY <1>4 DEF D!Question
  <2> QED BY <2>1
<1>5. D!Questions = Une \cup Deux \cup Trois
  BY DEF D!Questions
<1> HIDE DEF Une, Deux, Trois
<1> QED BY <1>2, <1>3, <1>4, <1>5

\* What is answered is of the metric found.
LEMMA ReponseDe ==
  ASSUME NEW q, NEW v
  PROVE  /\ D!Repondre(q, v).mesure = D!Resoudre(q)
         /\ D!Repondre(q, v).fondee <=> D!Resoudre(q) # Neant
         /\ D!Repondre(q, v).valeur # D!ND => D!Resoudre(q).cle \in v
BY DEF D!Repondre

\* A metric is found by its name.
LEMMA TrouveParSonNom ==
  ASSUME NEW q \in D!Questions, q.nom # 0
  PROVE  \/ D!Resoudre(q) = D!CATALOG[q.nom]
         \/ /\ q.cles = {}
            /\ \E w \in q.mots \ D!CATALOG[q.nom].termes : w \in D!Resoudre(q).termes
<1>1. ASSUME NEW i \in 1..51, q.nom = i, q.cles = {D!CATALOG[i].cle} PROVE D!Resoudre(q) = D!CATALOG[q.nom]
  <2>1. PICK k \in 1..51 : D!Resoudre(q) = D!CATALOG[k] /\ D!CATALOG[k].cle \in q.cles
    BY <1>1, QuestionDe, Resolution
  <2>2. k = i
    BY <1>1, <2>1, CleUnique
  <2> QED BY <1>1, <2>1, <2>2
<1>2. ASSUME NEW i \in 1..51, NEW w, q.nom = i, q.cles = {}, q.mots = D!CATALOG[i].libelle \cup {w},
             D!Resoudre(q) # D!CATALOG[i], \A x \in q.mots \ D!CATALOG[i].termes : x \notin D!Resoudre(q).termes
      PROVE  FALSE
  <2> DEFINE Siens(k) == q.mots \cap D!CATALOG[k].termes
  <2>1. D!CATALOG[i].libelle \subseteq Siens(i) /\ Siens(i) # {}
    BY <1>2, CatalogueEntier DEF Reconnue
  <2>2. PICK k \in 1..51 :
          /\ D!Resoudre(q) = D!CATALOG[k]
          /\ \A j \in 1..51 : q.mots \cap D!CATALOG[j].termes # {} => ~D!MieuxPlace(q, D!CATALOG[j], D!CATALOG[k])
    BY <1>2, <2>1, QuestionDe, Resolution
  <2>3. i # k /\ ~D!MieuxPlace(q, D!CATALOG[i], D!CATALOG[k])
    BY <1>2, <2>1, <2>2
  <2>4. Siens(k) \in SUBSET Siens(i)
    BY <1>2, <2>2
  <2>5. /\ D!Communs(q, D!CATALOG[i]) = Cardinality(Siens(i)) /\ IsFiniteSet(Siens(i)) /\ Cardinality(Siens(i)) \in Nat
        /\ D!Cardinality(D!CATALOG[i].termes) = Cardinality(D!CATALOG[i].termes)
    BY CommunsDe
  <2>6. /\ D!Communs(q, D!CATALOG[k]) = Cardinality(Siens(k)) /\ Cardinality(Siens(k)) \in Nat
        /\ D!Cardinality(D!CATALOG[k].termes) = Cardinality(D!CATALOG[k].termes)
    BY CommunsDe
  <2>7. D!CATALOG[k].termes \cap q.mots = Siens(k)
    OBVIOUS
  <2> HIDE DEF Siens
  <2>8. Cardinality(Siens(k)) = Cardinality(Siens(i))
    <3>1. Cardinality(Siens(k)) <= Cardinality(Siens(i))
      BY <2>4, <2>5, FS_Subset
    <3>2. ~(Cardinality(Siens(i)) > Cardinality(Siens(k)))
      BY <2>3, <2>5, <2>6 DEF D!MieuxPlace
    <3> QED BY <2>5, <2>6, <3>1, <3>2
  <2>9. Siens(i) = Siens(k)
    BY <2>4, <2>5, <2>8, FS_Subset
  <2>10. D!CATALOG[i].libelle \subseteq D!CATALOG[k].termes
    BY <2>1, <2>7, <2>9
  <2>11. Cardinality(D!CATALOG[i].termes) < Cardinality(D!CATALOG[k].termes)
    BY <2>3, <2>10, PlusDeMots
  <2> QED BY <2>3, <2>5, <2>6, <2>8, <2>11 DEF D!MieuxPlace
<1> QED BY <1>1, <1>2, QuestionDe

\* Nothing is answered that the question and the catalogue do not found.
LEMMA RienQueDeFonde ==
  ASSUME NEW q \in D!Questions
  PROVE  /\ D!Resoudre(q) # Neant <=> q.mots \cap D!Vocabulaire # {} \/ q.cles # {}
         /\ D!Resoudre(q) # Neant => D!Resoudre(q).cle \in q.cles \/ q.mots \cap D!Resoudre(q).termes # {}
<1>1. \A k \in 1..51 : D!CATALOG[k] # Neant
  BY Constantes, CatalogueEntier DEF D!CatalogueConstantes
<1>2. q.mots \cap D!Vocabulaire # {} <=> \E j \in 1..51 : q.mots \cap D!CATALOG[j].termes # {}
  BY CatalogueEntier DEF D!Vocabulaire
<1>3. CASE q.cles # {}
  BY <1>1, <1>3, QuestionDe, Resolution
<1>4. CASE q.cles = {}
  <2>1. CASE D!Resoudre(q) = Neant
    <3>1. \A j \in 1..51 : q.mots \cap D!CATALOG[j].termes = {}
      BY <1>1, <1>4, <2>1, QuestionDe, Resolution
    <3> QED BY <1>2, <1>4, <2>1, <3>1
  <2>2. CASE D!Resoudre(q) # Neant
    <3>1. PICK k \in 1..51 : D!Resoudre(q) = D!CATALOG[k] /\ q.mots \cap D!CATALOG[k].termes # {}
      BY <1>4, <2>2, QuestionDe, Resolution
    <3> QED BY <1>2, <2>2, <3>1
  <2> QED BY <2>1, <2>2
<1> QED BY <1>3, <1>4

QuestionsLues ==
  part = "catalogue" =>
    x1 = Neant \/ (x1 \in D!Questions /\ x2 = [page |-> D!Interroger(x1), copilote |-> D!Repondre(x1, D!LieesRh)])

\* Nothing is ever answered but one of the questions, as the code answers it.
LEMMA QuestionsLuesInv == PlateformeSpec => []QuestionsLues
<1>1. PlateformeInit => QuestionsLues
  BY DEF PlateformeInit, QuestionsLues, D!Init
<1>2. QuestionsLues /\ [PlateformeNext]_plateforme => QuestionsLues'
  <2> SUFFICES ASSUME QuestionsLues, [PlateformeNext]_plateforme, part' = "catalogue" PROVE QuestionsLues'
    BY DEF QuestionsLues
  <2>1. part = "catalogue" /\ (D!Next \/ UNCHANGED registers)
    BY PartFixe DEF PlateformeNext, plateforme
  <2>2. CASE D!Next
    <3>1. x1' \in D!Questions /\ x2' = [page |-> D!Interroger(x1'), copilote |-> D!Repondre(x1', D!LieesRh)]
      BY <2>2, Zenon DEF D!Next
    <3> QED BY <3>1 DEF QuestionsLues
  <2>3. CASE UNCHANGED registers
    BY <2>1, <2>3 DEF QuestionsLues, registers
  <2> QED BY <2>1, <2>2, <2>3
<1> QED BY <1>1, <1>2, PTL DEF PlateformeSpec

\* A metric is found by its name or its key, whatever word is said besides, unless that word is of the metric found; an answer
\* is founded on a word or a key of the question, the same on both pages, and quotes the figure of the metric found or none.
THEOREM AnswersAreFounded == PlateformeSpec => []QuestionFondee
<1>1. QuestionsLues => QuestionFondee
  <2> SUFFICES ASSUME part = "catalogue", x1 # Neant, x1 \in D!Questions,
                      x2 = [page |-> D!Interroger(x1), copilote |-> D!Repondre(x1, D!LieesRh)]
      PROVE  D!NomSuffit /\ D!RienInvente
    BY DEF QuestionsLues, QuestionFondee, D!NomSuffit, D!RienInvente
  <2> DEFINE r == D!Repondre(x1, D!LieesRh)
             p == D!Repondre(x1, D!AucuneLiee)
             m == D!Resoudre(x1)
  <2>1. r.mesure = m /\ (r.fondee <=> m # Neant) /\ (r.valeur # D!ND => m.cle \in D!LieesRh)
    BY ReponseDe
  <2>2. p.mesure = m /\ p.valeur = D!ND
    BY ReponseDe DEF D!AucuneLiee
  <2>3. x2.copilote = r /\ x2.page = D!Interroger(x1)
    OBVIOUS
  <2>4. x2.page.code = 200 => x2.page.corps = p
    BY <2>3 DEF D!Interroger
  <2> HIDE DEF r, p, m
  <2>5. D!NomSuffit
    BY <2>1, <2>3, TrouveParSonNom DEF D!NomSuffit, m
  <2>6. D!RienInvente
    BY <2>1, <2>2, <2>3, <2>4, RienQueDeFonde DEF D!RienInvente, m
  <2> QED BY <2>5, <2>6
<1> QED BY QuestionsLuesInv, <1>1, PTL

-----------------------------------------------------------------------------
(* The browser's session: x1 is the storage, x2 the renewal in flight, x3  *)
(* the calls, x4 the cache, x5 the answers about to be stored, x6 the      *)
(* purge, x7 the accounts let in, x8 who is connected, x10 the marks.      *)
Attendus == [etape : {"oisif", "connexion", "envoye", "attend", "rejoue"}, jeton : N!Jetons, profil : BOOLEAN]
Stockages == [acces : N!Jetons, refresh : Titulaires \cup {Neant}, profil : Titulaires \cup {Neant}]
MarquesTypees == x10 \in [renouvellement : BOOLEAN, reponse : BOOLEAN, tort : BOOLEAN]
NavigateurTypes == N!TypeOK /\ MarquesTypees

\* Unless a renewal was in flight when somebody logged in or out: the tokens, and the renewal in flight, are those
\* of who is connected.
AuConnecte ==
  ~x10.renouvellement =>
    /\ x2 \in {Neant, x8}
    /\ x1.acces # Neant => x1.acces.compte = x8
    /\ x1.refresh # Neant => x1.refresh = x8
\* Unless an answer was too: so are the calls, what they brought back, and what the tab keeps of it.
DuConnecte ==
  ~x10.renouvellement /\ ~x10.reponse =>
    /\ \A a \in Equipe : x3[a].jeton # Neant => x3[a].jeton.compte = x8
    /\ x5 \subseteq {x8}
    /\ x6 = "non" => x4 \in {Neant, x8}
    /\ x1.profil \in {Neant, x8}
\* An open session has a refresh token; a call played again has a token that is not expired.
Renouvelable == x8 # Neant => x1.refresh # Neant
Rejoues == \A a \in Equipe : x3[a].etape = "rejoue" => x3[a].jeton # Neant /\ x3[a].jeton.vif

NavigateurIInv == NavigateurTypes /\ AuConnecte /\ DuConnecte /\ Renouvelable /\ Rejoues /\ N!JamaisATort

\* The types of the browser, register by register.
LEMMA Typee ==
  N!TypeOK <=> /\ x1 \in Stockages /\ x2 \in Titulaires \cup {Neant} /\ x3 \in [Equipe -> Attendus]
               /\ x4 \in Titulaires \cup {Neant} /\ x5 \subseteq Titulaires
               /\ x6 \in {"non", "simple", "puis recharge"} /\ x7 \subseteq Titulaires
               /\ x8 \in Titulaires \cup {Neant} /\ x9 \in 0..MaxConnexions
BY DEF N!TypeOK, Stockages, Attendus

\* The tokens, and what a call and the storage may become.
LEMMA Jetons ==
  /\ Neant \in N!Jetons /\ N!Oisif \in Attendus /\ N!Vide \in Stockages
  /\ \A c \in Titulaires : N!Jeton(c) \in N!Jetons /\ N!Jeton(c).compte = c /\ N!Jeton(c).vif
<1>1. Neant \in N!Jetons
  BY DEF N!Jetons
<1>2. ASSUME NEW c \in Titulaires PROVE N!Jeton(c) \in N!Jetons /\ N!Jeton(c).compte = c /\ N!Jeton(c).vif
  BY DEF N!Jeton, N!Jetons
<1>3. N!Oisif \in Attendus
  BY <1>1 DEF N!Oisif, Attendus
<1>4. N!Vide \in Stockages
  BY <1>1 DEF N!Vide, Stockages
<1> QED BY <1>1, <1>2, <1>3, <1>4

\* A token that has expired is the same account's.
LEMMA Perimes ==
  ASSUME N!NavigateurConstantes, NEW j \in N!Jetons, j # Neant
  PROVE  LET p == [j EXCEPT !.vif = FALSE] IN p \in N!Jetons /\ p # Neant /\ p.compte = j.compte
BY DEF N!Jetons, N!NavigateurConstantes

\* A profile stored changes nothing else of the storage,
LEMMA ProfilRange ==
  ASSUME NEW s \in Stockages, NEW c \in Titulaires, NEW t, t = [s EXCEPT !.profil = c]
  PROVE  t \in Stockages /\ t.acces = s.acces /\ t.refresh = s.refresh /\ t.profil = c
BY DEF Stockages

\* ... nor does an access token.
LEMMA AccesRange ==
  ASSUME NEW s \in Stockages, NEW j \in N!Jetons, NEW t, t = [s EXCEPT !.acces = j]
  PROVE  t \in Stockages /\ t.acces = j /\ t.refresh = s.refresh /\ t.profil = s.profil
BY DEF Stockages

\* A token replaced changes nothing else of a request,
LEMMA Remplace ==
  ASSUME NEW q \in Attendus, NEW j \in N!Jetons, NEW r, r = [q EXCEPT !.jeton = j]
  PROVE  r \in Attendus /\ r.etape = q.etape /\ r.jeton = j
BY DEF Attendus

\* ... nor does its waiting.
LEMMA EnAttente ==
  ASSUME NEW q \in Attendus, NEW r, r = [q EXCEPT !.etape = "attend"]
  PROVE  r \in Attendus /\ r.etape = "attend" /\ r.jeton = q.jeton
BY DEF Attendus

\* Somebody logs in or out.
LEMMA Croisement ==
  ASSUME NEW t \in BOOLEAN, MarquesTypees, x10' = N!Croise(t)
  PROVE  /\ MarquesTypees'
         /\ ~x10'.renouvellement => ~x10.renouvellement /\ x2' = Neant
         /\ ~x10'.reponse => ~x10.reponse /\ x5 = {} /\ \A a \in Equipe : x3[a] = N!Oisif \/ x3'[a] = N!Oisif
         /\ x10'.tort => x10.tort \/ t
         /\ x10.renouvellement => x10'.renouvellement
         /\ x10.reponse => x10'.reponse
<1>1. /\ x10'.renouvellement = (x10.renouvellement \/ x2' # Neant)
      /\ x10'.reponse = (x10.reponse \/ x5 # {} \/ \E a \in Equipe : x3[a] # N!Oisif /\ x3'[a] # N!Oisif)
      /\ x10'.tort = (x10.tort \/ t)
  BY Zenon DEF N!Croise
<1>2. MarquesTypees'
  <2>1. \A e, f, g \in BOOLEAN :
          [renouvellement |-> e, reponse |-> f, tort |-> g]
            \in [renouvellement : BOOLEAN, reponse : BOOLEAN, tort : BOOLEAN]
    OBVIOUS
  <2>2. /\ (x10.renouvellement \/ x2' # Neant) \in BOOLEAN
        /\ (x10.reponse \/ x5 # {} \/ \E a \in Equipe : x3[a] # N!Oisif /\ x3'[a] # N!Oisif) \in BOOLEAN
        /\ (x10.tort \/ t) \in BOOLEAN
    OBVIOUS
  <2> QED BY <2>1, <2>2, Zenon DEF N!Croise, MarquesTypees
<1>3. (x10.renouvellement \in BOOLEAN) /\ (x10.reponse \in BOOLEAN) /\ (x10.tort \in BOOLEAN)
  BY DEF MarquesTypees
<1> QED BY <1>1, <1>2, <1>3

\* A session is closed: nothing of it is left in the storage, and the caches are to be emptied.
LEMMA Fermeture ==
  ASSUME N!NavigateurConstantes, NavigateurIInv, NEW t \in BOOLEAN,
         x1' = N!Effacer, x8' = Neant, x10' = N!Croise(t), UNCHANGED <<x4, x5, x7, x9>>,
         x6' \in {"simple", "puis recharge"}, x2' \in Titulaires \cup {Neant}, x3' \in [Equipe -> Attendus],
         \A a \in Equipe : x3'[a] = x3[a] \/ x3'[a] = N!Oisif,
         t => x10.renouvellement \/ x10.reponse
  PROVE  NavigateurIInv'
<1>1. /\ MarquesTypees'
      /\ ~x10'.renouvellement => ~x10.renouvellement /\ x2' = Neant
      /\ ~x10'.reponse => ~x10.reponse /\ x5 = {} /\ \A a \in Equipe : x3[a] = N!Oisif \/ x3'[a] = N!Oisif
      /\ x10'.tort => x10.tort \/ t
      /\ x10.renouvellement => x10'.renouvellement
      /\ x10.reponse => x10'.reponse
  BY Croisement DEF NavigateurIInv, NavigateurTypes
<1>2. x1' \in Stockages /\ x1'.acces = Neant /\ x1'.refresh = Neant /\ x1'.profil = Neant
  BY Jetons DEF N!Effacer, N!Vide
<1>3. NavigateurTypes'
  <2>1. N!TypeOK
    BY DEF NavigateurIInv, NavigateurTypes
  <2>2. /\ x4' \in Titulaires \cup {Neant} /\ x5' \subseteq Titulaires /\ x7' \subseteq Titulaires
        /\ x9' \in 0..MaxConnexions /\ x6' \in {"non", "simple", "puis recharge"} /\ x8' \in Titulaires \cup {Neant}
    BY <2>1, Typee
  <2>3. N!TypeOK'
    BY <1>2, <2>2 DEF N!TypeOK, Stockages, Attendus
  <2> QED BY <1>1, <2>3 DEF NavigateurTypes
<1>4. AuConnecte'
  BY <1>1, <1>2 DEF AuConnecte
<1>0. N!Oisif.jeton = Neant /\ N!Oisif.etape = "oisif"
  BY DEF N!Oisif
<1>5. DuConnecte'
  BY <1>0, <1>1, <1>2 DEF DuConnecte
<1>6. Renouvelable' /\ Rejoues'
  BY <1>0, <1>2 DEF NavigateurIInv, Renouvelable, Rejoues
<1>7. N!JamaisATort'
  BY <1>1 DEF NavigateurIInv, N!JamaisATort
<1> QED BY <1>3, <1>4, <1>5, <1>6, <1>7 DEF NavigateurIInv

\* The session stays who it is: what changes is in the storage, the renewal, the calls and their answers.
LEMMA MemeSession ==
  ASSUME NavigateurIInv, N!Laisser,
         x1' \in Stockages, x2' \in Titulaires \cup {Neant}, x3' \in [Equipe -> Attendus], x5' \subseteq Titulaires,
         ~x10.renouvellement =>
           /\ x2' \in {Neant, x8}
           /\ x1'.acces # Neant => x1'.acces.compte = x8
           /\ x1'.refresh # Neant => x1'.refresh = x8,
         ~x10.renouvellement /\ ~x10.reponse =>
           /\ \A a \in Equipe : x3'[a].jeton # Neant => x3'[a].jeton.compte = x8
           /\ x5' \subseteq {x8}
           /\ x1'.profil \in {Neant, x8},
         x1.refresh # Neant => x1'.refresh # Neant,
         \A a \in Equipe : x3'[a].etape = "rejoue" => x3'[a].jeton # Neant /\ x3'[a].jeton.vif
  PROVE  NavigateurIInv'
<1>0. UNCHANGED <<x4, x6, x7, x8, x9, x10>>
  BY DEF N!Laisser
<1>1. NavigateurTypes'
  <2>1. N!TypeOK /\ MarquesTypees
    BY DEF NavigateurIInv, NavigateurTypes
  <2>2. N!TypeOK'
    BY <1>0, <2>1 DEF N!TypeOK, Stockages, Attendus
  <2> QED BY <1>0, <2>1, <2>2 DEF NavigateurTypes, MarquesTypees
<1>2. AuConnecte'
  BY <1>0 DEF AuConnecte
<1>3. DuConnecte'
  BY <1>0 DEF NavigateurIInv, DuConnecte
<1>4. Renouvelable' /\ Rejoues'
  BY <1>0 DEF NavigateurIInv, Renouvelable, Rejoues
<1>5. N!JamaisATort'
  BY <1>0 DEF NavigateurIInv, N!JamaisATort
<1> QED BY <1>1, <1>2, <1>3, <1>4, <1>5 DEF NavigateurIInv

\* Every step of the browser keeps its inductive invariant.
LEMMA NavigateurPas ==
  ASSUME N!NavigateurConstantes, NavigateurIInv, N!Next \/ UNCHANGED registers
  PROVE  NavigateurIInv'
<1>0. /\ x1 \in Stockages /\ x2 \in Titulaires \cup {Neant} /\ x3 \in [Equipe -> Attendus]
      /\ x4 \in Titulaires \cup {Neant} /\ x5 \subseteq Titulaires /\ x8 \in Titulaires \cup {Neant}
      /\ x9 \in 0..MaxConnexions /\ x6 \in {"non", "simple", "puis recharge"} /\ x7 \subseteq Titulaires
      /\ MarquesTypees /\ AuConnecte /\ DuConnecte /\ Renouvelable /\ Rejoues /\ N!JamaisATort /\ N!TypeOK
  BY Typee DEF NavigateurIInv, NavigateurTypes
<1>a. \A a \in Equipe : x3[a] \in Attendus /\ x3[a].jeton \in N!Jetons
  BY <1>0 DEF Attendus
<1>b. x1.acces \in N!Jetons /\ x1.refresh \in Titulaires \cup {Neant} /\ x1.profil \in Titulaires \cup {Neant}
  BY <1>0 DEF Stockages
<1>d. MaxConnexions \in Nat /\ Neant \notin Titulaires /\ Neant \notin [compte : Titulaires, vif : BOOLEAN]
  BY Zenon DEF N!NavigateurConstantes
<1>c. N!Oisif \in Attendus /\ N!Oisif.etape = "oisif" /\ N!Oisif.jeton = Neant
  BY Jetons DEF N!Oisif
<1>1. CASE N!Deconnexion
  <2>1. /\ UNCHANGED <<x2, x3, x4, x5, x7, x9>> /\ x1' = N!Effacer /\ x8' = Neant /\ x10' = N!Croise(FALSE)
        /\ x6' \in {"simple", "puis recharge"}
    BY <1>0, <1>1 DEF N!Deconnexion, N!Effacement
  <2> QED BY <1>0, <2>1, Fermeture
<1>2. ASSUME NEW a \in Equipe, NEW c \in Titulaires, N!Connexion(a, c) PROVE NavigateurIInv'
  <2> DEFINE r == [etape |-> "connexion", jeton |-> N!Jeton(c), profil |-> TRUE]
  <2>1. /\ x8 = Neant /\ x9 < MaxConnexions /\ x3[a] = N!Oisif /\ UNCHANGED <<x2, x4, x5, x6, x7>>
        /\ x1' = [x1 EXCEPT !.acces = N!Jeton(c), !.refresh = c] /\ x3' = [x3 EXCEPT ![a] = r]
        /\ x8' = c /\ x9' = x9 + 1 /\ x10' = N!Croise(FALSE)
    BY <1>2 DEF N!Connexion
  <2>2. /\ MarquesTypees'
        /\ ~x10'.renouvellement => ~x10.renouvellement /\ x2' = Neant
        /\ ~x10'.reponse => ~x10.reponse /\ x5 = {} /\ \A b \in Equipe : x3[b] = N!Oisif \/ x3'[b] = N!Oisif
        /\ x10'.tort => x10.tort
        /\ x10.renouvellement => x10'.renouvellement
        /\ x10.reponse => x10'.reponse
    BY <1>0, <2>1, Croisement
  <2>3. N!Jeton(c) \in N!Jetons /\ N!Jeton(c).compte = c /\ c # Neant
    BY <1>d, Jetons
  <2>4. x1' \in Stockages /\ x1'.acces = N!Jeton(c) /\ x1'.refresh = c /\ x1'.profil = x1.profil
    BY <1>0, <2>1, <2>3 DEF Stockages
  <2>5. r \in Attendus /\ r.etape = "connexion" /\ r.jeton = N!Jeton(c)
    BY <2>3 DEF Attendus
  <2> HIDE DEF r
  <2>6. x3' \in [Equipe -> Attendus] /\ \A b \in Equipe : x3'[b] = IF b = a THEN r ELSE x3[b]
    BY <1>0, <2>1, <2>5
  <2>7. NavigateurTypes'
    <3>1. x9' \in 0..MaxConnexions
      <4>1. x9 < MaxConnexions /\ x9' = x9 + 1
        BY <2>1, Zenon
      <4>2. x9 \in 0..MaxConnexions /\ MaxConnexions \in Nat
        BY <1>0, <1>d, Zenon
      <4> QED BY <4>1, <4>2
    <3>2. N!TypeOK'
      BY <1>0, <2>1, <2>4, <2>6, <3>1 DEF N!TypeOK, Stockages, Attendus
    <3> QED BY <2>2, <3>2 DEF NavigateurTypes
  <2>8. AuConnecte'
    BY <2>1, <2>2, <2>3, <2>4 DEF AuConnecte
  <2>9. DuConnecte'
    BY <1>0, <1>c, <2>1, <2>2, <2>3, <2>4, <2>5, <2>6 DEF DuConnecte
  <2>10. Renouvelable' /\ Rejoues'
    BY <1>0, <2>1, <2>3, <2>4, <2>5, <2>6 DEF Renouvelable, Rejoues
  <2>11. N!JamaisATort'
    BY <1>0, <2>2 DEF N!JamaisATort
  <2> QED BY <2>7, <2>8, <2>9, <2>10, <2>11 DEF NavigateurIInv
<1>3. CASE N!Purger
  <2>1. /\ UNCHANGED <<x1, x5, x7, x8, x9, x10>> /\ x4' = Neant /\ x6' = "non" /\ x2' \in {x2, Neant}
        /\ x3' = x3 \/ x3' = [a \in Equipe |-> N!Oisif]
    BY <1>3 DEF N!Purger
  <2>2. x3' \in [Equipe -> Attendus] /\ \A a \in Equipe : x3'[a] = x3[a] \/ x3'[a] = N!Oisif
    BY <1>0, <1>c, <2>1
  <2>3. NavigateurTypes'
    <3>1. N!TypeOK'
      BY <1>0, <2>1, <2>2 DEF N!TypeOK, Stockages, Attendus
    <3> QED BY <1>0, <2>1, <3>1 DEF NavigateurTypes, MarquesTypees
  <2>4. AuConnecte'
    BY <1>0, <2>1 DEF AuConnecte
  <2>5. DuConnecte'
    BY <1>0, <1>c, <2>1, <2>2 DEF DuConnecte
  <2>6. Renouvelable' /\ Rejoues'
    BY <1>0, <1>c, <2>1, <2>2 DEF Renouvelable, Rejoues
  <2>7. N!JamaisATort'
    BY <1>0, <2>1 DEF N!JamaisATort
  <2> QED BY <2>3, <2>4, <2>5, <2>6, <2>7 DEF NavigateurIInv
<1>4. ASSUME NEW a \in Equipe, NEW p \in BOOLEAN, N!Envoyer(a, p) PROVE NavigateurIInv'
  <2> DEFINE r == [etape |-> "envoye", jeton |-> x1.acces, profil |-> p]
  <2>1. x1.acces # Neant /\ x3' = [x3 EXCEPT ![a] = r] /\ UNCHANGED <<x1, x2, x5>> /\ N!Laisser
    BY <1>4 DEF N!Envoyer
  <2>2. r \in Attendus /\ r.etape = "envoye" /\ r.jeton = x1.acces
    BY <1>b DEF Attendus
  <2> HIDE DEF r
  <2>3. x3' \in [Equipe -> Attendus] /\ \A b \in Equipe : x3'[b] = IF b = a THEN r ELSE x3[b]
    BY <1>0, <2>1, <2>2
  <2> QED BY <1>0, <2>1, <2>2, <2>3, MemeSession DEF AuConnecte, DuConnecte, Rejoues
<1>5. ASSUME NEW a \in Equipe, N!Reussir(a) PROVE NavigateurIInv'
  <2> DEFINE c == x3[a].jeton.compte
  <2>1. /\ x3[a].jeton # Neant /\ x3' = [x3 EXCEPT ![a] = N!Oisif] /\ UNCHANGED x2 /\ N!Laisser
        /\ \/ x1' = [x1 EXCEPT !.profil = c] /\ UNCHANGED x5
           \/ x5' = x5 \cup {c} /\ UNCHANGED x1
    BY <1>5 DEF N!Reussir, N!Accepte, N!Rendre
  <2>2. c \in Titulaires
    BY <1>a, <2>1 DEF N!Jetons
  <2>3. ~x10.renouvellement /\ ~x10.reponse => c = x8
    BY <1>0, <2>1 DEF DuConnecte
  <2> HIDE DEF c
  <2>4. x3' \in [Equipe -> Attendus] /\ \A b \in Equipe : x3'[b] = x3[b] \/ x3'[b] = N!Oisif
    BY <1>0, <1>c, <2>1
  <2>5. /\ x1' \in Stockages /\ x1'.acces = x1.acces /\ x1'.refresh = x1.refresh
        /\ x1'.profil = x1.profil \/ x1'.profil = c
    <3>1. CASE x1' = [x1 EXCEPT !.profil = c]
      BY <1>0, <2>2, <3>1, ProfilRange
    <3>2. CASE UNCHANGED x1
      BY <1>0, <3>2
    <3> QED BY <2>1, <3>1, <3>2
  <2>6. x5' \subseteq x5 \cup {c}
    BY <2>1
  <2> QED BY <1>0, <1>c, <2>1, <2>2, <2>3, <2>4, <2>5, <2>6, MemeSession DEF AuConnecte, DuConnecte, Rejoues
<1>6. ASSUME NEW a \in Equipe, N!SansReseau(a) PROVE NavigateurIInv'
  <2>1. x3' = [x3 EXCEPT ![a] = N!Oisif] /\ UNCHANGED <<x1, x2, x5>> /\ N!Laisser
    BY <1>6 DEF N!SansReseau, N!Rendre
  <2>2. x3' \in [Equipe -> Attendus] /\ \A b \in Equipe : x3'[b] = x3[b] \/ x3'[b] = N!Oisif
    BY <1>0, <1>c, <2>1
  <2> QED BY <1>0, <1>c, <2>1, <2>2, MemeSession DEF AuConnecte, DuConnecte, Rejoues
<1>7. ASSUME NEW a \in Equipe, N!Refuse(a) PROVE NavigateurIInv'
  <2>1. CASE /\ x2 # Neant \/ x1.refresh # Neant
             /\ x2' = IF x2 # Neant THEN x2 ELSE x1.refresh
             /\ x3' = [x3 EXCEPT ![a].etape = "attend"]
             /\ UNCHANGED <<x1, x5>> /\ N!Laisser
    <3> DEFINE r == [x3[a] EXCEPT !.etape = "attend"]
    <3>1. r \in Attendus /\ r.etape = "attend" /\ r.jeton = x3[a].jeton /\ x3' = [x3 EXCEPT ![a] = r]
      BY <1>a, <2>1, EnAttente
    <3> HIDE DEF r
    <3>2. x3' \in [Equipe -> Attendus] /\ \A b \in Equipe : x3'[b] = IF b = a THEN r ELSE x3[b]
      BY <1>0, <3>1
    <3>3. x2' \in Titulaires \cup {Neant} /\ (~x10.renouvellement => x2' \in {Neant, x8})
      BY <1>0, <1>b, <2>1 DEF AuConnecte
    <3> QED BY <1>0, <2>1, <3>1, <3>2, <3>3, MemeSession DEF AuConnecte, DuConnecte, Rejoues
  <2>2. CASE x2 = Neant /\ x1.refresh = Neant /\ N!Rendre(a) /\ UNCHANGED x2 /\ N!Fermer
    <3>1. x8 = Neant
      BY <1>0, <2>2 DEF Renouvelable
    <3>2. /\ x1' = N!Effacer /\ x8' = Neant /\ x6' \in {"simple", "puis recharge"} /\ UNCHANGED <<x4, x5, x7, x9>>
          /\ x10' = N!Croise(x8 # Neant /\ x8 \in x7)
      BY <1>0, <2>2 DEF N!Fermer, N!Effacement
    <3>3. x10' = N!Croise(FALSE)
      BY <3>1, <3>2
    <3>4. /\ x3' \in [Equipe -> Attendus] /\ \A b \in Equipe : x3'[b] = x3[b] \/ x3'[b] = N!Oisif
          /\ x2' \in Titulaires \cup {Neant}
      BY <1>0, <1>c, <2>2 DEF N!Rendre
    <3> QED BY <1>c, <3>2, <3>3, <3>4, Fermeture
  <2> QED BY <1>7, <2>1, <2>2 DEF N!Refuse
<1>8. ASSUME NEW a \in Equipe, N!RefuseEncore(a) PROVE NavigateurIInv'
  <2> DEFINE t == x8 # Neant /\ x8 \in x7
  <2>1. /\ x1' = N!Effacer /\ x8' = Neant /\ x6' \in {"simple", "puis recharge"}
        /\ UNCHANGED <<x2, x4, x5, x7, x9>>
        /\ x10' = N!Croise(t) /\ x3' = [x3 EXCEPT ![a] = N!Oisif]
        /\ x3[a].etape = "rejoue" /\ ~N!Accepte(x3[a].jeton)
    BY <1>0, <1>8 DEF N!RefuseEncore, N!Fermer, N!Effacement, N!Rendre
  <2>2. x3[a].jeton # Neant /\ x3[a].jeton.vif /\ x3[a].jeton.compte \notin x7
    BY <1>0, <2>1 DEF Rejoues, N!Accepte
  <2>3. t => x10.renouvellement \/ x10.reponse
    BY <1>0, <2>2 DEF DuConnecte
  <2>4. x3' \in [Equipe -> Attendus] /\ \A b \in Equipe : x3'[b] = x3[b] \/ x3'[b] = N!Oisif
    BY <1>0, <1>c, <2>1
  <2>5. t \in BOOLEAN
    OBVIOUS
  <2> HIDE DEF t
  <2> QED BY <1>0, <1>c, <2>1, <2>3, <2>4, <2>5, Fermeture
<1>9. CASE N!Anticiper
  <2>1. x2' = x1.refresh /\ UNCHANGED <<x1, x3, x5>> /\ N!Laisser
    BY <1>9 DEF N!Anticiper
  <2>2. x2' \in Titulaires \cup {Neant} /\ (~x10.renouvellement => x2' \in {Neant, x8})
    BY <1>0, <1>b, <2>1 DEF AuConnecte
  <2> QED BY <1>0, <2>1, <2>2, MemeSession DEF AuConnecte, DuConnecte, Rejoues
<1>10. CASE N!Renouvele
  <2> DEFINE j == N!Jeton(x2)
             f(a) == IF x3[a].etape = "attend" THEN [x3[a] EXCEPT !.etape = "rejoue", !.jeton = j] ELSE x3[a]
  <2>1. /\ x2 # Neant /\ x1' = [x1 EXCEPT !.acces = j, !.refresh = x2] /\ x2' = Neant
        /\ x3' = [a \in Equipe |-> f(a)] /\ UNCHANGED x5 /\ N!Laisser
    BY <1>10 DEF N!Renouvele, N!Reprendre
  <2>2. /\ x2 \in Titulaires /\ j \in N!Jetons /\ j.compte = x2 /\ j.vif /\ j # Neant
        /\ ~x10.renouvellement => x2 = x8
    <3>1. x2 \in Titulaires /\ (~x10.renouvellement => x2 = x8)
      BY <1>0, <2>1 DEF AuConnecte
    <3>2. j # Neant
      <4>1. j \in [compte : Titulaires, vif : BOOLEAN]
        BY <3>1 DEF N!Jeton
      <4> QED BY <1>d, <4>1, Zenon
    <3> QED BY <3>1, <3>2, Jetons
  <2> HIDE DEF j
  <2>3. /\ x1' \in Stockages /\ x1'.acces = j /\ x1'.refresh = x2 /\ x1'.profil = x1.profil
    BY <1>0, <2>1, <2>2 DEF Stockages
  <2>4. ASSUME NEW a \in Equipe PROVE f(a) \in Attendus /\ (f(a) = x3[a] \/ f(a).jeton = j)
    <3>1. [x3[a] EXCEPT !.etape = "rejoue", !.jeton = j] \in Attendus
          /\ [x3[a] EXCEPT !.etape = "rejoue", !.jeton = j].jeton = j
      BY <1>a, <2>2 DEF Attendus
    <3> QED BY <1>a, <3>1
  <2> HIDE DEF f
  <2>5. x3' \in [Equipe -> Attendus] /\ \A a \in Equipe : x3'[a] = x3[a] \/ x3'[a].jeton = j
    BY <2>1, <2>4
  <2> QED BY <1>0, <2>1, <2>2, <2>3, <2>5, MemeSession DEF AuConnecte, DuConnecte, Rejoues
<1>11. CASE N!RenouvellementRefuse
  <2> DEFINE t == x8 # Neant /\ x8 \in x7
  <2>1. /\ x1' = N!Effacer /\ x8' = Neant /\ x6' \in {"simple", "puis recharge"}
        /\ UNCHANGED <<x4, x5, x7, x9>> /\ x10' = N!Croise(t) /\ x2' = Neant /\ x2 # Neant /\ x2 \notin x7
        /\ x3' = [a \in Equipe |-> IF x3[a].etape = "attend" THEN N!Oisif ELSE x3[a]]
    BY <1>0, <1>11 DEF N!RenouvellementRefuse, N!Fermer, N!Effacement, N!Abandonner
  <2>2. t => x10.renouvellement \/ x10.reponse
    BY <1>0, <2>1 DEF AuConnecte
  <2>3. x3' \in [Equipe -> Attendus] /\ \A b \in Equipe : x3'[b] = x3[b] \/ x3'[b] = N!Oisif
    BY <1>0, <1>c, <2>1
  <2>4. t \in BOOLEAN
    OBVIOUS
  <2> HIDE DEF t
  <2> QED BY <1>c, <2>1, <2>2, <2>3, <2>4, Fermeture
<1>12. CASE N!RenouvellementSansReponse
  <2>1. /\ x2' = Neant /\ UNCHANGED <<x1, x5>> /\ N!Laisser
        /\ x3' = [a \in Equipe |-> IF x3[a].etape = "attend" THEN N!Oisif ELSE x3[a]]
    BY <1>12 DEF N!RenouvellementSansReponse, N!Abandonner
  <2>2. x3' \in [Equipe -> Attendus] /\ \A b \in Equipe : x3'[b] = x3[b] \/ x3'[b] = N!Oisif
    BY <1>0, <1>c, <2>1
  <2> QED BY <1>0, <1>c, <2>1, <2>2, MemeSession DEF AuConnecte, DuConnecte, Rejoues
<1>13. ASSUME NEW c \in Titulaires, N!Ranger(c) PROVE NavigateurIInv'
  <2>1. c \in x5 /\ x5' = x5 \ {c} /\ x4' = c /\ UNCHANGED <<x1, x2, x3, x6, x7, x8, x9, x10>>
    BY <1>13 DEF N!Ranger
  <2>2. NavigateurTypes'
    <3>1. N!TypeOK'
      BY <1>0, <2>1 DEF N!TypeOK, Stockages, Attendus
    <3> QED BY <1>0, <2>1, <3>1 DEF NavigateurTypes, MarquesTypees
  <2>3. AuConnecte' /\ Renouvelable' /\ Rejoues' /\ N!JamaisATort'
    BY <1>0, <2>1 DEF AuConnecte, Renouvelable, Rejoues, N!JamaisATort
  <2>4. DuConnecte'
    BY <1>0, <2>1 DEF DuConnecte
  <2> QED BY <2>2, <2>3, <2>4 DEF NavigateurIInv
<1>14. CASE N!Expirer
  <2> DEFINE j == [x1.acces EXCEPT !.vif = FALSE]
             p(a) == [x3[a].jeton EXCEPT !.vif = FALSE]
             f(a) == IF x3[a].jeton = Neant THEN x3[a] ELSE [x3[a] EXCEPT !.jeton = p(a)]
  <2>1. /\ x1.acces # Neant /\ \A a \in Equipe : x3[a].etape # "rejoue"
        /\ x1' = [x1 EXCEPT !.acces = j] /\ x3' = [a \in Equipe |-> f(a)]
        /\ UNCHANGED <<x2, x5>> /\ N!Laisser
    <3>1. x3' = [a \in Equipe |-> IF x3[a].jeton = Neant THEN x3[a] ELSE [x3[a] EXCEPT !.jeton.vif = FALSE]]
      BY <1>14 DEF N!Expirer
    <3>2. \A a \in Equipe : [x3[a] EXCEPT !.jeton.vif = FALSE] = [x3[a] EXCEPT !.jeton = p(a)]
      BY <1>a
    <3> QED BY <1>14, <1>b, <3>1, <3>2 DEF N!Expirer
  <2>2. j \in N!Jetons /\ j # Neant /\ j.compte = x1.acces.compte
    BY <1>b, <2>1, Perimes
  <2>3. ASSUME NEW a \in Equipe, x3[a].jeton # Neant
        PROVE  p(a) \in N!Jetons /\ p(a) # Neant /\ p(a).compte = x3[a].jeton.compte
    BY <1>a, <2>3, Perimes
  <2> HIDE DEF j, p
  <2>4. x1' \in Stockages /\ x1'.acces = j /\ x1'.refresh = x1.refresh /\ x1'.profil = x1.profil
    BY <1>0, <2>1, <2>2, AccesRange
  <2>5. ASSUME NEW a \in Equipe
        PROVE  /\ f(a) \in Attendus /\ f(a).etape = x3[a].etape
               /\ f(a).jeton # Neant => x3[a].jeton # Neant /\ f(a).jeton.compte = x3[a].jeton.compte
    <3>1. CASE x3[a].jeton = Neant
      BY <1>a, <3>1
    <3>2. CASE x3[a].jeton # Neant
      <4>1. f(a) = [x3[a] EXCEPT !.jeton = p(a)]
        BY <3>2
      <4> HIDE DEF f
      <4>2. f(a) \in Attendus /\ f(a).etape = x3[a].etape /\ f(a).jeton = p(a)
        BY <1>a, <2>3, <3>2, <4>1, Remplace
      <4> QED BY <2>3, <3>2, <4>2
    <3> QED BY <3>1, <3>2
  <2> HIDE DEF f
  <2>6. /\ x3' \in [Equipe -> Attendus]
        /\ \A a \in Equipe :
             /\ x3'[a].etape = x3[a].etape
             /\ x3'[a].jeton # Neant => x3[a].jeton # Neant /\ x3'[a].jeton.compte = x3[a].jeton.compte
    BY <2>1, <2>5
  <2> QED BY <1>0, <2>1, <2>2, <2>4, <2>6, MemeSession DEF AuConnecte, DuConnecte, Rejoues
<1>15. ASSUME NEW c \in Titulaires, N!Revoquer(c) PROVE NavigateurIInv'
  <2>1. x7' = x7 \ {c} /\ UNCHANGED <<x1, x2, x3, x4, x5, x6, x8, x9, x10>>
    BY <1>15 DEF N!Revoquer
  <2>2. NavigateurTypes'
    <3>1. N!TypeOK'
      BY <1>0, <2>1 DEF N!TypeOK, Stockages, Attendus
    <3> QED BY <1>0, <2>1, <3>1 DEF NavigateurTypes, MarquesTypees
  <2> QED BY <1>0, <2>1, <2>2 DEF NavigateurIInv, AuConnecte, DuConnecte, Renouvelable, Rejoues, N!JamaisATort
<1>17. ASSUME NEW a \in Equipe, N!ConnexionAnnulee(a) PROVE NavigateurIInv'
  <2>1. /\ UNCHANGED <<x2, x4, x5, x7, x9>> /\ x1' = N!Effacer /\ x8' = Neant /\ x10' = N!Croise(FALSE)
        /\ x6' \in {"simple", "puis recharge"} /\ x3' = [x3 EXCEPT ![a] = N!Oisif]
    BY <1>0, <1>17 DEF N!ConnexionAnnulee, N!Effacement, N!Rendre
  <2>2. x3' \in [Equipe -> Attendus] /\ \A b \in Equipe : x3'[b] = x3[b] \/ x3'[b] = N!Oisif
    BY <1>0, <1>c, <2>1
  <2> QED BY <1>0, <2>1, <2>2, Fermeture
<1>18. ASSUME NEW a \in Equipe, N!Tarder(a) PROVE NavigateurIInv'
  <2> DEFINE c == x3[a].jeton.compte
  <2>1. /\ x3[a].jeton # Neant /\ x3' = [x3 EXCEPT ![a] = N!Oisif] /\ UNCHANGED <<x1, x2>> /\ N!Laisser
        /\ x5' = x5 \cup {c}
    BY <1>18 DEF N!Tarder, N!Accepte, N!Rendre
  <2>2. c \in Titulaires
    BY <1>a, <2>1 DEF N!Jetons
  <2>3. ~x10.renouvellement /\ ~x10.reponse => c = x8
    BY <1>0, <2>1 DEF DuConnecte
  <2> HIDE DEF c
  <2>4. x3' \in [Equipe -> Attendus] /\ \A b \in Equipe : x3'[b] = x3[b] \/ x3'[b] = N!Oisif
    BY <1>0, <1>c, <2>1
  <2> QED BY <1>0, <1>c, <2>1, <2>2, <2>3, <2>4, MemeSession DEF AuConnecte, DuConnecte, Rejoues
<1>16. CASE UNCHANGED registers
  <2>1. UNCHANGED <<x1, x2, x3, x4, x5, x6, x7, x8, x9, x10>>
    BY <1>16 DEF registers
  <2>2. N!TypeOK'
    BY <1>0, <2>1 DEF N!TypeOK
  <2> QED BY <1>0, <2>1, <2>2
          DEF NavigateurIInv, NavigateurTypes, MarquesTypees, AuConnecte, DuConnecte, Renouvelable, Rejoues,
              N!JamaisATort
<1> QED
  BY <1>1, <1>2, <1>3, <1>4, <1>5, <1>6, <1>7, <1>8, <1>9, <1>10, <1>11, <1>12, <1>13, <1>14, <1>15, <1>16,
     <1>17, <1>18
  DEF N!Next

\* The browser starts in its inductive invariant.
LEMMA NavigateurInit == ASSUME N!NavigateurConstantes, N!Init PROVE NavigateurIInv
<1>1. /\ x1 = N!Vide /\ x2 = Neant /\ x3 = [a \in Equipe |-> N!Oisif] /\ x4 = Neant /\ x5 = {} /\ x6 = "non"
      /\ x7 = Titulaires /\ x8 = Neant /\ x9 = 0
      /\ x10 = [renouvellement |-> FALSE, reponse |-> FALSE, tort |-> FALSE]
  BY DEF N!Init
<1>2. x1 \in Stockages /\ x1.acces = Neant /\ x1.refresh = Neant /\ x1.profil = Neant
  BY <1>1, Jetons DEF N!Vide
<1>3. x3 \in [Equipe -> Attendus] /\ \A a \in Equipe : x3[a].etape = "oisif" /\ x3[a].jeton = Neant
  BY <1>1, Jetons DEF N!Oisif
<1>4. NavigateurTypes
  <2>1. MarquesTypees /\ ~x10.tort
    BY <1>1 DEF MarquesTypees
  <2>2. N!TypeOK
    BY <1>1, <1>2, <1>3, Typee DEF N!NavigateurConstantes
  <2> QED BY <2>1, <2>2 DEF NavigateurTypes
<1>5. ~x10.tort
  BY <1>1
<1> QED
  BY <1>1, <1>2, <1>3, <1>4, <1>5
  DEF NavigateurIInv, AuConnecte, DuConnecte, Renouvelable, Rejoues, N!JamaisATort

NavigateurInv == part = "navigateur" => NavigateurIInv

\* The inductive invariant of the browser always holds.
LEMMA NavigateurTenu == PlateformeSpec => []NavigateurInv
<1>1. N!NavigateurConstantes
  BY Constantes
<1>2. PlateformeInit => NavigateurInv
  BY <1>1, Depart, NavigateurInit DEF NavigateurInv
<1>3. NavigateurInv /\ [PlateformeNext]_plateforme => NavigateurInv'
  <2> SUFFICES ASSUME part = "navigateur", NavigateurIInv, [PlateformeNext]_plateforme PROVE NavigateurIInv'
    BY PartFixe DEF NavigateurInv
  <2>1. N!Next \/ UNCHANGED registers
    BY Pas DEF Suit
  <2> QED BY <1>1, <2>1, NavigateurPas
<1> QED BY <1>2, <1>3, PTL DEF PlateformeSpec

\* For any number of accounts, of calls and of logins (frontend/web/src/lib/api.ts, auth.ts, sw.ts): unless a
\* renewal was in flight when somebody logged in or out, a session that was closed stays closed and the tokens are
\* those of who is connected; unless an answer was too, awaited, about to be stored, or given up by NetworkFirst
\* and stored late, so are the profile and, once purged, the cache; and nobody still welcome is sent back to the
\* login page but for such crossings.
THEOREM SessionIsOnesOwn == PlateformeSpec => []SessionTenue
<1>1. NavigateurInv => SessionTenue
  <2>1. ASSUME NavigateurIInv PROVE N!SessionFermee /\ N!DonneesDuCompte /\ N!JamaisATort
    BY <2>1 DEF NavigateurIInv, AuConnecte, DuConnecte, N!SessionFermee, N!DonneesDuCompte
  <2> QED BY <2>1 DEF NavigateurInv, SessionTenue
<1> QED BY <1>1, NavigateurTenu, PTL

-----------------------------------------------------------------------------
(* The client of Shield.  x1 is the memory, x2 who registered the call, x3 *)
(* whose event each one waits for, x4 the steps, x5 who may read the       *)
(* memory, x6 the attempts, x7 the renewals, x8 the outcomes, x10 whether  *)
(* a call failed, a wait timed out or the memory forgot.                   *)

\* Whoever calls, or may still call, has attempts left; a token is renewed once.
ClientEssais ==
    \A t \in Calls :
      /\ x7[t] <= 1 /\ x6[t] <= MaxAttempts
      /\ x4[t] \in {"annonce", "attente", "appel"} => x6[t] < MaxAttempts

\* Without trouble the one that calls or releases is the one that registered,
\* the memory keeps what it got, and whoever was woken finds it there.
ClientCalme ==
    ~x10 => \A t \in Calls :
      /\ x5[t] = TRUE
      /\ x4[t] # "rejeu"
      /\ x4[t] \in {"appel", "liberer"} => x2 = t
      /\ x4[t] = "liberer" => x1
      /\ (x4[t] = "attente" /\ x3[t] = C!Personne) => x1

ClientIInv == C!TypeOK /\ C!EventHasOwner /\ C!WaitsForSomeone /\ ClientEssais /\ ClientCalme

\* It holds at the start.
LEMMA ClientDebut == ASSUME C!ClientConstantes PROVE C!Init => ClientIInv
<1> SUFFICES ASSUME C!Init PROVE ClientIInv
  OBVIOUS
<1> USE DEF C!Init, C!ClientConstantes
<1>1. C!TypeOK
  <2>1. x6 \in [Calls -> Nat] /\ x7 \in [Calls -> Nat] /\ x9 \in 0..MaxRequests
    OBVIOUS
  <2>2. /\ x1 \in BOOLEAN /\ x10 \in BOOLEAN /\ x5 \in [Calls -> BOOLEAN]
        /\ x2 \in Calls \cup {C!Personne}
        /\ x3 \in [Calls -> Calls \cup {C!Personne}]
    OBVIOUS
  <2>3. x4 \in [Calls -> {"repos", "annonce", "attente", "appel", "rejeu", "liberer"}]
    OBVIOUS
  <2>4. x8 \in [Calls -> C!Kinds \cup {"aucune", "donnees", "brute"}]
    OBVIOUS
  <2> QED BY <2>1, <2>2, <2>3, <2>4 DEF C!TypeOK
<1>2. C!EventHasOwner /\ C!WaitsForSomeone
  BY DEF C!EventHasOwner, C!WaitsForSomeone, C!At
<1>3. ClientEssais
  BY DEF ClientEssais
<1>4. ClientCalme
  BY DEF ClientCalme
<1> QED BY <1>1, <1>2, <1>3, <1>4 DEF ClientIInv

\* Every step keeps the types.
LEMMA ClientTypesPas ==
  ASSUME C!ClientConstantes, C!TypeOK, [C!Next]_C!vars
  PROVE  C!TypeOK'
<1> USE DEF C!ClientConstantes, C!TypeOK, C!Goto, C!At, C!Ends, C!InNetwork, C!Kinds
<1>1. ASSUME NEW t \in Calls, C!GetJson(t) PROVE C!TypeOK'
  <2>1. CASE C!Begin(t)
    BY <2>1 DEF C!Begin
  <2>2. CASE C!BeginProbe(t)
    BY <2>2 DEF C!BeginProbe
  <2>3. CASE C!Announce(t)
    BY <2>3 DEF C!Announce, C!Premier
  <2>4. CASE C!Awake(t)
    BY <2>4 DEF C!Awake
  <2>5. CASE C!Reply(t)
    BY <2>5 DEF C!Reply
  <2>6. ASSUME NEW kind \in C!Kinds, C!AttemptFails(t, kind) \/ C!Refused(t, kind) \/ C!ReplayRefused(t, kind)
        PROVE  C!TypeOK'
    <3>1. CASE C!AttemptFails(t, kind)
      BY <2>6, <3>1 DEF C!AttemptFails, C!Encore
    <3>2. CASE C!Refused(t, kind)
      BY <2>6, <3>2 DEF C!Refused
    <3>3. CASE C!ReplayRefused(t, kind)
      BY <2>6, <3>3 DEF C!ReplayRefused
    <3> QED BY <2>6, <3>1, <3>2, <3>3
  <2>7. ASSUME NEW ok \in BOOLEAN, C!Reauthenticate(t, ok) PROVE C!TypeOK'
    BY <2>7 DEF C!Reauthenticate, C!PeutRenouveler
  <2>8. CASE C!ReplayCut(t)
    BY <2>8 DEF C!ReplayCut
  <2>9. CASE C!Release(t)
    BY <2>9 DEF C!Release, C!Liberation
  <2> QED BY <1>1, <2>1, <2>2, <2>3, <2>4, <2>5, <2>6, <2>7, <2>8, <2>9 DEF C!GetJson
<1>2. CASE C!Forget
  BY <1>2 DEF C!Forget
<1>3. CASE UNCHANGED C!vars
  BY <1>3 DEF C!vars
<1> QED BY <1>1, <1>2, <1>3 DEF C!Next

\* Only the one who registered moves on from its own call, and whoever releases
\* takes the event with it and wakes those who wait for it.
LEMMA ClientAttentePas ==
  ASSUME C!ClientConstantes, C!TypeOK, C!EventHasOwner, C!WaitsForSomeone, [C!Next]_C!vars
  PROVE  C!EventHasOwner' /\ C!WaitsForSomeone'
<1> USE DEF C!ClientConstantes, C!TypeOK, C!EventHasOwner, C!WaitsForSomeone, C!Goto, C!At, C!InNetwork
<1>1. ASSUME NEW t \in Calls, C!GetJson(t) PROVE C!EventHasOwner' /\ C!WaitsForSomeone'
  <2>1. CASE C!Begin(t) \/ C!BeginProbe(t)
    BY <2>1 DEF C!Begin, C!BeginProbe
  <2>2. CASE C!Announce(t)
    BY <2>2 DEF C!Announce, C!Premier
  <2>3. CASE C!Awake(t)
    BY <2>3 DEF C!Awake
  <2>4. CASE C!Reply(t) \/ C!ReplayCut(t)
    BY <2>4 DEF C!Reply, C!ReplayCut
  <2>5. ASSUME NEW kind \in C!Kinds, C!AttemptFails(t, kind) \/ C!Refused(t, kind) \/ C!ReplayRefused(t, kind)
        PROVE  C!EventHasOwner' /\ C!WaitsForSomeone'
    BY <2>5 DEF C!AttemptFails, C!Refused, C!ReplayRefused
  <2>6. ASSUME NEW ok \in BOOLEAN, C!Reauthenticate(t, ok) PROVE C!EventHasOwner' /\ C!WaitsForSomeone'
    BY <2>6 DEF C!Reauthenticate
  <2>7. CASE C!Release(t)
    BY <2>7 DEF C!Release, C!Liberation, C!Reveil
  <2> QED BY <1>1, <2>1, <2>2, <2>3, <2>4, <2>5, <2>6, <2>7 DEF C!GetJson
<1>2. CASE C!Forget \/ UNCHANGED C!vars
  BY <1>2 DEF C!Forget, C!vars
<1> QED BY <1>1, <1>2 DEF C!Next

\* Attempts are counted from zero, and one that fails is the last or leaves one.
LEMMA ClientEssaisPas ==
  ASSUME C!ClientConstantes, C!TypeOK, ClientEssais, [C!Next]_C!vars
  PROVE  ClientEssais'
<1> USE DEF C!ClientConstantes, C!TypeOK, ClientEssais, C!Goto, C!At, C!InNetwork
<1>1. ASSUME NEW t \in Calls, C!GetJson(t) PROVE ClientEssais'
  <2>1. CASE C!Begin(t) \/ C!BeginProbe(t)
    BY <2>1 DEF C!Begin, C!BeginProbe
  <2>2. CASE C!Announce(t) \/ C!Awake(t)
    BY <2>2 DEF C!Announce, C!Awake
  <2>3. CASE C!Reply(t) \/ C!ReplayCut(t) \/ C!Release(t)
    BY <2>3 DEF C!Reply, C!ReplayCut, C!Release
  <2>4. ASSUME NEW kind \in C!Kinds, C!AttemptFails(t, kind) \/ C!Refused(t, kind) \/ C!ReplayRefused(t, kind)
        PROVE  ClientEssais'
    BY <2>4 DEF C!AttemptFails, C!Encore, C!Refused, C!ReplayRefused
  <2>5. ASSUME NEW ok \in BOOLEAN, C!Reauthenticate(t, ok) PROVE ClientEssais'
    BY <2>5 DEF C!Reauthenticate, C!PeutRenouveler
  <2> QED BY <1>1, <2>1, <2>2, <2>3, <2>4, <2>5 DEF C!GetJson
<1>2. CASE C!Forget \/ UNCHANGED C!vars
  BY <1>2 DEF C!Forget, C!vars
<1> QED BY <1>1, <1>2 DEF C!Next

\* Without trouble only the first one calls; the others are woken once its
\* reply is in the memory, which is only forgotten when nobody is waiting.
LEMMA ClientCalmePas ==
  ASSUME C!ClientConstantes, C!TypeOK, C!WaitsForSomeone, ClientCalme, [C!Next]_C!vars
  PROVE  ClientCalme'
<1> USE DEF C!ClientConstantes, C!TypeOK, C!WaitsForSomeone, ClientCalme, C!Goto, C!At, C!InNetwork
<1>1. ASSUME NEW t \in Calls, C!GetJson(t) PROVE ClientCalme'
  <2>1. CASE C!Begin(t)
    BY <2>1 DEF C!Begin
  <2>2. CASE C!Announce(t)
    BY <2>2 DEF C!Announce, C!Premier
  <2>3. CASE C!Awake(t)
    BY <2>3 DEF C!Awake
  <2>4. CASE C!Reply(t)
    BY <2>4 DEF C!Reply
  <2>5. CASE C!BeginProbe(t)
    BY <2>5 DEF C!BeginProbe
  <2>6. ASSUME NEW kind \in C!Kinds, C!AttemptFails(t, kind) \/ C!Refused(t, kind) \/ C!ReplayRefused(t, kind)
        PROVE  ClientCalme'
    BY <2>6 DEF C!AttemptFails, C!Refused, C!ReplayRefused
  <2>7. ASSUME NEW ok \in BOOLEAN, C!Reauthenticate(t, ok) PROVE ClientCalme'
    BY <2>7 DEF C!Reauthenticate
  <2>8. CASE C!ReplayCut(t)
    BY <2>8 DEF C!ReplayCut
  <2>9. CASE C!Release(t)
    BY <2>9 DEF C!Release, C!Liberation, C!Reveil
  <2> QED BY <1>1, <2>1, <2>2, <2>3, <2>4, <2>5, <2>6, <2>7, <2>8, <2>9 DEF C!GetJson
<1>2. CASE C!Forget
  BY <1>2 DEF C!Forget
<1>3. CASE UNCHANGED C!vars
  BY <1>3 DEF C!vars
<1> QED BY <1>1, <1>2, <1>3 DEF C!Next

\* So does the whole of it.
LEMMA ClientPas == ASSUME C!ClientConstantes PROVE ClientIInv /\ [C!Next]_C!vars => ClientIInv'
BY ClientTypesPas, ClientAttentePas, ClientEssaisPas, ClientCalmePas DEF ClientIInv

ClientInv == part = "client" => ClientIInv

\* The invariant holds of the client in the platform.
LEMMA ClientTenu == PlateformeSpec => []ClientInv
<1>1. C!ClientConstantes
  BY Constantes
<1>2. PlateformeInit => ClientInv
  BY <1>1, Depart, ClientDebut DEF ClientInv
<1>3. ClientInv /\ [PlateformeNext]_plateforme => ClientInv'
  <2> SUFFICES ASSUME part = "client", ClientIInv, [PlateformeNext]_plateforme PROVE ClientIInv'
    BY PartFixe DEF ClientInv
  <2>1. [C!Next]_C!vars
    BY Pas DEF Suit, registers, C!vars
  <2> QED BY <1>1, <2>1, ClientPas
<1> QED BY <1>2, <1>3, PTL DEF PlateformeSpec

\* Nobody waits for a call that is over: an event in flight was registered by a request that still runs, and
\* whoever waits for an event waits for that one.
THEOREM NobodyWaitsForNothing == PlateformeSpec => []PersonneNAttendPourRien
<1>1. ClientInv => PersonneNAttendPourRien
  BY DEF ClientInv, PersonneNAttendPourRien, ClientIInv
<1> QED BY ClientTenu, <1>1, PTL

\* One call of one address at a time while nothing fails, and never more attempts or renewals than allowed.
THEOREM CallsAreCounted == PlateformeSpec => []AppelsComptes
<1>1. ClientInv => AppelsComptes
  <2> SUFFICES ASSUME part = "client", ClientIInv PROVE C!OneCall /\ C!BoundedCalls
    BY DEF ClientInv, AppelsComptes
  <2>1. C!OneCall
    BY DEF ClientIInv, C!TypeOK, ClientCalme, C!OneCall, C!InNetwork
  <2>2. C!BoundedCalls
    BY DEF ClientIInv, ClientEssais, C!BoundedCalls
  <2> QED BY <2>1, <2>2
<1> QED BY ClientTenu, <1>1, PTL

-----------------------------------------------------------------------------
(* The shared payload and the arbitration of its thresholds, with what is   *)
(* proved about them.                                                      *)
PP == INSTANCE Partage_proofs WITH
  Requests <- Calls, MaxVersion <- MaxArbitrages,
  seuils <- x1, copie <- x2, charge <- x3, verrou <- x4, etape <- x5, lu <- x6, decision <- x7,
  reads <- x8, depasse <- x9, serein <- x10

\* The host's instance of the payload is the one of its proofs.
LEMMA PartageInit == P!Init => PP!Init
BY DEF P!Init, PP!Init, P!Personne, PP!Personne

\* A step of the shared payloads is one of the component on its own.
LEMMA PartageNext == P!Next => PP!Next
<1> USE DEF P!Personne, PP!Personne, P!Versions, PP!Versions, P!Etapes, PP!Etapes, P!At, PP!At, P!Goto, PP!Goto,
            P!Collecting, PP!Collecting, P!Busy, PP!Busy, P!Suite, PP!Suite, P!Oublier, PP!Oublier
<1>1. ASSUME NEW r \in Calls, P!Read(r) \/ P!Crash(r) PROVE PP!Read(r) \/ PP!Crash(r)
  BY <1>1, Zenon DEF P!Read, PP!Read, P!Hit, PP!Hit, P!Miss, PP!Miss, P!Lock, PP!Lock, P!Served, PP!Served,
                     P!Impatient, PP!Impatient, P!Thresholds, PP!Thresholds, P!CopyThresholds, PP!CopyThresholds,
                     P!Collected, PP!Collected, P!Unlock, PP!Unlock, P!Store, PP!Store, P!Crash, PP!Crash
<1>2. P!Put => PP!Put
  BY Zenon DEF P!Put, PP!Put, P!ReadBefore, PP!ReadBefore, P!Decide, PP!Decide, P!ForgetThresholds,
               PP!ForgetThresholds, P!ForgetPayload, PP!ForgetPayload, P!ForgetAgain, PP!ForgetAgain, P!Audit,
               PP!Audit
<1>3. ASSUME P!CrashInPut \/ P!PayloadExpires \/ P!ThresholdsExpire \/ P!LockExpires
      PROVE  PP!CrashInPut \/ PP!PayloadExpires \/ PP!ThresholdsExpire \/ PP!LockExpires
  BY <1>3, Zenon DEF P!CrashInPut, PP!CrashInPut, P!PayloadExpires, PP!PayloadExpires, P!ThresholdsExpire,
                     PP!ThresholdsExpire, P!LockExpires, PP!LockExpires
<1> QED
  BY <1>1, <1>2, <1>3 DEF P!Next, PP!Next

PartageInv == part = "partage" => PP!IInv

\* The inductive invariant of the shared payloads always holds.
LEMMA PartageTenu == PlateformeSpec => []PartageInv
<1>1. PP!PartageConstantes
  BY Constantes DEF P!PartageConstantes, PP!PartageConstantes, P!Personne, PP!Personne
<1>2. PlateformeInit => PartageInv
  BY <1>1, Depart, PartageInit, PP!InitInv DEF PartageInv
<1>3. PartageInv /\ [PlateformeNext]_plateforme => PartageInv'
  <2> SUFFICES ASSUME part = "partage", PP!IInv, [PlateformeNext]_plateforme PROVE PP!IInv'
    BY PartFixe DEF PartageInv
  <2>1. [PP!Next]_PP!vars
    BY Pas, PartageNext DEF Suit, registers, PP!vars
  <2> QED BY <1>1, <2>1, PP!InvStep
<1> QED BY <1>2, <1>3, PTL DEF PlateformeSpec

\* A shared payload has one collector at a time, as long as the lock outlives the collection.
THEOREM CollectorIsAlone == PlateformeSpec => []OneCollector
<1>1. PartageInv => OneCollector
  BY DEF PartageInv, PP!IInv, PP!LockIsMine, PP!Collecting, OneCollector, P!OneCollector, P!Collecting
<1> QED BY PartageTenu, <1>1, PTL

\* Once an arbitration that no collection overlapped is over, what is served was judged by its thresholds.
THEOREM ArbitrationIsFollowed == PlateformeSpec => []ArbitrageSuivi
<1>1. PartageInv => ArbitrageSuivi
  BY DEF PartageInv, PP!IInv, PP!Serene, PP!Current, ArbitrageSuivi, P!ArbitrageSuivi
<1> QED BY PartageTenu, <1>1, PTL

-----------------------------------------------------------------------------
(* The types.                                                              *)
LEMMA AutomatesTypesEtEtapes ==
  ASSUME AutomatesTypes PROVE M!TypeOK
<1>1. ASSUME NEW t \in Equipe
      PROVE  /\ x4[t].etape \in {"repos", "parcours", "lue", "executee", "refusee"}
             /\ M!ToSet(x4[t].liste) \subseteq Automations
             /\ x4[t].outil \in M!Outils \cup {"aucun"} /\ x4[t].auteur \in BOOLEAN
             /\ x4[t].etape = "repos" <=> x4[t].liste = <<>>
  <2>1. x4[t] \in Rondes /\ RondeSaine(x4[t])
    BY DEF AutomatesTypes
  <2>2. x4[t].liste \in Seq(Automations)
    BY <2>1 DEF Rondes
  <2>3. M!ToSet(x4[t].liste) \subseteq Automations
    BY <2>2 DEF M!ToSet
  <2> QED BY <2>1, <2>3 DEF Rondes, RondeSaine
<1> QED BY <1>1 DEF AutomatesTypes, M!TypeOK

\* The types used by the proofs give those of the component.
LEMMA ConversationTypesEtMessages ==
  ASSUME ConversationTypes PROVE V!TypeOK
<1>1. DOMAIN x1 = 1..Len(x1) /\ Len(x1) \in 0..MaxConversations
  BY DEF ConversationTypes
<1>2. ASSUME NEW n \in DOMAIN x1, NEW i \in DOMAIN x1[n].messages
      PROVE  x1[n].messages[i] \in [de : Equipe, role : {"user", "assistant"}]
  <2> DEFINE s == x1[n].messages
  <2>1. x1[n] \in Fils
    BY DEF ConversationTypes
  <2>2. s \in Seq(Billets) /\ i \in DOMAIN s
    BY <2>1 DEF Fils
  <2> HIDE DEF s
  <2>3. s[i] \in Billets
    BY <2>2
  <2> QED BY <2>3 DEF s, Billets
<1>3. ASSUME NEW a \in Equipe
      PROVE  x2[a].etape \in EtapesEnvoi /\ x2[a].action \in Actes /\ x2[a].code \in Codes
  <2>1. x2[a] \in Envois
    BY DEF ConversationTypes
  <2> QED BY <2>1 DEF Envois, EnvoisJusque
<1>4. DOMAIN x1 \subseteq 1..MaxConversations
  BY <1>1, Constantes DEF V!ConversationConstantes
<1>5. x3 \subseteq [de : Equipe, sur : V!SansConversation..MaxConversations] /\ x4 \subseteq Equipe
  BY DEF ConversationTypes, V!SansConversation
<1> QED BY <1>2, <1>3, <1>4, <1>5 DEF V!TypeOK, EtapesEnvoi, Actes, Codes

\* Every part's state has its type, whatever the constants: the guards of the steps keep the counters within their
\* bounds, the requests in flight within their operations, and what is stored within what is declared.
THEOREM PartsAreTyped == PlateformeSpec => []PartTypeOK
<1> DEFINE Invs == /\ ClientInv /\ PartageInv /\ HistoriqueInv /\ SourceInv /\ AutomatesInv
                   /\ AccesInv /\ ConversationInv /\ NavigateurInv
<1>1. Invs => PartTypeOK
  <2> SUFFICES ASSUME Invs PROVE PartTypeOK
    OBVIOUS
  <2>1. part = "source" => S(BOOLEAN, 0, MaxJobs)!TypeOK
    BY DEF SourceInv, SourceIInv, SourceTypes
  <2>2. part = "secrets" => S({FALSE}, MaxSecrets, 0)!TypeOK
    BY DEF SourceInv, SourceIInv, SourceTypes
  <2>3. part = "client" => C!TypeOK
    BY DEF ClientInv, ClientIInv
  <2>4. part = "partage" => P!TypeOK
    BY DEF PartageInv, PP!IInv, PP!TypeOK, P!TypeOK, PP!Versions, P!Versions,
           PP!Personne, P!Personne, PP!Etapes, P!Etapes
  <2>5. part = "historique" => H!TypeOK
    BY DEF HistoriqueInv, HistoriqueIInv
  <2>6. part = "acces" => A!TypeOK
    BY DEF AccesInv, AccesIInv, CorrespondanceTypee, ChargesJustes, A!TypeOK
  <2>7. part = "automates" => M!TypeOK
    BY AutomatesTypesEtEtapes DEF AutomatesInv, AutomatesIInv
  <2>8. part = "conversation" => V!TypeOK
    BY ConversationTypesEtMessages DEF ConversationInv, ConversationIInv
  <2>9. part = "navigateur" => N!TypeOK
    BY DEF NavigateurInv, NavigateurIInv, NavigateurTypes
  <2> QED BY <2>1, <2>2, <2>3, <2>4, <2>5, <2>6, <2>7, <2>8, <2>9 DEF PartTypeOK
<1> QED BY <1>1, ClientTenu, PartageTenu, HistoriqueTenu, SourceTenu, AutomatesTenus, AccesTenus, ConversationTenue,
           NavigateurTenu, PTL
================================================================================
