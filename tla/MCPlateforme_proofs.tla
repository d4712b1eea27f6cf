-------------------------- MODULE MCPlateforme_proofs --------------------------
(***************************************************************************)
(* Proofs about the parts whose steps interleave, for any value of the     *)
(* constants of MCPlateforme (administrators, calls, disruptions, bounds), *)
(* and about the judgements made on the figures and the dates of sending.  *)
(***************************************************************************)
EXTENDS MCPlateforme, SequenceTheorems, FiniteSetTheorems, WellFoundedInduction, TLAPS

-----------------------------------------------------------------------------
(* A behaviour is one of its part: the part never changes, and a step is a *)
(* step of it or leaves its registers as they are.                         *)
Suit(nom, suite) == part = nom => suite \/ UNCHANGED registers

\* The part chosen starts in its initial states.
LEMMA Depart ==
  ASSUME PlateformeInit
  PROVE  /\ part = "source" => S(BOOLEAN, 0, MaxJobs)!Init
         /\ part = "secrets" => S({FALSE}, MaxSecrets, 0)!Init
         /\ part = "client" => C!Init
         /\ part = "partage" => P!Init
         /\ part = "historique" => H!Init
         /\ part = "acces" => A!Init
         /\ part = "automates" => M!Init
         /\ part = "conversation" => V!Init
         /\ part = "navigateur" => N!Init
BY DEF PlateformeInit

\* The part is chosen once and for all.
LEMMA PartFixe == [PlateformeNext]_plateforme => part' = part
BY DEF PlateformeNext, plateforme, AutresFixes

\* A step of the host is a step of its part.
LEMMA Pas ==
  ASSUME [PlateformeNext]_plateforme
  PROVE  /\ Suit("source", S(BOOLEAN, 0, MaxJobs)!Next)
         /\ Suit("secrets", S({FALSE}, MaxSecrets, 0)!Next)
         /\ Suit("client", C!Next)
         /\ Suit("partage", P!Next)
         /\ Suit("historique", H!Next)
         /\ Suit("acces", A!Next)
         /\ Suit("automates", M!Next)
         /\ Suit("conversation", V!Next)
         /\ Suit("navigateur", N!Next)
BY DEF PlateformeNext, plateforme, Suit

-----------------------------------------------------------------------------
(* The history.  x1 is the day, x2 the version of the sources, x3 the      *)
(* lines, x4 the lock, x5 the traces, x6 the steps, x7 what was read, x8   *)
(* the collections started, x9 whether a lock was outlived.                *)
Ecrits == UNION {[grains -> H!Mesures] : grains \in SUBSET H!Grain}
Fiches == x7 \in [Calls -> [cle : H!Cles, ecrit : Ecrits, statut : {"success", "partial", "failed", "skipped"}]]

EnCours(w) == x6[w] \in {"lire", "ecrire", "liberer"}

\* Whoever collects holds the lock of its collection and day.
VerrouTenu == ~x9 => \A w \in Calls : EnCours(w) => x4[x7[w].cle] = w

\* What a collection deposits: lines of its own collection and day, a presence with its kinds of staff or
\* unknown, a total with its terms.
Depose(e, cle) ==
  /\ \A g \in DOMAIN e : g \in H!Grain /\ g[1] = cle[2] /\ g[2] = cle[1] /\ e[g] \in H!Mesures
  /\ \A j \in H!Days, k \in H!Kinds :
       /\ <<j, "presence", "type", k>> \in DOMAIN e
          => /\ <<j, "presence", "groupe", "">> \in DOMAIN e
             /\ H!Mesure(e[<<j, "presence", "groupe", "">>])
       /\ \A s \in Sites :
            <<j, "presence", "site", s>> \in DOMAIN e
            => /\ <<j, "presence", "type", k>> \in DOMAIN e
               /\ e[<<j, "presence", "site", s>>] = e[<<j, "presence", "type", k>>]
       /\ /\ <<j, "presence", "groupe", "">> \in DOMAIN e
          /\ H!Mesure(e[<<j, "presence", "groupe", "">>])
          => /\ <<j, "presence", "type", k>> \in DOMAIN e
             /\ e[<<j, "presence", "type", k>>] = e[<<j, "presence", "groupe", "">>]
       /\ <<j, "stocks", "groupe", k>> \in DOMAIN e <=> <<j, "stocks", "groupe", "total">> \in DOMAIN e
       /\ /\ <<j, "stocks", "groupe", "total">> \in DOMAIN e
          /\ H!Mesure(e[<<j, "stocks", "groupe", "total">>])
          => e[<<j, "stocks", "groupe", k>>] = e[<<j, "stocks", "groupe", "total">>]

\* Nothing is known of later than the sources are; and what is about to be written is no older than what is
\* there, since it was read under the lock.
Recentes ==
  /\ \A g \in H!Grain : x3[g] <= x2
  /\ \A w \in Calls : x6[w] = "ecrire" =>
       /\ Depose(x7[w].ecrit, x7[w].cle)
       /\ \A g \in DOMAIN x7[w].ecrit : x7[w].ecrit[g] <= x2
       /\ ~x9 => \A g \in DOMAIN x7[w].ecrit : H!Mesure(x7[w].ecrit[g]) => x3[g] <= x7[w].ecrit[g]

HistoriqueIInv == H!TypeOK /\ Fiches /\ VerrouTenu /\ Recentes /\ H!DayIsWhole /\ H!TotalHasItsTerms

\* The lines a day can have are of the grain of the history.
LEMMA Mailles ==
  ASSUME NEW j \in H!Days
  PROVE  /\ <<j, "presence", "groupe", "">> \in H!Grain
         /\ \A k \in H!Kinds : <<j, "presence", "type", k>> \in H!Grain
         /\ \A s \in Sites : <<j, "presence", "site", s>> \in H!Grain
         /\ \A m \in H!Kinds \cup {"total"} : <<j, "stocks", "groupe", m>> \in H!Grain
         /\ <<j, "odoo", "groupe", "">> \in H!Grain
         /\ \A s \in Sites : <<j, "odoo", "societe", s>> \in H!Grain
<1>1. <<j, "presence", "groupe", "">> \in H!Grain
  BY DEF H!Grain
<1>2. ASSUME NEW k \in H!Kinds PROVE <<j, "presence", "type", k>> \in H!Grain
  BY DEF H!Grain
<1>3. ASSUME NEW s \in Sites PROVE <<j, "presence", "site", s>> \in H!Grain
  BY DEF H!Grain
<1>4. ASSUME NEW m \in H!Kinds \cup {"total"} PROVE <<j, "stocks", "groupe", m>> \in H!Grain
  BY DEF H!Grain
<1>5. <<j, "odoo", "groupe", "">> \in H!Grain
  BY DEF H!Grain
<1>6. ASSUME NEW s \in Sites PROVE <<j, "odoo", "societe", s>> \in H!Grain
  BY DEF H!Grain
<1> QED BY <1>1, <1>2, <1>3, <1>4, <1>5, <1>6

\* Nothing written is something written.
LEMMA EcritVide == <<>> \in Ecrits
<1>1. <<>> \in [{} -> H!Mesures]
  OBVIOUS
<1> QED BY <1>1 DEF Ecrits

\* What gives a measure to some lines of the grain is something written.
LEMMA EcritDe ==
  ASSUME NEW e, e = [g \in DOMAIN e |-> e[g]], DOMAIN e \subseteq H!Grain, \A g \in DOMAIN e : e[g] \in H!Mesures
  PROVE  e \in Ecrits
<1>1. e \in [DOMAIN e -> H!Mesures]
  OBVIOUS
<1> QED BY <1>1 DEF Ecrits

\* A call that has written changes its own record only.
LEMMA FicheLue ==
  ASSUME Fiches, NEW w \in Calls, NEW d \in [ecrit : Ecrits, statut : {"success", "partial"}],
         x7' = [x7 EXCEPT ![w].ecrit = d.ecrit, ![w].statut = d.statut]
  PROVE  /\ Fiches'
         /\ x7'[w].ecrit = d.ecrit /\ x7'[w].cle = x7[w].cle
         /\ \A v \in Calls \ {w} : x7'[v] = x7[v]
BY DEF Fiches

\* A call that failed or was skipped starts its own record again, and no other.
LEMMA FicheNeuve ==
  ASSUME Fiches, NEW w \in Calls, NEW k \in H!Cles, NEW s \in {"failed", "skipped"},
         x7' = [x7 EXCEPT ![w] = [cle |-> k, ecrit |-> <<>>, statut |-> s]]
  PROVE  /\ Fiches'
         /\ x7'[w].cle = k
         /\ \A v \in Calls \ {w} : x7'[v] = x7[v]
BY EcritVide DEF Fiches

\* What a collection deposits is of its day, and of the measure the source gives now.
LEMMA DepotSain ==
  ASSUME H!HistoriqueConstantes, x2 \in 0..MaxChanges,
         NEW c \in H!Collections, NEW j \in H!Days, NEW d \in H!Depots(c, j)
  PROVE  /\ Depose(d.ecrit, <<c, j>>)
         /\ \A g \in DOMAIN d.ecrit : d.ecrit[g] \in {x2, H!Inconnu}
         /\ d \in [ecrit : Ecrits, statut : {"success", "partial"}]
<1> USE DEF H!HistoriqueConstantes, H!Mesures, H!Absent, H!Inconnu, H!Mesure, H!Kinds, H!Collections
<1>0. x2 \in H!Mesures /\ H!Inconnu \in H!Mesures
  OBVIOUS
<1>1. CASE c = "presence"
  <2>1. PICK s \in SUBSET Sites : d = [ecrit |-> H!PresenceComplete(j, s), statut |-> "success"]
                               \/ d = [ecrit |-> H!PresenceDefaillante(j), statut |-> "partial"]
    BY <1>1 DEF H!Depots
  <2>2. CASE d = [ecrit |-> H!PresenceComplete(j, s), statut |-> "success"]
    <3>1. /\ DOMAIN d.ecrit = {<<j, "presence", "groupe", "">>}
                                \cup {<<j, "presence", "type", k>> : k \in H!Kinds}
                                \cup {<<j, "presence", "site", t>> : t \in s}
          /\ \A g \in DOMAIN d.ecrit : d.ecrit[g] = x2
      BY <2>2 DEF H!PresenceComplete
    <3>2. ASSUME NEW g \in DOMAIN d.ecrit PROVE g \in H!Grain /\ g[1] = j /\ g[2] = "presence"
      <4>1. CASE g = <<j, "presence", "groupe", "">>
        BY <4>1, Mailles
      <4>2. ASSUME NEW k \in H!Kinds, g = <<j, "presence", "type", k>>
            PROVE  g \in H!Grain /\ g[1] = j /\ g[2] = "presence"
        BY <4>2, Mailles
      <4>3. ASSUME NEW t \in s, g = <<j, "presence", "site", t>>
            PROVE  g \in H!Grain /\ g[1] = j /\ g[2] = "presence"
        BY <4>3, Mailles
      <4> QED BY <3>1, <4>1, <4>2, <4>3
    <3>3. \A i \in H!Days, k \in H!Kinds :
            /\ <<i, "presence", "type", k>> \in DOMAIN d.ecrit <=> i = j
            /\ <<i, "presence", "groupe", "">> \in DOMAIN d.ecrit <=> i = j
            /\ \A t \in Sites : <<i, "presence", "site", t>> \in DOMAIN d.ecrit => i = j
            /\ <<i, "stocks", "groupe", k>> \notin DOMAIN d.ecrit
            /\ <<i, "stocks", "groupe", "total">> \notin DOMAIN d.ecrit
      BY <3>1
    <3>4. d.ecrit \in Ecrits
      <4>1. d.ecrit = [g \in DOMAIN d.ecrit |-> d.ecrit[g]]
        BY <2>2 DEF H!PresenceComplete
      <4> QED BY <1>0, <3>1, <3>2, <4>1, EcritDe
    <3>5. Depose(d.ecrit, <<c, j>>)
      <4> DEFINE e == d.ecrit
      <4>0. x2 \in H!Mesures /\ H!Mesure(x2)
        BY <1>0
      <4>a. \A g \in DOMAIN e : e[g] = x2
        BY <3>1
      <4>b. \A i \in H!Days, k \in H!Kinds :
              /\ <<i, "presence", "type", k>> \in DOMAIN e <=> i = j
              /\ <<i, "presence", "groupe", "">> \in DOMAIN e <=> i = j
              /\ \A t \in Sites : <<i, "presence", "site", t>> \in DOMAIN e => i = j
              /\ <<i, "stocks", "groupe", k>> \notin DOMAIN e
              /\ <<i, "stocks", "groupe", "total">> \notin DOMAIN e
        BY <3>3
      <4>c. \A g \in DOMAIN e : g \in H!Grain /\ g[1] = j /\ g[2] = c
        BY <1>1, <3>2
      <4> HIDE DEF e
      <4>d. <<c, j>>[1] = c /\ <<c, j>>[2] = j
        OBVIOUS
      <4>1. \A g \in DOMAIN e : H!Mesure(e[g]) /\ e[g] \in H!Mesures
        BY ONLY <4>0, <4>a
      <4>2. ASSUME NEW i \in H!Days, NEW k \in H!Kinds, NEW t \in Sites, <<i, "presence", "site", t>> \in DOMAIN e
            PROVE  /\ <<i, "presence", "type", k>> \in DOMAIN e
                   /\ e[<<i, "presence", "site", t>>] = e[<<i, "presence", "type", k>>]
        <5>1. i = j
          BY ONLY <4>b, <4>2
        <5>2. <<i, "presence", "type", k>> \in DOMAIN e
          BY ONLY <4>b, <5>1
        <5> QED BY ONLY <4>a, <4>2, <5>2
      <4>3. ASSUME NEW i \in H!Days, NEW k \in H!Kinds
            PROVE  /\ <<i, "presence", "type", k>> \in DOMAIN e
                        => /\ <<i, "presence", "groupe", "">> \in DOMAIN e
                           /\ H!Mesure(e[<<i, "presence", "groupe", "">>])
                   /\ <<i, "presence", "groupe", "">> \in DOMAIN e
                        => /\ <<i, "presence", "type", k>> \in DOMAIN e
                           /\ e[<<i, "presence", "type", k>>] = e[<<i, "presence", "groupe", "">>]
        <5>1. <<i, "presence", "type", k>> \in DOMAIN e <=> <<i, "presence", "groupe", "">> \in DOMAIN e
          BY ONLY <4>b
        <5> QED BY ONLY <4>a, <4>1, <5>1
      <4>4. \A g \in DOMAIN e : g \in H!Grain /\ g[1] = <<c, j>>[2] /\ g[2] = <<c, j>>[1] /\ e[g] \in H!Mesures
        BY ONLY <4>c, <4>d, <4>1
      <4>5. Depose(e, <<c, j>>)
        BY ONLY <4>2, <4>3, <4>4, <4>b DEF Depose
      <4> QED BY <4>5 DEF e
    <3> QED BY <2>2, <3>1, <3>4, <3>5
  <2>3. CASE d = [ecrit |-> H!PresenceDefaillante(j), statut |-> "partial"]
    <3>1. DOMAIN d.ecrit = {<<j, "presence", "groupe", "">>}
      BY <2>3 DEF H!PresenceDefaillante
    <3>2. \A g \in DOMAIN d.ecrit : d.ecrit[g] = H!Inconnu
      BY <2>3 DEF H!PresenceDefaillante
    <3>3. ASSUME NEW g \in DOMAIN d.ecrit PROVE g \in H!Grain /\ g[1] = j /\ g[2] = "presence"
      <4>1. g = <<j, "presence", "groupe", "">>
        BY <3>1
      <4> QED BY <4>1, Mailles
    <3>4. \A i \in H!Days, k \in H!Kinds :
            /\ <<i, "presence", "type", k>> \notin DOMAIN d.ecrit
            /\ \A t \in Sites : <<i, "presence", "site", t>> \notin DOMAIN d.ecrit
            /\ <<i, "stocks", "groupe", k>> \notin DOMAIN d.ecrit
            /\ <<i, "stocks", "groupe", "total">> \notin DOMAIN d.ecrit
      BY <3>1
    <3>5. \A g \in DOMAIN d.ecrit : d.ecrit[g] \in H!Mesures /\ ~H!Mesure(d.ecrit[g])
      BY <1>0, <3>2
    <3>6. Depose(d.ecrit, <<c, j>>)
      BY <1>1, <3>3, <3>4, <3>5 DEF Depose
    <3>7. d.ecrit \in Ecrits
      <4>1. d.ecrit = [g \in DOMAIN d.ecrit |-> d.ecrit[g]]
        BY <2>3 DEF H!PresenceDefaillante
      <4> QED BY <3>3, <3>5, <4>1, EcritDe
    <3> QED BY <2>3, <3>2, <3>6, <3>7
  <2> QED BY <2>1, <2>2, <2>3
<1>2. CASE c = "stocks"
  <2>1. PICK K \in SUBSET H!Kinds :
          d = [ecrit |-> H!Stocks(j, K), statut |-> IF K = H!Kinds THEN "success" ELSE "partial"]
    BY <1>2 DEF H!Depots
  <2>2. /\ DOMAIN d.ecrit = {<<j, "stocks", "groupe", m>> : m \in H!Kinds \cup {"total"}}
        /\ \A g \in DOMAIN d.ecrit : d.ecrit[g] \in {x2, H!Inconnu}
    BY <2>1 DEF H!Stocks
  <2>3. ASSUME NEW g \in DOMAIN d.ecrit PROVE g \in H!Grain /\ g[1] = j /\ g[2] = "stocks"
    <3>1. PICK m \in H!Kinds \cup {"total"} : g = <<j, "stocks", "groupe", m>>
      BY <2>2
    <3> QED BY <3>1, Mailles
  <2>4. \A i \in H!Days, k \in H!Kinds :
          /\ <<i, "presence", "type", k>> \notin DOMAIN d.ecrit
          /\ <<i, "presence", "groupe", "">> \notin DOMAIN d.ecrit
          /\ \A t \in Sites : <<i, "presence", "site", t>> \notin DOMAIN d.ecrit
          /\ <<i, "stocks", "groupe", k>> \in DOMAIN d.ecrit <=> i = j
          /\ <<i, "stocks", "groupe", "total">> \in DOMAIN d.ecrit <=> i = j
    BY <2>2
  <2>5. ASSUME H!Mesure(d.ecrit[<<j, "stocks", "groupe", "total">>]), NEW k \in H!Kinds
        PROVE  d.ecrit[<<j, "stocks", "groupe", k>>] = d.ecrit[<<j, "stocks", "groupe", "total">>]
    <3>1. d.ecrit[<<j, "stocks", "groupe", "total">>] = IF K = H!Kinds THEN x2 ELSE H!Inconnu
      BY <2>1, <2>2 DEF H!Stocks
    <3>2. d.ecrit[<<j, "stocks", "groupe", k>>] = IF k \in K THEN x2 ELSE H!Inconnu
      BY <2>1, <2>2 DEF H!Stocks
    <3> QED BY <2>5, <3>1, <3>2
  <2>6. d.ecrit \in Ecrits
    <3>1. d.ecrit = [g \in DOMAIN d.ecrit |-> d.ecrit[g]]
      BY <2>1 DEF H!Stocks
    <3> QED BY <1>0, <2>2, <2>3, <3>1, EcritDe
  <2>7. Depose(d.ecrit, <<c, j>>)
    BY <1>0, <1>2, <2>2, <2>3, <2>4, <2>5 DEF Depose
  <2> QED BY <2>1, <2>2, <2>6, <2>7
<1>3. CASE c = "odoo"
  <2>1. PICK m \in BOOLEAN, sites \in {{}, Sites} :
          d = [ecrit |-> H!Odoo(j, m, sites), statut |-> IF m THEN "success" ELSE "partial"]
    BY <1>3 DEF H!Depots
  <2>2. /\ DOMAIN d.ecrit = {<<j, "odoo", "groupe", "">>} \cup {<<j, "odoo", "societe", s>> : s \in sites}
        /\ \A g \in DOMAIN d.ecrit : d.ecrit[g] \in {x2, H!Inconnu}
    BY <2>1 DEF H!Odoo
  <2>3. ASSUME NEW g \in DOMAIN d.ecrit PROVE g \in H!Grain /\ g[1] = j /\ g[2] = "odoo"
    <3>1. CASE g = <<j, "odoo", "groupe", "">>
      BY <3>1, Mailles
    <3>2. ASSUME NEW t \in sites, g = <<j, "odoo", "societe", t>> PROVE g \in H!Grain /\ g[1] = j /\ g[2] = "odoo"
      BY <2>1, <3>2, Mailles
    <3> QED BY <2>2, <3>1, <3>2
  <2>4. \A i \in H!Days, k \in H!Kinds :
          /\ <<i, "presence", "type", k>> \notin DOMAIN d.ecrit
          /\ <<i, "presence", "groupe", "">> \notin DOMAIN d.ecrit
          /\ \A t \in Sites : <<i, "presence", "site", t>> \notin DOMAIN d.ecrit
          /\ <<i, "stocks", "groupe", k>> \notin DOMAIN d.ecrit
          /\ <<i, "stocks", "groupe", "total">> \notin DOMAIN d.ecrit
    BY <2>2
  <2>5. d.ecrit \in Ecrits
    <3>1. d.ecrit = [g \in DOMAIN d.ecrit |-> d.ecrit[g]]
      BY <2>1 DEF H!Odoo
    <3> QED BY <1>0, <2>2, <2>3, <3>1, EcritDe
  <2>6. Depose(d.ecrit, <<c, j>>)
    BY <1>0, <1>3, <2>2, <2>3, <2>4 DEF Depose
  <2> QED BY <2>1, <2>2, <2>5, <2>6
<1> QED BY <1>1, <1>2, <1>3

\* The history starts in its inductive invariant.
LEMMA HistoriqueInit == ASSUME H!HistoriqueConstantes, H!Init PROVE HistoriqueIInv
<1> USE DEF H!Init, H!HistoriqueConstantes
<1>1. Fiches
  BY EcritVide DEF Fiches, H!Rien, H!Cles, H!Collections, H!Days
<1>2. H!TypeOK
  <2>1. x3 \in [H!Grain -> H!Mesures]
    BY DEF H!Mesures, H!Absent
  <2>2. x4 \in [H!Cles -> Calls \cup {H!Personne}]
    OBVIOUS
  <2>3. \A w \in Calls : /\ x7[w].cle \in H!Cles
                         /\ DOMAIN x7[w].ecrit \subseteq H!Grain
                         /\ x7[w].statut \in {"success", "partial", "failed", "skipped"}
    BY DEF H!Rien, H!Cles, H!Collections, H!Days
  <2>4. x1 \in H!Days /\ x2 \in 0..MaxChanges /\ x8 \in 0..MaxRuns
    BY DEF H!Days
  <2>7. x9 \in BOOLEAN
    OBVIOUS
  <2>5. x5 \in [Calls -> {"aucune", "running", "success", "partial", "error"}]
    OBVIOUS
  <2>6. x6 \in [Calls -> {"repos", "lire", "ecrire", "liberer", "tracer"}]
    OBVIOUS
  <2> QED BY <2>1, <2>2, <2>3, <2>4, <2>5, <2>6, <2>7 DEF H!TypeOK
<1>3. VerrouTenu /\ Recentes
  BY DEF VerrouTenu, EnCours, Recentes, H!Absent
<1>4. \A g \in H!Grain : x3[g] = -2
  BY DEF H!Absent
<1>5. H!DayIsWhole
  <2>1. ASSUME NEW j \in H!Days
        PROVE  /\ x3[<<j, "presence", "groupe", "">>] = -2
               /\ \A k \in H!Kinds : x3[<<j, "presence", "type", k>>] = -2
               /\ \A s \in Sites : x3[<<j, "presence", "site", s>>] = -2
    BY <1>4, Mailles
  <2>2. ASSUME NEW j \in H!Days, NEW k \in H!Kinds
        PROVE  /\ ~(x3[<<j, "presence", "groupe", "">>] >= 0)
               /\ \A l \in H!Kinds : x3[<<j, "presence", "type", l>>]
                                          = x3[<<j, "presence", "type", k>>]
               /\ \A s \in Sites : x3[<<j, "presence", "site", s>>]
                                        <= x3[<<j, "presence", "type", k>>]
    <3>1. ~(-2 >= 0) /\ -2 <= -2
      OBVIOUS
    <3> QED BY <2>1, <3>1, Zenon
  <2> QED BY <2>2 DEF H!DayIsWhole, H!Mesure
<1>6. H!TotalHasItsTerms
  BY <1>4, Mailles DEF H!TotalHasItsTerms, H!Mesure
<1> QED BY <1>1, <1>2, <1>3, <1>5, <1>6 DEF HistoriqueIInv

\* What the start of a collection does: the lock is free and taken, or taken and left alone.
LEMMA HistoriqueDebut ==
  ASSUME NEW w \in Calls, NEW c \in H!Collections, NEW j \in H!Days, H!Start(w, c, j)
  PROVE  /\ x6[w] = "repos" /\ UNCHANGED <<x1, x2, x3, x9>>
         /\ x8 < MaxRuns /\ x8' = x8 + 1 /\ x5' = [x5 EXCEPT ![w] = "running"]
         /\ \/ /\ x4[<<c, j>>] # H!Personne /\ x6' = [x6 EXCEPT ![w] = "tracer"] /\ x4' = x4
               /\ x7' = [x7 EXCEPT ![w] = [cle |-> <<c, j>>, ecrit |-> <<>>, statut |-> "skipped"]]
            \/ /\ x4[<<c, j>>] = H!Personne /\ x6' = [x6 EXCEPT ![w] = "lire"] /\ x4' = [x4 EXCEPT ![<<c, j>>] = w]
               /\ x7' = [x7 EXCEPT ![w] = [cle |-> <<c, j>>, ecrit |-> <<>>, statut |-> "failed"]]
<1>1. CASE H!Pris(<<c, j>>)
  BY <1>1 DEF H!Start, H!Pris, H!At, H!Goto
<1>2. CASE ~H!Pris(<<c, j>>)
  BY <1>2 DEF H!Start, H!Pris, H!At, H!Goto
<1> QED BY <1>1, <1>2

\* A step changes at most the sheet of one worker.
LEMMA HistoriqueFiches ==
  ASSUME H!HistoriqueConstantes, x2 \in 0..MaxChanges, Fiches, H!Next \/ UNCHANGED registers
  PROVE  Fiches'
<1> USE DEF Fiches
<1>1. ASSUME NEW w \in Calls, NEW c \in H!Collections, NEW j \in H!Days, H!Start(w, c, j) \/ H!StartBlind(w, c, j)
      PROVE  Fiches'
  <2>1. <<c, j>> \in H!Cles
    BY DEF H!Cles
  <2>2. CASE H!Start(w, c, j)
    BY <2>1, <2>2, HistoriqueDebut, FicheNeuve
  <2>3. CASE H!StartBlind(w, c, j)
    BY <2>1, <2>3, FicheNeuve DEF H!StartBlind
  <2> QED BY <1>1, <2>2, <2>3
<1>2. ASSUME NEW w \in Calls, H!Read(w) PROVE Fiches'
  <2>1. PICK c \in H!Collections, j \in H!Days : x7[w].cle = <<c, j>>
    BY DEF H!Cles
  <2>2. PICK d \in H!Depots(c, j) : x7' = [x7 EXCEPT ![w].ecrit = d.ecrit, ![w].statut = d.statut]
    <3>1. x7[w].cle[1] = c /\ x7[w].cle[2] = j
      BY <2>1
    <3>2. PICK d \in H!Depots(x7[w].cle[1], x7[w].cle[2]) :
            x7' = [x7 EXCEPT ![w].ecrit = d.ecrit, ![w].statut = d.statut]
      BY <1>2 DEF H!Read
    <3> QED BY <3>1, <3>2
  <2>3. d \in [ecrit : Ecrits, statut : {"success", "partial"}]
    BY DepotSain
  <2> QED BY <2>2, <2>3, FicheLue
<1>3. ASSUME NEW w \in Calls, H!Refused(w) \/ H!Release(w) \/ H!Write(w) PROVE Fiches'
  BY <1>3 DEF H!Refused, H!Release, H!Write
<1>4. ASSUME NEW w \in Calls, H!Trace(w) \/ H!Crash(w) PROVE Fiches'
  <2>1. <<"presence", 0>> \in H!Cles
    BY DEF H!Cles, H!Collections, H!Days, H!HistoriqueConstantes
  <2> QED BY <1>4, <2>1, EcritVide DEF H!Trace, H!Crash, H!Rien
<1>5. CASE H!Change \/ H!Midnight
  BY <1>5 DEF H!Change, H!Midnight
<1>6. ASSUME NEW k \in H!Cles, H!Expire(k) PROVE Fiches'
  BY <1>6 DEF H!Expire
<1>7. CASE UNCHANGED registers
  BY <1>7 DEF registers
<1> QED BY <1>1, <1>2, <1>3, <1>4, <1>5, <1>6, <1>7 DEF H!Next, H!Collect

\* Every step keeps the types.
LEMMA HistoriqueTypes ==
  ASSUME H!HistoriqueConstantes, H!TypeOK, Fiches, Recentes, H!Next \/ UNCHANGED registers
  PROVE  H!TypeOK'
<1>0. \A w \in Calls : /\ x7'[w].cle \in H!Cles
                       /\ DOMAIN x7'[w].ecrit \subseteq H!Grain
                       /\ x7'[w].statut \in {"success", "partial", "failed", "skipped"}
  BY HistoriqueFiches DEF H!TypeOK, Fiches, Ecrits
<1> USE <1>0 DEF H!HistoriqueConstantes, H!TypeOK, H!Goto, H!At
<1>1. ASSUME NEW w \in Calls, NEW c \in H!Collections, NEW j \in H!Days, H!Start(w, c, j) \/ H!StartBlind(w, c, j)
      PROVE  H!TypeOK'
  <2>1. <<c, j>> \in H!Cles
    BY DEF H!Cles
  <2>2. CASE H!Start(w, c, j)
    <3>1. UNCHANGED <<x1, x2, x3, x9>> /\ x8 < MaxRuns /\ x8' = x8 + 1 /\ x5' = [x5 EXCEPT ![w] = "running"]
      BY <2>2, HistoriqueDebut, Zenon
    <3>2. x8' \in 0..MaxRuns
      BY <3>1
    <3>3. x5' \in [Calls -> {"aucune", "running", "success", "partial", "error"}]
      BY <3>1
    <3>4. \/ x6' = [x6 EXCEPT ![w] = "tracer"] /\ x4' = x4
          \/ x6' = [x6 EXCEPT ![w] = "lire"] /\ x4' = [x4 EXCEPT ![<<c, j>>] = w]
      BY <2>2, HistoriqueDebut, Zenon
    <3>5. x4' \in [H!Cles -> Calls \cup {H!Personne}]
      BY <2>1, <3>4
    <3>6. x6' \in [Calls -> {"repos", "lire", "ecrire", "liberer", "tracer"}]
      BY <3>4
    <3> QED BY <3>1, <3>2, <3>3, <3>5, <3>6
  <2>3. CASE H!StartBlind(w, c, j)
    BY <2>1, <2>3 DEF H!StartBlind
  <2> QED BY <1>1, <2>2, <2>3
<1>2. ASSUME NEW w \in Calls, H!Read(w) PROVE H!TypeOK'
  BY <1>2 DEF H!Read
<1>3. ASSUME NEW w \in Calls, H!Refused(w) \/ H!Release(w) PROVE H!TypeOK'
  BY <1>3 DEF H!Refused, H!Release
<1>4. ASSUME NEW w \in Calls, H!Write(w) PROVE H!TypeOK'
  <2>1. \A g \in DOMAIN x7[w].ecrit : x7[w].ecrit[g] \in H!Mesures
    BY <1>4 DEF H!Write, Recentes, Depose
  <2> QED BY <1>4, <2>1 DEF H!Write, H!Ecrire
<1>5. ASSUME NEW w \in Calls, H!Trace(w) \/ H!Crash(w) PROVE H!TypeOK'
  <2>1. H!StatutTrace[x7[w].statut] \in {"success", "partial", "error"}
    BY DEF H!StatutTrace
  <2> QED BY <1>5, <2>1 DEF H!Trace, H!Crash
<1>6. CASE H!Change \/ H!Midnight
  BY <1>6 DEF H!Change, H!Midnight, H!Days
<1>7. ASSUME NEW k \in H!Cles, H!Expire(k) PROVE H!TypeOK'
  BY <1>7 DEF H!Expire
<1>8. CASE UNCHANGED registers
  BY <1>8 DEF registers
<1> QED BY <1>1, <1>2, <1>3, <1>4, <1>5, <1>6, <1>7, <1>8 DEF H!Next, H!Collect

\* A collection takes the lock when nobody has it, and keeps it until it releases it.
LEMMA HistoriqueVerrou ==
  ASSUME H!HistoriqueConstantes, H!TypeOK, Fiches, VerrouTenu, H!Next \/ UNCHANGED registers
  PROVE  VerrouTenu'
<1> USE DEF H!HistoriqueConstantes, H!TypeOK, Fiches, VerrouTenu, EnCours, H!Goto, H!At
<1>1. ASSUME NEW w \in Calls, NEW c \in H!Collections, NEW j \in H!Days, H!Start(w, c, j) PROVE VerrouTenu'
  <2>1. <<c, j>> \in H!Cles
    BY DEF H!Cles
  <2>2. (\A v \in Calls \ {w} : x7'[v] = x7[v]) /\ x7'[w].cle = <<c, j>>
    BY <1>1, <2>1, HistoriqueDebut, FicheNeuve DEF Fiches
  <2>3. CASE x4' = x4 /\ x6' = [x6 EXCEPT ![w] = "tracer"]
    BY <1>1, <2>2, <2>3, HistoriqueDebut
  <2>4. CASE x4[<<c, j>>] = H!Personne /\ x6' = [x6 EXCEPT ![w] = "lire"] /\ x4' = [x4 EXCEPT ![<<c, j>>] = w]
    <3>1. x9' = x9 /\ x4'[<<c, j>>] = w /\ \A k \in H!Cles : k # <<c, j>> => x4'[k] = x4[k]
      BY <1>1, <2>1, <2>4, HistoriqueDebut
    <3>2. \A v \in Calls \ {w} : x6'[v] = x6[v]
      BY <2>4
    <3>3. ASSUME ~x9', NEW v \in Calls, EnCours(v)' PROVE x4'[x7'[v].cle] = v
      <4>1. CASE v = w
        BY <2>2, <3>1, <4>1
      <4>2. CASE v # w
        <5>1. x7'[v] = x7[v] /\ EnCours(v) /\ ~x9
          BY <2>2, <3>1, <3>2, <3>3, <4>2
        <5>2. x4[x7[v].cle] = v /\ x7[v].cle \in H!Cles
          BY <5>1
        <5>3. v # H!Personne
          BY DEF H!Personne
        <5>4. x7[v].cle # <<c, j>>
          BY <2>4, <5>2, <5>3
        <5> QED BY <3>1, <5>1, <5>2, <5>4
      <4> QED BY <4>1, <4>2
    <3> QED BY <3>3
  <2> QED BY <1>1, <2>3, <2>4, HistoriqueDebut
<1>2. ASSUME NEW w \in Calls, NEW c \in H!Collections, NEW j \in H!Days, H!StartBlind(w, c, j) PROVE VerrouTenu'
  BY <1>2 DEF H!StartBlind
<1>3. ASSUME NEW w \in Calls, H!Read(w) PROVE VerrouTenu'
  BY <1>3 DEF H!Read
<1>4. ASSUME NEW w \in Calls, H!Refused(w) \/ H!Write(w) PROVE VerrouTenu'
  BY <1>4 DEF H!Refused, H!Write
<1>5. ASSUME NEW w \in Calls, H!Release(w) PROVE VerrouTenu'
  BY <1>5 DEF H!Release
<1>6. ASSUME NEW w \in Calls, H!Trace(w) \/ H!Crash(w) PROVE VerrouTenu'
  BY <1>6 DEF H!Trace, H!Crash
<1>7. CASE H!Change \/ H!Midnight
  BY <1>7 DEF H!Change, H!Midnight
<1>8. ASSUME NEW k \in H!Cles, H!Expire(k) PROVE VerrouTenu'
  BY <1>8 DEF H!Expire
<1>9. CASE UNCHANGED registers
  BY <1>9 DEF registers
<1> QED BY <1>1, <1>2, <1>3, <1>4, <1>5, <1>6, <1>7, <1>8, <1>9 DEF H!Next, H!Collect

\* What is read is read under the lock, at the version of the sources; only a writing changes a line.
LEMMA HistoriqueLectures ==
  ASSUME H!HistoriqueConstantes, H!TypeOK, Fiches, VerrouTenu, Recentes, H!Next \/ UNCHANGED registers
  PROVE  Recentes'
<1> USE DEF H!HistoriqueConstantes, H!TypeOK, Fiches, Recentes, H!Goto, H!At
<1>1. ASSUME NEW w \in Calls, NEW c \in H!Collections, NEW j \in H!Days, H!Start(w, c, j) \/ H!StartBlind(w, c, j)
      PROVE  Recentes'
  <2>1. <<c, j>> \in H!Cles
    BY DEF H!Cles
  <2>2. UNCHANGED <<x2, x3>> /\ \A v \in Calls : x6'[v] = "ecrire" => v # w /\ x6[v] = "ecrire"
    BY <1>1, HistoriqueDebut DEF H!StartBlind
  <2>3. \A v \in Calls \ {w} : x7'[v] = x7[v]
    BY <1>1, <2>1, HistoriqueDebut, FicheNeuve DEF H!StartBlind, Fiches
  <2>4. ~x9' => ~x9
    BY <1>1, HistoriqueDebut DEF H!StartBlind
  <2> QED BY <2>2, <2>3, <2>4
<1>2. ASSUME NEW w \in Calls, H!Read(w) PROVE Recentes'
  <2>1. PICK c \in H!Collections, j \in H!Days : x7[w].cle = <<c, j>>
    BY DEF H!Cles
  <2>2. PICK d \in H!Depots(c, j) : x7' = [x7 EXCEPT ![w].ecrit = d.ecrit, ![w].statut = d.statut]
    <3>1. x7[w].cle[1] = c /\ x7[w].cle[2] = j
      BY <2>1
    <3>2. PICK d \in H!Depots(x7[w].cle[1], x7[w].cle[2]) :
            x7' = [x7 EXCEPT ![w].ecrit = d.ecrit, ![w].statut = d.statut]
      BY <1>2 DEF H!Read
    <3> QED BY <3>1, <3>2
  <2>3. /\ Depose(d.ecrit, x7[w].cle)
        /\ \A g \in DOMAIN d.ecrit : d.ecrit[g] \in {x2, H!Inconnu}
        /\ d \in [ecrit : Ecrits, statut : {"success", "partial"}]
    BY <2>1, DepotSain
  <2>4. /\ x7'[w].ecrit = d.ecrit /\ x7'[w].cle = x7[w].cle
        /\ \A v \in Calls \ {w} : x7'[v] = x7[v]
    BY <2>2, <2>3, FicheLue DEF Fiches
  <2>5. \A v \in Calls \ {w} : x6'[v] = "ecrire" => x6[v] = "ecrire"
    BY <1>2 DEF H!Read
  <2>6. ASSUME NEW g \in DOMAIN d.ecrit PROVE d.ecrit[g] <= x2 /\ (H!Mesure(d.ecrit[g]) => x3[g] <= d.ecrit[g])
    <3>1. x3[g] <= x2
      BY <2>3 DEF Depose
    <3>2. d.ecrit[g] = x2 \/ d.ecrit[g] = -1
      BY <2>3 DEF H!Inconnu
    <3> QED BY <3>1, <3>2 DEF H!Mesure
  <2>7. UNCHANGED <<x2, x3, x9>>
    BY <1>2 DEF H!Read
  <2>8. \A g \in H!Grain : x3'[g] <= x2'
    BY <2>7
  <2>9. ASSUME NEW v \in Calls, x6'[v] = "ecrire"
        PROVE  /\ Depose(x7'[v].ecrit, x7'[v].cle)
               /\ \A g \in DOMAIN x7'[v].ecrit : x7'[v].ecrit[g] <= x2'
               /\ ~x9' => \A g \in DOMAIN x7'[v].ecrit : H!Mesure(x7'[v].ecrit[g]) => x3'[g] <= x7'[v].ecrit[g]
    <3>1. CASE v = w
      BY <2>3, <2>4, <2>6, <2>7, <3>1
    <3>2. CASE v # w
      BY <2>4, <2>5, <2>7, <2>9, <3>2
    <3> QED BY <3>1, <3>2
  <2> QED BY <2>8, <2>9
<1>3. ASSUME NEW w \in Calls, H!Write(w) PROVE Recentes'
  <2>1. x6[w] = "ecrire" /\ UNCHANGED <<x2, x7, x9>> /\ x6' = [x6 EXCEPT ![w] = "liberer"]
    BY <1>3 DEF H!Write
  <2>2. \A g \in H!Grain : x3'[g] = IF g \in DOMAIN x7[w].ecrit THEN x7[w].ecrit[g] ELSE x3[g]
    BY <1>3 DEF H!Write, H!Ecrire
  <2>3. \A g \in H!Grain : x3'[g] <= x2'
    BY <2>1, <2>2
  <2>4. ASSUME NEW v \in Calls, x6'[v] = "ecrire", ~x9, NEW g \in DOMAIN x7[v].ecrit
        PROVE  x3'[g] = x3[g]
    <3>1. v # w /\ x6[v] = "ecrire"
      BY <2>1, <2>4
    <3>2. x7[v].cle # x7[w].cle
      BY <2>1, <2>4, <3>1 DEF VerrouTenu, EnCours
    <3>3. g \in H!Grain /\ g[1] = x7[v].cle[2] /\ g[2] = x7[v].cle[1]
      BY <3>1 DEF Depose
    <3>4. x7[v].cle[1] # x7[w].cle[1] \/ x7[v].cle[2] # x7[w].cle[2]
      BY <3>2 DEF H!Cles
    <3>5. g \notin DOMAIN x7[w].ecrit
      BY <2>1, <3>3, <3>4 DEF Depose
    <3> QED BY <2>2, <3>3, <3>5
  <2> QED BY <2>1, <2>3, <2>4
<1>4. ASSUME NEW w \in Calls, H!Refused(w) \/ H!Release(w) PROVE Recentes'
  <2>1. UNCHANGED <<x2, x3, x7, x9>> /\ \A v \in Calls : x6'[v] = "ecrire" => x6[v] = "ecrire"
    BY <1>4 DEF H!Refused, H!Release
  <2> QED BY <2>1
<1>5. ASSUME NEW w \in Calls, H!Trace(w) \/ H!Crash(w) PROVE Recentes'
  BY <1>5 DEF H!Trace, H!Crash
<1>6. CASE H!Change
  <2>1. x2' = x2 + 1 /\ x2 \in Int /\ UNCHANGED <<x3, x6, x7, x9>>
    BY <1>6 DEF H!Change
  <2>2. \A g \in H!Grain : x3[g] \in Int
    BY DEF H!Mesures, H!Absent
  <2>3. ASSUME NEW w \in Calls, x6[w] = "ecrire", NEW g \in DOMAIN x7[w].ecrit PROVE x7[w].ecrit[g] \in Int
    <3>1. x7[w].ecrit[g] \in H!Mesures
      BY <2>3 DEF Depose
    <3> QED BY <3>1 DEF H!Mesures, H!Absent
  <2> QED BY <2>1, <2>2, <2>3
<1>7. CASE H!Midnight
  BY <1>7 DEF H!Midnight
<1>8. ASSUME NEW k \in H!Cles, H!Expire(k) PROVE Recentes'
  BY <1>8 DEF H!Expire
<1>9. CASE UNCHANGED registers
  BY <1>9 DEF registers
<1> QED BY <1>1, <1>2, <1>3, <1>4, <1>5, <1>6, <1>7, <1>8, <1>9 DEF H!Next, H!Collect

\* Only a collection changes the lines, all of its own at once.
LEMMA LignesSeulesEcrites ==
  ASSUME H!Next \/ UNCHANGED registers
  PROVE  x3' = x3 \/ \E w \in Calls : H!Write(w)
BY DEF H!Next, H!Collect, H!Start, H!StartBlind, H!Read, H!Refused, H!Release, H!Trace, H!Crash, H!Change,
       H!Midnight, H!Expire, registers

\* Once a lock has expired under its holder, or was granted without Redis, it is remembered.
LEMMA DepasseReste ==
  ASSUME H!TypeOK, H!Next \/ UNCHANGED registers
  PROVE  ~x9' => ~x9
<1> USE DEF H!TypeOK
<1>1. ASSUME NEW w \in Calls, H!Collect(w) \/ H!Crash(w) PROVE ~x9' => ~x9
  BY <1>1 DEF H!Collect, H!Start, H!StartBlind, H!Read, H!Refused, H!Write, H!Release, H!Trace, H!Crash
<1>2. CASE H!Change \/ H!Midnight
  BY <1>2 DEF H!Change, H!Midnight
<1>3. ASSUME NEW k \in H!Cles, H!Expire(k) PROVE ~x9' => ~x9
  BY <1>3 DEF H!Expire
<1>4. CASE UNCHANGED registers
  BY <1>4 DEF registers
<1> QED BY <1>1, <1>2, <1>3, <1>4 DEF H!Next

\* After every step of the history the days are whole and the totals have their terms.
LEMMA HistoriqueEntier ==
  ASSUME HistoriqueIInv, H!Next \/ UNCHANGED registers
  PROVE  H!DayIsWhole' /\ H!TotalHasItsTerms'
<1>1. CASE x3' = x3
  BY <1>1, DepasseReste DEF HistoriqueIInv, H!DayIsWhole, H!TotalHasItsTerms
<1>2. ASSUME NEW w \in Calls, H!Write(w) PROVE H!DayIsWhole' /\ H!TotalHasItsTerms'
  <2>1. \A g \in H!Grain : x3'[g] = IF g \in DOMAIN x7[w].ecrit THEN x7[w].ecrit[g] ELSE x3[g]
    BY <1>2 DEF H!Write, H!Ecrire
  <2>2. Depose(x7[w].ecrit, x7[w].cle)
    BY <1>2 DEF HistoriqueIInv, Recentes, H!Write, H!At
  <2>3. ASSUME NEW j \in H!Days, NEW k \in H!Kinds, H!Mesure(x3'[<<j, "presence", "groupe", "">>])
        PROVE  x3'[<<j, "presence", "type", k>>] = x3'[<<j, "presence", "groupe", "">>]
    <3> DEFINE groupe == <<j, "presence", "groupe", "">>
               type == <<j, "presence", "type", k>>
               e == x7[w].ecrit
    <3>1. groupe \in H!Grain /\ type \in H!Grain
      BY Mailles
    <3>2. H!Mesure(x3[groupe]) => x3[type] = x3[groupe]
      BY DEF HistoriqueIInv, H!DayIsWhole
    <3>3. /\ type \in DOMAIN e => groupe \in DOMAIN e /\ H!Mesure(e[groupe])
          /\ groupe \in DOMAIN e /\ H!Mesure(e[groupe]) => type \in DOMAIN e /\ e[type] = e[groupe]
      BY <2>2 DEF Depose
    <3>4. /\ x3'[groupe] = IF groupe \in DOMAIN e THEN e[groupe] ELSE x3[groupe]
          /\ x3'[type] = IF type \in DOMAIN e THEN e[type] ELSE x3[type]
      BY <2>1, <3>1
    <3>5. H!Mesure(x3'[groupe])
      BY <2>3
    <3>6. CASE groupe \in DOMAIN e
      <4> HIDE DEF groupe, type, e
      <4>1. x3'[groupe] = e[groupe]
        BY <3>4, <3>6
      <4>2. H!Mesure(e[groupe])
        BY <3>5, <4>1
      <4>3. type \in DOMAIN e /\ e[type] = e[groupe]
        BY <3>3, <3>6, <4>2
      <4> QED BY <3>4, <4>1, <4>3 DEF groupe, type
    <3>7. CASE groupe \notin DOMAIN e
      <4> HIDE DEF groupe, type, e
      <4>1. type \notin DOMAIN e
        BY <3>3, <3>7
      <4>2. x3'[groupe] = x3[groupe] /\ x3'[type] = x3[type]
        BY <3>4, <3>7, <4>1
      <4> QED BY <3>2, <3>5, <4>2 DEF groupe, type
    <3> QED BY <3>6, <3>7
  <2>4. ASSUME NEW j \in H!Days, NEW k \in H!Kinds, H!Mesure(x3'[<<j, "stocks", "groupe", "total">>])
        PROVE  x3'[<<j, "stocks", "groupe", k>>] = x3'[<<j, "stocks", "groupe", "total">>]
    <3> DEFINE terme == <<j, "stocks", "groupe", k>>
               total == <<j, "stocks", "groupe", "total">>
               e == x7[w].ecrit
    <3>1. H!Mesure(x3[total]) => x3[terme] = x3[total]
      BY DEF HistoriqueIInv, H!TotalHasItsTerms
    <3>2. /\ x3'[terme] = IF terme \in DOMAIN e THEN e[terme] ELSE x3[terme]
          /\ x3'[total] = IF total \in DOMAIN e THEN e[total] ELSE x3[total]
      BY <2>1, Mailles
    <3>3. /\ terme \in DOMAIN e <=> total \in DOMAIN e
          /\ total \in DOMAIN e /\ H!Mesure(e[total]) => e[terme] = e[total]
      BY <2>2 DEF Depose
    <3>4. H!Mesure(x3'[total])
      BY <2>4
    <3> HIDE DEF terme, total, e
    <3>5. x3'[terme] = x3'[total]
      BY <3>1, <3>2, <3>3, <3>4
    <3> QED BY <3>5 DEF terme, total
  <2>5. ASSUME NEW j \in H!Days, NEW k \in H!Kinds, NEW l \in H!Kinds
        PROVE  x3'[<<j, "presence", "type", l>>] = x3'[<<j, "presence", "type", k>>]
    <3>1. x3[<<j, "presence", "type", l>>] = x3[<<j, "presence", "type", k>>]
      BY DEF HistoriqueIInv, H!DayIsWhole
    <3> DEFINE un == <<j, "presence", "type", l>>
               deux == <<j, "presence", "type", k>>
               groupe == <<j, "presence", "groupe", "">>
               e == x7[w].ecrit
    <3>2. /\ x3'[un] = IF un \in DOMAIN e THEN e[un] ELSE x3[un]
          /\ x3'[deux] = IF deux \in DOMAIN e THEN e[deux] ELSE x3[deux]
      BY <2>1, Mailles
    <3>3. \A m \in H!Kinds :
            /\ <<j, "presence", "type", m>> \in DOMAIN e => groupe \in DOMAIN e /\ H!Mesure(e[groupe])
            /\ groupe \in DOMAIN e /\ H!Mesure(e[groupe])
               => /\ <<j, "presence", "type", m>> \in DOMAIN e
                  /\ e[<<j, "presence", "type", m>>] = e[groupe]
      BY <2>2 DEF Depose
    <3>4. /\ un \in DOMAIN e <=> deux \in DOMAIN e
          /\ un \in DOMAIN e => e[un] = e[deux]
      BY <3>3
    <3> HIDE DEF un, deux, e
    <3>5. x3[un] = x3[deux]
      BY <3>1 DEF un, deux
    <3>6. x3'[un] = x3'[deux]
      BY <3>2, <3>4, <3>5
    <3> QED BY <3>6 DEF un, deux
  <2>6. ASSUME ~x9', NEW j \in H!Days, NEW k \in H!Kinds, NEW s \in Sites
        PROVE  x3'[<<j, "presence", "site", s>>] <= x3'[<<j, "presence", "type", k>>]
    <3> DEFINE site == <<j, "presence", "site", s>>
               type == <<j, "presence", "type", k>>
               e == x7[w].ecrit
    <3>1. site \in H!Grain /\ type \in H!Grain
      BY Mailles
    <3>2. x3[site] <= x3[type]
      BY <2>6, DepasseReste DEF HistoriqueIInv, H!DayIsWhole
    <3>3. /\ site \in DOMAIN e => type \in DOMAIN e /\ e[site] = e[type]
          /\ type \in DOMAIN e => /\ <<j, "presence", "groupe", "">> \in DOMAIN e
                                  /\ H!Mesure(e[<<j, "presence", "groupe", "">>])
      BY <2>2 DEF Depose
    <3>4. type \in DOMAIN e => H!Mesure(e[type])
      BY <2>2, <3>3 DEF Depose
    <3>5. type \in DOMAIN e => x3[type] <= e[type]
      BY <1>2, <2>6, <3>4, DepasseReste DEF HistoriqueIInv, Recentes, H!Write, H!At
    <3>6. x3[site] \in Int /\ x3[type] \in Int /\ (type \in DOMAIN e => e[type] \in Int)
      <4>1. x3[site] \in H!Mesures /\ x3[type] \in H!Mesures
        BY <3>1 DEF HistoriqueIInv, H!TypeOK
      <4>2. type \in DOMAIN e => e[type] \in H!Mesures
        BY <2>2 DEF Depose
      <4>3. H!Mesures \subseteq Int
        BY DEF H!Mesures, H!Absent
      <4> HIDE DEF site, type, e
      <4> QED BY <4>1, <4>2, <4>3
    <3>7. /\ x3'[site] = IF site \in DOMAIN e THEN e[site] ELSE x3[site]
          /\ x3'[type] = IF type \in DOMAIN e THEN e[type] ELSE x3[type]
      BY <2>1, <3>1
    <3> HIDE DEF site, type, e
    <3>8. x3'[site] <= x3'[type]
      <4>1. CASE site \in DOMAIN e
        <5>1. type \in DOMAIN e /\ e[site] = e[type] /\ e[type] \in Int
          BY <3>3, <3>6, <4>1
        <5>2. x3'[site] = e[type] /\ x3'[type] = e[type]
          BY <3>7, <4>1, <5>1
        <5> QED BY <5>1, <5>2
      <4>2. CASE site \notin DOMAIN e /\ type \in DOMAIN e
        <5>1. x3'[site] = x3[site] /\ x3'[type] = e[type]
          BY <3>7, <4>2
        <5> QED BY <3>2, <3>5, <3>6, <4>2, <5>1
      <4>3. CASE site \notin DOMAIN e /\ type \notin DOMAIN e
        <5>1. x3'[site] = x3[site] /\ x3'[type] = x3[type]
          BY <3>7, <4>3
        <5> QED BY <3>2, <5>1
      <4> QED BY <4>1, <4>2, <4>3
    <3> QED BY <3>8 DEF site, type
  <2> QED BY <2>3, <2>4, <2>5, <2>6 DEF H!DayIsWhole, H!TotalHasItsTerms
<1> QED BY <1>1, <1>2, LignesSeulesEcrites

HistoriqueInv == part = "historique" => HistoriqueIInv

\* The inductive invariant of the history always holds.
LEMMA HistoriqueTenu == PlateformeSpec => []HistoriqueInv
<1>1. H!HistoriqueConstantes
  BY Constantes
<1>2. PlateformeInit => HistoriqueInv
  BY <1>1, Depart, HistoriqueInit DEF HistoriqueInv
<1>3. HistoriqueInv /\ [PlateformeNext]_plateforme => HistoriqueInv'
  <2> SUFFICES ASSUME part = "historique", HistoriqueIInv, [PlateformeNext]_plateforme PROVE HistoriqueIInv'
    BY PartFixe DEF HistoriqueInv
  <2>1. H!Next \/ UNCHANGED registers
    BY Pas DEF Suit
  <2>2. H!TypeOK /\ x2 \in 0..MaxChanges /\ Fiches /\ VerrouTenu /\ Recentes
    BY DEF HistoriqueIInv, H!TypeOK
  <2> QED
    BY <1>1, <2>1, <2>2, HistoriqueTypes, HistoriqueFiches, HistoriqueVerrou, HistoriqueLectures, HistoriqueEntier
       DEF HistoriqueIInv
<1> QED BY <1>2, <1>3, PTL DEF PlateformeSpec

\* One collection of a source and a day at a time while the lock outlives it; where the Group is measured its
\* kinds of staff are, from the same reading, the kinds are of one reading, and no line by site is of a later
\* one while the locks hold; a total measured has its terms, from the same collection (JourneesEntieres;
\* historique.py: collecter_presence_shield, collecter_stocks_shield, _verrouiller).
THEOREM DaysAreWhole == PlateformeSpec => []JourneesEntieres
<1>1. HistoriqueInv => JourneesEntieres
  <2> SUFFICES ASSUME part = "historique", HistoriqueIInv
      PROVE  H!OneCollection /\ H!DayIsWhole /\ H!TotalHasItsTerms
    BY DEF HistoriqueInv, JourneesEntieres
  <2>1. H!OneCollection
    BY DEF HistoriqueIInv, VerrouTenu, EnCours, H!OneCollection
  <2> QED BY <2>1 DEF HistoriqueIInv
<1> QED BY HistoriqueTenu, <1>1, PTL

\* While the lock outlives the collections, no line of the history is replaced by an older reading.
THEOREM LinesNeverGoBack == PlateformeSpec => NeverOlder
<1>1. HistoriqueInv /\ [PlateformeNext]_plateforme => [part = "historique" /\ ~x9 => ~H!Older]_plateforme
  <2> SUFFICES ASSUME HistoriqueIInv, part = "historique", ~x9, [PlateformeNext]_plateforme,
                      NEW g \in H!Grain, H!Mesure(x3[g]), H!Mesure(x3'[g]), x3'[g] < x3[g]
      PROVE  FALSE
    BY DEF HistoriqueInv, H!Older
  <2>1. H!Next \/ UNCHANGED registers
    BY Pas DEF Suit
  <2>2. x3[g] \in Int
    BY DEF HistoriqueIInv, H!TypeOK, H!Mesures, H!Absent
  <2>3. CASE x3' = x3
    BY <2>2, <2>3
  <2>4. ASSUME NEW w \in Calls, H!Write(w) PROVE FALSE
    <3>1. x6[w] = "ecrire" /\ x3'[g] = IF g \in DOMAIN x7[w].ecrit THEN x7[w].ecrit[g] ELSE x3[g]
      BY <2>4 DEF H!Write, H!Ecrire, H!At
    <3>2. CASE g \in DOMAIN x7[w].ecrit
      <4>1. x3[g] <= x7[w].ecrit[g]
        BY <3>1, <3>2 DEF HistoriqueIInv, Recentes
      <4>2. x7[w].ecrit[g] \in Int
        <5>1. x7[w].ecrit[g] \in H!Mesures
          BY <3>1, <3>2 DEF HistoriqueIInv, Recentes, Depose
        <5> QED BY <5>1 DEF H!Mesures, H!Absent
      <4> QED BY <2>2, <3>1, <3>2, <4>1, <4>2
    <3>3. CASE g \notin DOMAIN x7[w].ecrit
      BY <2>2, <3>1, <3>3
    <3> QED BY <3>2, <3>3
  <2> QED BY <2>1, <2>3, <2>4, LignesSeulesEcrites
<1> QED BY HistoriqueTenu, <1>1, PTL DEF PlateformeSpec, NeverOlder

-----------------------------------------------------------------------------
(* The control plane of the sources, for any parameters.  x1 is the row of *)
(* the source, x2 its connector, x3 the credentials, x4 the jobs, x5 the   *)
(* refused trials, x6 the requests in flight, x7 the secrets typed, x8     *)
(* those tried, x9 whether the source answered, x10 whether a worker       *)
(* stopped in a synchronisation.                                           *)
EnTest(n) == [op : {"test"}, ok : BOOLEAN, preuve : BOOLEAN, cle : {0} \cup 1..(n + 1),
              pas : {"sonde", "verdict", "statut"}]
EnSync(n) == [op : {"sync"}, job : 1..n, demo : BOOLEAN, connected : BOOLEAN]
EnFiche(d, s, n) == [op : {"fiche"}, row : S(d, s, n)!Sources]
EnConnecteur(d, s, n) == [op : {"connecteur"}, row : S(d, s, n)!Connectors]
PasDuCompte == {"essai", "database", "login", "api_key", "menage", "connecteur", "statut", "oubli"}
EnCompte(s, n) == [op : {"compte"}, pas : PasDuCompte, cle : 1..(n + 1), essais : 0..(Essais - 1), secret : 1..s]

SourceTypes(d, s, n) ==
  /\ S(d, s, n)!TypeOK
  /\ x6 \in [Equipe -> {S(d, s, n)!Rien} \cup EnTest(n) \cup EnSync(n) \cup EnFiche(d, s, n)
                         \cup EnConnecteur(d, s, n) \cup EnCompte(s, n)]

\* What is said positive was answered: by the probe of a test, by the one a verdict keeps, by Odoo.
Repondu(d, s, n) ==
  /\ S(d, s, n)!ConnectedProven
  /\ x2 # S(d, s, n)!Absente /\ x2.ok = "oui" => x9
  /\ \A a \in Equipe :
       /\ x6[a].op = "test" /\ x6[a].preuve /\ x6[a].ok => x9
       /\ x6[a].op = "sync" /\ x6[a].connected => x9
       /\ x6[a].op = "compte" /\ x6[a].pas # "essai" => x9

\* What an edit saves back of the row and of the connector is what is there.
Relu(d, s, n) ==
  \A a \in Equipe :
    /\ x6[a].op = "fiche" => /\ S(d, s, n)!Presente
                             /\ x6[a].row.status = x1.status /\ x6[a].row.type = x1.type
    /\ x6[a].op = "connecteur" => S(d, s, n)!Presente /\ x2 # S(d, s, n)!Absente /\ x6[a].row.ok = x2.ok

SansSource(d, s, n) == ~S(d, s, n)!Presente => x2 = S(d, s, n)!Absente /\ x3["password"] = 0

SourceIInv(d, s, n) ==
  /\ SourceTypes(d, s, n) /\ Repondu(d, s, n) /\ Relu(d, s, n) /\ SansSource(d, s, n)
  /\ S(d, s, n)!PasswordTried /\ S(d, s, n)!SyncingHasOwner

\* The marks of an absent source are not sources.
LEMMA RienNEstUneSource ==
  ASSUME NEW d, NEW s, NEW n
  PROVE  /\ S(d, s, n)!Jamais \notin S(d, s, n)!Sources /\ S(d, s, n)!Supprimee \notin S(d, s, n)!Sources
         /\ S(d, s, n)!Absente \notin S(d, s, n)!Connectors
BY DEF S!Jamais, S!Supprimee, S!Sources, S!Absente, S!Connectors

\* Each request in flight has the fields of its kind.
LEMMA AppelsTypes ==
  ASSUME NEW d, NEW s, NEW n, SourceTypes(d, s, n), NEW a \in Equipe
  PROVE  /\ x6[a].op = "rien" => x6[a] = S(d, s, n)!Rien
         /\ x6[a].op = "test" => x6[a] \in EnTest(n)
         /\ x6[a].op = "sync" => x6[a] \in EnSync(n)
         /\ x6[a].op = "fiche" => x6[a] \in EnFiche(d, s, n)
         /\ x6[a].op = "connecteur" => x6[a] \in EnConnecteur(d, s, n)
         /\ x6[a].op = "compte" => x6[a] \in EnCompte(s, n)
BY DEF SourceTypes, EnTest, EnSync, EnFiche, EnConnecteur, EnCompte, S!Rien

\* The status of a job is replaced, or there is no such job.
LEMMA StatutRemplace ==
  ASSUME NEW domaine, NEW q \in Seq(domaine), NEW i, NEW e \in domaine
  PROVE  [q EXCEPT ![i] = e] \in Seq(domaine) /\ Len([q EXCEPT ![i] = e]) = Len(q)
<1>1. CASE i \in 1..Len(q)
  BY <1>1, ExceptSeq
<1>2. CASE i \notin 1..Len(q)
  <2>1. [q EXCEPT ![i] = e] = q
    BY <1>2
  <2> QED BY <2>1
<1> QED BY <1>1, <1>2

\* What a request or a crash makes of the requests in flight: only its own changes.
LEMMA AppelChange ==
  ASSUME NEW d, NEW s, NEW n, SourceTypes(d, s, n), NEW a \in Equipe,
         NEW r \in {S(d, s, n)!Rien} \cup EnTest(n) \cup EnSync(n) \cup EnFiche(d, s, n)
                     \cup EnConnecteur(d, s, n) \cup EnCompte(s, n),
         x6' = [x6 EXCEPT ![a] = r]
  PROVE  /\ x6' \in [Equipe -> {S(d, s, n)!Rien} \cup EnTest(n) \cup EnSync(n) \cup EnFiche(d, s, n)
                                \cup EnConnecteur(d, s, n) \cup EnCompte(s, n)]
         /\ x6'[a] = r /\ \A b \in Equipe \ {a} : x6'[b] = x6[b]
         /\ \A b \in Equipe : x6'[b].op \in {"rien", "test", "sync", "fiche", "connecteur", "compte"}
<1> DEFINE sortes == {S(d, s, n)!Rien} \cup EnTest(n) \cup EnSync(n) \cup EnFiche(d, s, n)
                  \cup EnConnecteur(d, s, n) \cup EnCompte(s, n)
<1>1. \A e \in sortes : e.op \in {"rien", "test", "sync", "fiche", "connecteur", "compte"}
  BY DEF EnTest, EnSync, EnFiche, EnConnecteur, EnCompte, S!Rien
<1>2. x6 \in [Equipe -> sortes] /\ r \in sortes
  BY DEF SourceTypes
<1> HIDE DEF sortes
<1>3. x6' \in [Equipe -> sortes] /\ x6'[a] = r /\ \A b \in Equipe \ {a} : x6'[b] = x6[b]
  BY <1>2
<1> QED BY <1>1, <1>3 DEF sortes

\* Every request, begun or continued, keeps the types.
LEMMA SourceTypesPas ==
  ASSUME NEW d, NEW s, NEW n, S(d, s, n)!SourceConstantes, SourceTypes(d, s, n),
         S(d, s, n)!Next \/ UNCHANGED registers
  PROVE  SourceTypes(d, s, n)'
<1> USE DEF S!SourceConstantes, S!Libre, S!Ends, S!Status, S!TypeOK
<1>1. ASSUME NEW a \in Equipe, S(d, s, n)!Request(a) PROVE SourceTypes(d, s, n)'
  <2>1. ASSUME NEW type \in Types, NEW demo \in d, NEW cle \in 1..(n + 1),
              S(d, s, n)!Create(a, type, demo, cle) PROVE SourceTypes(d, s, n)'
    BY <2>1 DEF SourceTypes, S!Create, S!ConnecteurVide, S!Sources, S!Connectors, S!Statuses, S!Verdicts
  <2>2. CASE S(d, s, n)!OpenFiche(a)
    <3>1. [op |-> "fiche", row |-> x1] \in EnFiche(d, s, n)
      BY <2>2 DEF SourceTypes, S!OpenFiche, S!Presente, EnFiche
    <3> QED BY <2>2, <3>1, AppelChange DEF SourceTypes, S!OpenFiche
  <2>3. CASE S(d, s, n)!OpenConnector(a)
    <3>1. [op |-> "connecteur", row |-> x2] \in EnConnecteur(d, s, n)
      BY <2>3 DEF SourceTypes, S!OpenConnector, EnConnecteur
    <3> QED BY <2>3, <3>1, AppelChange DEF SourceTypes, S!OpenConnector
  <2>4. CASE S(d, s, n)!Toggle(a)
    BY <2>4 DEF SourceTypes, S!Toggle, S!Presente, S!Sources, S!Statuses
  <2>5. CASE S(d, s, n)!Destroy(a)
    <3>1. x4' \in Seq({"running", "success", "error"}) /\ Len(x4') <= n
      BY <2>5 DEF SourceTypes, S!Destroy
    <3> QED BY <2>5, <3>1 DEF SourceTypes, S!Destroy
  <2>6. ASSUME NEW kind \in S(d, s, n)!Kinds, S(d, s, n)!Deposit(a, kind) PROVE SourceTypes(d, s, n)'
    BY <2>6 DEF SourceTypes, S!Deposit
  <2>7. ASSUME NEW kind \in S(d, s, n)!Kinds, S(d, s, n)!Revoke(a, kind) PROVE SourceTypes(d, s, n)'
    BY <2>7 DEF SourceTypes, S!Revoke
  <2>8. CASE S(d, s, n)!ShieldAccount(a)
    BY <2>8 DEF SourceTypes, S!ShieldAccount, S!Kinds
  <2>9. ASSUME NEW probe \in BOOLEAN, S(d, s, n)!BeginTest(a, probe) PROVE SourceTypes(d, s, n)'
    <3>1. PICK ok \in BOOLEAN, cle \in {0} \cup 1..(n + 1), pas \in {"sonde", "verdict", "statut"} :
            x6' = [x6 EXCEPT ![a] = [op |-> "test", ok |-> ok, preuve |-> FALSE, cle |-> cle, pas |-> pas]]
      <4>1. S(d, s, n)!ConfigValide(x1.type, x2, x3) \in BOOLEAN
        BY DEF S!ConfigValide
      <4>2. x2 # S(d, s, n)!Absente => x2.cle \in 1..(n + 1)
        BY DEF SourceTypes, S!Connectors
      <4> DEFINE lue == IF x2 = S(d, s, n)!Absente THEN 0 ELSE x2.cle
                 suite == CASE x2 = S(d, s, n)!Absente -> "statut"
                            [] S(d, s, n)!ConfigValide(x1.type, x2, x3) /\ probe /\ S(d, s, n)!Sondable(x1.type) -> "sonde"
                            [] OTHER -> "verdict"
      <4>3. lue \in {0} \cup 1..(n + 1) /\ suite \in {"sonde", "verdict", "statut"}
        BY <4>2
      <4>4. x6' = [x6 EXCEPT ![a] = [op |-> "test", ok |-> S(d, s, n)!ConfigValide(x1.type, x2, x3), preuve |-> FALSE,
                                     cle |-> lue, pas |-> suite]]
        BY <2>9 DEF S!BeginTest
      <4> HIDE DEF lue, suite
      <4> QED BY <4>1, <4>3, <4>4
    <3>2. [op |-> "test", ok |-> ok, preuve |-> FALSE, cle |-> cle, pas |-> pas] \in EnTest(n)
      BY DEF EnTest
    <3>3. UNCHANGED <<x1, x2, x3, x4, x5, x7, x8, x9, x10>>
      BY <2>9 DEF S!BeginTest
    <3> QED BY <3>1, <3>2, <3>3, AppelChange DEF SourceTypes
  <2>10. CASE S(d, s, n)!BeginSync(a)
    <3>1. x1 \in S(d, s, n)!Sources /\ Len(x4) \in Nat /\ Len(x4) + 1 <= n
      BY <2>10 DEF SourceTypes, S!BeginSync, S!Presente
    <3>2. x1' \in S(d, s, n)!Sources
      BY <2>10, <3>1 DEF S!BeginSync, S!Sources, S!Statuses
    <3>3. x4' \in Seq({"running", "success", "error"}) /\ Len(x4') <= n
      BY <2>10, <3>1 DEF SourceTypes, S!BeginSync
    <3>4. PICK c \in BOOLEAN :
            x6' = [x6 EXCEPT ![a] = [op |-> "sync", job |-> Len(x4) + 1, demo |-> x1.demo, connected |-> c]]
      BY <2>10 DEF S!BeginSync
    <3>5. [op |-> "sync", job |-> Len(x4) + 1, demo |-> x1.demo, connected |-> c] \in EnSync(n)
      BY <3>1 DEF EnSync, S!Sources
    <3> QED BY <2>10, <3>2, <3>3, <3>4, <3>5, AppelChange DEF SourceTypes, S!BeginSync
  <2>11. ASSUME NEW cle \in 1..(n + 1), S(d, s, n)!BeginAccount(a, cle) PROVE SourceTypes(d, s, n)'
    <3>1. [op |-> "compte", pas |-> "essai", cle |-> cle, essais |-> x5, secret |-> x7 + 1] \in EnCompte(s, n)
      BY <2>11 DEF SourceTypes, S!BeginAccount, EnCompte, PasDuCompte
    <3>2. x2' \in S(d, s, n)!Connectors \cup {S(d, s, n)!Absente}
      <4>1. CASE x2 = S(d, s, n)!Absente
        <5>1. x2' = S(d, s, n)!ConnecteurVide(cle)
          BY <2>11, <4>1 DEF S!BeginAccount
        <5> QED BY <5>1 DEF S!ConnecteurVide, S!Connectors, S!Verdicts
      <4>2. CASE x2 # S(d, s, n)!Absente
        BY <2>11, <4>2 DEF SourceTypes, S!BeginAccount
      <4> QED BY <4>1, <4>2
    <3> QED BY <2>11, <3>1, <3>2, AppelChange DEF SourceTypes, S!BeginAccount
  <2>12. CASE S(d, s, n)!RemoveConnector(a)
    BY <2>12 DEF SourceTypes, S!RemoveConnector
  <2>13. ASSUME NEW cle \in 1..(n + 1), NEW url \in BOOLEAN, NEW config \in BOOLEAN,
                S(d, s, n)!AddConnector(a, cle, url, config) PROVE SourceTypes(d, s, n)'
    BY <2>13 DEF SourceTypes, S!AddConnector, S!ConnecteurVide, S!Connectors, S!Verdicts
  <2> QED
    BY <1>1, <2>1, <2>2, <2>3, <2>4, <2>5, <2>6, <2>7, <2>8, <2>9, <2>10, <2>11, <2>12, <2>13 DEF S!Request
<1>2. ASSUME NEW a \in Equipe, S(d, s, n)!Continue(a) PROVE SourceTypes(d, s, n)'
  <2>1. ASSUME NEW type \in Types, NEW active \in BOOLEAN, NEW demo \in d, S(d, s, n)!SaveFiche(a, type, active, demo)
        PROVE  SourceTypes(d, s, n)'
    <3>1. x6[a] \in EnFiche(d, s, n)
      BY <2>1, AppelsTypes DEF S!SaveFiche
    <3>2. x1' \in S(d, s, n)!Sources
      BY <2>1, <3>1 DEF S!SaveFiche, EnFiche, S!Sources
    <3> QED BY <2>1, <3>2, AppelChange DEF SourceTypes, S!SaveFiche
  <2>2. ASSUME NEW url \in BOOLEAN, NEW config \in BOOLEAN, S(d, s, n)!SaveConnector(a, url, config)
        PROVE  SourceTypes(d, s, n)'
    <3>1. x6[a] \in EnConnecteur(d, s, n)
      BY <2>2, AppelsTypes DEF S!SaveConnector
    <3>2. x2' \in S(d, s, n)!Connectors \cup {S(d, s, n)!Absente}
      BY <2>2, <3>1 DEF SourceTypes, S!SaveConnector, EnConnecteur, S!Connectors
    <3> QED BY <2>2, <3>2, AppelChange DEF SourceTypes, S!SaveConnector
  <2>3. ASSUME NEW ok \in BOOLEAN, S(d, s, n)!Probed(a, ok) PROVE SourceTypes(d, s, n)'
    <3>1. x6[a] \in EnTest(n)
      BY <2>3, AppelsTypes DEF S!Probed
    <3>2. [x6[a] EXCEPT !.ok = ok, !.preuve = TRUE, !.pas = "verdict"] \in EnTest(n)
      BY <3>1 DEF EnTest
    <3>3. x6' = [x6 EXCEPT ![a] = [x6[a] EXCEPT !.ok = ok, !.preuve = TRUE, !.pas = "verdict"]]
      BY <2>3 DEF S!Probed
    <3>4. x9' \in BOOLEAN
      BY <2>3 DEF S!Probed
    <3> QED BY <2>3, <3>2, <3>3, <3>4, AppelChange DEF SourceTypes, S!Probed
  <2>4. CASE S(d, s, n)!StoreVerdict(a)
    <3>1. x6[a] \in EnTest(n)
      BY <2>4, AppelsTypes DEF S!StoreVerdict
    <3>2. [x6[a] EXCEPT !.pas = "statut"] \in EnTest(n)
      BY <3>1 DEF EnTest
    <3>3. x6' = [x6 EXCEPT ![a] = [x6[a] EXCEPT !.pas = "statut"]]
      BY <2>4 DEF S!StoreVerdict
    <3>4. x2' \in S(d, s, n)!Connectors \cup {S(d, s, n)!Absente}
      BY <2>4 DEF SourceTypes, S!StoreVerdict, S!EstLa, S!VerdictDuTest, S!Connectors, S!Verdicts
    <3> QED BY <2>4, <3>2, <3>3, <3>4, AppelChange DEF SourceTypes, S!StoreVerdict
  <2>5. CASE S(d, s, n)!StoreStatus(a)
    <3>1. x1' \in S(d, s, n)!Sources
      BY <2>5 DEF SourceTypes, S!StoreStatus, S!StatutDuTest, S!Presente, S!Sources, S!Statuses
    <3> QED BY <2>5, <3>1, AppelChange DEF SourceTypes, S!StoreStatus
  <2>6. CASE S(d, s, n)!EndSync(a)
    <3>1. x1' \in S(d, s, n)!Sources
      BY <2>6 DEF SourceTypes, S!EndSync, S!StatutApresSync, S!Presente, S!Sources, S!Statuses
    <3>2. x4' \in Seq({"running", "success", "error"}) /\ Len(x4') <= n
      <4> DEFINE statuts == {"running", "success", "error"}
      <4>1. PICK r \in statuts : x4' = [x4 EXCEPT ![x6[a].job] = r]
        BY <2>6 DEF S!EndSync
      <4>2. x4 \in Seq(statuts) /\ Len(x4) <= n
        BY DEF SourceTypes
      <4> HIDE DEF statuts
      <4>3. x4' \in Seq(statuts) /\ Len(x4') = Len(x4)
        BY <4>1, <4>2, StatutRemplace
      <4> QED BY <4>2, <4>3 DEF statuts
    <3> QED BY <2>6, <3>1, <3>2, AppelChange DEF SourceTypes, S!EndSync
  <2>7. ASSUME NEW refus \in BOOLEAN, S(d, s, n)!AccountRefused(a, refus) PROVE SourceTypes(d, s, n)'
    <3>1. x6[a] \in EnCompte(s, n)
      BY <2>7, AppelsTypes DEF S!AccountRefused
    <3>2. x5' \in 0..Essais
      BY <2>7, <3>1 DEF SourceTypes, S!AccountRefused, EnCompte
    <3> QED BY <2>7, <3>2, AppelChange DEF SourceTypes, S!AccountRefused
  <2>8. CASE S(d, s, n)!AccountAccepted(a)
    <3>1. x6[a] \in EnCompte(s, n)
      BY <2>8, AppelsTypes DEF S!AccountAccepted
    <3>2. [x6[a] EXCEPT !.pas = "database"] \in EnCompte(s, n) /\ x6[a].secret \in 1..s
      BY <3>1 DEF EnCompte, PasDuCompte
    <3>3. x6' = [x6 EXCEPT ![a] = [x6[a] EXCEPT !.pas = "database"]] /\ x8' \subseteq 1..s
      BY <2>8, <3>2 DEF SourceTypes, S!AccountAccepted
    <3> QED BY <2>8, <3>2, <3>3, AppelChange DEF SourceTypes, S!AccountAccepted
  <2>9. CASE S(d, s, n)!StoreSecret(a)
    <3>1. x6[a] \in EnCompte(s, n) /\ x6[a].pas \in DOMAIN S(d, s, n)!Suivant
      BY <2>9, AppelsTypes DEF S!StoreSecret, S!Suivant
    <3>2. PICK suivant \in PasDuCompte : x6' = [x6 EXCEPT ![a] = [x6[a] EXCEPT !.pas = suivant]]
      <4>1. S(d, s, n)!Suivant[x6[a].pas] \in PasDuCompte
        BY <2>9 DEF S!StoreSecret, S!Suivant, PasDuCompte
      <4> QED BY <2>9, <4>1 DEF S!StoreSecret, S!Avance
    <3>3. [x6[a] EXCEPT !.pas = suivant] \in EnCompte(s, n)
      BY <3>1 DEF EnCompte
    <3>4. x3' \in [S(d, s, n)!Kinds -> 0..s]
      BY <2>9, <3>1 DEF SourceTypes, S!StoreSecret, S!Kinds, EnCompte
    <3> QED BY <2>9, <3>2, <3>3, <3>4, AppelChange DEF SourceTypes, S!StoreSecret
  <2>10. CASE S(d, s, n)!DropOldSecrets(a)
    <3>1. x6[a] \in EnCompte(s, n) /\ x6[a].pas \in DOMAIN S(d, s, n)!Suivant
      BY <2>10, AppelsTypes DEF S!DropOldSecrets, S!Suivant
    <3>2. PICK suivant \in PasDuCompte : x6' = [x6 EXCEPT ![a] = [x6[a] EXCEPT !.pas = suivant]]
      BY <2>10, <3>1 DEF S!DropOldSecrets, S!Avance, S!Suivant, PasDuCompte
    <3>3. [x6[a] EXCEPT !.pas = suivant] \in EnCompte(s, n)
      BY <3>1 DEF EnCompte
    <3>4. x3' \in [S(d, s, n)!Kinds -> 0..s]
      <4>1. x3 \in [S(d, s, n)!Kinds -> 0..s] /\ 0 \in 0..s
        BY DEF SourceTypes
      <4>2. x3' = [x3 EXCEPT !["password"] = 0, !["api_token"] = 0]
        BY <2>10 DEF S!DropOldSecrets
      <4> QED BY <4>1, <4>2
    <3> QED BY <2>10, <3>2, <3>3, <3>4, AppelChange DEF SourceTypes, S!DropOldSecrets
  <2>11. CASE S(d, s, n)!SaveVerified(a)
    <3>1. x6[a] \in EnCompte(s, n) /\ x6[a].pas \in DOMAIN S(d, s, n)!Suivant
      BY <2>11, AppelsTypes DEF S!SaveVerified, S!Suivant
    <3>2. PICK suivant \in PasDuCompte : x6' = [x6 EXCEPT ![a] = [x6[a] EXCEPT !.pas = suivant]]
      BY <2>11, <3>1 DEF S!SaveVerified, S!Avance, S!Suivant, PasDuCompte
    <3>3. [x6[a] EXCEPT !.pas = suivant] \in EnCompte(s, n)
      BY <3>1 DEF EnCompte
    <3>4. x2' \in S(d, s, n)!Connectors
      BY <2>11, <3>1 DEF S!SaveVerified, S!Connectors, S!Verdicts, EnCompte
    <3> QED BY <2>11, <3>2, <3>3, <3>4, AppelChange DEF SourceTypes, S!SaveVerified
  <2>12. CASE S(d, s, n)!AnnounceVerified(a)
    <3>1. x6[a] \in EnCompte(s, n) /\ x6[a].pas \in DOMAIN S(d, s, n)!Suivant
      BY <2>12, AppelsTypes DEF S!AnnounceVerified, S!Suivant
    <3>2. PICK suivant \in PasDuCompte : x6' = [x6 EXCEPT ![a] = [x6[a] EXCEPT !.pas = suivant]]
      BY <2>12, <3>1 DEF S!AnnounceVerified, S!Avance, S!Suivant, PasDuCompte
    <3>3. [x6[a] EXCEPT !.pas = suivant] \in EnCompte(s, n)
      BY <3>1 DEF EnCompte
    <3>4. x1' \in S(d, s, n)!Sources
      BY <2>12 DEF SourceTypes, S!AnnounceVerified, S!Presente, S!Sources, S!Statuses
    <3> QED BY <2>12, <3>2, <3>3, <3>4, AppelChange DEF SourceTypes, S!AnnounceVerified
  <2>13. CASE S(d, s, n)!FinishAccount(a)
    <3>1. x5' \in 0..Essais
      BY <2>13 DEF S!FinishAccount
    <3> QED BY <2>13, <3>1, AppelChange DEF SourceTypes, S!FinishAccount
  <2>14. CASE S(d, s, n)!Lost(a)
    BY <2>14, AppelChange DEF SourceTypes, S!Lost
  <2> QED
    BY <1>2, <2>1, <2>2, <2>3, <2>4, <2>5, <2>6, <2>7, <2>8, <2>9, <2>10, <2>11, <2>12, <2>13, <2>14 DEF S!Continue
<1>3. ASSUME NEW a \in Equipe, S(d, s, n)!Crash(a) PROVE SourceTypes(d, s, n)'
  <2>1. x10' \in BOOLEAN
    BY <1>3 DEF S!Crash
  <2> QED BY <1>3, <2>1, AppelChange DEF SourceTypes, S!Crash
<1>4. CASE S(d, s, n)!WindowEnds
  BY <1>4 DEF SourceTypes, S!WindowEnds
<1>5. CASE UNCHANGED registers
  BY <1>5 DEF SourceTypes, registers, S!Presente
<1> QED BY <1>1, <1>2, <1>3, <1>4, <1>5 DEF S!Next

\* Only an answer makes a verdict, a status or a request positive; an edit saves back the ones that are there.
LEMMA SourceRepondu ==
  ASSUME NEW d, NEW s, NEW n, S(d, s, n)!SourceConstantes, SourceTypes(d, s, n),
         Relu(d, s, n), Repondu(d, s, n),
         S(d, s, n)!Next \/ UNCHANGED registers
  PROVE  Repondu(d, s, n)'
<1>0. DOMAIN x6 = Equipe
  BY DEF SourceTypes
<1> USE <1>0 DEF Repondu, Relu, S!ConnectedProven, S!Presente, S!Libre, S!Ends, S!Status, S!Rien, S!SourceConstantes
<1>1. ASSUME NEW a \in Equipe, S(d, s, n)!Request(a) PROVE Repondu(d, s, n)'
  <2>1. ASSUME NEW type \in Types, NEW demo \in d, NEW cle \in 1..(n + 1),
                S(d, s, n)!Create(a, type, demo, cle) PROVE Repondu(d, s, n)'
    BY <2>1 DEF S!Create, S!ConnecteurVide
  <2>2. CASE S(d, s, n)!OpenFiche(a) \/ S(d, s, n)!OpenConnector(a)
    BY <2>2 DEF S!OpenFiche, S!OpenConnector
  <2>3. CASE S(d, s, n)!Toggle(a)
    <3>1. x1 \in S(d, s, n)!Sources
      BY <2>3 DEF S!Toggle, SourceTypes, S!TypeOK
    <3> QED BY <2>3, <3>1 DEF S!Toggle, S!Sources
  <2>4. CASE S(d, s, n)!Destroy(a)
    BY <2>4 DEF S!Destroy
  <2>5. ASSUME NEW kind \in S(d, s, n)!Kinds,
                S(d, s, n)!Deposit(a, kind) \/ S(d, s, n)!Revoke(a, kind) PROVE Repondu(d, s, n)'
    BY <2>5 DEF S!Deposit, S!Revoke
  <2>6. CASE S(d, s, n)!ShieldAccount(a)
    BY <2>6 DEF S!ShieldAccount
  <2>7. ASSUME NEW probe \in BOOLEAN,
                S(d, s, n)!BeginTest(a, probe) PROVE Repondu(d, s, n)'
    BY <2>7 DEF S!BeginTest
  <2>8. CASE S(d, s, n)!BeginSync(a)
    <3>1. x1 \in S(d, s, n)!Sources
      BY <2>8 DEF S!BeginSync, SourceTypes, S!TypeOK
    <3> QED BY <2>8, <3>1 DEF S!BeginSync, S!Sources
  <2>9. ASSUME NEW cle \in 1..(n + 1), S(d, s, n)!BeginAccount(a, cle) PROVE Repondu(d, s, n)'
    BY <2>9 DEF S!BeginAccount, S!ConnecteurVide
  <2>10. CASE S(d, s, n)!RemoveConnector(a)
    BY <2>10 DEF S!RemoveConnector
  <2>11. ASSUME NEW cle \in 1..(n + 1), NEW url \in BOOLEAN, NEW config \in BOOLEAN,
                S(d, s, n)!AddConnector(a, cle, url, config) PROVE Repondu(d, s, n)'
    BY <2>11 DEF S!AddConnector, S!ConnecteurVide
  <2> QED BY <1>1, <2>1, <2>2, <2>3, <2>4, <2>5, <2>6, <2>7, <2>8, <2>9, <2>10, <2>11 DEF S!Request
<1>2. ASSUME NEW a \in Equipe, S(d, s, n)!Continue(a) PROVE Repondu(d, s, n)'
  <2>1. ASSUME NEW type \in Types, NEW active \in BOOLEAN, NEW demo \in d,
                S(d, s, n)!SaveFiche(a, type, active, demo) PROVE Repondu(d, s, n)'
    <3>1. x6[a] \in EnFiche(d, s, n)
      BY <2>1, AppelsTypes DEF S!SaveFiche
    <3> QED BY <2>1, <3>1 DEF S!SaveFiche, S!Sources, EnFiche
  <2>2. ASSUME NEW url \in BOOLEAN, NEW config \in BOOLEAN,
                S(d, s, n)!SaveConnector(a, url, config) PROVE Repondu(d, s, n)'
    <3>1. x6[a] \in EnConnecteur(d, s, n)
      BY <2>2, AppelsTypes DEF S!SaveConnector
    <3> QED BY <2>2, <3>1 DEF S!SaveConnector, S!Connectors, EnConnecteur
  <2>3. ASSUME NEW ok \in BOOLEAN,
                S(d, s, n)!Probed(a, ok) PROVE Repondu(d, s, n)'
    <3>1. x6[a] \in EnTest(n)
      BY <2>3, AppelsTypes DEF S!Probed
    <3> QED BY <2>3, <3>1 DEF S!Probed, EnTest
  <2>4. CASE S(d, s, n)!StoreVerdict(a)
    <3>1. x6[a] \in EnTest(n)
      BY <2>4, AppelsTypes DEF S!StoreVerdict
    <3> QED BY <2>4, <3>1 DEF S!StoreVerdict, S!VerdictDuTest, EnTest
  <2>5. CASE S(d, s, n)!StoreStatus(a)
    <3>1. x6[a] \in EnTest(n)
      BY <2>5, AppelsTypes DEF S!StoreStatus
    <3> QED BY <2>5, <3>1 DEF S!StoreStatus, S!StatutDuTest, EnTest
  <2>6. CASE S(d, s, n)!EndSync(a)
    <3>1. x6[a] \in EnSync(n)
      BY <2>6, AppelsTypes DEF S!EndSync
    <3> QED BY <2>6, <3>1 DEF S!EndSync, S!StatutApresSync, EnSync
  <2>7. ASSUME NEW refus \in BOOLEAN, S(d, s, n)!AccountRefused(a, refus) PROVE Repondu(d, s, n)'
    BY <2>7 DEF S!AccountRefused
  <2>8. CASE S(d, s, n)!AccountAccepted(a)
    <3>1. x6[a] \in EnCompte(s, n)
      BY <2>8, AppelsTypes DEF S!AccountAccepted
    <3> QED BY <2>8, <3>1 DEF S!AccountAccepted, EnCompte
  <2>9. CASE S(d, s, n)!StoreSecret(a)
    <3>1. x6[a] \in EnCompte(s, n)
      BY <2>9, AppelsTypes DEF S!StoreSecret, S!Avance, S!Suivant
    <3> QED BY <2>9, <3>1 DEF S!StoreSecret, S!Avance, S!Suivant, EnCompte
  <2>10. CASE S(d, s, n)!DropOldSecrets(a)
    <3>1. x6[a] \in EnCompte(s, n)
      BY <2>10, AppelsTypes DEF S!DropOldSecrets
    <3> QED BY <2>10, <3>1 DEF S!DropOldSecrets, S!Avance, S!Suivant, EnCompte
  <2>11. CASE S(d, s, n)!SaveVerified(a)
    <3>1. x6[a] \in EnCompte(s, n)
      BY <2>11, AppelsTypes DEF S!SaveVerified
    <3> QED BY <2>11, <3>1 DEF S!SaveVerified, S!Avance, S!Suivant, EnCompte
  <2>12. CASE S(d, s, n)!AnnounceVerified(a)
    <3>1. x6[a] \in EnCompte(s, n)
      BY <2>12, AppelsTypes DEF S!AnnounceVerified
    <3> QED BY <2>12, <3>1 DEF S!AnnounceVerified, S!Avance, S!Suivant, EnCompte
  <2>13. CASE S(d, s, n)!FinishAccount(a)
    BY <2>13 DEF S!FinishAccount
  <2>14. CASE S(d, s, n)!Lost(a)
    BY <2>14 DEF S!Lost
  <2> QED BY <1>2, <2>1, <2>2, <2>3, <2>4, <2>5, <2>6, <2>7, <2>8, <2>9, <2>10, <2>11, <2>12, <2>13, <2>14 DEF S!Continue
<1>3. ASSUME NEW a \in Equipe, S(d, s, n)!Crash(a) PROVE Repondu(d, s, n)'
  BY <1>3 DEF S!Crash
<1>4. CASE S(d, s, n)!WindowEnds
  BY <1>4 DEF S!WindowEnds
<1>5. CASE UNCHANGED registers
  BY <1>5 DEF registers
<1> QED BY <1>1, <1>2, <1>3, <1>4, <1>5 DEF S!Next

\* Nothing writes the row or the connector between the reading of an edit and its save, but another edit.
LEMMA SourceRelue ==
  ASSUME NEW d, NEW s, NEW n, S(d, s, n)!SourceConstantes, SourceTypes(d, s, n),
         Relu(d, s, n), SansSource(d, s, n),
         S(d, s, n)!Next \/ UNCHANGED registers
  PROVE  Relu(d, s, n)' /\ SansSource(d, s, n)'
<1>0. DOMAIN x6 = Equipe
  BY DEF SourceTypes
<1> USE <1>0 DEF Relu, SansSource, S!Presente, S!Libre, S!Ends, S!Status, S!Rien, S!SourceConstantes
<1>1. ASSUME NEW a \in Equipe, S(d, s, n)!Request(a) PROVE Relu(d, s, n)' /\ SansSource(d, s, n)'
  <2>1. ASSUME NEW type \in Types, NEW demo \in d, NEW cle \in 1..(n + 1),
                S(d, s, n)!Create(a, type, demo, cle) PROVE Relu(d, s, n)' /\ SansSource(d, s, n)'
    <3>1. x1' \in S(d, s, n)!Sources
      BY <2>1 DEF S!Create, SourceTypes, S!TypeOK, S!Sources, S!Statuses, S!SourceConstantes
    <3>2. S(d, s, n)!Presente'
      BY <3>1, RienNEstUneSource
    <3>3. \A b \in Equipe : x6'[b].op \notin {"fiche", "connecteur"}
      BY <2>1 DEF S!Create, S!RowsFree, S!AucuneFicheOuverte
    <3> QED BY <3>2, <3>3
  <2>2. CASE S(d, s, n)!OpenFiche(a) \/ S(d, s, n)!OpenConnector(a)
    BY <2>2 DEF S!OpenFiche, S!OpenConnector
  <2>3. CASE S(d, s, n)!Toggle(a)
    <3>1. x1' \in S(d, s, n)!Sources
      BY <2>3 DEF S!Toggle, SourceTypes, S!TypeOK, S!Sources, S!Statuses
    <3>2. S(d, s, n)!Presente'
      BY <3>1, RienNEstUneSource
    <3>3. \A b \in Equipe : x6'[b].op \notin {"fiche", "connecteur"}
      BY <2>3 DEF S!Toggle, S!RowsFree, S!AucuneFicheOuverte
    <3> QED BY <3>2, <3>3
  <2>4. CASE S(d, s, n)!Destroy(a)
    <3>1. \A b \in Equipe : x6'[b].op \notin {"fiche", "connecteur"}
      BY <2>4 DEF S!Destroy, S!RowsFree, S!AucuneFicheOuverte
    <3> QED BY <2>4, <3>1 DEF S!Destroy, S!Kinds
  <2>5. ASSUME NEW kind \in S(d, s, n)!Kinds,
                S(d, s, n)!Deposit(a, kind) \/ S(d, s, n)!Revoke(a, kind) PROVE Relu(d, s, n)' /\ SansSource(d, s, n)'
    BY <2>5 DEF S!Deposit, S!Revoke
  <2>6. CASE S(d, s, n)!ShieldAccount(a)
    BY <2>6 DEF S!ShieldAccount
  <2>7. ASSUME NEW probe \in BOOLEAN,
                S(d, s, n)!BeginTest(a, probe) PROVE Relu(d, s, n)' /\ SansSource(d, s, n)'
    BY <2>7 DEF S!BeginTest
  <2>8. CASE S(d, s, n)!BeginSync(a)
    <3>1. x1' \in S(d, s, n)!Sources
      BY <2>8 DEF S!BeginSync, SourceTypes, S!TypeOK, S!Sources, S!Statuses
    <3>2. S(d, s, n)!Presente'
      BY <3>1, RienNEstUneSource
    <3>3. \A b \in Equipe : x6'[b].op \notin {"fiche", "connecteur"}
      BY <2>8 DEF S!BeginSync, S!RowsFree, S!AucuneFicheOuverte
    <3> QED BY <3>2, <3>3
  <2>9. ASSUME NEW cle \in 1..(n + 1), S(d, s, n)!BeginAccount(a, cle) PROVE Relu(d, s, n)' /\ SansSource(d, s, n)'
    BY <2>9 DEF S!BeginAccount
  <2>10. CASE S(d, s, n)!RemoveConnector(a)
    <3>1. \A b \in Equipe : x6'[b].op \notin {"fiche", "connecteur"}
      BY <2>10 DEF S!RemoveConnector, S!RowsFree, S!AucuneFicheOuverte
    <3> QED BY <2>10, <3>1 DEF S!RemoveConnector, S!Kinds
  <2>11. ASSUME NEW cle \in 1..(n + 1), NEW url \in BOOLEAN, NEW config \in BOOLEAN,
                S(d, s, n)!AddConnector(a, cle, url, config) PROVE Relu(d, s, n)' /\ SansSource(d, s, n)'
    BY <2>11 DEF S!AddConnector
  <2> QED BY <1>1, <2>1, <2>2, <2>3, <2>4, <2>5, <2>6, <2>7, <2>8, <2>9, <2>10, <2>11 DEF S!Request
<1>2. ASSUME NEW a \in Equipe, S(d, s, n)!Continue(a) PROVE Relu(d, s, n)' /\ SansSource(d, s, n)'
  <2>1. ASSUME NEW type \in Types, NEW active \in BOOLEAN, NEW demo \in d,
                S(d, s, n)!SaveFiche(a, type, active, demo) PROVE Relu(d, s, n)' /\ SansSource(d, s, n)'
    <3>1. x6[a] \in EnFiche(d, s, n)
      BY <2>1, AppelsTypes DEF S!SaveFiche
    <3>2. x1'.status = x1.status /\ x1'.type = x1.type /\ x1' \in S(d, s, n)!Sources
      BY <2>1, <3>1 DEF S!SaveFiche, EnFiche, S!Sources
    <3>3. S(d, s, n)!Presente'
      BY <3>2, RienNEstUneSource
    <3> QED BY <2>1, <3>2, <3>3 DEF S!SaveFiche
  <2>2. ASSUME NEW url \in BOOLEAN, NEW config \in BOOLEAN,
                S(d, s, n)!SaveConnector(a, url, config) PROVE Relu(d, s, n)' /\ SansSource(d, s, n)'
    <3>1. x6[a] \in EnConnecteur(d, s, n)
      BY <2>2, AppelsTypes DEF S!SaveConnector
    <3>2. x2'.ok = x2.ok /\ x2' \in S(d, s, n)!Connectors
      BY <2>2, <3>1 DEF S!SaveConnector, EnConnecteur, S!Connectors, SourceTypes, S!TypeOK
    <3>3. x2' # S(d, s, n)!Absente
      BY <3>2, RienNEstUneSource
    <3> QED BY <2>2, <3>2, <3>3 DEF S!SaveConnector
  <2>3. ASSUME NEW ok \in BOOLEAN,
                S(d, s, n)!Probed(a, ok) PROVE Relu(d, s, n)' /\ SansSource(d, s, n)'
    <3>1. x6[a] \in EnTest(n)
      BY <2>3, AppelsTypes DEF S!Probed
    <3> QED BY <2>3, <3>1 DEF S!Probed, EnTest
  <2>4. CASE S(d, s, n)!StoreVerdict(a)
    <3>1. x6[a] \in EnTest(n)
      BY <2>4, AppelsTypes DEF S!StoreVerdict
    <3> QED BY <2>4, <3>1 DEF S!StoreVerdict, S!EstLa, S!RowsFree, S!AucuneFicheOuverte, EnTest
  <2>5. CASE S(d, s, n)!StoreStatus(a)
    <3>1. x1' \in S(d, s, n)!Sources
      BY <2>5 DEF S!StoreStatus, SourceTypes, S!TypeOK, S!Sources, S!Statuses, S!StatutDuTest
    <3>2. S(d, s, n)!Presente'
      BY <3>1, RienNEstUneSource
    <3>3. \A b \in Equipe : x6'[b].op \notin {"fiche", "connecteur"}
      BY <2>5 DEF S!StoreStatus, S!RowsFree, S!AucuneFicheOuverte
    <3> QED BY <3>2, <3>3
  <2>6. CASE S(d, s, n)!EndSync(a)
    <3>1. x1' \in S(d, s, n)!Sources
      BY <2>6 DEF S!EndSync, SourceTypes, S!TypeOK, S!Sources, S!Statuses, S!StatutApresSync
    <3>2. S(d, s, n)!Presente'
      BY <3>1, RienNEstUneSource
    <3>3. \A b \in Equipe : x6'[b].op \notin {"fiche", "connecteur"}
      BY <2>6 DEF S!EndSync, S!RowsFree, S!AucuneFicheOuverte
    <3> QED BY <3>2, <3>3
  <2>7. ASSUME NEW refus \in BOOLEAN, S(d, s, n)!AccountRefused(a, refus) PROVE Relu(d, s, n)' /\ SansSource(d, s, n)'
    BY <2>7 DEF S!AccountRefused
  <2>8. CASE S(d, s, n)!AccountAccepted(a)
    <3>1. x6[a] \in EnCompte(s, n)
      BY <2>8, AppelsTypes DEF S!AccountAccepted
    <3> QED BY <2>8, <3>1 DEF S!AccountAccepted, EnCompte
  <2>9. CASE S(d, s, n)!StoreSecret(a)
    <3>1. x6[a] \in EnCompte(s, n)
      BY <2>9, AppelsTypes DEF S!StoreSecret, S!Avance, S!Suivant
    <3> QED BY <2>9, <3>1 DEF S!StoreSecret, S!Avance, S!Suivant, EnCompte
  <2>10. CASE S(d, s, n)!DropOldSecrets(a)
    <3>1. x6[a] \in EnCompte(s, n)
      BY <2>10, AppelsTypes DEF S!DropOldSecrets
    <3>2. x3 \in [S(d, s, n)!Kinds -> 0..s] /\ "password" \in S(d, s, n)!Kinds
      BY DEF SourceTypes, S!TypeOK, S!Kinds
    <3> QED BY <2>10, <3>1, <3>2 DEF S!DropOldSecrets, S!Avance, S!Suivant, EnCompte
  <2>11. CASE S(d, s, n)!SaveVerified(a)
    <3>1. x6[a] \in EnCompte(s, n)
      BY <2>11, AppelsTypes DEF S!SaveVerified
    <3>2. \A b \in Equipe : x6'[b].op \notin {"fiche", "connecteur"}
      BY <2>11, <3>1 DEF S!SaveVerified, S!Avance, S!Suivant, EnCompte, S!RowsFree, S!AucuneFicheOuverte
    <3> QED BY <2>11, <3>2 DEF S!SaveVerified, S!EstLa
  <2>12. CASE S(d, s, n)!AnnounceVerified(a)
    <3>1. x6[a] \in EnCompte(s, n)
      BY <2>12, AppelsTypes DEF S!AnnounceVerified
    <3>2. x1' \in S(d, s, n)!Sources
      BY <2>12 DEF S!AnnounceVerified, SourceTypes, S!TypeOK, S!Sources, S!Statuses
    <3>3. S(d, s, n)!Presente'
      BY <3>2, RienNEstUneSource
    <3>4. \A b \in Equipe : x6'[b].op \notin {"fiche", "connecteur"}
      BY <2>12, <3>1 DEF S!AnnounceVerified, S!Avance, S!Suivant, EnCompte, S!RowsFree, S!AucuneFicheOuverte
    <3> QED BY <3>3, <3>4
  <2>13. CASE S(d, s, n)!FinishAccount(a)
    BY <2>13 DEF S!FinishAccount
  <2>14. CASE S(d, s, n)!Lost(a)
    BY <2>14 DEF S!Lost
  <2> QED BY <1>2, <2>1, <2>2, <2>3, <2>4, <2>5, <2>6, <2>7, <2>8, <2>9, <2>10, <2>11, <2>12, <2>13, <2>14 DEF S!Continue
<1>3. ASSUME NEW a \in Equipe, S(d, s, n)!Crash(a) PROVE Relu(d, s, n)' /\ SansSource(d, s, n)'
  BY <1>3 DEF S!Crash
<1>4. CASE S(d, s, n)!WindowEnds
  BY <1>4 DEF S!WindowEnds
<1>5. CASE UNCHANGED registers
  BY <1>5 DEF registers
<1> QED BY <1>1, <1>2, <1>3, <1>4, <1>5 DEF S!Next

\* The type of a source does not change, and its password is only written once tried.
LEMMA SourceEprouvee ==
  ASSUME NEW d, NEW s, NEW n, S(d, s, n)!SourceConstantes, SourceTypes(d, s, n),
         Relu(d, s, n), SansSource(d, s, n), S(d, s, n)!PasswordTried,
         S(d, s, n)!Next \/ UNCHANGED registers
  PROVE  S(d, s, n)!PasswordTried'
<1>0. DOMAIN x6 = Equipe
  BY DEF SourceTypes
<1> USE <1>0 DEF Relu, SansSource, S!PasswordTried, S!Presente, S!Libre, S!Ends, S!Status, S!Rien, S!SourceConstantes
<1>1. ASSUME NEW a \in Equipe, S(d, s, n)!Request(a) PROVE S(d, s, n)!PasswordTried'
  <2>1. ASSUME NEW type \in Types, NEW demo \in d, NEW cle \in 1..(n + 1),
                S(d, s, n)!Create(a, type, demo, cle) PROVE S(d, s, n)!PasswordTried'
    BY <2>1 DEF S!Create
  <2>2. CASE S(d, s, n)!OpenFiche(a) \/ S(d, s, n)!OpenConnector(a)
    BY <2>2 DEF S!OpenFiche, S!OpenConnector
  <2>3. CASE S(d, s, n)!Toggle(a)
    <3>1. x1 \in S(d, s, n)!Sources
      BY <2>3 DEF S!Toggle, SourceTypes, S!TypeOK
    <3> QED BY <2>3, <3>1 DEF S!Toggle, S!Sources
  <2>4. CASE S(d, s, n)!Destroy(a)
    BY <2>4 DEF S!Destroy
  <2>5. ASSUME NEW kind \in S(d, s, n)!Kinds,
                S(d, s, n)!Deposit(a, kind) \/ S(d, s, n)!Revoke(a, kind) PROVE S(d, s, n)!PasswordTried'
    <3>1. x3 \in [S(d, s, n)!Kinds -> 0..s] /\ "password" \in S(d, s, n)!Kinds
      BY DEF SourceTypes, S!TypeOK, S!Kinds
    <3> QED BY <2>5, <3>1 DEF S!Deposit, S!Revoke, S!DepotAccepte
  <2>6. CASE S(d, s, n)!ShieldAccount(a)
    BY <2>6 DEF S!ShieldAccount
  <2>7. ASSUME NEW probe \in BOOLEAN,
                S(d, s, n)!BeginTest(a, probe) PROVE S(d, s, n)!PasswordTried'
    BY <2>7 DEF S!BeginTest
  <2>8. CASE S(d, s, n)!BeginSync(a)
    <3>1. x1 \in S(d, s, n)!Sources
      BY <2>8 DEF S!BeginSync, SourceTypes, S!TypeOK
    <3> QED BY <2>8, <3>1 DEF S!BeginSync, S!Sources
  <2>9. ASSUME NEW cle \in 1..(n + 1), S(d, s, n)!BeginAccount(a, cle) PROVE S(d, s, n)!PasswordTried'
    BY <2>9 DEF S!BeginAccount
  <2>10. CASE S(d, s, n)!RemoveConnector(a)
    BY <2>10 DEF S!RemoveConnector, S!Kinds
  <2>11. ASSUME NEW cle \in 1..(n + 1), NEW url \in BOOLEAN, NEW config \in BOOLEAN,
                S(d, s, n)!AddConnector(a, cle, url, config) PROVE S(d, s, n)!PasswordTried'
    BY <2>11 DEF S!AddConnector
  <2> QED BY <1>1, <2>1, <2>2, <2>3, <2>4, <2>5, <2>6, <2>7, <2>8, <2>9, <2>10, <2>11 DEF S!Request
<1>2. ASSUME NEW a \in Equipe, S(d, s, n)!Continue(a) PROVE S(d, s, n)!PasswordTried'
  <2>1. ASSUME NEW type \in Types, NEW active \in BOOLEAN, NEW demo \in d,
                S(d, s, n)!SaveFiche(a, type, active, demo) PROVE S(d, s, n)!PasswordTried'
    <3>1. x6[a] \in EnFiche(d, s, n)
      BY <2>1, AppelsTypes DEF S!SaveFiche
    <3> QED BY <2>1, <3>1 DEF S!SaveFiche, S!Sources, EnFiche
  <2>2. ASSUME NEW url \in BOOLEAN, NEW config \in BOOLEAN,
                S(d, s, n)!SaveConnector(a, url, config) PROVE S(d, s, n)!PasswordTried'
    BY <2>2 DEF S!SaveConnector
  <2>3. ASSUME NEW ok \in BOOLEAN,
                S(d, s, n)!Probed(a, ok) PROVE S(d, s, n)!PasswordTried'
    BY <2>3 DEF S!Probed
  <2>4. CASE S(d, s, n)!StoreVerdict(a)
    BY <2>4 DEF S!StoreVerdict
  <2>5. CASE S(d, s, n)!StoreStatus(a)
    <3>1. x1 \in S(d, s, n)!Sources
      BY <2>5 DEF S!StoreStatus, SourceTypes, S!TypeOK
    <3> QED BY <2>5, <3>1 DEF S!StoreStatus, S!Sources
  <2>6. CASE S(d, s, n)!EndSync(a)
    <3>1. x1 \in S(d, s, n)!Sources
      BY <2>6 DEF S!EndSync, SourceTypes, S!TypeOK
    <3> QED BY <2>6, <3>1 DEF S!EndSync, S!Sources
  <2>7. ASSUME NEW refus \in BOOLEAN, S(d, s, n)!AccountRefused(a, refus) PROVE S(d, s, n)!PasswordTried'
    BY <2>7 DEF S!AccountRefused
  <2>8. CASE S(d, s, n)!AccountAccepted(a)
    BY <2>8 DEF S!AccountAccepted
  <2>9. CASE S(d, s, n)!StoreSecret(a)
    BY <2>9 DEF S!StoreSecret, S!Avance, S!Suivant
  <2>10. CASE S(d, s, n)!DropOldSecrets(a)
    <3>1. x3 \in [S(d, s, n)!Kinds -> 0..s] /\ "password" \in S(d, s, n)!Kinds
      BY DEF SourceTypes, S!TypeOK, S!Kinds
    <3>2. x3'["password"] = 0
      BY <2>10, <3>1 DEF S!DropOldSecrets
    <3> QED BY <3>2
  <2>11. CASE S(d, s, n)!SaveVerified(a)
    BY <2>11 DEF S!SaveVerified
  <2>12. CASE S(d, s, n)!AnnounceVerified(a)
    <3>1. x1 \in S(d, s, n)!Sources
      BY <2>12 DEF S!AnnounceVerified, SourceTypes, S!TypeOK
    <3> QED BY <2>12, <3>1 DEF S!AnnounceVerified, S!Sources
  <2>13. CASE S(d, s, n)!FinishAccount(a)
    BY <2>13 DEF S!FinishAccount
  <2>14. CASE S(d, s, n)!Lost(a)
    BY <2>14 DEF S!Lost
  <2> QED BY <1>2, <2>1, <2>2, <2>3, <2>4, <2>5, <2>6, <2>7, <2>8, <2>9, <2>10, <2>11, <2>12, <2>13, <2>14 DEF S!Continue
<1>3. ASSUME NEW a \in Equipe, S(d, s, n)!Crash(a) PROVE S(d, s, n)!PasswordTried'
  BY <1>3 DEF S!Crash
<1>4. CASE S(d, s, n)!WindowEnds
  BY <1>4 DEF S!WindowEnds
<1>5. CASE UNCHANGED registers
  BY <1>5 DEF registers
<1> QED BY <1>1, <1>2, <1>3, <1>4, <1>5 DEF S!Next

\* A synchronisation is announced by the request that runs it, and unannounced when that one ends.
LEMMA SourceAccompagnee ==
  ASSUME NEW d, NEW s, NEW n, S(d, s, n)!SourceConstantes, SourceTypes(d, s, n),
         Relu(d, s, n), S(d, s, n)!SyncingHasOwner,
         S(d, s, n)!Next \/ UNCHANGED registers
  PROVE  S(d, s, n)!SyncingHasOwner'
<1>0. DOMAIN x6 = Equipe
  BY DEF SourceTypes
<1> USE <1>0 DEF Relu, S!SyncingHasOwner, S!Presente, S!Libre, S!Ends, S!Status, S!Rien, S!SourceConstantes
<1>1. ASSUME NEW a \in Equipe, S(d, s, n)!Request(a) PROVE S(d, s, n)!SyncingHasOwner'
  <2>1. ASSUME NEW type \in Types, NEW demo \in d, NEW cle \in 1..(n + 1),
                S(d, s, n)!Create(a, type, demo, cle) PROVE S(d, s, n)!SyncingHasOwner'
    BY <2>1 DEF S!Create
  <2>2. CASE S(d, s, n)!OpenFiche(a) \/ S(d, s, n)!OpenConnector(a)
    BY <2>2 DEF S!OpenFiche, S!OpenConnector
  <2>3. CASE S(d, s, n)!Toggle(a)
    <3>1. x1 \in S(d, s, n)!Sources
      BY <2>3 DEF S!Toggle, SourceTypes, S!TypeOK
    <3> QED BY <2>3, <3>1 DEF S!Toggle, S!Sources
  <2>4. CASE S(d, s, n)!Destroy(a)
    BY <2>4 DEF S!Destroy
  <2>5. ASSUME NEW kind \in S(d, s, n)!Kinds,
                S(d, s, n)!Deposit(a, kind) \/ S(d, s, n)!Revoke(a, kind) PROVE S(d, s, n)!SyncingHasOwner'
    BY <2>5 DEF S!Deposit, S!Revoke
  <2>6. CASE S(d, s, n)!ShieldAccount(a)
    BY <2>6 DEF S!ShieldAccount
  <2>7. ASSUME NEW probe \in BOOLEAN,
                S(d, s, n)!BeginTest(a, probe) PROVE S(d, s, n)!SyncingHasOwner'
    BY <2>7 DEF S!BeginTest
  <2>8. CASE S(d, s, n)!BeginSync(a)
    <3>1. x1 \in S(d, s, n)!Sources
      BY <2>8 DEF S!BeginSync, SourceTypes, S!TypeOK
    <3> QED BY <2>8, <3>1 DEF S!BeginSync, S!Sources
  <2>9. ASSUME NEW cle \in 1..(n + 1), S(d, s, n)!BeginAccount(a, cle) PROVE S(d, s, n)!SyncingHasOwner'
    BY <2>9 DEF S!BeginAccount
  <2>10. CASE S(d, s, n)!RemoveConnector(a)
    BY <2>10 DEF S!RemoveConnector
  <2>11. ASSUME NEW cle \in 1..(n + 1), NEW url \in BOOLEAN, NEW config \in BOOLEAN,
                S(d, s, n)!AddConnector(a, cle, url, config) PROVE S(d, s, n)!SyncingHasOwner'
    BY <2>11 DEF S!AddConnector
  <2> QED BY <1>1, <2>1, <2>2, <2>3, <2>4, <2>5, <2>6, <2>7, <2>8, <2>9, <2>10, <2>11 DEF S!Request
<1>2. ASSUME NEW a \in Equipe, S(d, s, n)!Continue(a) PROVE S(d, s, n)!SyncingHasOwner'
  <2>1. ASSUME NEW type \in Types, NEW active \in BOOLEAN, NEW demo \in d,
                S(d, s, n)!SaveFiche(a, type, active, demo) PROVE S(d, s, n)!SyncingHasOwner'
    <3>1. x6[a] \in EnFiche(d, s, n)
      BY <2>1, AppelsTypes DEF S!SaveFiche
    <3> QED BY <2>1, <3>1 DEF S!SaveFiche, S!Sources, EnFiche
  <2>2. ASSUME NEW url \in BOOLEAN, NEW config \in BOOLEAN,
                S(d, s, n)!SaveConnector(a, url, config) PROVE S(d, s, n)!SyncingHasOwner'
    BY <2>2 DEF S!SaveConnector
  <2>3. ASSUME NEW ok \in BOOLEAN,
                S(d, s, n)!Probed(a, ok) PROVE S(d, s, n)!SyncingHasOwner'
    <3>1. x6[a] \in EnTest(n)
      BY <2>3, AppelsTypes DEF S!Probed
    <3> QED BY <2>3, <3>1 DEF S!Probed, EnTest
  <2>4. CASE S(d, s, n)!StoreVerdict(a)
    <3>1. x6[a] \in EnTest(n)
      BY <2>4, AppelsTypes DEF S!StoreVerdict
    <3> QED BY <2>4, <3>1 DEF S!StoreVerdict, EnTest
  <2>5. CASE S(d, s, n)!StoreStatus(a)
    <3>1. x6[a] \in EnTest(n) /\ x1 \in S(d, s, n)!Sources
      BY <2>5, AppelsTypes DEF S!StoreStatus, SourceTypes, S!TypeOK
    <3> QED BY <2>5, <3>1 DEF S!StoreStatus, S!StatutDuTest, S!Sources
  <2>6. CASE S(d, s, n)!EndSync(a)
    <3>1. x1 \in S(d, s, n)!Sources
      BY <2>6 DEF S!EndSync, SourceTypes, S!TypeOK
    <3> QED BY <2>6, <3>1 DEF S!EndSync, S!Sources, S!StatutApresSync
  <2>7. ASSUME NEW refus \in BOOLEAN, S(d, s, n)!AccountRefused(a, refus) PROVE S(d, s, n)!SyncingHasOwner'
    BY <2>7 DEF S!AccountRefused
  <2>8. CASE S(d, s, n)!AccountAccepted(a)
    <3>1. x6[a] \in EnCompte(s, n)
      BY <2>8, AppelsTypes DEF S!AccountAccepted
    <3> QED BY <2>8, <3>1 DEF S!AccountAccepted, EnCompte
  <2>9. CASE S(d, s, n)!StoreSecret(a)
    <3>1. x6[a] \in EnCompte(s, n)
      BY <2>9, AppelsTypes DEF S!StoreSecret, S!Avance, S!Suivant
    <3> QED BY <2>9, <3>1 DEF S!StoreSecret, S!Avance, S!Suivant, EnCompte
  <2>10. CASE S(d, s, n)!DropOldSecrets(a)
    <3>1. x6[a] \in EnCompte(s, n)
      BY <2>10, AppelsTypes DEF S!DropOldSecrets
    <3> QED BY <2>10, <3>1 DEF S!DropOldSecrets, S!Avance, S!Suivant, EnCompte
  <2>11. CASE S(d, s, n)!SaveVerified(a)
    <3>1. x6[a] \in EnCompte(s, n)
      BY <2>11, AppelsTypes DEF S!SaveVerified
    <3> QED BY <2>11, <3>1 DEF S!SaveVerified, S!Avance, S!Suivant, EnCompte
  <2>12. CASE S(d, s, n)!AnnounceVerified(a)
    <3>1. x1 \in S(d, s, n)!Sources
      BY <2>12 DEF S!AnnounceVerified, SourceTypes, S!TypeOK
    <3> QED BY <2>12, <3>1 DEF S!AnnounceVerified, S!Sources
  <2>13. CASE S(d, s, n)!FinishAccount(a)
    BY <2>13 DEF S!FinishAccount
  <2>14. CASE S(d, s, n)!Lost(a)
    BY <2>14 DEF S!Lost, S!Privee
  <2> QED BY <1>2, <2>1, <2>2, <2>3, <2>4, <2>5, <2>6, <2>7, <2>8, <2>9, <2>10, <2>11, <2>12, <2>13, <2>14 DEF S!Continue
<1>3. ASSUME NEW a \in Equipe, S(d, s, n)!Crash(a) PROVE S(d, s, n)!SyncingHasOwner'
  BY <1>3 DEF S!Crash
<1>4. CASE S(d, s, n)!WindowEnds
  BY <1>4 DEF S!WindowEnds
<1>5. CASE UNCHANGED registers
  BY <1>5 DEF registers
<1> QED BY <1>1, <1>2, <1>3, <1>4, <1>5 DEF S!Next

\* The control plane starts in its inductive invariant.
LEMMA SourceInit ==
  ASSUME NEW d, NEW s, NEW n, S(d, s, n)!SourceConstantes, S(d, s, n)!Init
  PROVE  SourceIInv(d, s, n)
<1> USE DEF S!Init, S!SourceConstantes
<1>1. SourceTypes(d, s, n)
  <2>1. x4 \in Seq({"running", "success", "error"}) /\ Len(x4) <= n
    OBVIOUS
  <2>2. x9 \in BOOLEAN /\ x10 \in BOOLEAN
    OBVIOUS
  <2>3. x3 \in [S(d, s, n)!Kinds -> 0..s] /\ x5 \in 0..Essais /\ x7 \in 0..s /\ x8 \subseteq 1..s
    OBVIOUS
  <2>4. \A a \in Equipe : x6[a].op \in {"rien", "test", "sync", "fiche", "connecteur", "compte"}
    BY DEF S!Rien
  <2>5. x6 \in [Equipe -> {S(d, s, n)!Rien} \cup EnTest(n) \cup EnSync(n) \cup EnFiche(d, s, n)
                            \cup EnConnecteur(d, s, n) \cup EnCompte(s, n)]
    OBVIOUS
  <2> QED BY <2>1, <2>2, <2>3, <2>4, <2>5 DEF SourceTypes, S!TypeOK
<1>2. ~S(d, s, n)!Presente
  BY DEF S!Presente
<1>3. Repondu(d, s, n) /\ Relu(d, s, n)
  BY <1>2 DEF Repondu, Relu, S!ConnectedProven, S!Rien
<1>4. SansSource(d, s, n) /\ S(d, s, n)!PasswordTried /\ S(d, s, n)!SyncingHasOwner
  BY <1>2 DEF SansSource, S!PasswordTried, S!SyncingHasOwner, S!Kinds
<1> QED BY <1>1, <1>3, <1>4 DEF SourceIInv

\* Every step of the control plane keeps its inductive invariant.
LEMMA SourcePas ==
  ASSUME NEW d, NEW s, NEW n, S(d, s, n)!SourceConstantes, SourceIInv(d, s, n),
         S(d, s, n)!Next \/ UNCHANGED registers
  PROVE  SourceIInv(d, s, n)'
BY SourceTypesPas, SourceRepondu, SourceRelue, SourceEprouvee, SourceAccompagnee DEF SourceIInv

SourceInv ==
  /\ part = "source" => SourceIInv(BOOLEAN, 0, MaxJobs)
  /\ part = "secrets" => SourceIInv({FALSE}, MaxSecrets, 0)

\* The inductive invariant of the control plane always holds.
LEMMA SourceTenu == PlateformeSpec => []SourceInv
<1>1. S(BOOLEAN, 0, MaxJobs)!SourceConstantes /\ S({FALSE}, MaxSecrets, 0)!SourceConstantes
  BY Constantes
<1>2. PlateformeInit => SourceInv
  BY <1>1, Depart, SourceInit DEF SourceInv
<1>3. SourceInv /\ [PlateformeNext]_plateforme => SourceInv'
  <2> SUFFICES ASSUME SourceInv, [PlateformeNext]_plateforme PROVE SourceInv'
    OBVIOUS
  <2>1. ASSUME part = "source" PROVE SourceIInv(BOOLEAN, 0, MaxJobs)'
    BY <1>1, <2>1, Pas, SourcePas DEF SourceInv, Suit
  <2>2. ASSUME part = "secrets" PROVE SourceIInv({FALSE}, MaxSecrets, 0)'
    BY <1>1, <2>2, Pas, SourcePas DEF SourceInv, Suit
  <2> QED BY <2>1, <2>2, PartFixe DEF SourceInv
<1> QED BY <1>2, <1>3, PTL DEF PlateformeSpec

\* A source is announced connected only if it has answered, synchronising only while a request synchronises it,
\* and a password of Shield is kept only once tried.
THEOREM SourcesAreProven == PlateformeSpec => []Prouve
<1>1. SourceInv => Prouve
  BY DEF SourceInv, SourceIInv, Repondu, Prouve
<1> QED BY SourceTenu, <1>1, PTL

-----------------------------------------------------------------------------
(* Sets and their sizes, for the parts that count.                         *)
\* A part's instance has FiniteSets' operators under its own names.
LEMMA MemesEnsemblesFinis == \A s : M!IsFiniteSet(s) <=> IsFiniteSet(s)
BY DEF M!IsFiniteSet, IsFiniteSet

\* ... and their cardinals are the same.
LEMMA MemeCardinal == \A s : M!Cardinality(s) = Cardinality(s)
BY MemesEnsemblesFinis DEF M!Cardinality, Cardinality

-----------------------------------------------------------------------------
(* The automations.                                                        *)
Dans(liste, a) == \E i \in 1..Len(liste) : liste[i] = a
Distincts(liste) == \A i, j \in 1..Len(liste) : liste[i] = liste[j] => i = j

\* What a tick does: the rows it still has to run, and the tool and the author it has read.
Rondes ==
  [etape : {"repos", "parcours", "lue", "executee", "refusee"}, liste : Seq(Automations),
   outil : M!Outils \cup {"aucun"}, auteur : BOOLEAN]
RondeSaine(r) ==
  /\ r \in Rondes /\ Distincts(r.liste)
  /\ r.etape = "repos" <=> r.liste = <<>>
  /\ r.etape = "lue" => r.outil \in M!Outils

\* t has run the tool of a, and has not noted it yet.
Tourne(t, a) == x4[t].etape = "executee" /\ Head(x4[t].liste) = a

AutomatesTypes ==
  /\ x1 \in 0..MaxTemps
  /\ x2 \in [Automations -> M!Lignes]
  /\ x3 \in [sur : Automations \cup {"aucune"}, ligne : M!Lignes]
  /\ x4 \in [Equipe -> Rondes] /\ \A t \in Equipe : RondeSaine(x4[t])
  /\ x5 \in 0..MaxTroubles
  /\ x6 \in [Automations -> M!Jamais..x1]
  /\ x8 \subseteq Automations /\ x9 \subseteq Automations

\* As long as nothing excuses it, an automation is held by one tick; its row says when it was last run, but for
\* the run that is not noted yet; and whoever is about to run it finds the last run an interval away.
Surveillee(a) ==
  /\ \A t, u \in Equipe : Dans(x4[t].liste, a) /\ Dans(x4[u].liste, a) => t = u
  /\ x2[a].existe /\ (\A t \in Equipe : ~Tourne(t, a)) => x2[a].dernier >= x6[a]
  /\ \A t \in Equipe : Dans(x4[t].liste, a) /\ ~Tourne(t, a) => x6[a] = M!Jamais \/ x1 - x6[a] >= Intervalle
  /\ a \notin x8

AutomatesIInv == AutomatesTypes /\ M!LectureSeule /\ \A a \in Automations \ x9 : Surveillee(a)

\* What remains of a list without its head: the others, once each.
LEMMA Reste ==
  ASSUME NEW s \in Seq(Automations), s # <<>>, Distincts(s)
  PROVE  /\ Head(s) \in Automations /\ Dans(s, Head(s))
         /\ Tail(s) \in Seq(Automations) /\ Distincts(Tail(s))
         /\ Len(s) # 1 => Tail(s) # <<>>
         /\ \A a : Dans(Tail(s), a) => Dans(s, a) /\ a # Head(s)
<1>1. Len(s) \in Nat /\ Len(s) >= 1 /\ Head(s) = s[1] /\ s[1] \in Automations
  OBVIOUS
<1>2. Tail(s) \in Seq(Automations) /\ Len(Tail(s)) = Len(s) - 1 /\ \A i \in 1..Len(Tail(s)) : Tail(s)[i] = s[i + 1]
  OBVIOUS
<1>3. Dans(s, Head(s))
  BY <1>1 DEF Dans
<1>4. Distincts(Tail(s))
  BY <1>1, <1>2 DEF Distincts
<1>5. Len(s) # 1 => Tail(s) # <<>>
  BY <1>1, <1>2
<1>6. ASSUME NEW a, Dans(Tail(s), a) PROVE Dans(s, a) /\ a # Head(s)
  <2>1. PICK i \in 1..Len(Tail(s)) : Tail(s)[i] = a
    BY <1>6 DEF Dans
  <2>2. i + 1 \in 1..Len(s) /\ s[i + 1] = a /\ 1 \in 1..Len(s) /\ i + 1 # 1
    BY <2>1, <1>1, <1>2
  <2>3. a # s[1]
    BY <2>2 DEF Distincts
  <2> QED BY <2>2, <2>3, <1>1 DEF Dans
<1> QED BY <1>1, <1>2, <1>3, <1>4, <1>5, <1>6

\* A finite set of rows put in a list: each of them once.
LEMMA ListeDesDues ==
  ASSUME IsFiniteSet(Automations), NEW dues \in SUBSET Automations, dues # {}
  PROVE  /\ M!SetToSeq(dues) \in Seq(Automations) /\ M!SetToSeq(dues) # <<>> /\ Distincts(M!SetToSeq(dues))
         /\ \A a : Dans(M!SetToSeq(dues), a) => a \in dues
<1> DEFINE n == M!Cardinality(dues)
           Bonne(f) == f \in [1..n -> dues] /\ M!IsInjective(f)
<1>1. IsFiniteSet(dues)
  BY FS_Subset
<1>2. M!Cardinality(dues) = Cardinality(dues)
  BY MemeCardinal
<1>3. n \in Nat /\ n # 0 /\ ExistsBijection(1..n, dues)
  BY <1>1, <1>2, FS_CardinalityType, FS_EmptySet
<1>4. \E f : Bonne(f)
  BY <1>3 DEF ExistsBijection, Bijection, Injection, IsInjective, M!IsInjective
<1>5. Bonne(M!SetToSeq(dues))
  BY <1>4 DEF M!SetToSeq
<1> DEFINE s == M!SetToSeq(dues)
<1> HIDE DEF s, n
<1>6. s \in [1..n -> dues] /\ M!IsInjective(s)
  BY <1>5 DEF s, n
<1>7. s \in Seq(dues) /\ Len(s) = n /\ s # <<>>
  BY <1>3, <1>6
<1>8. s \in Seq(Automations)
  BY <1>7
<1>9. Distincts(s)
  BY <1>3, <1>6, <1>7 DEF Distincts, M!IsInjective
<1>10. \A a : Dans(s, a) => a \in dues
  BY <1>6, <1>7 DEF Dans
<1> QED BY <1>7, <1>8, <1>9, <1>10 DEF s

\* A worker that changes its round changes no other.
LEMMA RondeChange ==
  ASSUME AutomatesTypes, NEW t \in Equipe, NEW r, RondeSaine(r), x4' = [x4 EXCEPT ![t] = r]
  PROVE  /\ x4' \in [Equipe -> Rondes] /\ \A u \in Equipe : RondeSaine(x4'[u])
         /\ x4'[t] = r /\ \A u \in Equipe \ {t} : x4'[u] = x4[u]
BY DEF AutomatesTypes, RondeSaine

\* A worker at rest has nothing left to do.
LEMMA ReposSain == RondeSaine(M!Repos) /\ M!Repos.liste = <<>> /\ M!Repos.etape = "repos" /\ \A a : ~Dans(<<>>, a)
BY DEF RondeSaine, Rondes, M!Ronde, M!Repos, Distincts, Dans

\* A tick in the middle of its list: what it does next to it.
LEMMA RondeSuivante ==
  ASSUME AutomatesTypes, NEW t \in Equipe, x4[t].etape # "repos"
  PROVE  /\ x4[t].liste # <<>> /\ Head(x4[t].liste) \in Automations /\ Dans(x4[t].liste, Head(x4[t].liste))
         /\ \A x : x \in {M!Passer(t), M!Arreter(t)} =>
              \E r : /\ x = [x4 EXCEPT ![t] = r] /\ RondeSaine(r) /\ r.etape \in {"repos", "parcours"}
                     /\ \A a : Dans(r.liste, a) => Dans(x4[t].liste, a) /\ a # Head(x4[t].liste)
<1> DEFINE s == x4[t].liste
<1>1. s \in Seq(Automations) /\ s # <<>> /\ Distincts(s) /\ x4 \in [Equipe -> Rondes]
  BY DEF AutomatesTypes, RondeSaine, Rondes
<1>2. Head(s) \in Automations /\ Dans(s, Head(s))
  BY <1>1, Reste
<1> DEFINE suite == M!Ronde("parcours", Tail(s))
           r == IF Len(s) = 1 THEN M!Repos ELSE suite
<1>3. M!Arreter(t) = [x4 EXCEPT ![t] = M!Repos] /\ M!Passer(t) = [x4 EXCEPT ![t] = r]
  BY <1>1 DEF M!Arreter, M!Passer
<1>4. Len(s) # 1 => RondeSaine(suite) /\ suite.etape = "parcours" /\ suite.liste = Tail(s)
  <2>1. ASSUME Len(s) # 1 PROVE Tail(s) \in Seq(Automations) /\ Distincts(Tail(s)) /\ Tail(s) # <<>>
    BY <1>1, <2>1, Reste
  <2> QED BY <2>1 DEF RondeSaine, Rondes, M!Ronde
<1>5. RondeSaine(r) /\ r.etape \in {"repos", "parcours"} /\ \A a : Dans(r.liste, a) => Dans(s, a) /\ a # Head(s)
  <2>1. CASE Len(s) = 1
    BY <2>1, ReposSain
  <2>2. CASE Len(s) # 1
    <3>1. r = suite
      BY <2>2
    <3> HIDE DEF r, suite, s
    <3>2. r.liste = Tail(s)
      BY <2>2, <3>1, <1>4
    <3> QED BY <2>2, <3>1, <3>2, <1>1, <1>4, Reste
  <2> QED BY <2>1, <2>2
<1> QED
  <2> SUFFICES ASSUME NEW x \in {M!Passer(t), M!Arreter(t)}
               PROVE \E q : /\ x = [x4 EXCEPT ![t] = q] /\ RondeSaine(q) /\ q.etape \in {"repos", "parcours"}
                            /\ \A a : Dans(q.liste, a) => Dans(s, a) /\ a # Head(s)
    BY <1>1, <1>2
  <2>1. CASE x = M!Arreter(t)
    <3> WITNESS M!Repos
    <3> QED BY <2>1, <1>3, ReposSain
  <2>2. CASE x = M!Passer(t)
    <3> HIDE DEF r
    <3> WITNESS r
    <3> QED BY <2>2, <1>3, <1>5
  <2> QED BY <2>1, <2>2

\* Every step of the automations keeps the types.
LEMMA AutomatesTypesPas ==
  ASSUME M!AutomatesConstantes, AutomatesTypes, M!Next \/ UNCHANGED registers
  PROVE  AutomatesTypes'
<1> USE DEF M!AutomatesConstantes, M!Jamais, M!Trouble
<1>1. ASSUME NEW t \in Equipe, M!Commencer(t) PROVE AutomatesTypes'
  <2> DEFINE dues == {a \in Automations : x2[a].existe /\ M!IsDue(x2[a], x1)}
             r == M!Ronde("parcours", M!SetToSeq(dues))
  <2>1. x4' = [x4 EXCEPT ![t] = r] /\ dues # {} /\ x9' \subseteq Automations
    BY <1>1 DEF M!Commencer, AutomatesTypes
  <2>2. RondeSaine(r)
    <3>1. /\ M!SetToSeq(dues) \in Seq(Automations) /\ M!SetToSeq(dues) # <<>>
          /\ Distincts(M!SetToSeq(dues))
      <4> HIDE DEF dues
      <4>1. dues \in SUBSET Automations
        BY DEF dues
      <4> QED BY <2>1, <4>1, ListeDesDues, MemesEnsemblesFinis
    <3> HIDE DEF dues
    <3> QED BY <3>1 DEF RondeSaine, Rondes, M!Ronde
  <2> HIDE DEF r
  <2>3. x4' \in [Equipe -> Rondes] /\ \A u \in Equipe : RondeSaine(x4'[u])
    BY <2>1, <2>2, RondeChange
  <2> QED BY <1>1, <2>1, <2>3 DEF M!Commencer, AutomatesTypes
<1>2. ASSUME NEW t \in Equipe, x4[t].etape # "repos", x4' \in {M!Passer(t), M!Arreter(t)}
      PROVE  x4' \in [Equipe -> Rondes] /\ \A u \in Equipe : RondeSaine(x4'[u])
  <2>1. PICK r : x4' = [x4 EXCEPT ![t] = r] /\ RondeSaine(r)
    BY <1>2, RondeSuivante
  <2> QED BY <2>1, RondeChange
<1>3. ASSUME NEW t \in Equipe, M!Examiner(t) PROVE AutomatesTypes'
  <2> DEFINE a == Head(x4[t].liste)
             r == [x4[t] EXCEPT !.etape = "lue", !.outil = x2[a].outil, !.auteur = x2[a].auteur]
  <2>1. x4[t] \in Rondes /\ RondeSaine(x4[t]) /\ a \in Automations /\ x2[a] \in M!Lignes
    BY <1>3, RondeSuivante DEF M!Examiner, AutomatesTypes
  <2>2. RondeSaine(r)
    BY <1>3, <2>1 DEF M!Examiner, RondeSaine, Rondes, M!Lignes
  <2>3. x4' \in [Equipe -> Rondes] /\ \A u \in Equipe : RondeSaine(x4'[u])
    <3>1. CASE x2[a].existe
      <4>1. x4' = [x4 EXCEPT ![t] = r]
        BY <1>3, <3>1 DEF M!Examiner
      <4> QED BY <4>1, <2>2, RondeChange
    <3>2. CASE ~x2[a].existe
      BY <1>3, <3>2, <1>2 DEF M!Examiner
    <3> QED BY <3>1, <3>2
  <2> QED BY <1>3, <2>3 DEF M!Examiner, AutomatesTypes
<1>4. ASSUME NEW t \in Equipe, M!Lancer(t) PROVE AutomatesTypes'
  <2> DEFINE a == Head(x4[t].liste)
             r(e) == [x4[t] EXCEPT !.etape = e]
  <2>1. x4[t] \in Rondes /\ RondeSaine(x4[t]) /\ a \in Automations
    BY <1>4, RondeSuivante DEF M!Lancer, AutomatesTypes
  <2>2. ASSUME NEW e \in {"refusee", "executee"} PROVE RondeSaine(r(e))
    BY <1>4, <2>1, <2>2 DEF M!Lancer, RondeSaine, Rondes
  <2>3. x4' \in [Equipe -> Rondes] /\ \A u \in Equipe : RondeSaine(x4'[u])
    <3>1. CASE x4' = [x4 EXCEPT ![t].etape = "refusee"]
      BY <3>1, <2>2, RondeChange
    <3>2. CASE x4' = [x4 EXCEPT ![t].etape = "executee"]
      BY <3>2, <2>2, RondeChange
    <3>3. CASE x4' = M!Arreter(t)
      BY <1>4, <3>3, <1>2 DEF M!Lancer
    <3> QED BY <1>4, <3>1, <3>2, <3>3 DEF M!Lancer
  <2>4. x6' \in [Automations -> M!Jamais..x1] /\ x8' \subseteq Automations
    BY <1>4, <2>1 DEF M!Lancer, AutomatesTypes
  <2> QED BY <1>4, <2>3, <2>4 DEF M!Lancer, AutomatesTypes
<1>5. ASSUME NEW t \in Equipe, M!Noter(t) PROVE AutomatesTypes'
  <2> DEFINE a == Head(x4[t].liste)
  <2>1. a \in Automations
    BY <1>5, RondeSuivante DEF M!Noter
  <2>2. x4' \in [Equipe -> Rondes] /\ \A u \in Equipe : RondeSaine(x4'[u])
    BY <1>5, <1>2 DEF M!Noter
  <2>3. x2[a] \in M!Lignes /\ M!Notee(x2[a]) \in M!Lignes
    BY <2>1 DEF AutomatesTypes, M!Notee, M!Lignes
  <2>4. x2' \in [Automations -> M!Lignes] /\ x9' \subseteq Automations
    BY <1>5, <2>1, <2>3 DEF M!Noter, AutomatesTypes
  <2> QED BY <1>5, <2>2, <2>4 DEF M!Noter, AutomatesTypes
<1>6. ASSUME NEW t \in Equipe, M!Crash(t) PROVE AutomatesTypes'
  <2>1. Head(x4[t].liste) \in Automations
    BY <1>6, RondeSuivante DEF M!Crash
  <2>2. x4' \in [Equipe -> Rondes] /\ \A u \in Equipe : RondeSaine(x4'[u])
    BY <1>6, <1>2 DEF M!Crash
  <2> QED BY <1>6, <2>1, <2>2 DEF M!Crash, AutomatesTypes
<1>7. ASSUME NEW a \in Automations, M!Ouvrir(a) PROVE AutomatesTypes'
  BY <1>7 DEF M!Ouvrir, AutomatesTypes
<1>8. ASSUME NEW a \in Automations, NEW active \in BOOLEAN, NEW outil \in M!Outils, M!Enregistrer(a, active, outil)
      PROVE  AutomatesTypes'
  <2> DEFINE l == [x3.ligne EXCEPT !.active = active, !.outil = outil]
  <2>1. l \in M!Lignes
    BY DEF AutomatesTypes, M!Lignes
  <2>2. M!SansFormulaire \in [sur : Automations \cup {"aucune"}, ligne : M!Lignes]
    BY DEF M!SansFormulaire, M!Absente, M!Ligne, M!Lignes, M!Outils
  <2>3. x2' \in [Automations -> M!Lignes] /\ x9' \subseteq Automations
    <3> HIDE DEF l
    <3>1. \/ x2' = x2 /\ x9' = x9
          \/ x2' = [x2 EXCEPT ![a] = l] /\ (x9' = x9 \/ x9' = x9 \cup {a})
      BY <1>8 DEF M!Enregistrer, l
    <3> QED BY <2>1, <3>1 DEF AutomatesTypes
  <2> QED BY <1>8, <2>2, <2>3 DEF M!Enregistrer, AutomatesTypes
<1>9. ASSUME NEW a \in Automations, M!Supprimer(a) \/ M!SupprimerAuteur(a) PROVE AutomatesTypes'
  <2>1. x2[a] \in M!Lignes
    BY DEF AutomatesTypes
  <2>2. M!Ligne(FALSE, "lecture", x2[a].auteur) \in M!Lignes
    BY <2>1 DEF M!Ligne, M!Lignes, M!Outils
  <2>3. [x2[a] EXCEPT !.auteur = FALSE] \in M!Lignes
    BY <2>1 DEF M!Lignes
  <2>4. CASE M!Supprimer(a)
    <3>1. x2' \in [Automations -> M!Lignes]
      BY <2>4, <2>2 DEF M!Supprimer, AutomatesTypes
    <3>2. x5 < MaxTroubles /\ x5' = x5 + 1 /\ UNCHANGED <<x1, x3, x4, x6, x8, x9>>
      BY <2>4, Zenon DEF M!Supprimer
    <3> QED BY <3>1, <3>2 DEF AutomatesTypes
  <2>5. CASE M!SupprimerAuteur(a)
    <3>1. x2' \in [Automations -> M!Lignes]
      BY <2>5, <2>3 DEF M!SupprimerAuteur, AutomatesTypes
    <3> QED BY <2>5, <3>1 DEF M!SupprimerAuteur, AutomatesTypes
  <2> QED BY <1>9, <2>4, <2>5
<1>10. CASE M!Avancer
  BY <1>10 DEF M!Avancer, AutomatesTypes
<1>11. CASE UNCHANGED registers
  BY <1>11 DEF registers, AutomatesTypes
<1> QED
  BY <1>1, <1>3, <1>4, <1>5, <1>6, <1>7, <1>8, <1>9, <1>10, <1>11 DEF M!Next

\* The set of a list holds what is in the list.
LEMMA DansLaListe ==
  ASSUME NEW s \in Seq(Automations), NEW a
  PROVE  a \in M!ToSet(s) <=> Dans(s, a)
BY DEF M!ToSet, Dans

\* A tick that drops rows, without having run their tool, leaves what is watched as it is.
LEMMA Retrait ==
  ASSUME AutomatesTypes, NEW a \in Automations, Surveillee(a), NEW t \in Equipe, NEW r, RondeSaine(r),
         x4' = [x4 EXCEPT ![t] = r], \A b : Dans(r.liste, b) => Dans(x4[t].liste, b),
         r.etape # "executee", ~Tourne(t, a), UNCHANGED <<x1, x2, x6, x8>>
  PROVE  Surveillee(a)'
<1>1. x4'[t] = r /\ \A u \in Equipe \ {t} : x4'[u] = x4[u]
  BY RondeChange
<1>2. \A u \in Equipe : (Tourne(u, a)' <=> Tourne(u, a)) /\ (Dans(x4'[u].liste, a) => Dans(x4[u].liste, a))
  BY <1>1 DEF Tourne
<1> QED BY <1>2 DEF Surveillee

\* A round that begins leaves every automation watched.
LEMMA Commencees ==
  ASSUME M!AutomatesConstantes, AutomatesIInv, NEW t \in Equipe, M!Commencer(t), NEW a \in Automations \ x9'
  PROVE  Surveillee(a)'
<1> DEFINE dues == {b \in Automations : x2[b].existe /\ M!IsDue(x2[b], x1)}
           liste == M!SetToSeq(dues)
           r == M!Ronde("parcours", liste)
<1>1. /\ x4' = [x4 EXCEPT ![t] = r] /\ x4[t].etape = "repos" /\ UNCHANGED <<x1, x2, x6, x8>>
      /\ dues # {} /\ x9' = x9 \cup {b \in dues : \E u \in Equipe : b \in M!ToSet(x4[u].liste)}
  BY DEF M!Commencer
<1>2. x4 \in [Equipe -> Rondes] /\ AutomatesTypes /\ Surveillee(a) /\ a \in Automations
  BY <1>1 DEF AutomatesIInv, AutomatesTypes
<1>3. /\ liste \in Seq(Automations) /\ liste # <<>> /\ Distincts(liste)
      /\ \A b : Dans(liste, b) => b \in dues
  <2> HIDE DEF dues
  <2>1. dues \in SUBSET Automations
    BY DEF dues
  <2> QED BY <1>1, <2>1, ListeDesDues, MemesEnsemblesFinis DEF M!AutomatesConstantes
<1>4. a \in dues => \A u \in Equipe : ~Dans(x4[u].liste, a)
  <2> HIDE DEF dues
  <2> SUFFICES ASSUME a \in dues, NEW u \in Equipe, Dans(x4[u].liste, a) PROVE FALSE
    OBVIOUS
  <2>1. x4[u].liste \in Seq(Automations)
    BY <1>2 DEF Rondes
  <2>2. a \in M!ToSet(x4[u].liste)
    BY <2>1, DansLaListe
  <2> QED BY <1>1, <2>2
<1>5. a \in dues => x6[a] = M!Jamais \/ x1 - x6[a] >= Intervalle
  <2> SUFFICES ASSUME a \in dues PROVE x6[a] = M!Jamais \/ x1 - x6[a] >= Intervalle
    OBVIOUS
  <2>1. \A u \in Equipe : ~Tourne(u, a)
    BY <1>2, <1>4, RondeSuivante DEF Tourne
  <2>2. x2[a].existe /\ M!IsDue(x2[a], x1)
    OBVIOUS
  <2>3. x2[a].dernier >= x6[a]
    BY <1>2, <2>1, <2>2 DEF Surveillee
  <2>4. x1 \in Int /\ x2[a].dernier \in Int /\ x6[a] \in M!Jamais..x1
    BY <1>2 DEF AutomatesTypes, M!Lignes, M!AutomatesConstantes, M!Jamais
  <2> QED BY <2>2, <2>3, <2>4 DEF M!IsDue, M!Jamais, M!AutomatesConstantes
<1> HIDE DEF dues, liste
<1>6. RondeSaine(r) /\ r.liste = liste /\ r.etape = "parcours"
  BY <1>3 DEF RondeSaine, Rondes, M!Ronde
<1> HIDE DEF r
<1>7. x4'[t] = r /\ \A u \in Equipe \ {t} : x4'[u] = x4[u]
  BY <1>1, <1>2, <1>6, RondeChange
<1>8. \A u \in Equipe : Tourne(u, a)' <=> Tourne(u, a)
  BY <1>1, <1>6, <1>7 DEF Tourne
<1>9. Dans(r.liste, a) => a \in dues
  BY <1>3, <1>6
<1>10. \A u, v \in Equipe : Dans(x4'[u].liste, a) /\ Dans(x4'[v].liste, a) => u = v
  BY <1>2, <1>4, <1>7, <1>9 DEF Surveillee
<1>11. \A u \in Equipe : Dans(x4'[u].liste, a) /\ ~Tourne(u, a)' => x6[a] = M!Jamais \/ x1 - x6[a] >= Intervalle
  BY <1>2, <1>5, <1>7, <1>8, <1>9 DEF Surveillee
<1> QED BY <1>1, <1>2, <1>8, <1>10, <1>11 DEF Surveillee

\* A run that starts only reads, and leaves every automation watched.
LEMMA Lancees ==
  ASSUME M!AutomatesConstantes, AutomatesIInv, NEW t \in Equipe, M!Lancer(t)
  PROVE  M!LectureSeule' /\ \A a \in Automations \ x9' : Surveillee(a)'
<1> DEFINE b == Head(x4[t].liste)
<1>1. /\ AutomatesTypes /\ x4 \in [Equipe -> Rondes] /\ RondeSaine(x4[t]) /\ x4[t].etape = "lue"
      /\ UNCHANGED <<x1, x2, x9>> /\ x6 \in [Automations -> M!Jamais..x1]
  BY DEF M!Lancer, AutomatesIInv, AutomatesTypes
<1>2. b \in Automations /\ Dans(x4[t].liste, b)
  BY <1>1, RondeSuivante
<1>3. \A a \in Automations : ~Tourne(t, a)
  BY <1>1 DEF Tourne
<1>4. CASE x4' = [x4 EXCEPT ![t].etape = "refusee"] /\ UNCHANGED <<x6, x8, x7>>
  <2> DEFINE r == [x4[t] EXCEPT !.etape = "refusee"]
  <2>1. RondeSaine(r) /\ r.etape = "refusee" /\ r.liste = x4[t].liste
    BY <1>1 DEF RondeSaine, Rondes
  <2>2. x4' = [x4 EXCEPT ![t] = r]
    BY <1>4
  <2> HIDE DEF r
  <2>3. \A a \in Automations \ x9' : Surveillee(a)'
    BY <1>1, <1>3, <1>4, <2>1, <2>2, Retrait DEF AutomatesIInv
  <2> QED BY <1>4, <2>3 DEF AutomatesIInv, M!LectureSeule
<1>5. CASE x4' = M!Arreter(t) /\ UNCHANGED <<x6, x8, x7>>
  <2>1. PICK r : /\ x4' = [x4 EXCEPT ![t] = r] /\ RondeSaine(r) /\ r.etape \in {"repos", "parcours"}
                 /\ \A a : Dans(r.liste, a) => Dans(x4[t].liste, a)
    BY <1>1, <1>5, RondeSuivante
  <2>2. \A a \in Automations \ x9' : Surveillee(a)'
    BY <1>1, <1>3, <1>5, <2>1, Retrait DEF AutomatesIInv
  <2> QED BY <1>5, <2>2 DEF AutomatesIInv, M!LectureSeule
<1>6. CASE /\ ~M!NeedsApproval(x4[t].outil) /\ x4' = [x4 EXCEPT ![t].etape = "executee"]
           /\ x6' = [x6 EXCEPT ![b] = x1] /\ x7' = x7 \cup {x4[t].outil}
           /\ x8' = IF x6[b] # M!Jamais /\ x1 - x6[b] < Intervalle THEN x8 \cup {b} ELSE x8
  <2> DEFINE r == [x4[t] EXCEPT !.etape = "executee"]
  <2>1. RondeSaine(r) /\ r.etape = "executee" /\ r.liste = x4[t].liste
    BY <1>1 DEF RondeSaine, Rondes
  <2>2. x4' = [x4 EXCEPT ![t] = r]
    BY <1>6
  <2> HIDE DEF r
  <2>3. x4'[t] = r /\ \A u \in Equipe \ {t} : x4'[u] = x4[u]
    BY <1>1, <2>1, <2>2, RondeChange
  <2>4. M!LectureSeule'
    BY <1>1, <1>6 DEF AutomatesIInv, M!LectureSeule, RondeSaine, M!Outils, M!NeedsApproval
  <2>5. ASSUME NEW a \in Automations \ x9', a # b PROVE Surveillee(a)'
    <3>1. Surveillee(a) /\ x6'[a] = x6[a] /\ (a \in x8' => a \in x8)
      BY <1>1, <1>6, <2>5 DEF AutomatesIInv
    <3>2. \A u \in Equipe : (Tourne(u, a)' <=> Tourne(u, a)) /\ (Dans(x4'[u].liste, a) <=> Dans(x4[u].liste, a))
      BY <1>1, <2>1, <2>3, <2>5 DEF Tourne
    <3> QED BY <1>1, <3>1, <3>2 DEF Surveillee
  <2>6. ASSUME NEW a \in Automations \ x9', a = b PROVE Surveillee(a)'
    <3>1. Surveillee(a)
      BY <1>1, <2>6 DEF AutomatesIInv
    <3>2. x6[a] = M!Jamais \/ x1 - x6[a] >= Intervalle
      BY <1>2, <1>3, <2>6, <3>1 DEF Surveillee
    <3>3. x8' = x8
      <4>1. x1 \in Int /\ x6[a] \in Int /\ Intervalle \in Int
        BY <1>1, <1>2 DEF AutomatesTypes, M!AutomatesConstantes, M!Jamais
      <4> QED BY <1>6, <2>6, <3>2, <4>1
    <3>4. Tourne(t, a)'
      BY <2>1, <2>3, <2>6 DEF Tourne
    <3>5. \A u \in Equipe : Dans(x4'[u].liste, a) => u = t
      BY <1>2, <2>1, <2>3, <2>6, <3>1 DEF Surveillee
    <3> QED BY <3>1, <3>3, <3>4, <3>5 DEF Surveillee
  <2> QED BY <2>4, <2>5, <2>6
<1> QED BY <1>4, <1>5, <1>6 DEF M!Lancer

\* A run that is noted, or lost in a crash, leaves every automation watched.
LEMMA Notees ==
  ASSUME M!AutomatesConstantes, AutomatesIInv, NEW t \in Equipe, M!Noter(t) \/ M!Crash(t),
         NEW a \in Automations \ x9'
  PROVE  Surveillee(a)'
<1> DEFINE b == Head(x4[t].liste)
<1>1. x4[t].etape # "repos" /\ AutomatesTypes /\ x4 \in [Equipe -> Rondes]
  BY DEF M!Noter, M!Crash, AutomatesIInv, AutomatesTypes
<1>2. b \in Automations /\ Dans(x4[t].liste, b)
  BY <1>1, RondeSuivante
<1>3. PICK r : /\ x4' = [x4 EXCEPT ![t] = r] /\ RondeSaine(r) /\ r.etape \in {"repos", "parcours"}
               /\ \A c : Dans(r.liste, c) => Dans(x4[t].liste, c) /\ c # b
  <2>1. x4' \in {M!Passer(t), M!Arreter(t)}
    BY DEF M!Noter, M!Crash
  <2> QED BY <1>1, <2>1, RondeSuivante
<1>4. x4'[t] = r /\ \A u \in Equipe \ {t} : x4'[u] = x4[u]
  BY <1>1, <1>3, RondeChange
<1>5. Surveillee(a) /\ a \in Automations /\ UNCHANGED <<x1, x6, x8>>
  BY DEF AutomatesIInv, M!Noter, M!Crash
<1>6. CASE M!Noter(t)
  <2>1. \A u, v \in Equipe : Dans(x4'[u].liste, a) /\ Dans(x4'[v].liste, a) => u = v
    BY <1>3, <1>4, <1>5 DEF Surveillee
  <2>2. x2'[a].existe /\ (\A u \in Equipe : ~Tourne(u, a)') => x2'[a].dernier >= x6[a]
    <3>1. CASE a = b
      <4>1. x2[a].existe => x2' = [x2 EXCEPT ![a] = M!Notee(x2[a])]
        BY <1>6, <3>1 DEF M!Noter
      <4>2. ~x2[a].existe => x2' = x2
        BY <1>6, <3>1 DEF M!Noter
      <4>3. x2 \in [Automations -> M!Lignes] /\ x1 >= x6[a]
        BY <1>1, <1>5 DEF AutomatesTypes, M!AutomatesConstantes, M!Jamais
      <4>4. x2[a].existe => x2'[a].dernier = x1
        BY <1>5, <4>1, <4>3 DEF M!Notee, M!Lignes
      <4> QED BY <4>2, <4>3, <4>4
    <3>2. CASE a # b
      <4>1. x2'[a] = x2[a]
        BY <1>1, <1>6, <3>2 DEF M!Noter, AutomatesTypes
      <4>2. \A u \in Equipe : Tourne(u, a)' <=> Tourne(u, a)
        BY <1>3, <1>4, <3>2 DEF Tourne
      <4> QED BY <1>5, <4>1, <4>2 DEF Surveillee
    <3> QED BY <3>1, <3>2
  <2>3. ASSUME NEW u \in Equipe, Dans(x4'[u].liste, a), ~Tourne(u, a)'
        PROVE  x6[a] = M!Jamais \/ x1 - x6[a] >= Intervalle
    <3>1. Dans(x4[u].liste, a)
      BY <1>3, <1>4, <2>3
    <3>2. ~Tourne(u, a)
      BY <1>3, <1>4, <2>3 DEF Tourne
    <3> QED BY <1>5, <3>1, <3>2 DEF Surveillee
  <2> QED BY <1>5, <2>1, <2>2, <2>3 DEF Surveillee
<1>7. CASE M!Crash(t)
  <2>1. ~Tourne(t, a) /\ UNCHANGED x2
    BY <1>7 DEF M!Crash, Tourne
  <2> QED BY <1>1, <1>3, <1>5, <2>1, Retrait
<1> QED BY <1>6, <1>7

\* Every step of the automations only reads, and leaves each of them watched.
LEMMA AutomatesSurveillees ==
  ASSUME M!AutomatesConstantes, AutomatesIInv, M!Next \/ UNCHANGED registers
  PROVE  M!LectureSeule' /\ \A a \in Automations \ x9' : Surveillee(a)'
<1> USE DEF M!LectureSeule
<1>1. ASSUME NEW t \in Equipe, M!Commencer(t) PROVE x7' = x7 /\ \A a \in Automations \ x9' : Surveillee(a)'
  BY <1>1, Commencees DEF M!Commencer
<1>2. ASSUME NEW t \in Equipe, M!Examiner(t) PROVE x7' = x7 /\ \A a \in Automations \ x9' : Surveillee(a)'
  <2> DEFINE b == Head(x4[t].liste)
  <2>1. /\ AutomatesTypes /\ RondeSaine(x4[t]) /\ x4[t].etape = "parcours" /\ UNCHANGED <<x1, x2, x6, x7, x8, x9>>
        /\ x4 \in [Equipe -> Rondes]
    BY <1>2 DEF M!Examiner, AutomatesIInv, AutomatesTypes
  <2>2. \A a \in Automations : ~Tourne(t, a)
    BY <2>1 DEF Tourne
  <2>3. \E r : /\ x4' = [x4 EXCEPT ![t] = r] /\ RondeSaine(r) /\ r.etape # "executee"
               /\ \A a : Dans(r.liste, a) => Dans(x4[t].liste, a)
    <3>1. CASE x2[b].existe
      <4> DEFINE r == [x4[t] EXCEPT !.etape = "lue", !.outil = x2[b].outil, !.auteur = x2[b].auteur]
      <4>1. b \in Automations /\ x2[b] \in M!Lignes
        BY <2>1, RondeSuivante DEF AutomatesTypes
      <4>2. RondeSaine(r) /\ r.etape = "lue" /\ r.liste = x4[t].liste
        BY <2>1, <4>1 DEF RondeSaine, Rondes, M!Lignes
      <4>3. x4' = [x4 EXCEPT ![t] = r]
        BY <1>2, <3>1 DEF M!Examiner
      <4> HIDE DEF r
      <4> WITNESS r
      <4> QED BY <4>2, <4>3
    <3>2. CASE ~x2[b].existe
      <4>1. x4' \in {M!Passer(t), M!Arreter(t)}
        BY <1>2, <3>2 DEF M!Examiner
      <4> QED BY <2>1, <4>1, RondeSuivante
    <3> QED BY <3>1, <3>2
  <2>4. PICK r : /\ x4' = [x4 EXCEPT ![t] = r] /\ RondeSaine(r) /\ r.etape # "executee"
                 /\ \A a : Dans(r.liste, a) => Dans(x4[t].liste, a)
    BY <2>3
  <2> QED BY <2>1, <2>2, <2>4, Retrait DEF AutomatesIInv
<1>3. ASSUME NEW t \in Equipe, M!Noter(t) \/ M!Crash(t) PROVE x7' = x7 /\ \A a \in Automations \ x9' : Surveillee(a)'
  BY <1>3, Notees DEF M!Noter, M!Crash
<1>4. ASSUME NEW b \in Automations, M!Ouvrir(b) PROVE x7' = x7 /\ \A a \in Automations \ x9' : Surveillee(a)'
  BY <1>4 DEF M!Ouvrir, AutomatesIInv, Surveillee, Tourne
<1>5. ASSUME NEW b \in Automations, NEW active \in BOOLEAN, NEW outil \in M!Outils, M!Enregistrer(b, active, outil)
      PROVE  x7' = x7 /\ \A a \in Automations \ x9' : Surveillee(a)'
  <2> DEFINE l == [x3.ligne EXCEPT !.active = active, !.outil = outil]
  <2>1. /\ UNCHANGED <<x1, x4, x6, x7, x8>>
        /\ \/ x2' = x2 /\ x9' = x9
           \/ /\ x2' = [x2 EXCEPT ![b] = l]
              /\ x9' = IF ~x2[b].existe \/ l.dernier # x2[b].dernier THEN x9 \cup {b} ELSE x9
    BY <1>5 DEF M!Enregistrer
  <2> HIDE DEF l
  <2>2. ASSUME NEW a \in Automations \ x9'
        PROVE  /\ Surveillee(a) /\ x2'[a].dernier = x2[a].dernier
               /\ x2'[a].existe => x2[a].existe
    BY <2>1, <2>2 DEF AutomatesIInv, AutomatesTypes
  <2> QED BY <2>1, <2>2 DEF Surveillee, Tourne
<1>6. ASSUME NEW b \in Automations, M!Supprimer(b) \/ M!SupprimerAuteur(b)
      PROVE  x7' = x7 /\ \A a \in Automations \ x9' : Surveillee(a)'
  <2>1. UNCHANGED <<x1, x4, x6, x7, x8, x9>>
    BY <1>6, Zenon DEF M!Supprimer, M!SupprimerAuteur
  <2>2. \A a \in Automations : x2'[a].existe => x2[a].existe /\ x2'[a].dernier = x2[a].dernier
    <3>1. x2 \in [Automations -> M!Lignes]
      BY DEF AutomatesIInv, AutomatesTypes
    <3>2. CASE M!Supprimer(b)
      <4>1. x2' = [x2 EXCEPT ![b] = M!Ligne(FALSE, "lecture", x2[b].auteur)]
        BY <3>2, Zenon DEF M!Supprimer
      <4>2. ~M!Ligne(FALSE, "lecture", x2[b].auteur).existe
        BY DEF M!Ligne
      <4> QED BY <3>1, <4>1, <4>2
    <3>3. CASE M!SupprimerAuteur(b)
      BY <3>1, <3>3 DEF M!SupprimerAuteur, M!Lignes
    <3> QED BY <1>6, <3>2, <3>3
  <2> QED BY <2>1, <2>2 DEF AutomatesIInv, Surveillee, Tourne
<1>7. CASE M!Avancer
  <2>1. UNCHANGED <<x2, x4, x6, x7, x8, x9>> /\ x1' = x1 + 1 /\ x1 \in Int
    BY <1>7 DEF M!Avancer, AutomatesIInv, AutomatesTypes
  <2>2. \A a \in Automations : x6[a] \in Int
    BY DEF AutomatesIInv, AutomatesTypes, M!AutomatesConstantes, M!Jamais
  <2> QED BY <2>1, <2>2 DEF AutomatesIInv, Surveillee, Tourne, M!AutomatesConstantes
<1>8. CASE UNCHANGED registers
  BY <1>8 DEF registers, AutomatesIInv, Surveillee, Tourne
<1> QED
  BY <1>1, <1>2, <1>3, <1>4, <1>5, <1>6, <1>7, <1>8, Lancees DEF M!Next, AutomatesIInv

\* The automations start in their inductive invariant.
LEMMA AutomatesInit == ASSUME M!AutomatesConstantes, M!Init PROVE AutomatesIInv
<1> USE DEF M!AutomatesConstantes, M!Init, M!Jamais
<1>1. \A o \in M!Outils : M!Ligne(TRUE, o, TRUE) \in M!Lignes /\ M!Absente \in M!Lignes
  BY DEF M!Ligne, M!Absente, M!Lignes, M!Outils
<1>2. \A o \in M!Outils : M!Ligne(TRUE, o, TRUE).dernier = -1
  BY DEF M!Ligne
<1>3. x2 \in [Automations -> M!Lignes] /\ \A a \in Automations : x2[a].dernier = -1
  <2> DEFINE neuves == {M!Ligne(TRUE, o, TRUE) : o \in M!Outils}
  <2>1. x2 \in [Automations -> neuves]
    BY Zenon
  <2>2. \A l \in neuves : l \in M!Lignes /\ l.dernier = -1
    BY <1>1, <1>2, Zenon
  <2> HIDE DEF neuves
  <2> QED BY <2>1, <2>2
<1>4. x3 \in [sur : Automations \cup {"aucune"}, ligne : M!Lignes]
  BY <1>1 DEF M!SansFormulaire, M!Outils
<1>5. x4 \in [Equipe -> Rondes] /\ \A t \in Equipe : RondeSaine(x4[t]) /\ x4[t].liste = <<>> /\ x4[t].etape = "repos"
  BY ReposSain DEF RondeSaine
<1>6. AutomatesTypes
  BY <1>3, <1>4, <1>5 DEF AutomatesTypes
<1>7. \A a \in Automations : Surveillee(a)
  BY <1>3, <1>5, ReposSain DEF Surveillee, Tourne
<1> QED BY <1>6, <1>7 DEF AutomatesIInv, M!LectureSeule

AutomatesInv == part = "automates" => AutomatesIInv

\* The inductive invariant of the automations always holds.
LEMMA AutomatesTenus == PlateformeSpec => []AutomatesInv
<1>1. M!AutomatesConstantes
  BY Constantes
<1>2. PlateformeInit => AutomatesInv
  BY <1>1, Depart, AutomatesInit DEF AutomatesInv
<1>3. AutomatesInv /\ [PlateformeNext]_plateforme => AutomatesInv'
  <2> SUFFICES ASSUME part = "automates", AutomatesIInv, [PlateformeNext]_plateforme PROVE AutomatesIInv'
    BY PartFixe DEF AutomatesInv
  <2>1. M!Next \/ UNCHANGED registers
    BY Pas DEF Suit
  <2> QED BY <1>1, <2>1, AutomatesTypesPas, AutomatesSurveillees DEF AutomatesIInv
<1> QED BY <1>2, <1>3, PTL DEF PlateformeSpec

-----------------------------------------------------------------------------
(* Induction over numbers and over finite sets, and sums.                  *)
\* Induction over the natural numbers, for a set of them.
LEMMA Recurrence ==
  ASSUME NEW Bons, 0 \in Bons, \A n \in Nat : n \in Bons => n + 1 \in Bons
  PROVE  Nat \subseteq Bons
<1>1. SUFFICES ASSUME Nat \ Bons # {} PROVE FALSE
  OBVIOUS
<1> DEFINE Avant == {p \in Nat \X Nat : p[1] < p[2]}
<1>2. IsWellFoundedOn(Avant, Nat)
  <2>1. Avant = OpToRel(<, Nat)
    BY DEF OpToRel
  <2> QED BY <2>1, NatLessThanWellFounded
<1>3. PICK n \in Nat \ Bons : \A m \in Nat \ Bons : <<m, n>> \notin Avant
  <2> HIDE DEF Avant
  <2> QED BY <1>1, <1>2, WFMin
<1>4. n # 0 /\ n - 1 \in Nat
  OBVIOUS
<1>5. n - 1 \in Bons
  <2>1. <<n - 1, n>> \in Nat \X Nat /\ n - 1 < n
    BY <1>4
  <2>2. <<n - 1, n>> \in Avant
    BY <2>1
  <2> QED BY <1>3, <1>4, <2>2
<1> QED BY <1>4, <1>5

\* Induction over the subsets of a finite set, one element at a time.
LEMMA RecurrenceFinie ==
  ASSUME NEW Ens, IsFiniteSet(Ens), NEW Bons, {} \in Bons,
         \A s \in SUBSET Ens : s # {} /\ (\A x \in s : s \ {x} \in Bons) => s \in Bons
  PROVE  SUBSET Ens \subseteq Bons
<1> DEFINE Rangs == {n \in Nat : \A s \in SUBSET Ens : Cardinality(s) <= n => s \in Bons}
<1>1. ASSUME NEW s \in SUBSET Ens PROVE IsFiniteSet(s) /\ Cardinality(s) \in Nat
  BY FS_Subset, FS_CardinalityType
<1>2. 0 \in Rangs
  <2>1. ASSUME NEW s \in SUBSET Ens, Cardinality(s) <= 0 PROVE s = {}
    BY <1>1, <2>1, FS_EmptySet
  <2> QED BY <2>1
<1>3. ASSUME NEW n \in Nat, n \in Rangs PROVE n + 1 \in Rangs
  <2>1. ASSUME NEW s \in SUBSET Ens, Cardinality(s) <= n + 1, s # {} PROVE s \in Bons
    <3>1. ASSUME NEW x \in s PROVE s \ {x} \in Bons
      <4>1. Cardinality(s \ {x}) = Cardinality(s) - 1
        BY <1>1, FS_RemoveElement
      <4>2. Cardinality(s \ {x}) <= n /\ s \ {x} \in SUBSET Ens
        BY <1>1, <2>1, <4>1
      <4> QED BY <1>3, <4>2
    <3> QED BY <2>1, <3>1
  <2>2. ASSUME NEW s \in SUBSET Ens, Cardinality(s) <= n + 1 PROVE s \in Bons
    BY <2>1, <2>2
  <2> QED BY <2>2
<1>4. Nat \subseteq Rangs
  <2> HIDE DEF Rangs
  <2> QED BY <1>2, <1>3, Recurrence
<1> QED BY <1>1, <1>4

\* Two things are finitely many.
LEMMA PaireFinie ==
  ASSUME NEW a, NEW b
  PROVE  IsFiniteSet({a, b})
<1>1. {a, b} = {a} \cup {b}
  OBVIOUS
<1>2. IsFiniteSet({a}) /\ IsFiniteSet({b})
  BY FS_Singleton
<1> QED BY <1>1, <1>2, FS_Union

\* c picks an element of every part of Ens; Comb combines an element of Ens and a value of Val into a value of Val.
Choisit(c, Ens) == \A s \in SUBSET Ens : s # {} => c[s] \in s
Combine(Comb, Ens, Val) == \A x \in Ens, v \in Val : Comb[<<x, v>>] \in Val

\* it is what folding the subsets of Ens gives: the element c[s] is taken from s, and Comb combines it with the rest.
Deroule(it, Ens, base, c, Comb) ==
  it = [s \in SUBSET Ens |-> IF s = {} THEN base ELSE Comb[<<c[s], it[s \ {c[s]}]>>]]

\* Folding a finite set defines a function of its subsets.
LEMMA Repli ==
  ASSUME NEW Ens, IsFiniteSet(Ens), NEW Val, NEW base \in Val, NEW c, NEW Comb,
         Choisit(c, Ens), Combine(Comb, Ens, Val)
  PROVE  \E it \in [SUBSET Ens -> Val] : Deroule(it, Ens, base, c, Comb)
<1> DEFINE UnPas(it, s) == IF s = {} THEN base ELSE Comb[<<c[s], it[s \ {c[s]}]>>]
           Rangs == {n \in Nat : \E it \in [SUBSET Ens -> Val] :
                               \A s \in SUBSET Ens : Cardinality(s) <= n => it[s] = UnPas(it, s)}
<1>1. ASSUME NEW s \in SUBSET Ens PROVE IsFiniteSet(s) /\ Cardinality(s) \in Nat
  BY FS_Subset, FS_CardinalityType
<1>2. 0 \in Rangs
  <2>1. [s \in SUBSET Ens |-> base] \in [SUBSET Ens -> Val]
    OBVIOUS
  <2>2. ASSUME NEW s \in SUBSET Ens, Cardinality(s) <= 0 PROVE s = {}
    BY <1>1, <2>2, FS_EmptySet
  <2> QED BY <2>1, <2>2
<1>3. ASSUME NEW n \in Nat, n \in Rangs PROVE n + 1 \in Rangs
  <2>1. PICK it \in [SUBSET Ens -> Val] : \A s \in SUBSET Ens : Cardinality(s) <= n => it[s] = UnPas(it, s)
    BY <1>3
  <2> DEFINE suite == [s \in SUBSET Ens |-> UnPas(it, s)]
  <2>2. suite \in [SUBSET Ens -> Val]
    <3> SUFFICES ASSUME NEW s \in SUBSET Ens, s # {} PROVE Comb[<<c[s], it[s \ {c[s]}]>>] \in Val
      OBVIOUS
    <3>1. c[s] \in Ens /\ s \ {c[s]} \in SUBSET Ens
      BY DEF Choisit
    <3> QED BY <3>1 DEF Combine
  <2>3. ASSUME NEW s \in SUBSET Ens, Cardinality(s) <= n + 1 PROVE suite[s] = UnPas(suite, s)
    <3>1. CASE s = {}
      BY <3>1
    <3>2. CASE s # {}
      <4> DEFINE r == s \ {c[s]}
      <4>1. c[s] \in s /\ r \in SUBSET Ens /\ Cardinality(r) <= n
        BY <1>1, <2>3, <3>2, FS_RemoveElement DEF Choisit
      <4>2. suite[r] = it[r]
        BY <2>1, <4>1
      <4>3. suite[s] = Comb[<<c[s], it[r]>>]
        BY <3>2
      <4> QED BY <3>2, <4>2, <4>3
    <3> QED BY <3>1, <3>2
  <2> HIDE DEF suite, UnPas
  <2> QED BY <2>2, <2>3
<1>4. Nat \subseteq Rangs
  <2> HIDE DEF Rangs
  <2> QED BY <1>2, <1>3, Recurrence
<1>5. PICK it \in [SUBSET Ens -> Val] : \A s \in SUBSET Ens : Cardinality(s) <= Cardinality(Ens) => it[s] = UnPas(it, s)
  BY <1>1, <1>4
<1>6. ASSUME NEW s \in SUBSET Ens PROVE it[s] = UnPas(it, s)
  BY <1>1, <1>5, FS_Subset
<1>7. it = [s \in SUBSET Ens |-> it[s]]
  OBVIOUS
<1>8. it = [s \in SUBSET Ens |-> UnPas(it, s)]
  BY <1>6, <1>7
<1> QED BY <1>8 DEF Deroule

\* The sum of the values of a function, one index at a time.
Pris(s) == CHOOSE x \in s : TRUE
Enroule(it, f) ==
  it = [s \in SUBSET DOMAIN f |->
          IF s = {} THEN 0 ELSE f[Pris(s)] + it[s \ {Pris(s)}]]
Total(f) == (CHOOSE it : Enroule(it, f))[DOMAIN f]

\* it gives the sum over every part of the domain.
EstSomme(it, f, ens) ==
  /\ it \in [SUBSET ens -> Int]
  /\ it[ens] = Total(f)
  /\ it[{}] = 0
  /\ \A s \in SUBSET ens : s # {} => Pris(s) \in s /\ it[s] = f[Pris(s)] + it[s \ {Pris(s)}]

\* The sum of what a function gives over a finite set is computed one element at a time.
LEMMA Sommation ==
  ASSUME NEW Ens, IsFiniteSet(Ens), NEW f \in [Ens -> Int]
  PROVE  \E it : EstSomme(it, f, Ens)
<1> DEFINE c == [s \in SUBSET Ens |-> Pris(s)]
           Comb == [p \in Ens \X Int |-> f[p[1]] + p[2]]
           somme == CHOOSE it : Enroule(it, f)
<1>0. DOMAIN f = Ens
  OBVIOUS
<1>1. \A s \in SUBSET Ens : s # {} => c[s] \in s /\ Pris(s) \in s
  BY DEF Pris
<1>2. \A x \in Ens, v \in Int : Comb[<<x, v>>] \in Int /\ Comb[<<x, v>>] = f[x] + v
  OBVIOUS
<1>3. \E it \in [SUBSET Ens -> Int] : Deroule(it, Ens, 0, c, Comb)
  <2> DEFINE Val == Int
             z == 0
  <2>1. Choisit(c, Ens) /\ Combine(Comb, Ens, Val)
    BY <1>1, <1>2 DEF Choisit, Combine
  <2>2. z \in Val
    OBVIOUS
  <2>3. \E it \in [SUBSET Ens -> Val] : Deroule(it, Ens, z, c, Comb)
    <3> HIDE DEF c, Comb, Val, z
    <3> QED BY <2>1, <2>2, Repli
  <2> QED BY <2>3
<1>4. PICK it \in [SUBSET Ens -> Int] : it = [s \in SUBSET Ens |-> IF s = {} THEN 0 ELSE Comb[<<c[s], it[s \ {c[s]}]>>]]
  BY <1>3 DEF Deroule
<1>5. ASSUME NEW s \in SUBSET Ens, s # {}
      PROVE  Comb[<<c[s], it[s \ {c[s]}]>>] = f[Pris(s)] + it[s \ {Pris(s)}]
  <2>1. c[s] \in Ens /\ it[s \ {c[s]}] \in Int
    BY <1>1, <1>5
  <2>2. c[s] = Pris(s)
    OBVIOUS
  <2> HIDE DEF Comb
  <2> QED BY <1>2, <2>1, <2>2
<1>6. Enroule(it, f)
  BY <1>0, <1>4, <1>5 DEF Enroule
<1>7. Enroule(somme, f)
  BY <1>6
<1>8. somme = [s \in SUBSET Ens |->
                 IF s = {} THEN 0 ELSE f[Pris(s)] + somme[s \ {Pris(s)}]]
  <2> HIDE DEF somme
  <2> QED BY <1>0, <1>7 DEF Enroule
<1>9. /\ DOMAIN somme = SUBSET Ens /\ somme[{}] = 0
      /\ \A s \in SUBSET Ens : s # {} => Pris(s) \in s /\ somme[s] = f[Pris(s)] + somme[s \ {Pris(s)}]
  <2> HIDE DEF somme
  <2>1. ASSUME NEW s \in SUBSET Ens, s # {}
        PROVE  Pris(s) \in s /\ somme[s] = f[Pris(s)] + somme[s \ {Pris(s)}]
    <3>1. Pris(s) \in s
      BY <1>1, <2>1
    <3>2. somme[s] = f[Pris(s)] + somme[s \ {Pris(s)}]
      BY <1>8, <2>1
    <3> QED BY <3>1, <3>2
  <2> QED BY <1>8, <2>1
<1>10. somme \in [SUBSET Ens -> Int]
  <2> DEFINE Bons == {s \in SUBSET Ens : somme[s] \in Int}
  <2>1. {} \in Bons
    BY <1>9
  <2>2. ASSUME NEW s \in SUBSET Ens, s # {}, \A x \in s : s \ {x} \in Bons PROVE s \in Bons
    <3> HIDE DEF somme
    <3> DEFINE x == Pris(s)
    <3>1. x \in s /\ somme[s] = f[x] + somme[s \ {x}]
      BY <1>9, <2>2
    <3> HIDE DEF x
    <3>2. f[x] \in Int /\ somme[s \ {x}] \in Int
      BY <2>2, <3>1
    <3> QED BY <3>1, <3>2
  <2>3. SUBSET Ens \subseteq Bons
    <3> HIDE DEF Bons
    <3> QED BY <2>1, <2>2, RecurrenceFinie
  <2> HIDE DEF somme
  <2> QED BY <1>8, <2>3
<1>11. somme[Ens] = Total(f)
  BY <1>0 DEF Total
<1> HIDE DEF somme
<1>12. EstSomme(somme, f, Ens)
  BY <1>9, <1>10, <1>11 DEF EstSomme
<1> QED BY <1>12

\* A sum of integers is one.
LEMMA TotalEntier ==
  ASSUME NEW Ens, IsFiniteSet(Ens), NEW f \in [Ens -> Int]
  PROVE  Total(f) \in Int
<1>1. PICK it : EstSomme(it, f, Ens)
  BY Sommation
<1> QED BY <1>1 DEF EstSomme

\* Sums compare as what they add up, and a factor comes out of them.
LEMMA TotalCompare ==
  ASSUME NEW Ens, IsFiniteSet(Ens), NEW f \in [Ens -> Int], NEW g \in [Ens -> Int], \A x \in Ens : f[x] <= g[x]
  PROVE  Total(f) <= Total(g)
<1>1. PICK it : EstSomme(it, f, Ens)
  BY Sommation
<1>2. PICK jt : EstSomme(jt, g, Ens)
  BY Sommation
<1> DEFINE Bons == {s \in SUBSET Ens : it[s] <= jt[s]}
<1>3. {} \in Bons
  BY <1>1, <1>2 DEF EstSomme
<1>4. ASSUME NEW s \in SUBSET Ens, s # {}, \A x \in s : s \ {x} \in Bons PROVE s \in Bons
  <2> DEFINE x == Pris(s)
  <2>1. x \in s /\ it[s] = f[x] + it[s \ {x}] /\ jt[s] = g[x] + jt[s \ {x}]
    BY <1>1, <1>2, <1>4 DEF EstSomme
  <2> HIDE DEF x
  <2>2. /\ f[x] \in Int /\ g[x] \in Int /\ f[x] <= g[x] /\ s \ {x} \in SUBSET Ens
        /\ it[s \ {x}] \in Int /\ jt[s \ {x}] \in Int /\ it[s \ {x}] <= jt[s \ {x}]
    BY <1>1, <1>2, <1>4, <2>1 DEF EstSomme
  <2> QED BY <2>1, <2>2
<1>5. SUBSET Ens \subseteq Bons
  <2> HIDE DEF Bons
  <2> QED BY <1>3, <1>4, RecurrenceFinie
<1> QED BY <1>1, <1>2, <1>5 DEF EstSomme

\* ... and a common factor comes out of a sum.
LEMMA TotalFois ==
  ASSUME NEW Ens, IsFiniteSet(Ens), NEW f \in [Ens -> Int], NEW g \in [Ens -> Int], NEW k \in Int,
         \A x \in Ens : g[x] = k * f[x]
  PROVE  Total(g) = k * Total(f)
<1>1. PICK it : EstSomme(it, f, Ens)
  BY Sommation
<1>2. PICK jt : EstSomme(jt, g, Ens)
  BY Sommation
<1> DEFINE Bons == {s \in SUBSET Ens : jt[s] = k * it[s]}
<1>3. {} \in Bons
  BY <1>1, <1>2 DEF EstSomme
<1>4. ASSUME NEW s \in SUBSET Ens, s # {}, \A x \in s : s \ {x} \in Bons PROVE s \in Bons
  <2> DEFINE x == Pris(s)
             reste == it[s \ {x}]
             u == f[x]
  <2>1. x \in s /\ it[s] = u + reste /\ jt[s] = g[x] + jt[s \ {x}]
    BY <1>1, <1>2, <1>4 DEF EstSomme
  <2>2. u \in Int /\ reste \in Int /\ g[x] = k * u /\ jt[s \ {x}] = k * reste
    <3> HIDE DEF x
    <3> QED BY <1>1, <1>2, <1>4, <2>1 DEF EstSomme
  <2> HIDE DEF x, reste, u
  <2>3. k * (u + reste) = k * u + k * reste
    BY <2>2
  <2> QED BY <2>1, <2>2, <2>3
<1>5. SUBSET Ens \subseteq Bons
  <2> HIDE DEF Bons
  <2> QED BY <1>3, <1>4, RecurrenceFinie
<1> QED BY <1>1, <1>2, <1>5 DEF EstSomme

\* How many are of each label, added up over the labels, is how many are of one of them.
LEMMA TotalDesEtiquettes ==
  ASSUME NEW Ens, IsFiniteSet(Ens), NEW Gens, IsFiniteSet(Gens), NEW lab,
         NEW f \in [Ens -> Int], \A k \in Ens : f[k] = Cardinality({i \in Gens : lab[i] = k})
  PROVE  Total(f) = Cardinality({i \in Gens : lab[i] \in Ens})
<1> DEFINE de(s) == {i \in Gens : lab[i] \in s}
<1>1. PICK it : EstSomme(it, f, Ens)
  BY Sommation
<1> DEFINE Bons == {s \in SUBSET Ens : it[s] = Cardinality(de(s))}
<1>2. {} \in Bons
  <2>1. de({}) = {}
    OBVIOUS
  <2> HIDE DEF de
  <2> QED BY <1>1, <2>1, FS_EmptySet DEF EstSomme
<1>3. ASSUME NEW s \in SUBSET Ens, s # {}, \A x \in s : s \ {x} \in Bons PROVE s \in Bons
  <2> DEFINE x == Pris(s)
             siens == {i \in Gens : lab[i] = x}
             autres == de(s \ {x})
  <2>1. x \in s /\ it[s] = f[x] + it[s \ {x}]
    BY <1>1, <1>3 DEF EstSomme
  <2> HIDE DEF x
  <2>2. f[x] = Cardinality(siens) /\ it[s \ {x}] = Cardinality(autres)
    BY <1>3, <2>1
  <2>3. de(s) = siens \cup autres /\ siens \cap autres = {} /\ siens \in SUBSET Gens /\ autres \in SUBSET Gens
    BY <2>1
  <2>4. IsFiniteSet(siens) /\ IsFiniteSet(autres)
    <3> HIDE DEF siens, autres
    <3> QED BY <2>3, FS_Subset
  <2> HIDE DEF siens, autres, de
  <2>5. Cardinality(siens \cup autres) = Cardinality(siens) + Cardinality(autres)
    <3>1. Cardinality(siens \cup autres) = Cardinality(siens) + Cardinality(autres) - Cardinality(siens \cap autres)
      BY <2>4, FS_Union
    <3>2. Cardinality(siens) \in Int /\ Cardinality(autres) \in Int /\ Cardinality({}) = 0
      BY <2>4, FS_CardinalityType, FS_EmptySet
    <3>3. Cardinality(siens \cap autres) = 0
      BY <2>3, <3>2
    <3> QED BY <3>1, <3>2, <3>3
  <2> QED BY <2>1, <2>2, <2>3, <2>5
<1>4. SUBSET Ens \subseteq Bons
  <2> HIDE DEF Bons
  <2> QED BY <1>2, <1>3, RecurrenceFinie
<1> QED BY <1>1, <1>4 DEF EstSomme

\* A finite set of numbers that is not empty has a greatest.
LEMMA PlusGrand ==
  ASSUME NEW Ens \in SUBSET Int, IsFiniteSet(Ens), Ens # {}
  PROVE  \E x \in Ens : \A y \in Ens : y <= x
<1> DEFINE Bons == {s \in SUBSET Ens : s # {} => \E x \in s : \A y \in s : y <= x}
<1>1. {} \in Bons
  OBVIOUS
<1>2. ASSUME NEW s \in SUBSET Ens, s # {}, \A x \in s : s \ {x} \in Bons PROVE s \in Bons
  <2>1. PICK z \in s : TRUE
    BY <1>2
  <2>2. CASE s \ {z} = {}
    <3>1. \A y \in s : y <= z
      BY <2>2
    <3> QED BY <3>1
  <2>3. CASE s \ {z} # {}
    <3>1. PICK x \in s \ {z} : \A y \in s \ {z} : y <= x
      BY <1>2, <2>3
    <3>2. CASE z <= x
      <4>1. \A y \in s : y <= x
        BY <3>1, <3>2
      <4> QED BY <4>1
    <3>3. CASE x < z
      <4>1. \A y \in s : y <= z
        BY <3>1, <3>3
      <4> QED BY <4>1
    <3> QED BY <3>2, <3>3
  <2> QED BY <2>2, <2>3
<1>3. SUBSET Ens \subseteq Bons
  <2> HIDE DEF Bons
  <2> QED BY <1>1, <1>2, RecurrenceFinie
<1> QED BY <1>3

\* ... and a smallest.
LEMMA PlusPetit ==
  ASSUME NEW Ens \in SUBSET Int, IsFiniteSet(Ens), Ens # {}
  PROVE  \E x \in Ens : \A y \in Ens : x <= y
<1> DEFINE Bons == {s \in SUBSET Ens : s # {} => \E x \in s : \A y \in s : x <= y}
<1>1. {} \in Bons
  OBVIOUS
<1>2. ASSUME NEW s \in SUBSET Ens, s # {}, \A x \in s : s \ {x} \in Bons PROVE s \in Bons
  <2>1. PICK z \in s : TRUE
    BY <1>2
  <2>2. CASE s \ {z} = {}
    <3>1. \A y \in s : z <= y
      BY <2>2
    <3> QED BY <3>1
  <2>3. CASE s \ {z} # {}
    <3>1. PICK x \in s \ {z} : \A y \in s \ {z} : x <= y
      BY <1>2, <2>3
    <3>2. CASE x <= z
      <4>1. \A y \in s : x <= y
        BY <3>1, <3>2
      <4> QED BY <4>1
    <3>3. CASE z < x
      <4>1. \A y \in s : z <= y
        BY <3>1, <3>3
      <4> QED BY <4>1
    <3> QED BY <3>2, <3>3
  <2> QED BY <2>2, <2>3
<1>3. SUBSET Ens \subseteq Bons
  <2> HIDE DEF Bons
  <2> QED BY <1>1, <1>2, RecurrenceFinie
<1> QED BY <1>3

-----------------------------------------------------------------------------
(* What is judged of the indicators.                                       *)
LEMMA DepartLu ==
  ASSUME PlateformeInit
  PROVE  /\ part = "periodes" => Q!Init
         /\ part = "echeances" => E!Init
         /\ part = "indicateurs" => I!Init
BY DEF PlateformeInit

\* What the constants of the calendars and of the indicators are.
LEMMA ConstantesLues == Q!LectureConstantes /\ E!EcheancesConstantes /\ I!IndicateursConstantes
BY Constantes, Zenon

\* ... and how their part moves.
LEMMA PasLu ==
  ASSUME [PlateformeNext]_plateforme
  PROVE  /\ part = "periodes" => Q!Next \/ UNCHANGED registers
         /\ part = "echeances" => E!Next \/ UNCHANGED registers
         /\ part = "indicateurs" => I!Next \/ UNCHANGED registers
BY DEF PlateformeNext, plateforme

\* Finite sets and cardinals are the same ones in every instance.
LEMMA MemesNotions ==
  ASSUME NEW s
  PROVE  /\ Q!IsFiniteSet(s) <=> IsFiniteSet(s)
         /\ I!IsFiniteSet(s) <=> IsFiniteSet(s)
         /\ Q!Cardinality(s) = Cardinality(s)
         /\ I!Cardinality(s) = Cardinality(s)
<1>1. (Q!IsFiniteSet(s) <=> IsFiniteSet(s)) /\ (I!IsFiniteSet(s) <=> IsFiniteSet(s))
  BY DEF Q!IsFiniteSet, I!IsFiniteSet, IsFiniteSet
<1>2. \A e : (Q!IsFiniteSet(e) <=> IsFiniteSet(e)) /\ (I!IsFiniteSet(e) <=> IsFiniteSet(e))
  BY DEF Q!IsFiniteSet, I!IsFiniteSet, IsFiniteSet
<1>3. Q!Cardinality(s) = Cardinality(s) /\ I!Cardinality(s) = Cardinality(s)
  BY <1>2 DEF Q!Cardinality, I!Cardinality, Cardinality
<1> QED BY <1>1, <1>3

-----------------------------------------------------------------------------
(* The judgements: one case, and what is judged of it. *)
IndicateursJuges ==
  part = "indicateurs" =>
    \/ x1 = Neant
    \/ x1 \in I!CasSeuil /\ x2 = I!JugerSeuil(x1)
    \/ x1 \in I!CasDecision /\ x2 = I!JugerDecision(x1)
    \/ x1 \in I!CasScore /\ x2 = I!JugerScore(x1)
    \/ x1 \in I!CasMart /\ x2 = I!JugerMart(x1)

\* Nothing is ever judged but one of the cases, as the code judges it.
LEMMA IndicateursJugesInv == PlateformeSpec => []IndicateursJuges
<1>1. PlateformeInit => IndicateursJuges
  BY DepartLu DEF IndicateursJuges, I!Init
<1>2. IndicateursJuges /\ [PlateformeNext]_plateforme => IndicateursJuges'
  <2> SUFFICES ASSUME IndicateursJuges, [PlateformeNext]_plateforme, part' = "indicateurs" PROVE IndicateursJuges'
    BY DEF IndicateursJuges
  <2>1. part = "indicateurs" /\ (I!Next \/ UNCHANGED registers)
    BY PartFixe, PasLu
  <2>2. CASE I!Next
    BY <2>2, Zenon DEF I!Next, I!Seuil, I!Decision, I!Score, I!Mart, IndicateursJuges
  <2>3. CASE UNCHANGED registers
    <3>1. x1' = x1 /\ x2' = x2
      BY <2>3 DEF registers
    <3> QED BY <2>1, <3>1, Zenon DEF IndicateursJuges
  <2> QED BY <2>1, <2>2, <2>3
<1> QED BY <1>1, <1>2, PTL DEF PlateformeSpec

\* A case says what is judged of it.
LEMMA GenresDesJuges ==
  /\ \A c \in I!CasSeuil : c.genre = "seuil"
  /\ \A c \in I!CasDecision : c.genre = "decision"
  /\ \A c \in I!CasScore : c.genre = "score"
  /\ \A c \in I!CasMart : c.genre = "mart"
BY DEF I!CasSeuil, I!CasDecision, I!CasScore, I!CasMart

\* ... so that the case of a verdict is known from what it says.
LEMMA JugeDuGenre ==
  ASSUME part = "indicateurs", IndicateursJuges, x1 # Neant
  PROVE  /\ x1.genre = "seuil" => x1 \in I!CasSeuil /\ x2 = I!JugerSeuil(x1)
         /\ x1.genre = "decision" => x1 \in I!CasDecision /\ x2 = I!JugerDecision(x1)
         /\ x1.genre = "score" => x1 \in I!CasScore /\ x2 = I!JugerScore(x1)
         /\ x1.genre = "mart" => x1 \in I!CasMart /\ x2 = I!JugerMart(x1)
BY GenresDesJuges DEF IndicateursJuges

-----------------------------------------------------------------------------
(* Thresholds. *)

\* v is beyond the bound b, on the side where s gets worse.
Pire(s, v, b) == IF I!Sens(s) = "bas" THEN v < b ELSE v > b
Ordonnes(s, a, b) == IF I!Sens(s) = "bas" THEN b < a ELSE b > a

\* The gravity of a measure is the number of bounds it is beyond.
LEMMA GraviteDe ==
  ASSUME NEW s, NEW seuils, NEW v \in Int, v # I!ND, NEW a \in Int, NEW b \in Int, seuils[s][1] = a, seuils[s][2] = b
  PROVE  /\ I!Gravite[I!Etat(v, s, seuils)] = IF Pire(s, v, b) THEN 2 ELSE IF Pire(s, v, a) THEN 1 ELSE 0
         /\ ~Pire(s, v, b) /\ ~Pire(s, v, a) => I!Etat(v, s, seuils) = "normal"
<1>1. I!Etat(v, s, seuils) = IF Pire(s, v, b) THEN "critique" ELSE IF Pire(s, v, a) THEN "surveillance" ELSE "normal"
  BY DEF I!Etat, Pire
<1>2. /\ I!Gravite["critique"] = 2 /\ I!Gravite["surveillance"] = 1 /\ I!Gravite["normal"] = 0
  BY DEF I!Gravite
<1> QED BY <1>1, <1>2

\* The thresholds of a case: what a PUT sets when it is accepted, the defaults else; in order in both cases.
SurchargeDe(c) ==
  IF I!Valide(c.signal, c.surveillance, c.critique)
  THEN [s \in {c.signal} |-> <<c.surveillance, c.critique>>] ELSE [s \in {} |-> Neant]

\* Whatever was typed, the two bounds in force are in order, and those typed if they were accepted.
LEMMA SeuilsDuCas ==
  ASSUME NEW c \in I!CasSeuil
  PROVE  \E a, b \in Int :
           /\ I!Effectifs(SurchargeDe(c))[c.signal][1] = a /\ I!Effectifs(SurchargeDe(c))[c.signal][2] = b
           /\ Ordonnes(c.signal, a, b)
           /\ I!Valide(c.signal, c.surveillance, c.critique) =>
                /\ a = c.surveillance /\ c.signal \in DOMAIN SurchargeDe(c)
                /\ SurchargeDe(c)[c.signal][1] = a /\ SurchargeDe(c)[c.signal][2] = b
           /\ ~I!Valide(c.signal, c.surveillance, c.critique) =>
                /\ SurchargeDe(c) = [s \in {} |-> Neant]
                /\ a = I!Defauts[c.signal][1] /\ b = I!Defauts[c.signal][2]
<1> DEFINE s == c.signal
           a == c.surveillance
           b == c.critique
           sur == SurchargeDe(c)
<1>1. s \in I!Signaux /\ a \in Int /\ b \in Int
  BY ConstantesLues DEF I!CasSeuil, I!IndicateursConstantes
<1>2. CASE I!Valide(s, a, b)
  <2>1. sur = [i \in {s} |-> <<a, b>>]
    BY <1>2 DEF SurchargeDe
  <2>2. Ordonnes(s, a, b)
    BY <1>1, <1>2 DEF I!Valide, Ordonnes
  <2> HIDE DEF s, a, b, sur
  <2>3. I!Effectifs(sur)[s] = <<a, b>> /\ s \in DOMAIN sur /\ sur[s] = <<a, b>>
    BY <1>1, <2>1 DEF I!Effectifs
  <2>4. I!Effectifs(sur)[s][1] = a /\ I!Effectifs(sur)[s][2] = b /\ sur[s][1] = a /\ sur[s][2] = b
    BY <2>3
  <2> QED BY <1>1, <1>2, <2>2, <2>3, <2>4 DEF s, a, b, sur
<1>3. CASE ~I!Valide(s, a, b)
  <2>1. sur = [i \in {} |-> Neant]
    BY <1>3 DEF SurchargeDe
  <2> HIDE DEF s, a, b, sur
  <2>2. I!Effectifs(sur)[s] = I!Defauts[s]
    BY <1>1, <2>1 DEF I!Effectifs
  <2>3. /\ I!Defauts[s][1] \in Int /\ I!Defauts[s][2] \in Int
        /\ Ordonnes(s, I!Defauts[s][1], I!Defauts[s][2])
    BY <1>1 DEF I!Defauts, I!Signaux, Ordonnes, I!Sens
  <2> QED BY <1>1, <1>3, <2>1, <2>2, <2>3 DEF s, a, b, sur
<1> QED BY <1>2, <1>3

\* What is read of a verdict on bounds.
LEMMA SeuilJuge ==
  ASSUME NEW c
  PROVE  /\ I!JugerSeuil(c).accepte = I!Valide(c.signal, c.surveillance, c.critique)
         /\ I!JugerSeuil(c).etats = [v \in MesuresRh |-> I!Etat(v, c.signal, I!Effectifs(SurchargeDe(c)))]
         /\ I!JugerSeuil(c).publics = I!SeuilsPublics(SurchargeDe(c))
BY DEF I!JugerSeuil, SurchargeDe

\* A measure that gets worse never gets a better state.
LEMMA EtatMonotoneTenu ==
  ASSUME part = "indicateurs", IndicateursJuges
  PROVE  I!EtatMonotone
<1> SUFFICES ASSUME x1 # Neant, x1.genre = "seuil", NEW v \in MesuresRh \ {I!ND}, NEW w \in MesuresRh \ {I!ND},
                    IF I!Sens(x1.signal) = "bas" THEN v <= w ELSE v >= w
             PROVE  /\ I!Gravite[x2.etats[v]] >= I!Gravite[x2.etats[w]]
                    /\ (x2.accepte /\ v # w /\ v = x1.surveillance) => x2.etats[v] = "normal"
  BY DEF I!EtatMonotone, I!Genre
<1> DEFINE s == x1.signal
           seuils == I!Effectifs(SurchargeDe(x1))
<1>1. x1 \in I!CasSeuil /\ x2 = I!JugerSeuil(x1)
  BY JugeDuGenre
<1>2. PICK a \in Int, b \in Int :
        /\ seuils[s][1] = a /\ seuils[s][2] = b /\ Ordonnes(s, a, b)
        /\ I!Valide(s, x1.surveillance, x1.critique) => a = x1.surveillance
  BY <1>1, SeuilsDuCas
<1>3. v \in Int /\ w \in Int /\ v # I!ND /\ w # I!ND
  BY ConstantesLues DEF I!IndicateursConstantes
<1>4. x2.etats[v] = I!Etat(v, s, seuils) /\ x2.etats[w] = I!Etat(w, s, seuils)
      /\ x2.accepte = I!Valide(s, x1.surveillance, x1.critique)
  BY <1>1, SeuilJuge
<1> HIDE DEF s, seuils
<1>5. /\ I!Gravite[I!Etat(v, s, seuils)] = IF Pire(s, v, b) THEN 2 ELSE IF Pire(s, v, a) THEN 1 ELSE 0
      /\ ~Pire(s, v, b) /\ ~Pire(s, v, a) => I!Etat(v, s, seuils) = "normal"
      /\ I!Gravite[I!Etat(w, s, seuils)] = IF Pire(s, w, b) THEN 2 ELSE IF Pire(s, w, a) THEN 1 ELSE 0
  BY <1>2, <1>3, GraviteDe
<1>6. I!Sens(s) = "bas" => v <= w
  BY DEF s
<1>7. I!Sens(s) # "bas" => v >= w
  BY DEF s
<1>8. (Pire(s, w, b) => Pire(s, v, b)) /\ (Pire(s, w, a) => Pire(s, v, a))
  BY <1>2, <1>3, <1>6, <1>7 DEF Pire
<1>9. v = a => ~Pire(s, v, b) /\ ~Pire(s, v, a)
  BY <1>2, <1>3 DEF Pire, Ordonnes
<1> QED BY <1>2, <1>4, <1>5, <1>8, <1>9

\* The findings of the day take the thresholds of their signal, the step that VERS_SHIELD says.
LEMMA PublicDe ==
  ASSUME NEW c \in I!CasSeuil, NEW k \in DOMAIN I!VersShield, I!VersShield[k][1] = c.signal,
         NEW a \in Int, NEW b \in Int,
         I!Effectifs(SurchargeDe(c))[c.signal][1] = a, I!Effectifs(SurchargeDe(c))[c.signal][2] = b
  PROVE  I!SeuilsPublics(SurchargeDe(c))[k] = IF I!VersShield[k][2] = 1 THEN a ELSE b
<1> DEFINE s == c.signal
           sur == SurchargeDe(c)
<1>1. I!SeuilsPublics(sur)[k] = IF s \in DOMAIN sur THEN sur[s][I!VersShield[k][2]] ELSE I!DefautsShield[k]
  BY DEF I!SeuilsPublics, I!SurchargeShield
<1>2. I!VersShield[k][2] \in {1, 2}
  BY DEF I!VersShield
<1>3. PICK x \in Int, y \in Int :
        /\ I!Effectifs(sur)[s][1] = x /\ I!Effectifs(sur)[s][2] = y
        /\ I!Valide(s, c.surveillance, c.critique) => s \in DOMAIN sur /\ sur[s][1] = x /\ sur[s][2] = y
        /\ ~I!Valide(s, c.surveillance, c.critique) =>
             /\ sur = [i \in {} |-> Neant]
             /\ x = I!Defauts[s][1] /\ y = I!Defauts[s][2]
  BY SeuilsDuCas
<1>4. x = a /\ y = b
  BY <1>3
<1>5. I!DefautsShield[k] = I!Defauts[I!VersShield[k][1]][I!VersShield[k][2]]
  BY DEF I!DefautsShield, I!Defauts, I!VersShield
<1> SUFFICES I!SeuilsPublics(sur)[k] = IF I!VersShield[k][2] = 1 THEN a ELSE b
  OBVIOUS
<1> HIDE DEF s, sur
<1>6. CASE I!Valide(s, c.surveillance, c.critique)
  BY <1>1, <1>2, <1>3, <1>4, <1>6
<1>7. CASE ~I!Valide(s, c.surveillance, c.critique)
  <2>1. s \notin DOMAIN sur
    BY <1>3, <1>7
  <2> QED BY <1>1, <1>2, <1>3, <1>4, <1>5, <1>7, <2>1 DEF s
<1> QED BY <1>6, <1>7

\* The findings of the day and the signals of the period judge with the same bounds.
LEMMA MemesBornesTenu ==
  ASSUME part = "indicateurs", IndicateursJuges
  PROVE  I!MemesBornes
<1> SUFFICES ASSUME x1 # Neant, x1.genre = "seuil", NEW k \in DOMAIN I!VersShield, NEW v \in MesuresRh \ {I!ND},
                    I!VersShield[k][1] = x1.signal
             PROVE  I!ConstatDuJour(k, v, x2.publics) <=> I!Gravite[x2.etats[v]] >= I!VersShield[k][2]
  BY DEF I!MemesBornes, I!Genre
<1> DEFINE s == x1.signal
           seuils == I!Effectifs(SurchargeDe(x1))
           pas == I!VersShield[k][2]
<1>1. x1 \in I!CasSeuil /\ x2 = I!JugerSeuil(x1)
  BY JugeDuGenre
<1>2. PICK a \in Int, b \in Int : seuils[s][1] = a /\ seuils[s][2] = b /\ Ordonnes(s, a, b)
  BY <1>1, SeuilsDuCas
<1>3. v \in Int /\ v # I!ND
  BY ConstantesLues DEF I!IndicateursConstantes
<1>4. x2.publics[k] = IF pas = 1 THEN a ELSE b
  <2>1. x2.publics = I!SeuilsPublics(SurchargeDe(x1))
    BY <1>1, SeuilJuge
  <2>2. I!SeuilsPublics(SurchargeDe(x1))[k] = IF pas = 1 THEN a ELSE b
    BY <1>1, <1>2, PublicDe
  <2> QED BY <2>1, <2>2
<1>5. x2.etats[v] = I!Etat(v, s, seuils)
  <2>1. x2.etats = [i \in MesuresRh |-> I!Etat(i, s, seuils)]
    BY <1>1, SeuilJuge
  <2> HIDE DEF s, seuils
  <2> QED BY <2>1
<1>6. I!Gravite[I!Etat(v, s, seuils)] = IF Pire(s, v, b) THEN 2 ELSE IF Pire(s, v, a) THEN 1 ELSE 0
  <2> HIDE DEF s, seuils
  <2> QED BY <1>2, <1>3, GraviteDe
<1>7. pas \in {1, 2} /\ (k \in {"presence_critique", "presence_site_critique"} <=> I!Sens(s) = "bas")
  <2>1. /\ I!VersShield["presence_critique"] = <<"presence_faible", 2>>
        /\ I!VersShield["absenteisme_eleve"] = <<"absenteisme", 2>>
        /\ I!VersShield["retards_eleves"] = <<"retard_eleve", 1>>
        /\ I!VersShield["presence_site_critique"] = <<"site_sous_effectif", 2>>
        /\ DOMAIN I!VersShield = {"presence_critique", "absenteisme_eleve", "retards_eleves", "presence_site_critique"}
    BY DEF I!VersShield
  <2>2. I!Sens(s) = "bas" <=> I!VersShield[k][1] \in {"presence_faible", "site_sous_effectif"}
    BY DEF I!Sens
  <2> QED BY <2>1, <2>2
<1>8. I!ConstatDuJour(k, v, x2.publics) <=> Pire(s, v, x2.publics[k])
  BY <1>7 DEF I!ConstatDuJour, Pire
<1> HIDE DEF s, seuils, pas
<1>9. Pire(s, v, x2.publics[k]) <=> I!Gravite[x2.etats[v]] >= pas
  <2>1. Pire(s, v, b) => Pire(s, v, a)
    BY <1>2, <1>3 DEF Pire, Ordonnes
  <2> QED BY <1>4, <1>5, <1>6, <1>7, <2>1
<1> QED BY <1>8, <1>9 DEF pas

-----------------------------------------------------------------------------
(* Findings. *)
NomsDesConstats == {"presence_faible", "absenteisme", "retard_eleve", "site_sous_effectif", "effectif_critique",
         "variation", "ecart", "concentration", "mince", "echeances"}
Graves == [id : NomsDesConstats, severite : {"critique", "surveillance", "info"}]

\* The findings are a finite list.
LEMMA ListeFinie ==
  ASSUME NEW c
  PROVE  I!Liste(c) \in Seq(Graves)
<1> DEFINE si(test, constat) == IF test THEN <<constat>> ELSE <<>>
           e == I!Etats(c)
           deSignal(s) == si(e[s] \in {"critique", "surveillance"}, I!Constat(s, e[s]))
           ecart == c.presence - c.presenceAvant
           variation == e["presence_faible"] = "normal" /\ c.presenceAvant # I!ND
                         /\ (ecart >= I!VariationNotable \/ ecart <= -I!VariationNotable)
           loin == c.presence # I!ND /\ \E t \in c.sites \ {I!ND} : t - c.presence <= -I!EcartSiteNotable
<1>1. ASSUME NEW s \in NomsDesConstats PROVE deSignal(s) \in Seq(Graves)
  <2>1. CASE e[s] \in {"critique", "surveillance"}
    <3>1. I!Constat(s, e[s]) \in Graves
      BY <2>1 DEF I!Constat, Graves
    <3> HIDE DEF e
    <3> QED BY <2>1, <3>1
  <2>2. CASE e[s] \notin {"critique", "surveillance"}
    <3> HIDE DEF e
    <3> QED BY <2>2
  <2> QED BY <2>1, <2>2
<1>2. ASSUME NEW test, NEW id \in NomsDesConstats, NEW sev \in {"critique", "surveillance", "info"}
      PROVE  si(test, I!Constat(id, sev)) \in Seq(Graves)
  <2>1. I!Constat(id, sev) \in Graves
    BY DEF I!Constat, Graves
  <2> QED BY <2>1
<1> DEFINE un == deSignal("presence_faible")
           deux == deSignal("absenteisme")
           trois == deSignal("retard_eleve")
           quatre == deSignal("site_sous_effectif")
           cinq == deSignal("effectif_critique")
           six == si(variation, I!Constat("variation", IF ecart < 0 THEN "surveillance" ELSE "info"))
           sept == si(loin, I!Constat("ecart", "surveillance"))
           huit == si(c.concentration, I!Constat("concentration", "info"))
           neuf == si(c.mince, I!Constat("mince", "info"))
           dix == si(c.echeances > 0, I!Constat("echeances", "surveillance"))
<1>3. I!Liste(c) = un \o deux \o trois \o quatre \o cinq \o six \o sept \o huit \o neuf \o dix
  BY DEF I!Liste
<1>4. un \in Seq(Graves) /\ deux \in Seq(Graves) /\ trois \in Seq(Graves) /\ quatre \in Seq(Graves) /\ cinq \in Seq(Graves)
  <2> HIDE DEF deSignal
  <2>1. /\ "presence_faible" \in NomsDesConstats /\ "absenteisme" \in NomsDesConstats /\ "retard_eleve" \in NomsDesConstats
        /\ "site_sous_effectif" \in NomsDesConstats /\ "effectif_critique" \in NomsDesConstats
    BY DEF NomsDesConstats
  <2> QED BY <1>1, <2>1, Zenon
<1>5. six \in Seq(Graves) /\ sept \in Seq(Graves) /\ huit \in Seq(Graves) /\ neuf \in Seq(Graves) /\ dix \in Seq(Graves)
  <2> HIDE DEF si, variation, loin, ecart
  <2>1. /\ "variation" \in NomsDesConstats /\ "ecart" \in NomsDesConstats /\ "concentration" \in NomsDesConstats /\ "mince" \in NomsDesConstats
        /\ "echeances" \in NomsDesConstats
    BY DEF NomsDesConstats
  <2>2. /\ (IF ecart < 0 THEN "surveillance" ELSE "info") \in {"critique", "surveillance", "info"}
        /\ "surveillance" \in {"critique", "surveillance", "info"} /\ "info" \in {"critique", "surveillance", "info"}
    OBVIOUS
  <2> QED BY <1>2, <2>1, <2>2, Zenon
<1> HIDE DEF un, deux, trois, quatre, cinq, six, sept, huit, neuf, dix
<1> QED BY <1>3, <1>4, <1>5

\* Cutting the findings never drops one that is graver than one it keeps.
LEMMA GraveGardeTenu ==
  ASSUME part = "indicateurs", IndicateursJuges
  PROVE  I!GraveGarde
<1> SUFFICES ASSUME x1 # Neant, x1.genre = "decision", NEW g \in x2.gardes, NEW x \in DOMAIN x2.tous \ x2.gardes
             PROVE  I!Rang[x2.tous[g].severite] <= I!Rang[x2.tous[x].severite]
  BY DEF I!GraveGarde, I!Genre
<1> DEFINE s == I!Liste(x1)
           rang(i) == I!Rang[s[i].severite]
           devant(i) == {j \in DOMAIN s : rang(j) < rang(i) \/ (rang(j) = rang(i) /\ j < i)}
<1>1. x2.tous = s /\ x2.gardes = I!TrierPuisCouper(s)
  BY JugeDuGenre DEF I!JugerDecision
<1>2. s \in Seq(Graves)
  BY ListeFinie
<1>3. ASSUME NEW i \in DOMAIN s PROVE rang(i) \in Int
  <2> HIDE DEF s
  <2>1. s[i] \in Graves
    BY <1>2
  <2>2. s[i].severite \in {"critique", "surveillance", "info"}
    BY <2>1 DEF Graves
  <2> QED BY <2>2 DEF I!Rang
<1>4. IsFiniteSet(DOMAIN s) /\ DOMAIN s \subseteq Int
  <2> HIDE DEF s
  <2>1. DOMAIN s = 1..Len(s) /\ Len(s) \in Nat
    BY <1>2
  <2> QED BY <2>1, FS_Interval
<1>5. ASSUME NEW i \in DOMAIN s
      PROVE  I!Place(s, i) = 1 + Cardinality(devant(i)) /\ IsFiniteSet(devant(i)) /\ Cardinality(devant(i)) \in Nat
  <2>1. I!Place(s, i) = 1 + I!Cardinality(devant(i))
    BY DEF I!Place
  <2> HIDE DEF s
  <2>2. devant(i) \in SUBSET DOMAIN s
    OBVIOUS
  <2>3. IsFiniteSet(devant(i))
    BY <1>4, <2>2, FS_Subset
  <2> HIDE DEF devant
  <2> QED BY <2>1, <2>3, MemesNotions, FS_CardinalityType
<1>6. g \in DOMAIN s /\ x \in DOMAIN s /\ I!Place(s, g) <= MaxConstats /\ ~(I!Place(s, x) <= MaxConstats)
  BY <1>1 DEF I!TrierPuisCouper
<1>7. MaxConstats \in Int
  BY ConstantesLues DEF I!IndicateursConstantes
<1>8. ~(rang(x) < rang(g))
  <2> SUFFICES ASSUME rang(x) < rang(g) PROVE FALSE
    OBVIOUS
  <2>1. devant(x) \subseteq devant(g)
    <3> HIDE DEF s, rang
    <3> QED BY <1>3, <1>6
  <2>2. Cardinality(devant(x)) <= Cardinality(devant(g))
    <3>1. IsFiniteSet(devant(g))
      BY <1>5, <1>6
    <3> HIDE DEF devant
    <3> QED BY <2>1, <3>1, FS_Subset
  <2>3. /\ I!Place(s, g) = 1 + Cardinality(devant(g)) /\ Cardinality(devant(g)) \in Nat
        /\ I!Place(s, x) = 1 + Cardinality(devant(x)) /\ Cardinality(devant(x)) \in Nat
    BY <1>5, <1>6
  <2> HIDE DEF devant, s
  <2> QED BY <1>6, <1>7, <2>2, <2>3
<1>9. rang(x) \in Int /\ rang(g) \in Int
  BY <1>3, <1>6
<1>10. rang(g) <= rang(x)
  <2> HIDE DEF rang
  <2> QED BY <1>8, <1>9
<1> QED BY <1>1, <1>10

\* The sentences of the findings that are kept pass the guard, and what only repeats one of them.
LEMMA SyntheseEntiereTenue ==
  ASSUME part = "indicateurs", IndicateursJuges
  PROVE  I!SyntheseEntiere
<1> SUFFICES ASSUME x1 # Neant, x1.genre = "decision"
             PROVE  /\ x2.repli = x2.gardes
                    /\ \A p \in DOMAIN x1.phrases :
                         (\E i \in x2.gardes : x1.phrases[p] \subseteq I!NombresDuConstat(x1, x2.tous[i].id))
                           => p \in x2.gardees
  BY DEF I!SyntheseEntiere, I!Genre
<1> DEFINE tous == I!Liste(x1)
           gardes == I!TrierPuisCouper(tous)
           vus == I!Autorises(x1, {tous[i].id : i \in gardes})
<1>1. x2 = [tous |-> tous, gardes |-> gardes,
            gardees |-> {q \in DOMAIN x1.phrases : I!PhraseGardee(x1.phrases[q], vus)},
            repli |-> {i \in gardes : I!PhraseGardee(I!NombresDuConstat(x1, tous[i].id), vus)}]
  BY JugeDuGenre DEF I!JugerDecision
<1>2. \A i \in gardes : I!NombresDuConstat(x1, tous[i].id) \subseteq vus
  <2> HIDE DEF tous, gardes
  <2> QED BY DEF I!Autorises
<1> HIDE DEF tous, gardes, vus
<1>3. /\ x2.tous = tous /\ x2.gardes = gardes
      /\ x2.gardees = {q \in DOMAIN x1.phrases : x1.phrases[q] \subseteq vus}
      /\ x2.repli = {i \in gardes : I!NombresDuConstat(x1, tous[i].id) \subseteq vus}
  BY <1>1 DEF I!PhraseGardee
<1> QED BY <1>2, <1>3

\* The sums of the indicators are the ones proved about.
LEMMA SommeTotal ==
  ASSUME NEW f
  PROVE  I!Somme(f) = Total(f)
BY Zenon DEF I!Somme, I!FoldFunction, I!FoldFunctionOnSet, I!MapThenFoldSet, Total, Enroule, Pris

\* A record of the mart: who, a period of whole months, and the days of everyone in order.
LEMMA CasDuMart ==
  ASSUME NEW c \in I!CasMart
  PROVE  /\ IsFiniteSet(DOMAIN c.emps)
         /\ \E m, n \in 0..MaxMois : c.periode.debut = 2 * m /\ c.periode.fin = 2 * n /\ m < n
         /\ \A i \in DOMAIN c.emps :
              LET e == c.emps[i]
              IN /\ e.filiale \in {"a", "b"} /\ e.entree \in 0..(2 * MaxMois)
                 /\ e.sortie = I!ND \/ (e.sortie \in 0..(2 * MaxMois) /\ e.sortie # I!ND /\ e.entree <= e.sortie)
<1>1. /\ c.emps \in UNION {[1..n -> I!Employe] : n \in 0..MaxEmployes}
      /\ c.periode \in {[debut |-> 2 * m, fin |-> 2 * n] : m \in 0..MaxMois, n \in 0..MaxMois}
      /\ c.periode.debut < c.periode.fin
  BY DEF I!CasMart
<1>2. PICK n \in 0..MaxEmployes : c.emps \in [1..n -> I!Employe]
  BY <1>1
<1>3. IsFiniteSet(DOMAIN c.emps)
  <2>1. DOMAIN c.emps = 1..n
    BY <1>2
  <2>2. IsFiniteSet(1..n)
    BY FS_Interval
  <2> QED BY <2>1, <2>2, Zenon
<1>4. \E m, k \in 0..MaxMois : c.periode.debut = 2 * m /\ c.periode.fin = 2 * k /\ m < k
  <2>1. PICK m \in 0..MaxMois, k \in 0..MaxMois : c.periode = [debut |-> 2 * m, fin |-> 2 * k]
    BY <1>1
  <2>2. c.periode.debut = 2 * m /\ c.periode.fin = 2 * k
    BY <2>1
  <2>3. m < k
    BY <1>1, <2>2
  <2> QED BY <2>2, <2>3
<1>5. ASSUME NEW i \in DOMAIN c.emps
      PROVE  LET e == c.emps[i]
             IN /\ e.filiale \in {"a", "b"} /\ e.entree \in 0..(2 * MaxMois)
                /\ e.sortie = I!ND \/ (e.sortie \in 0..(2 * MaxMois) /\ e.sortie # I!ND /\ e.entree <= e.sortie)
  <2> DEFINE e == c.emps[i]
  <2>1. e \in I!Employe
    BY <1>2
  <2>2. /\ e.filiale \in {"a", "b"} /\ e.entree \in 0..(2 * MaxMois)
        /\ e.sortie \in 0..(2 * MaxMois) \cup {I!ND} /\ (e.sortie = I!ND \/ e.entree <= e.sortie)
    <3> HIDE DEF e
    <3> QED BY <2>1 DEF I!Employe, I!Jours
  <2>3. I!ND \notin 0..(2 * MaxMois)
    BY DEF I!ND
  <2> QED BY <2>2, <2>3
<1> QED BY <1>3, <1>4, <1>5

\* Two ways of splitting one set count the same.
LEMMA DeuxPartages ==
  ASSUME NEW a, NEW b, NEW d, NEW e, IsFiniteSet(a), IsFiniteSet(b), IsFiniteSet(d), IsFiniteSet(e),
         a \cup b = d \cup e, a \cap b = {}, d \cap e = {}
  PROVE  Cardinality(a) = Cardinality(d) + Cardinality(e) - Cardinality(b)
<1> DEFINE na == Cardinality(a)
           nb == Cardinality(b)
           nd == Cardinality(d)
           ne == Cardinality(e)
           tout == Cardinality(a \cup b)
<1>1. /\ Cardinality(a \cup b) = na + nb - Cardinality(a \cap b)
      /\ Cardinality(d \cup e) = nd + ne - Cardinality(d \cap e)
  BY FS_Union
<1>2. na \in Int /\ nb \in Int /\ nd \in Int /\ ne \in Int /\ Cardinality({}) = 0
  BY FS_CardinalityType, FS_EmptySet
<1>3. Cardinality(a \cap b) = 0 /\ Cardinality(d \cap e) = 0 /\ Cardinality(d \cup e) = tout
  BY <1>2
<1> HIDE DEF na, nb, nd, ne
<1>4. tout = na + nb - 0 /\ tout = nd + ne - 0
  BY <1>1, <1>3
<1> HIDE DEF tout
<1>5. na = nd + ne - nb
  BY <1>2, <1>4
<1> QED BY <1>5 DEF na, nb, nd, ne

\* The headcount at the end is that of the beginning, plus the entries, minus the exits.
LEMMA StockEtFluxTenu ==
  ASSUME part = "indicateurs", IndicateursJuges
  PROVE  I!StockEtFlux
<1> SUFFICES ASSUME x1 # Neant, x1.genre = "mart" PROVE x2.fin = x2.debut + x2.entrees - x2.sorties
  BY DEF I!StockEtFlux, I!Genre
<1> DEFINE s == x1.emps
           p == x1.periode
           actifs(d) == {i \in DOMAIN s : I!Actif(s[i], d)}
           entres == {i \in DOMAIN s : I!Contient(p, s[i].entree)}
           sortis == {i \in DOMAIN s : s[i].sortie # I!ND /\ I!Contient(p, s[i].sortie)}
<1>1. x1 \in I!CasMart /\ x2 = I!JugerMart(x1)
  BY JugeDuGenre
<1>2. /\ x2.debut = I!Cardinality(actifs(p.debut - 1)) /\ x2.fin = I!Cardinality(actifs(p.fin - 1))
      /\ x2.entrees = I!Cardinality(entres) /\ x2.sorties = I!Cardinality(sortis)
  BY <1>1 DEF I!JugerMart, I!Effectif, I!Entrees, I!Sorties, I!Compte
<1> DEFINE a == actifs(p.fin - 1)
           d == actifs(p.debut - 1)
<1>3. /\ a \in SUBSET DOMAIN s /\ d \in SUBSET DOMAIN s /\ entres \in SUBSET DOMAIN s /\ sortis \in SUBSET DOMAIN s
  OBVIOUS
<1>4. IsFiniteSet(DOMAIN s)
  BY <1>1, CasDuMart
<1>5. p.debut \in Int /\ p.fin \in Int /\ p.debut < p.fin
  <2>1. PICK m \in 0..MaxMois, n \in 0..MaxMois : p.debut = 2 * m /\ p.fin = 2 * n /\ m < n
    BY <1>1, CasDuMart
  <2> QED BY <2>1
<1>6. ASSUME NEW i \in DOMAIN s
      PROVE  /\ i \in a \/ i \in sortis <=> i \in d \/ i \in entres
             /\ ~(i \in a /\ i \in sortis) /\ ~(i \in d /\ i \in entres)
  <2> DEFINE e == s[i].entree
             f == s[i].sortie
             u == p.debut
             v == p.fin
  <2>1. e \in Int /\ (f = I!ND \/ (f \in Int /\ f # I!ND /\ e <= f))
    BY <1>1, CasDuMart
  <2>2. /\ i \in a <=> e <= v - 1 /\ (f = I!ND \/ v - 1 < f)
        /\ i \in d <=> e <= u - 1 /\ (f = I!ND \/ u - 1 < f)
        /\ i \in entres <=> u <= e /\ e < v
        /\ i \in sortis <=> f # I!ND /\ u <= f /\ f < v
    BY DEF I!Actif, I!Contient
  <2>3. u \in Int /\ v \in Int /\ u < v
    BY <1>5
  <2> SUFFICES /\ i \in a \/ i \in sortis <=> i \in d \/ i \in entres
               /\ ~(i \in a /\ i \in sortis) /\ ~(i \in d /\ i \in entres)
    OBVIOUS
  <2> HIDE DEF a, d, entres, sortis, e, f, u, v
  <2> QED BY <2>1, <2>2, <2>3
<1> HIDE DEF a, d, entres, sortis, s
<1>7. a \cup sortis = d \cup entres /\ a \cap sortis = {} /\ d \cap entres = {}
  BY <1>3, <1>6
<1>8. IsFiniteSet(a) /\ IsFiniteSet(d) /\ IsFiniteSet(entres) /\ IsFiniteSet(sortis)
  BY <1>3, <1>4, FS_Subset
<1>9. Cardinality(a) = Cardinality(d) + Cardinality(entres) - Cardinality(sortis)
  BY <1>7, <1>8, DeuxPartages
<1>10. /\ x2.debut = Cardinality(d) /\ x2.fin = Cardinality(a)
       /\ x2.entrees = Cardinality(entres) /\ x2.sorties = Cardinality(sortis)
  BY <1>2, MemesNotions DEF a, d
<1> QED BY <1>9, <1>10

\* The rows of the mart whose month begins in the period hold the days that fall in it.
MoisDedans(p) == {l \in {"a", "b"} \X (0..MaxMois) : I!Contient(p, 2 * l[2])}
DuMois(c, gens, jour, k) == {i \in gens : c.emps[i].filiale = k[1] /\ I!Mois(jour[i]) = k[2]}
LignesDuMart(c, gens, jour) == [k \in MoisDedans(c.periode) |-> Cardinality(DuMois(c, gens, jour, k))]

\* A period has finitely many rows.
LEMMA MoisFinis ==
  ASSUME NEW p
  PROVE  IsFiniteSet(MoisDedans(p))
<1> DEFINE lignes == {"a", "b"} \X (0..MaxMois)
<1>1. MaxMois \in Int /\ 0 \in Int
  BY ConstantesLues DEF I!IndicateursConstantes
<1>2. IsFiniteSet({"a", "b"})
  BY PaireFinie
<1>3. IsFiniteSet(0..MaxMois)
  BY <1>1, FS_Interval
<1>4. IsFiniteSet(lignes)
  BY <1>2, <1>3, FS_Product
<1>5. MoisDedans(p) \in SUBSET lignes
  BY DEF MoisDedans
<1> HIDE DEF lignes
<1> QED BY <1>4, <1>5, FS_Subset

\* Adding those rows up counts the days that fall in the period.
LEMMA LignesDeLaPeriode ==
  ASSUME NEW c \in I!CasMart, NEW gens \in SUBSET DOMAIN c.emps, NEW jour \in [gens -> 0..(2 * MaxMois)]
  PROVE  Total(LignesDuMart(c, gens, jour)) = Cardinality({i \in gens : I!Contient(c.periode, jour[i])})
<1> DEFINE lignes == {"a", "b"} \X (0..MaxMois)
           ens == MoisDedans(c.periode)
           f == LignesDuMart(c, gens, jour)
           lab == [i \in gens |-> <<c.emps[i].filiale, I!Mois(jour[i])>>]
<1>1. MaxMois \in Nat
  BY ConstantesLues DEF I!IndicateursConstantes
<1>2. IsFiniteSet(ens)
  BY MoisFinis
<1>3. IsFiniteSet(gens)
  BY CasDuMart, FS_Subset
<1>4. ASSUME NEW k \in ens PROVE f[k] = Cardinality({i \in gens : lab[i] = k})
  <2>1. k = <<k[1], k[2]>>
    BY DEF MoisDedans
  <2>2. ASSUME NEW i \in gens
        PROVE  c.emps[i].filiale = k[1] /\ I!Mois(jour[i]) = k[2] <=> lab[i] = k
    <3>1. lab[i] = <<c.emps[i].filiale, I!Mois(jour[i])>>
      OBVIOUS
    <3> HIDE DEF lab
    <3> QED BY <2>1, <3>1
  <2>3. DuMois(c, gens, jour, k) = {i \in gens : lab[i] = k}
    <3> HIDE DEF lab
    <3> QED BY <2>2 DEF DuMois
  <2>4. f[k] = Cardinality(DuMois(c, gens, jour, k))
    BY DEF LignesDuMart
  <2> HIDE DEF lab, f
  <2> QED BY <2>3, <2>4
<1>5. f \in [ens -> Int]
  <2>1. ASSUME NEW k \in ens PROVE Cardinality(DuMois(c, gens, jour, k)) \in Int
    <3>1. DuMois(c, gens, jour, k) \in SUBSET gens
      BY DEF DuMois
    <3> QED BY <1>3, <3>1, FS_Subset, FS_CardinalityType
  <2> QED BY <2>1 DEF LignesDuMart
<1>6. PICK m \in 0..MaxMois, n \in 0..MaxMois : c.periode.debut = 2 * m /\ c.periode.fin = 2 * n /\ m < n
  BY CasDuMart
<1>7. ASSUME NEW i \in gens PROVE lab[i] \in ens <=> I!Contient(c.periode, jour[i])
  <2> DEFINE d == jour[i]
             q == I!Mois(d)
  <2>1. lab[i] = <<c.emps[i].filiale, q>> /\ c.emps[i].filiale \in {"a", "b"}
    BY CasDuMart
  <2>2. d \in 0..(2 * MaxMois)
    OBVIOUS
  <2>3. q \in 0..MaxMois /\ 2 * q <= d /\ d <= 2 * q + 1
    <3>1. q = d \div 2
      BY DEF I!Mois
    <3> HIDE DEF d, q
    <3> QED BY <1>1, <2>2, <3>1
  <2>4. I!Contient(c.periode, d) <=> 2 * m <= d /\ d < 2 * n
    BY <1>6 DEF I!Contient
  <2>5. I!Contient(c.periode, 2 * q) <=> 2 * m <= 2 * q /\ 2 * q < 2 * n
    BY <1>6 DEF I!Contient
  <2>6. I!Contient(c.periode, d) <=> I!Contient(c.periode, 2 * q)
    <3> HIDE DEF d, q
    <3> QED BY <1>1, <2>2, <2>3, <2>4, <2>5
  <2>7. lab[i] \in ens <=> I!Contient(c.periode, 2 * q)
    <3> HIDE DEF q, lab
    <3>1. lab[i] \in lignes /\ lab[i][2] = q
      BY <2>1, <2>3
    <3> QED BY <3>1 DEF MoisDedans
  <2> QED BY <2>6, <2>7
<1>8. {i \in gens : lab[i] \in ens} = {i \in gens : I!Contient(c.periode, jour[i])}
  <2> HIDE DEF lab, ens
  <2> QED BY <1>7
<1> HIDE DEF lab, ens, f, lignes
<1>9. Total(f) = Cardinality({i \in gens : lab[i] \in ens})
  BY <1>2, <1>3, <1>4, <1>5, TotalDesEtiquettes
<1> QED BY <1>8, <1>9 DEF f

\* The mart and the records agree on entries and exits.
LEMMA ReconciliationTenue ==
  ASSUME part = "indicateurs", IndicateursJuges
  PROVE  I!Reconciliation
<1> SUFFICES ASSUME x1 # Neant, x1.genre = "mart"
             PROVE  x2.martEntrees = x2.entrees /\ x2.martSorties = x2.sorties
  BY DEF I!Reconciliation, I!Genre
<1> DEFINE s == x1.emps
           p == x1.periode
           mart == I!MartRh(s)
           lignes == {"a", "b"} \X (0..MaxMois)
           ens == MoisDedans(p)
           tous == DOMAIN s
           partis == {i \in tous : s[i].sortie # I!ND}
           entree == [i \in tous |-> s[i].entree]
           sortie == [i \in partis |-> s[i].sortie]
           fe == LignesDuMart(x1, tous, entree)
           fs == LignesDuMart(x1, partis, sortie)
<1>1. x1 \in I!CasMart /\ x2 = I!JugerMart(x1)
  BY JugeDuGenre
<1>2. /\ x2.entrees = I!Cardinality({i \in tous : I!Contient(p, s[i].entree)})
      /\ x2.sorties = I!Cardinality({i \in tous : s[i].sortie # I!ND /\ I!Contient(p, s[i].sortie)})
      /\ x2.martEntrees = I!DuMart(mart, p, "entrees") /\ x2.martSorties = I!DuMart(mart, p, "sorties")
  BY <1>1 DEF I!JugerMart, I!Entrees, I!Sorties, I!Compte
<1>3. /\ DOMAIN mart = lignes
      /\ \A k \in lignes :
           /\ mart[k].entrees = I!Cardinality({i \in tous : s[i].filiale = k[1] /\ I!Mois(s[i].entree) = k[2]})
           /\ mart[k].sorties = I!Cardinality({i \in tous : s[i].filiale = k[1] /\ s[i].sortie # I!ND
                                                              /\ I!Mois(s[i].sortie) = k[2]})
  BY DEF I!MartRh, I!Compte, I!MoisDeSortie
<1>4. /\ I!DuMart(mart, p, "entrees") = Total([k \in ens |-> mart[k].entrees])
      /\ I!DuMart(mart, p, "sorties") = Total([k \in ens |-> mart[k].sorties])
  <2>1. {l \in DOMAIN mart : I!Contient(p, 2 * l[2])} = ens
    BY <1>3 DEF MoisDedans
  <2> HIDE DEF mart, ens
  <2> QED BY <2>1, SommeTotal DEF I!DuMart
<1>5. [k \in ens |-> mart[k].entrees] = fe
  <2>1. ASSUME NEW k \in ens PROVE mart[k].entrees = Cardinality(DuMois(x1, tous, entree, k))
    <3>1. DuMois(x1, tous, entree, k) = {i \in tous : s[i].filiale = k[1] /\ I!Mois(s[i].entree) = k[2]}
      BY DEF DuMois
    <3>2. k \in lignes
      BY DEF MoisDedans
    <3> HIDE DEF mart, ens, lignes, tous, entree
    <3> QED BY <1>3, <3>1, <3>2, MemesNotions
  <2> HIDE DEF mart, tous, entree
  <2> QED BY <2>1 DEF LignesDuMart
<1>6. [k \in ens |-> mart[k].sorties] = fs
  <2>1. ASSUME NEW k \in ens PROVE mart[k].sorties = Cardinality(DuMois(x1, partis, sortie, k))
    <3>1. DuMois(x1, partis, sortie, k)
            = {i \in tous : s[i].filiale = k[1] /\ s[i].sortie # I!ND /\ I!Mois(s[i].sortie) = k[2]}
      BY DEF DuMois
    <3>2. k \in lignes
      BY DEF MoisDedans
    <3> HIDE DEF mart, ens, lignes, tous, partis, sortie
    <3> QED BY <1>3, <3>1, <3>2, MemesNotions
  <2> HIDE DEF mart, partis, sortie
  <2> QED BY <2>1 DEF LignesDuMart
<1>7. Total(fe) = Cardinality({i \in tous : I!Contient(p, s[i].entree)})
  <2>1. entree \in [tous -> 0..(2 * MaxMois)]
    BY <1>1, CasDuMart
  <2>2. Total(fe) = Cardinality({i \in tous : I!Contient(p, entree[i])})
    <3> HIDE DEF entree
    <3> QED BY <1>1, <2>1, LignesDeLaPeriode
  <2>3. {i \in tous : I!Contient(p, entree[i])} = {i \in tous : I!Contient(p, s[i].entree)}
    OBVIOUS
  <2> HIDE DEF fe, entree
  <2> QED BY <2>2, <2>3
<1>8. Total(fs) = Cardinality({i \in tous : s[i].sortie # I!ND /\ I!Contient(p, s[i].sortie)})
  <2>1. sortie \in [partis -> 0..(2 * MaxMois)]
    <3> SUFFICES ASSUME NEW i \in tous, s[i].sortie # I!ND PROVE s[i].sortie \in 0..(2 * MaxMois)
      OBVIOUS
    <3> QED BY <1>1, CasDuMart
  <2>2. Total(fs) = Cardinality({i \in partis : I!Contient(p, sortie[i])})
    <3>1. partis \in SUBSET DOMAIN s
      OBVIOUS
    <3> HIDE DEF sortie, partis
    <3> QED BY <1>1, <2>1, <3>1, LignesDeLaPeriode
  <2>3. {i \in partis : I!Contient(p, sortie[i])} = {i \in tous : s[i].sortie # I!ND /\ I!Contient(p, s[i].sortie)}
    OBVIOUS
  <2> HIDE DEF fs, sortie, partis
  <2> QED BY <2>2, <2>3
<1> HIDE DEF fe, fs, mart, tous, partis, ens
<1> QED BY <1>2, <1>4, <1>5, <1>6, <1>7, <1>8, MemesNotions

\* The greatest and the smallest of finitely many numbers are among them and bound them.
LEMMA MaxDesJuges ==
  ASSUME NEW Ens \in SUBSET Int, IsFiniteSet(Ens), Ens # {}
  PROVE  /\ I!Max(Ens) \in Ens /\ \A y \in Ens : y <= I!Max(Ens)
         /\ I!Min(Ens) \in Ens /\ \A y \in Ens : I!Min(Ens) <= y
<1>1. PICK x \in Ens : \A y \in Ens : y <= x
  BY PlusGrand
<1>2. PICK z \in Ens : \A y \in Ens : z <= y
  BY PlusPetit
<1>3. I!Max(Ens) \in Ens /\ \A y \in Ens : y <= I!Max(Ens)
  <2>1. \A y \in Ens : x >= y
    BY <1>1
  <2>2. I!Max(Ens) \in Ens /\ \A y \in Ens : I!Max(Ens) >= y
    BY <1>1, <2>1, Zenon DEF I!Max
  <2> QED BY <2>2
<1>4. I!Min(Ens) \in Ens /\ \A y \in Ens : I!Min(Ens) <= y
  BY <1>2, Zenon DEF I!Min
<1> QED BY <1>3, <1>4

\* A score is a number between nothing and everything.
LEMMA BorneBornee ==
  ASSUME NEW x \in Int
  PROVE  I!Borne(x) \in 0..1000
<1> DEFINE mille == 1000
           bas == {mille, x}
           haut == {0, I!Min(bas)}
<1>1. bas \in SUBSET Int /\ IsFiniteSet(bas) /\ bas # {}
  BY PaireFinie
<1>2. I!Min(bas) \in bas /\ \A y \in bas : I!Min(bas) <= y
  <2> HIDE DEF bas
  <2> QED BY <1>1, MaxDesJuges
<1>3. I!Min(bas) \in Int /\ I!Min(bas) <= mille
  BY <1>1, <1>2
<1>4. haut \in SUBSET Int /\ IsFiniteSet(haut) /\ haut # {}
  <2> DEFINE z == I!Min(bas)
  <2>1. z \in Int
    BY <1>3
  <2> HIDE DEF z, bas, mille
  <2>2. IsFiniteSet({0, z})
    BY PaireFinie
  <2>3. {0, z} \in SUBSET Int /\ {0, z} # {}
    BY <2>1
  <2> QED BY <2>2, <2>3 DEF z
<1>5. I!Max(haut) \in haut /\ \A y \in haut : y <= I!Max(haut)
  <2> HIDE DEF haut
  <2> QED BY <1>4, MaxDesJuges
<1>6. I!Max(haut) \in Int /\ 0 <= I!Max(haut) /\ I!Max(haut) <= mille
  <2> DEFINE z == I!Min(bas)
  <2> HIDE DEF z
  <2>1. z \in Int /\ z <= mille
    BY <1>3 DEF z
  <2>2. I!Max(haut) \in {0, z} /\ 0 <= I!Max(haut)
    BY <1>5 DEF z
  <2> QED BY <2>1, <2>2
<1>7. I!Borne(x) = I!Max(haut)
  BY DEF I!Borne
<1> QED BY <1>6, <1>7

\* A weighted sum lies between those of the smallest and of the greatest of its terms.
LEMMA SommePonderee ==
  ASSUME NEW ens, IsFiniteSet(ens), ens # {}, NEW note \in [ens -> Int], NEW poids \in [ens -> Int],
         \A d \in ens : 1 <= poids[d],
         NEW lo \in Int, NEW hi \in Int, \A d \in ens : lo <= note[d] /\ note[d] <= hi,
         NEW f, f = [d \in ens |-> note[d] * poids[d]]
  PROVE  /\ Total(poids) \in Nat /\ 1 <= Total(poids) /\ Total(f) \in Int
         /\ lo * Total(poids) <= Total(f) /\ Total(f) <= hi * Total(poids)
<1> DEFINE uns == [d \in ens |-> 1]
           bas == [d \in ens |-> lo * poids[d]]
           haut == [d \in ens |-> hi * poids[d]]
           p == Total(poids)
           n == Total(f)
<1>1. f \in [ens -> Int] /\ bas \in [ens -> Int] /\ haut \in [ens -> Int] /\ uns \in [ens -> Int]
  OBVIOUS
<1>2. ASSUME NEW d \in ens PROVE bas[d] <= f[d] /\ f[d] <= haut[d]
  <2> DEFINE x == note[d]
             y == poids[d]
  <2>1. bas[d] = lo * y /\ f[d] = x * y /\ haut[d] = hi * y
    OBVIOUS
  <2>2. x \in Int /\ y \in Int /\ 1 <= y /\ lo <= x /\ x <= hi
    OBVIOUS
  <2> SUFFICES lo * y <= x * y /\ x * y <= hi * y
    BY <2>1
  <2> HIDE DEF x, y
  <2>3. (x - lo) * y >= 0 /\ (hi - x) * y >= 0
    <3>1. ASSUME NEW u \in Nat, NEW v \in Nat PROVE u * v >= 0
      BY <3>1
    <3>2. x - lo \in Nat /\ hi - x \in Nat /\ y \in Nat
      BY <2>2
    <3> QED BY <3>1, <3>2
  <2>4. (x - lo) * y = x * y - lo * y /\ (hi - x) * y = hi * y - x * y
    BY <2>2
  <2>5. x * y \in Int /\ lo * y \in Int /\ hi * y \in Int
    BY <2>2
  <2> QED BY <2>3, <2>4, <2>5
<1>3. Total(bas) = lo * p /\ Total(haut) = hi * p
  <2>1. /\ \A d \in ens : bas[d] = lo * poids[d]
        /\ \A d \in ens : haut[d] = hi * poids[d]
    OBVIOUS
  <2> HIDE DEF bas, haut
  <2> QED BY <1>1, <2>1, TotalFois
<1>4. Total(bas) <= n /\ n <= Total(haut)
  <2> HIDE DEF bas, haut
  <2> QED BY <1>1, <1>2, TotalCompare
<1>5. Total(uns) = Cardinality(ens)
  <2> DEFINE lab == [i \in ens |-> i]
  <2>1. ASSUME NEW k \in ens PROVE uns[k] = Cardinality({i \in ens : lab[i] = k})
    <3>1. {i \in ens : lab[i] = k} = {k}
      OBVIOUS
    <3>2. Cardinality({k}) = 1
      BY FS_Singleton
    <3> QED BY <3>1, <3>2
  <2>2. {i \in ens : lab[i] \in ens} = ens
    OBVIOUS
  <2>3. Total(uns) = Cardinality({i \in ens : lab[i] \in ens})
    <3> HIDE DEF uns, lab
    <3> QED BY <1>1, <2>1, TotalDesEtiquettes
  <2> QED BY <2>2, <2>3
<1>6. Cardinality(ens) \in Nat /\ Cardinality(ens) # 0
  BY FS_CardinalityType, FS_EmptySet
<1>7. Total(uns) <= p
  <2>1. \A d \in ens : uns[d] <= poids[d]
    OBVIOUS
  <2> HIDE DEF uns
  <2> QED BY <1>1, <2>1, TotalCompare
<1>8. p \in Int /\ n \in Int
  BY <1>1, TotalEntier
<1> SUFFICES p \in Nat /\ 1 <= p /\ n \in Int /\ lo * p <= n /\ n <= hi * p
  OBVIOUS
<1> HIDE DEF uns, bas, haut, p, n
<1>9. p \in Nat /\ 1 <= p
  <2> DEFINE u == Total(uns)
  <2>1. u \in Nat /\ u # 0 /\ u <= p
    BY <1>5, <1>6, <1>7
  <2> HIDE DEF u
  <2> QED BY <1>8, <2>1
<1>10. lo * p <= n /\ n <= hi * p
  BY <1>3, <1>4
<1> QED BY <1>8, <1>9, <1>10

\* A mean lies between the smallest and the greatest of what it is the mean of.
LEMMA MoyenneEntre ==
  ASSUME NEW ens, IsFiniteSet(ens), ens # {}, NEW note \in [ens -> Int], NEW poids \in [ens -> Int],
         \A d \in ens : 1 <= poids[d],
         NEW lo \in Int, NEW hi \in Int, \A d \in ens : lo <= note[d] /\ note[d] <= hi,
         NEW f, f = [d \in ens |-> note[d] * poids[d]]
  PROVE  /\ Total(poids) # 0
         /\ lo <= Total(f) \div Total(poids) /\ Total(f) \div Total(poids) <= hi
<1> DEFINE p == Total(poids)
           n == Total(f)
<1>8. p \in Nat /\ 1 <= p /\ n \in Int /\ lo * p <= n /\ n <= hi * p
  BY SommePonderee
<1> SUFFICES p # 0 /\ lo <= n \div p /\ n \div p <= hi
  OBVIOUS
<1> HIDE DEF p, n
<1>9. p \in Nat /\ 1 <= p
  BY <1>8
<1>10. lo * p <= n /\ n <= hi * p
  BY <1>8
<1> DEFINE q == n \div p
<1>11. q \in Int /\ p * q <= n /\ n < p * q + p
  BY <1>8, <1>9
<1> HIDE DEF q
<1>12. lo <= q
  <2> SUFFICES ASSUME q + 1 <= lo PROVE FALSE
    BY <1>11
  <2> DEFINE e == lo - (q + 1)
  <2>1. e \in Nat
    BY <1>11
  <2>2. p * e >= 0
    <3> HIDE DEF e
    <3> QED BY <1>9, <2>1
  <2>3. p * e = lo * p - (p * q + p)
    BY <1>9, <1>11
  <2>4. lo * p \in Int /\ p * q \in Int
    BY <1>9, <1>11
  <2> QED BY <1>8, <1>9, <1>10, <1>11, <2>2, <2>3, <2>4
<1>13. q <= hi
  <2> SUFFICES ASSUME hi + 1 <= q PROVE FALSE
    BY <1>11
  <2> DEFINE e == q - (hi + 1)
  <2>1. e \in Nat
    BY <1>11
  <2>2. p * e >= 0
    <3> HIDE DEF e
    <3> QED BY <1>9, <2>1
  <2>3. p * e = p * q - hi * p - p
    BY <1>9, <1>11
  <2> DEFINE hp == hi * p
             pq == p * q
             pe == p * e
  <2>4. hp \in Int /\ pq \in Int /\ pe >= 0 /\ pe = pq - hp - p /\ pq <= n /\ n <= hp
    BY <1>9, <1>10, <1>11, <2>2, <2>3
  <2> HIDE DEF hp, pq, pe
  <2>5. p \in Int /\ n \in Int /\ 1 <= p
    BY <1>8, <1>9
  <2> QED BY <2>4, <2>5
<1> QED BY <1>9, <1>12, <1>13 DEF q

\* What enters the score: a number for every dimension, measured or not.
LEMMA EntreesDuScore ==
  ASSUME NEW c \in I!CasScore
  PROVE  /\ DOMAIN I!JugerScore(c).entrees = I!Dimensions
         /\ \A d \in I!Dimensions : I!JugerScore(c).entrees[d] \in Int
<1> DEFINE scores == [c.scores EXCEPT !["presence"] = I!ScorePresence(c)]
<1>1. I!JugerScore(c).entrees = scores
  BY DEF I!JugerScore
<1>2. c.scores \in [I!Dimensions -> Int]
  <2>1. c.scores \in [I!Dimensions -> {I!ND, 0, 650, 1200}]
    BY DEF I!CasScore
  <2> QED BY <2>1 DEF I!ND
<1>3. ASSUME NEW v \in Int PROVE I!Lineaire(v, 700, 950) \in Int /\ I!Lineaire(v, 850, 990) \in Int
  <2> DEFINE a == ((v - 700) * 1000) \div (950 - 700)
             b == ((v - 850) * 1000) \div (990 - 850)
  <2>1. a \in Int /\ b \in Int
    OBVIOUS
  <2>2. I!Lineaire(v, 700, 950) = I!Borne(a) /\ I!Lineaire(v, 850, 990) = I!Borne(b)
    BY DEF I!Lineaire
  <2> HIDE DEF a, b
  <2>3. I!Borne(a) \in 0..1000 /\ I!Borne(b) \in 0..1000
    BY <2>1, BorneBornee
  <2> QED BY <2>2, <2>3
<1>4. I!ScorePresence(c) \in Int
  <2>1. c.presence \in Int /\ c.ponctualite \in Int
    BY DEF I!CasScore, I!ND
  <2> DEFINE a == I!Lineaire(c.presence, 700, 950)
             b == I!Lineaire(c.ponctualite, 850, 990)
  <2>2. a \in Int /\ b \in Int
    BY <1>3, <2>1
  <2>3. I!ScorePresence(c) \in {I!ND, (a + b) \div 2}
    BY DEF I!ScorePresence
  <2> HIDE DEF a, b
  <2>4. (a + b) \div 2 \in Int /\ I!ND \in Int
    BY <2>2 DEF I!ND
  <2> QED BY <2>3, <2>4
<1>5. DOMAIN scores = I!Dimensions /\ \A d \in I!Dimensions : scores[d] \in Int
  BY <1>2, <1>4
<1> QED BY <1>1, <1>5

\* A score lies between those of the dimensions measured, and needs one.
LEMMA ScoreDesMesureesTenu ==
  ASSUME part = "indicateurs", IndicateursJuges
  PROVE  I!ScoreDesMesurees
<1> DEFINE e == x2.entrees
           mesurees == {d \in I!Dimensions : e[d] # I!ND}
           m == {I!Borne(e[d]) : d \in mesurees}
           poids == [d \in mesurees |-> I!Poids[d]]
           note == [d \in mesurees |-> I!Borne(e[d])]
           f == [d \in mesurees |-> note[d] * poids[d]]
<1> SUFFICES ASSUME x1 # Neant, x1.genre = "score"
             PROVE  IF m = {} THEN x2.pondere = I!ND ELSE I!Min(m) <= x2.pondere /\ x2.pondere <= I!Max(m)
  BY DEF I!ScoreDesMesurees, I!Genre
<1>1. x1 \in I!CasScore /\ x2 = I!JugerScore(x1)
  BY JugeDuGenre
<1>2. \A d \in I!Dimensions : e[d] \in Int
  BY <1>1, EntreesDuScore
<1>3. x2.pondere = I!ScorePondere(e)
  BY <1>1 DEF I!JugerScore
<1>4. I!PoidsPresent(mesurees) = Total(poids)
  BY SommeTotal DEF I!PoidsPresent
<1>5. x2.pondere = IF Total(poids) = 0 THEN I!ND ELSE Total(f) \div Total(poids)
  <2>1. [d \in mesurees |-> I!Borne(e[d]) * I!Poids[d]] = f
    OBVIOUS
  <2> DEFINE fois == [d \in mesurees |-> I!Borne(e[d]) * I!Poids[d]]
             total == I!Somme(fois)
             p == I!PoidsPresent(mesurees)
  <2>2. I!ScorePondere(e) = IF p = 0 THEN I!ND ELSE total \div p
    BY DEF I!ScorePondere
  <2>3. total = Total(f)
    BY <2>1, SommeTotal
  <2> HIDE DEF total, p, f, poids
  <2>4. p = Total(poids)
    BY <1>4 DEF p
  <2> QED BY <1>3, <2>2, <2>3, <2>4
<1>6. IsFiniteSet(mesurees)
  <2>1. IsFiniteSet(I!Dimensions)
    <3>1. I!Dimensions = {"effectifs", "presence"} \cup {"conformite"}
      BY DEF I!Dimensions
    <3>2. IsFiniteSet({"effectifs", "presence"}) /\ IsFiniteSet({"conformite"})
      BY PaireFinie, FS_Singleton
    <3> QED BY <3>1, <3>2, FS_Union
  <2> QED BY <2>1, FS_Subset
<1>7. poids \in [mesurees -> Int] /\ \A d \in mesurees : 1 <= poids[d]
  BY DEF I!Poids, I!Dimensions
<1>8. \A d \in mesurees : I!Borne(e[d]) \in 0..1000
  BY <1>2, BorneBornee
<1>9. note \in [mesurees -> Int]
  BY <1>8
<1>10. CASE mesurees = {}
  <2>1. m = {}
    BY <1>10
  <2>2. PICK it : EstSomme(it, poids, mesurees)
    <3> HIDE DEF poids, mesurees
    <3> QED BY <1>6, <1>7, Sommation
  <2>3. Total(poids) = 0
    <3> HIDE DEF poids
    <3> QED BY <1>10, <2>2 DEF EstSomme
  <2> QED BY <1>5, <2>1, <2>3
<1>11. CASE mesurees # {}
  <2>1. m \in SUBSET Int /\ m # {}
    BY <1>8, <1>11
  <2>2. IsFiniteSet(m)
    <3> DEFINE notes == 0..1000
    <3>1. m \in SUBSET notes
      BY <1>8
    <3>2. IsFiniteSet(notes)
      <4> DEFINE mille == 1000
      <4>1. 0 \in Int /\ mille \in Int
        OBVIOUS
      <4> HIDE DEF mille
      <4>2. IsFiniteSet(0..mille)
        BY <4>1, FS_Interval
      <4> QED BY <4>2 DEF mille
    <3> HIDE DEF m, notes
    <3> QED BY <3>1, <3>2, FS_Subset
  <2> DEFINE lo == I!Min(m)
             hi == I!Max(m)
  <2>3. lo \in m /\ hi \in m /\ \A y \in m : lo <= y /\ y <= hi
    <3> HIDE DEF m
    <3> QED BY <2>1, <2>2, MaxDesJuges
  <2>4. lo \in Int /\ hi \in Int
    BY <2>1, <2>3
  <2>5. \A d \in mesurees : lo <= note[d] /\ note[d] <= hi
    <3> SUFFICES ASSUME NEW d \in mesurees PROVE lo <= note[d] /\ note[d] <= hi
      OBVIOUS
    <3>1. note[d] \in m
      OBVIOUS
    <3> HIDE DEF lo, hi, note, m
    <3> QED BY <2>3, <3>1
  <2>6. Total(poids) # 0 /\ lo <= Total(f) \div Total(poids) /\ Total(f) \div Total(poids) <= hi
    <3>1. f = [d \in mesurees |-> note[d] * poids[d]]
      OBVIOUS
    <3> HIDE DEF lo, hi, f, note, poids, mesurees
    <3> QED BY <1>6, <1>7, <1>9, <1>11, <2>4, <2>5, <3>1, MoyenneEntre
  <2> HIDE DEF f, poids
  <2> QED BY <1>5, <2>1, <2>6
<1> QED BY <1>10, <1>11

-----------------------------------------------------------------------------
(* Alerts. *)

\* most_severe, one rule at a time.
ChoisitPire(it, regles, v) ==
  it = [s \in SUBSET DOMAIN regles |->
          IF s = {} THEN Neant
          ELSE IF I!Declenche(regles[I!Max(s)], v) /\ I!PlusGrave(regles[I!Max(s)], it[s \ {I!Max(s)}])
               THEN regles[I!Max(s)] ELSE it[s \ {I!Max(s)}]]

\* The alert is what going through the rules gives.
LEMMA PireAlerteChoisie ==
  ASSUME NEW regles, NEW v
  PROVE  I!PireAlerte(regles, v) = (CHOOSE it : ChoisitPire(it, regles, v))[DOMAIN regles]
BY Zenon DEF I!PireAlerte, I!FoldLeft, I!MapThenFoldSet, ChoisitPire

LaPireDe(a, s, regles, v) ==
  LET ici == {i \in s : I!Declenche(regles[i], v)}
  IN /\ ici = {} => a = Neant
     /\ ici # {} => /\ a # Neant
                    /\ I!Severite[a.severite] \in Int
                    /\ \A i \in ici : I!Severite[regles[i].severite] <= I!Severite[a.severite]

Regles == [op : {"<", "<=", ">", ">="}, seuil : Int, severite : {"info", "warning", "critical"}]

\* Going through the rules, whatever their order, gives the gravest of those triggered.
LEMMA AlerteEstLaPire ==
  ASSUME NEW regles \in Seq(Regles), NEW v
  PROVE  LaPireDe(I!PireAlerte(regles, v), DOMAIN regles, regles, v)
<1> DEFINE ens == DOMAIN regles
           val == Regles \cup {Neant}
           c == [s \in SUBSET ens |-> I!Max(s)]
           comb == [p \in ens \X val |->
                      IF I!Declenche(regles[p[1]], v) /\ I!PlusGrave(regles[p[1]], p[2]) THEN regles[p[1]] ELSE p[2]]
           pire == CHOOSE it : ChoisitPire(it, regles, v)
<1>1. IsFiniteSet(ens) /\ ens \in SUBSET Int
  BY FS_Interval
<1>2. \A i \in ens : regles[i] \in Regles
  OBVIOUS
<1>3. ASSUME NEW s \in SUBSET ens, s # {} PROVE I!Max(s) \in s
  BY <1>1, <1>3, FS_Subset, MaxDesJuges
<1>4. \E it \in [SUBSET ens -> val] : Deroule(it, ens, Neant, c, comb)
  <2>1. Choisit(c, ens)
    BY <1>3 DEF Choisit
  <2>2. Combine(comb, ens, val)
    <3> SUFFICES ASSUME NEW x \in ens, NEW w \in val PROVE comb[<<x, w>>] \in val
      BY DEF Combine
    <3> HIDE DEF ens
    <3>1. comb[<<x, w>>] = IF I!Declenche(regles[x], v) /\ I!PlusGrave(regles[x], w) THEN regles[x] ELSE w
      OBVIOUS
    <3> HIDE DEF comb
    <3> QED BY <1>2, <3>1
  <2>3. Neant \in val
    OBVIOUS
  <2> HIDE DEF c, comb, ens, val
  <2> QED BY <1>1, <2>1, <2>2, <2>3, Repli
<1>5. PICK it \in [SUBSET ens -> val] : Deroule(it, ens, Neant, c, comb)
  BY <1>4
<1>6. ChoisitPire(it, regles, v)
  <2> DEFINE suite(s) == IF I!Declenche(regles[I!Max(s)], v) /\ I!PlusGrave(regles[I!Max(s)], it[s \ {I!Max(s)}])
                         THEN regles[I!Max(s)] ELSE it[s \ {I!Max(s)}]
  <2>1. ASSUME NEW s \in SUBSET ens, s # {} PROVE comb[<<c[s], it[s \ {c[s]}]>>] = suite(s)
    <3> DEFINE x == I!Max(s)
               w == it[s \ {x}]
    <3>1. c[s] = x
      OBVIOUS
    <3>2. x \in ens /\ s \ {x} \in SUBSET ens
      BY <1>3, <2>1
    <3>3. w \in val
      BY <3>2
    <3>4. comb[<<x, w>>] = IF I!Declenche(regles[x], v) /\ I!PlusGrave(regles[x], w) THEN regles[x] ELSE w
      <4> HIDE DEF x, w, ens, val
      <4> QED BY <3>2, <3>3
    <3> HIDE DEF comb, c
    <3> QED BY <3>1, <3>4
  <2>2. it = [s \in SUBSET ens |-> IF s = {} THEN Neant ELSE comb[<<c[s], it[s \ {c[s]}]>>]]
    BY <1>5 DEF Deroule
  <2>3. it = [s \in SUBSET ens |-> IF s = {} THEN Neant ELSE suite(s)]
    <3> HIDE DEF comb, c, suite
    <3> QED BY <2>1, <2>2
  <2> QED BY <2>3 DEF ChoisitPire
<1>7. ChoisitPire(pire, regles, v)
  <2> HIDE DEF ens, val
  <2> QED BY <1>6
<1>8. /\ pire[{}] = Neant
      /\ \A s \in SUBSET ens : s # {} =>
           pire[s] = IF I!Declenche(regles[I!Max(s)], v) /\ I!PlusGrave(regles[I!Max(s)], pire[s \ {I!Max(s)}])
                     THEN regles[I!Max(s)] ELSE pire[s \ {I!Max(s)}]
  <2> HIDE DEF pire
  <2>1. pire = [s \in SUBSET ens |->
                  IF s = {} THEN Neant
                  ELSE IF I!Declenche(regles[I!Max(s)], v) /\ I!PlusGrave(regles[I!Max(s)], pire[s \ {I!Max(s)}])
                       THEN regles[I!Max(s)] ELSE pire[s \ {I!Max(s)}]]
    BY <1>7 DEF ChoisitPire
  <2>2. pire[{}] = Neant
    BY <2>1
  <2>3. ASSUME NEW s \in SUBSET ens, s # {}
        PROVE pire[s] = IF I!Declenche(regles[I!Max(s)], v) /\ I!PlusGrave(regles[I!Max(s)], pire[s \ {I!Max(s)}])
                        THEN regles[I!Max(s)] ELSE pire[s \ {I!Max(s)}]
    <3> HIDE DEF ens
    <3> QED BY <2>1, <2>3
  <2> QED BY <2>2, <2>3
<1> HIDE DEF pire
<1> DEFINE bons == {s \in SUBSET ens : LaPireDe(pire[s], s, regles, v)}
<1>9. {} \in bons
  BY <1>8 DEF LaPireDe
<1>10. ASSUME NEW s \in SUBSET ens, s # {}, \A x \in s : s \ {x} \in bons PROVE s \in bons
  <2> DEFINE x == I!Max(s)
             r == regles[x]
             a == pire[s \ {x}]
             avant == {i \in s \ {x} : I!Declenche(regles[i], v)}
             ici == {i \in s : I!Declenche(regles[i], v)}
  <2>1. x \in s /\ pire[s] = IF I!Declenche(r, v) /\ I!PlusGrave(r, a) THEN r ELSE a
    BY <1>3, <1>8, <1>10
  <2> HIDE DEF x
  <2>2. /\ avant = {} => a = Neant
        /\ avant # {} => /\ a # Neant
                         /\ I!Severite[a.severite] \in Int
                         /\ \A i \in avant : I!Severite[regles[i].severite] <= I!Severite[a.severite]
    BY <1>10, <2>1 DEF LaPireDe
  <2>3. \A i \in ens : regles[i] # Neant /\ I!Severite[regles[i].severite] \in Int
    <3> SUFFICES ASSUME NEW i \in ens PROVE regles[i] # Neant /\ I!Severite[regles[i].severite] \in Int
      OBVIOUS
    <3> DEFINE q == regles[i]
    <3>1. q \in Regles
      BY <1>2
    <3> HIDE DEF q
    <3>2. q # Neant
      BY <3>1, ConstantesLues DEF I!IndicateursConstantes, Regles
    <3>3. I!Severite[q.severite] \in Int
      BY <3>1 DEF Regles, I!Severite
    <3> QED BY <3>2, <3>3 DEF q
  <2>4. I!PlusGrave(r, a) <=> a = Neant \/ I!Severite[r.severite] > I!Severite[a.severite]
    BY DEF I!PlusGrave
  <2> SUFFICES LaPireDe(pire[s], s, regles, v)
    OBVIOUS
  <2>5. CASE ~I!Declenche(r, v)
    <3>1. ici = avant
      BY <2>5
    <3> HIDE DEF a, avant, ici
    <3>2. pire[s] = a
      BY <2>1, <2>5
    <3> QED BY <2>2, <3>1, <3>2 DEF LaPireDe, ici
  <2>6. CASE I!Declenche(r, v) /\ I!PlusGrave(r, a)
    <3>1. x \in ici /\ \A i \in ici : i = x \/ i \in avant
      BY <2>1, <2>6
    <3>2. pire[s] = r /\ r # Neant /\ I!Severite[r.severite] \in Int /\ I!Severite[r.severite] <= I!Severite[r.severite]
      BY <2>1, <2>3, <2>6
    <3>3. ASSUME NEW i \in avant PROVE I!Severite[regles[i].severite] <= I!Severite[r.severite]
      <4>1. a # Neant /\ I!Severite[a.severite] \in Int /\ I!Severite[regles[i].severite] <= I!Severite[a.severite]
        BY <2>2
      <4>2. I!Severite[r.severite] > I!Severite[a.severite]
        BY <2>4, <2>6, <4>1
      <4>3. I!Severite[regles[i].severite] \in Int
        BY <2>3
      <4> HIDE DEF a, r
      <4> QED BY <3>2, <4>1, <4>2, <4>3
    <3> HIDE DEF a, avant, ici
    <3>4. \A i \in ici : I!Severite[regles[i].severite] <= I!Severite[r.severite]
      BY <3>1, <3>2, <3>3
    <3> HIDE DEF r
    <3> QED BY <3>1, <3>2, <3>4 DEF LaPireDe, ici
  <2>7. CASE I!Declenche(r, v) /\ ~I!PlusGrave(r, a)
    <3>1. x \in ici /\ \A i \in ici : i = x \/ i \in avant
      BY <2>1, <2>7
    <3>2. a # Neant /\ ~(I!Severite[r.severite] > I!Severite[a.severite])
      BY <2>4, <2>7
    <3>3. avant # {}
      BY <2>2, <3>2
    <3>4. I!Severite[a.severite] \in Int /\ I!Severite[r.severite] \in Int
      BY <2>1, <2>2, <2>3, <3>3
    <3>5. pire[s] = a
      BY <2>1, <2>7
    <3>6. I!Severite[r.severite] <= I!Severite[a.severite]
      BY <3>2, <3>4
    <3> HIDE DEF a, avant, ici
    <3>7. \A i \in ici : I!Severite[regles[i].severite] <= I!Severite[a.severite]
      BY <2>2, <3>1, <3>3, <3>6
    <3> QED BY <3>1, <3>2, <3>4, <3>5, <3>7 DEF LaPireDe, ici
  <2> QED BY <2>5, <2>6, <2>7
<1>11. SUBSET ens \subseteq bons
  <2> HIDE DEF bons, ens
  <2> QED BY <1>1, <1>9, <1>10, RecurrenceFinie
<1> QED BY <1>11, PireAlerteChoisie DEF pire

\* Two rules make a list of rules.
LEMMA DeuxRegles ==
  ASSUME NEW a \in Regles, NEW b \in Regles
  PROVE  <<a, b>> \in Seq(Regles)
OBVIOUS

\* The alert shown is the gravest one, and there is none without a trigger.
LEMMA AlerteLaPireTenu ==
  ASSUME part = "indicateurs", IndicateursJuges
  PROVE  I!AlerteLaPire
<1> DEFINE ici == {i \in DOMAIN x1.regles : I!Declenche(x1.regles[i], x2.pondere)}
<1> SUFFICES ASSUME x1 # Neant, x1.genre = "score"
             PROVE  IF ici = {} THEN x2.alerte = Neant
                    ELSE \A i \in ici : I!Severite[x1.regles[i].severite] <= I!Severite[x2.alerte.severite]
  BY DEF I!AlerteLaPire, I!Genre
<1>1. x1 \in I!CasScore /\ x2 = I!JugerScore(x1)
  BY JugeDuGenre
<1>2. x2.alerte = I!PireAlerte(x1.regles, x2.pondere)
  BY <1>1 DEF I!JugerScore
<1>3. x1.regles \in Seq(Regles)
  <2> DEFINE a == I!Regle("<", 600, "critical")
             b == I!Regle("<", 700, "warning")
             d == I!Regle("<=", 700, "warning")
             e == I!Regle(">=", 1000, "info")
  <2>1. a \in Regles /\ b \in Regles /\ d \in Regles /\ e \in Regles
    BY DEF I!Regle, Regles
  <2>2. x1.regles = <<a, b>> \/ x1.regles = <<d, e>>
    BY <1>1 DEF I!CasScore
  <2> HIDE DEF a, b, d, e
  <2> QED BY <2>1, <2>2, DeuxRegles
<1>4. LaPireDe(x2.alerte, DOMAIN x1.regles, x1.regles, x2.pondere)
  BY <1>2, <1>3, AlerteEstLaPire
<1> QED BY <1>4 DEF LaPireDe

\* The judgements made on a same figure agree (JugementsCoherents): the three zones of a threshold follow
\* one another and are those of the findings of the day, no grave finding is dropped for a lighter one, the
\* synthesis made of the findings passes its own guard whole, a score lies between those it is made of, the
\* alert is the gravest triggered, stocks and flows balance, and the mart counts what the records count
\* (seuils_rh.py, decision_rh.py, score.py, alerts.py, hr.py, hr_mart.py).
THEOREM JudgementsAgree == PlateformeSpec => []JugementsCoherents
<1>1. IndicateursJuges => JugementsCoherents
  BY EtatMonotoneTenu, MemesBornesTenu, GraveGardeTenu, SyntheseEntiereTenue, ScoreDesMesureesTenu,
     AlerteLaPireTenu, StockEtFluxTenu, ReconciliationTenue DEF JugementsCoherents
<1> QED BY <1>1, IndicateursJugesInv, PTL

-----------------------------------------------------------------------------
(* The calendar of the sendings. *)
LEMMA NouveauxAns ==
  /\ E!NouvelAn(2022) = -365 /\ E!NouvelAn(2023) = 0 /\ E!NouvelAn(2024) = 365 /\ E!NouvelAn(2025) = 731
  /\ E!NouvelAn(2026) = 1096 /\ E!NouvelAn(2027) = 1461 /\ E!NouvelAn(2028) = 1826
BY DEF E!NouvelAn

\* The days before a month, in a year that is not leap.
Cumul == <<0, 31, 59, 90, 120, 151, 181, 212, 243, 273, 304, 334, 365>>
Bissextile(a) == IF a % 4 = 0 THEN 1 ELSE 0

\* A year is 365 days long, 366 when it is leap.
LEMMA Annees4 ==
  ASSUME NEW a \in 2022..2027
  PROVE  /\ E!NouvelAn(a) \in Int /\ Bissextile(a) \in 0..1
         /\ E!NouvelAn(a + 1) = E!NouvelAn(a) + 365 + Bissextile(a)
<1>1. a \in {2022, 2023, 2024, 2025, 2026, 2027}
  OBVIOUS
<1>2. Bissextile(a) = IF a = 2024 THEN 1 ELSE 0
  BY <1>1 DEF Bissextile
<1> QED BY <1>1, <1>2, NouveauxAns

\* The length of a month.
LEMMA LongueurDe ==
  ASSUME NEW a, NEW m
  PROVE  /\ m = 2 => E!Longueur(a, m) = IF a % 4 = 0 THEN 29 ELSE 28
         /\ m \in {4, 6, 9, 11} /\ m # 2 => E!Longueur(a, m) = 30
         /\ m \notin {4, 6, 9, 11} /\ m # 2 => E!Longueur(a, m) = 31
<1>1. ASSUME m = 2 PROVE E!Longueur(a, m) = IF a % 4 = 0 THEN 29 ELSE 28
  <2>1. m \notin {4, 6, 9, 11}
    BY <1>1
  <2> QED BY <1>1, <2>1, Zenon DEF E!Longueur
<1>2. ASSUME m # 2, m \in {4, 6, 9, 11} PROVE E!Longueur(a, m) = 30
  BY <1>2, Zenon DEF E!Longueur
<1>3. ASSUME m # 2, m \notin {4, 6, 9, 11} PROVE E!Longueur(a, m) = 31
  BY <1>3, Zenon DEF E!Longueur
<1> QED BY <1>1, <1>2, <1>3

\* ... is between 28 and 31 days.
LEMMA Longueurs ==
  ASSUME NEW a \in 2022..2027, NEW m \in 1..12
  PROVE  E!Longueur(a, m) = Cumul[m + 1] - Cumul[m] + (IF m = 2 THEN Bissextile(a) ELSE 0)
<1>1. m \in {1, 2, 3, 4, 5, 6, 7, 8, 9, 10, 11, 12}
  OBVIOUS
<1>2. Bissextile(a) \in Int /\ (IF a % 4 = 0 THEN 29 ELSE 28) = 28 + Bissextile(a)
  BY DEF Bissextile
<1>3. /\ m = 2 => E!Longueur(a, m) = 28 + Bissextile(a)
      /\ m \in {4, 6, 9, 11} => E!Longueur(a, m) = 30
      /\ m \notin {2, 4, 6, 9, 11} => E!Longueur(a, m) = 31
  BY <1>2, LongueurDe
<1>4. /\ Cumul[2] - Cumul[1] = 31 /\ Cumul[3] - Cumul[2] = 28 /\ Cumul[4] - Cumul[3] = 31
      /\ Cumul[5] - Cumul[4] = 30 /\ Cumul[6] - Cumul[5] = 31 /\ Cumul[7] - Cumul[6] = 30
      /\ Cumul[8] - Cumul[7] = 31 /\ Cumul[9] - Cumul[8] = 31 /\ Cumul[10] - Cumul[9] = 30
      /\ Cumul[11] - Cumul[10] = 31 /\ Cumul[12] - Cumul[11] = 30 /\ Cumul[13] - Cumul[12] = 31
  BY DEF Cumul
<1> QED BY <1>1, <1>2, <1>3, <1>4

\* The first day of a month.
LEMMA Premiers ==
  ASSUME NEW a \in 2022..2027, NEW m \in 1..12
  PROVE  E!Premier(a, m) = E!NouvelAn(a) + Cumul[m] + (IF m > 2 THEN Bissextile(a) ELSE 0)
<1>1. <<0, 31, 59, 90, 120, 151, 181, 212, 243, 273, 304, 334>>[m] = Cumul[m]
  BY DEF Cumul
<1>2. (IF m > 2 /\ a % 4 = 0 THEN 1 ELSE 0) = IF m > 2 THEN Bissextile(a) ELSE 0
  BY DEF Bissextile
<1> QED BY <1>1, <1>2 DEF E!Premier

\* The first day of the month after the m-th: months follow one another and fill the year.
Fin(a, m) == E!NouvelAn(a) + Cumul[m + 1] + (IF m >= 2 THEN Bissextile(a) ELSE 0)

\* The months follow one another, 28 days apart at least.
LEMMA Cumuls == \A m \in 1..13 : Cumul[m] \in Int /\ \A n \in 1..13 : m < n => Cumul[m] + 28 <= Cumul[n]
<1>1. \A m \in 1..13 : m \in {1, 2, 3, 4, 5, 6, 7, 8, 9, 10, 11, 12, 13}
  OBVIOUS
<1> QED BY <1>1 DEF Cumul

\* A month begins the day after the one before ends.
LEMMA MoisSuit ==
  ASSUME NEW a \in 2022..2027, NEW m \in 1..12
  PROVE  /\ E!Premier(a, m) \in Int /\ E!Premier(a, m) + 28 <= Fin(a, m) /\ Fin(a, m) <= E!Premier(a, m) + 31
         /\ E!Premier(a, m) + E!Longueur(a, m) = Fin(a, m)
         /\ m < 12 => Fin(a, m) = E!Premier(a, m + 1)
         /\ m = 12 => Fin(a, m) = E!NouvelAn(a + 1)
         /\ E!NouvelAn(a) <= E!Premier(a, m) /\ Fin(a, m) <= E!NouvelAn(a + 1)
<1> DEFINE nouvel == E!NouvelAn(a)
           bis == Bissextile(a)
<1>1. nouvel \in Int /\ bis \in 0..1 /\ E!NouvelAn(a + 1) = nouvel + 365 + bis
  BY Annees4
<1>2. E!Premier(a, m) = nouvel + Cumul[m] + (IF m > 2 THEN bis ELSE 0)
  BY Premiers
<1>3. E!Longueur(a, m) = Cumul[m + 1] - Cumul[m] + (IF m = 2 THEN bis ELSE 0)
  BY Longueurs
<1>4. Fin(a, m) = nouvel + Cumul[m + 1] + (IF m >= 2 THEN bis ELSE 0)
  BY DEF Fin
<1>5. m < 12 => E!Premier(a, m + 1) = nouvel + Cumul[m + 1] + (IF m + 1 > 2 THEN bis ELSE 0)
  <2> SUFFICES ASSUME m < 12 PROVE E!Premier(a, m + 1) = nouvel + Cumul[m + 1] + (IF m + 1 > 2 THEN bis ELSE 0)
    OBVIOUS
  <2>1. m + 1 \in 1..12
    OBVIOUS
  <2> QED BY <2>1, Premiers
<1>6. /\ Cumul[m] \in Int /\ Cumul[m + 1] \in Int /\ Cumul[1] = 0 /\ Cumul[13] = 365 /\ 0 <= Cumul[m]
      /\ Cumul[m + 1] <= 365 /\ Cumul[m] + 28 <= Cumul[m + 1] /\ Cumul[m + 1] <= Cumul[m] + 31
      /\ m = 2 => Cumul[m + 1] = Cumul[m] + 28
  BY DEF Cumul
<1> HIDE DEF nouvel, bis
<1> QED BY <1>1, <1>2, <1>3, <1>4, <1>5, <1>6 DEF nouvel

\* A day is of one year and one month.
LEMMA DateConnue ==
  ASSUME NEW d \in Int, 0 <= d, d < 1461
  PROVE  LET x == E!DateDe(d)
         IN /\ x.annee \in 2022..2027 /\ x.mois \in 1..12
            /\ E!Premier(x.annee, x.mois) <= d /\ d < Fin(x.annee, x.mois)
            /\ x.jour = d - E!Premier(x.annee, x.mois) + 1
<1> DEFINE a == CHOOSE n \in 2022..2027 : E!NouvelAn(n) <= d /\ d < E!NouvelAn(n + 1)
           m == CHOOSE n \in 1..12 : E!Premier(a, n) <= d /\ d < E!Premier(a, n) + E!Longueur(a, n)
<1>1. a \in 2022..2027 /\ E!NouvelAn(a) <= d /\ d < E!NouvelAn(a + 1)
  <2>1. \/ E!NouvelAn(2023) <= d /\ d < E!NouvelAn(2023 + 1)
        \/ E!NouvelAn(2024) <= d /\ d < E!NouvelAn(2024 + 1)
        \/ E!NouvelAn(2025) <= d /\ d < E!NouvelAn(2025 + 1)
        \/ E!NouvelAn(2026) <= d /\ d < E!NouvelAn(2026 + 1)
    BY NouveauxAns
  <2>2. \E n \in 2022..2027 : E!NouvelAn(n) <= d /\ d < E!NouvelAn(n + 1)
    BY <2>1
  <2> QED BY <2>2
<1> HIDE DEF a
<1>2. \E n \in 1..12 : E!Premier(a, n) <= d /\ d < Fin(a, n)
  <2>1. \A n \in {1, 2, 3, 4, 5, 6, 7, 8, 9, 10, 11, 12} : E!Premier(a, n) \in Int /\ Fin(a, n) \in Int
    BY <1>1, MoisSuit, Annees4
  <2>2. E!Premier(a, 1) = E!NouvelAn(a) /\ Fin(a, 12) = E!NouvelAn(a + 1)
    <3>1. E!Premier(a, 1) = E!NouvelAn(a)
      BY <1>1, Annees4 DEF E!Premier
    <3>2. Fin(a, 12) = E!NouvelAn(a + 1)
      BY <1>1, MoisSuit
    <3> QED BY <3>1, <3>2
  <2>3. \A n \in 1..11 : Fin(a, n) = E!Premier(a, n + 1)
    BY <1>1, MoisSuit
  <2>4. /\ Fin(a, 1) = E!Premier(a, 2) /\ Fin(a, 2) = E!Premier(a, 3) /\ Fin(a, 3) = E!Premier(a, 4)
        /\ Fin(a, 4) = E!Premier(a, 5) /\ Fin(a, 5) = E!Premier(a, 6) /\ Fin(a, 6) = E!Premier(a, 7)
        /\ Fin(a, 7) = E!Premier(a, 8) /\ Fin(a, 8) = E!Premier(a, 9) /\ Fin(a, 9) = E!Premier(a, 10)
        /\ Fin(a, 10) = E!Premier(a, 11) /\ Fin(a, 11) = E!Premier(a, 12)
    BY <2>3
  <2>5. \E n \in {1, 2, 3, 4, 5, 6, 7, 8, 9, 10, 11, 12} : E!Premier(a, n) <= d /\ d < Fin(a, n)
    <3> DEFINE dans(n) == E!Premier(a, n) <= d /\ d < Fin(a, n)
    <3>1. dans(1) \/ dans(2) \/ dans(3) \/ dans(4) \/ dans(5) \/ dans(6) \/ dans(7) \/ dans(8) \/ dans(9)
            \/ dans(10) \/ dans(11) \/ dans(12)
      BY <1>1, <2>1, <2>2, <2>4
    <3> HIDE DEF dans
    <3>2. \E n \in {1, 2, 3, 4, 5, 6, 7, 8, 9, 10, 11, 12} : dans(n)
      BY <3>1
    <3> QED BY <3>2 DEF dans
  <2> QED BY <2>5
<1>3. m \in 1..12 /\ E!Premier(a, m) <= d /\ d < Fin(a, m)
  <2>1. \E n \in 1..12 : E!Premier(a, n) <= d /\ d < E!Premier(a, n) + E!Longueur(a, n)
    BY <1>1, <1>2, MoisSuit
  <2>2. m \in 1..12 /\ E!Premier(a, m) <= d /\ d < E!Premier(a, m) + E!Longueur(a, m)
    BY <2>1
  <2> HIDE DEF m
  <2> QED BY <1>1, <2>2, MoisSuit
<1>4. E!DateDe(d) = [annee |-> a, mois |-> m, jour |-> d - E!Premier(a, m) + 1]
  BY DEF E!DateDe, a
<1> HIDE DEF m
<1> QED BY <1>1, <1>3, <1>4

\* A day has one date.
LEMMA DateUnique ==
  ASSUME NEW d \in Int, 0 <= d, d < 1461, NEW a \in 2022..2027, NEW m \in 1..12,
         E!Premier(a, m) <= d, d < Fin(a, m)
  PROVE  E!DateDe(d).annee = a /\ E!DateDe(d).mois = m /\ E!DateDe(d).jour = d - E!Premier(a, m) + 1
<1> DEFINE b == E!DateDe(d).annee
           n == E!DateDe(d).mois
<1>1. /\ b \in 2022..2027 /\ n \in 1..12 /\ E!Premier(b, n) <= d /\ d < Fin(b, n)
      /\ E!DateDe(d).jour = d - E!Premier(b, n) + 1
  BY DateConnue
<1> HIDE DEF b, n
<1>2. /\ E!Premier(a, m) \in Int /\ E!Premier(b, n) \in Int /\ E!NouvelAn(a) \in Int /\ E!NouvelAn(b) \in Int
      /\ Fin(a, m) \in Int /\ Fin(b, n) \in Int /\ E!NouvelAn(a + 1) \in Int /\ E!NouvelAn(b + 1) \in Int
      /\ E!NouvelAn(a) <= d /\ d < E!NouvelAn(a + 1) /\ E!NouvelAn(b) <= d /\ d < E!NouvelAn(b + 1)
  BY <1>1, MoisSuit, Annees4
<1>3. a = b
  <2>1. a \in {2022, 2023, 2024, 2025, 2026, 2027} /\ b \in {2022, 2023, 2024, 2025, 2026, 2027}
    BY <1>1
  <2> QED BY <1>2, <2>1, NouveauxAns
<1>4. ASSUME NEW i \in 1..12, NEW k \in 1..12, i < k PROVE Fin(a, i) <= E!Premier(a, k)
  <2>1. E!Premier(a, k) = E!NouvelAn(a) + Cumul[k] + (IF k > 2 THEN Bissextile(a) ELSE 0)
    BY Premiers
  <2>2. Bissextile(a) \in 0..1
    BY Annees4
  <2>3. Cumul[i + 1] <= Cumul[k] /\ Cumul[i + 1] \in Int /\ Cumul[k] \in Int
    BY <1>4, Cumuls
  <2>4. i >= 2 => k > 2
    BY <1>4
  <2>5. Fin(a, i) = E!NouvelAn(a) + Cumul[i + 1] + (IF i >= 2 THEN Bissextile(a) ELSE 0)
    BY DEF Fin
  <2> QED BY <1>2, <2>1, <2>2, <2>3, <2>4, <2>5
<1>5. ~(m < n) /\ ~(n < m)
  <2>1. ~(m < n)
    BY <1>1, <1>2, <1>3, <1>4
  <2>2. ~(n < m)
    BY <1>1, <1>2, <1>3, <1>4
  <2> QED BY <2>1, <2>2
<1>6. m = n
  BY <1>1, <1>5
<1> QED BY <1>1, <1>3, <1>6 DEF b, n

\* What a next sending is: the first of its frequency after a moment.
Premiere(f, m, n) ==
  /\ E!Apres(n, m)
  /\ E!Tombe(f, n.jour)
  /\ \A j \in m.jour..(n.jour - 1) : E!Tombe(f, j) => ~E!Apres([jour |-> j, heure |-> E!HeureEnvoi], m)

\* A deadline of a month or of a quarter is on the first of a month.
LEMMA TombeDe ==
  ASSUME NEW j
  PROVE  /\ E!Tombe("quotidien", j)
         /\ E!Tombe("hebdomadaire", j) <=> E!JourDeSemaine(j) = 0
         /\ E!Tombe("mensuel", j) <=> E!DateDe(j).jour = 1
<1>1. E!Tombe("quotidien", j)
  BY Zenon DEF E!Tombe
<1>2. E!Tombe("hebdomadaire", j) <=> E!JourDeSemaine(j) = 0
  BY Zenon DEF E!Tombe
<1>3. E!Tombe("mensuel", j) <=> E!DateDe(j).jour = 1
  BY Zenon DEF E!Tombe
<1> QED BY <1>1, <1>2, <1>3

\* What is read of the next deadline.
LEMMA EcheanceDe ==
  ASSUME NEW m
  PROVE  /\ E!ProchaineEcheance("quotidien", m) = [heure |-> 7, jour |-> E!Quotidienne(m)]
         /\ E!ProchaineEcheance("hebdomadaire", m) = [heure |-> 7, jour |-> E!Hebdomadaire(m)]
         /\ E!ProchaineEcheance("mensuel", m) = [heure |-> 7, jour |-> E!Mensuelle(m)]
<1>1. E!ProchaineEcheance("quotidien", m) = [heure |-> 7, jour |-> E!Quotidienne(m)]
  BY Zenon DEF E!ProchaineEcheance, E!HeureEnvoi
<1>2. E!ProchaineEcheance("hebdomadaire", m) = [heure |-> 7, jour |-> E!Hebdomadaire(m)]
  BY Zenon DEF E!ProchaineEcheance, E!HeureEnvoi
<1>3. E!ProchaineEcheance("mensuel", m) = [heure |-> 7, jour |-> E!Mensuelle(m)]
  BY Zenon DEF E!ProchaineEcheance, E!HeureEnvoi
<1> QED BY <1>1, <1>2, <1>3

\* A day at seven is after a moment when it is a later day, or the same day before seven.
LEMMA ApresSept ==
  ASSUME NEW j \in Int, NEW jour \in Int, NEW h \in Int, NEW n, NEW m, n.jour = j, n.heure = 7, m.jour = jour, m.heure = h
  PROVE  E!Apres(n, m) <=> j > jour \/ (j = jour /\ h < 7)
BY DEF E!Apres

\* A first deadline is one that no day closer is.
LEMMA EstPremiere ==
  ASSUME NEW f \in E!Frequences, NEW m, NEW jour \in Int, NEW h \in Int, m.jour = jour, m.heure = h,
         NEW n, NEW k \in Int, n.jour = k, n.heure = 7,
         k > jour \/ (k = jour /\ h < 7), E!Tombe(f, k),
         \A j \in jour..(k - 1) : E!Tombe(f, j) => j = jour /\ h >= 7
  PROVE  Premiere(f, m, n)
<1>1. E!Apres(n, m)
  BY ApresSept
<1>2. ASSUME NEW j \in jour..(k - 1), E!Tombe(f, j) PROVE ~E!Apres([jour |-> j, heure |-> E!HeureEnvoi], m)
  <2> DEFINE x == [jour |-> j, heure |-> E!HeureEnvoi]
  <2>1. x.jour = j /\ x.heure = 7
    BY DEF E!HeureEnvoi
  <2> HIDE DEF x
  <2>2. E!Apres(x, m) <=> j > jour \/ (j = jour /\ h < 7)
    BY <2>1, ApresSept
  <2>3. ~E!Apres(x, m)
    BY <1>2, <2>2
  <2> QED BY <2>3 DEF x
<1> QED BY <1>1, <1>2 DEF Premiere

\* ... and it is a month later at most.
SuiteBornee(f, m, jour, n) ==
  /\ Premiere(f, m, n)
  /\ n.heure = 7 /\ n.jour \in Int /\ jour <= n.jour /\ n.jour <= jour + 31

JoursProches == 0..1200
HeuresDuJour == 0..23

\* The next deadline is the first one after the time it is computed at.
LEMMA PremiereSuite ==
  ASSUME NEW f \in E!Frequences, NEW m, NEW jour \in JoursProches, NEW h \in HeuresDuJour, m.jour = jour, m.heure = h
  PROVE  SuiteBornee(f, m, jour, E!ProchaineEcheance(f, m))
<1> DEFINE n == E!ProchaineEcheance(f, m)
<1> SUFFICES /\ Premiere(f, m, n)
             /\ n.heure = 7 /\ n.jour \in Int /\ jour <= n.jour /\ n.jour <= jour + 31
  BY DEF SuiteBornee
<1> USE DEF JoursProches, HeuresDuJour
<1>0. E!AvantSept(m) <=> h < 7
  BY DEF E!AvantSept, E!HeureEnvoi
<1>1. CASE f = "quotidien"
  <2> DEFINE k == E!Quotidienne(m)
  <2>1. n.jour = k /\ n.heure = 7
    <3>1. n = [heure |-> 7, jour |-> k]
      BY <1>1, EcheanceDe
    <3> HIDE DEF n, k
    <3> QED BY <3>1
  <2>2. k = IF h < 7 THEN jour ELSE jour + 1
    BY <1>0 DEF E!Quotidienne
  <2>3. E!Tombe(f, k)
    BY <1>1, TombeDe
  <2> HIDE DEF n, k
  <2>4. /\ k \in Int /\ jour <= k /\ k <= jour + 31 /\ (k > jour \/ (k = jour /\ h < 7))
        /\ \A j \in jour..(k - 1) : j = jour /\ h >= 7
    BY <2>2
  <2>5. Premiere(f, m, n)
    BY <2>1, <2>3, <2>4, EstPremiere
  <2> QED BY <2>1, <2>4, <2>5 DEF n
<1>2. CASE f = "hebdomadaire"
  <2> DEFINE k == E!Hebdomadaire(m)
             w == (jour + 6) % 7
             saut == (7 - w) % 7
  <2>1. n.jour = k /\ n.heure = 7
    <3>1. n = [heure |-> 7, jour |-> k]
      BY <1>2, EcheanceDe
    <3> HIDE DEF n, k
    <3> QED BY <3>1
  <2>2. k = jour + (IF saut = 0 /\ ~(h < 7) THEN 7 ELSE saut)
    BY <1>0 DEF E!Hebdomadaire, E!JourDeSemaine
  <2>3. w \in 0..6 /\ saut = IF w = 0 THEN 0 ELSE 7 - w
    BY SMT
  <2>4. \A j \in Int : E!Tombe(f, j) <=> (j + 6) % 7 = 0
    BY <1>2, TombeDe DEF E!JourDeSemaine
  <2>5. /\ k \in Int /\ jour <= k /\ k <= jour + 31 /\ (k > jour \/ (k = jour /\ h < 7))
    <3> HIDE DEF k, w
    <3> QED BY <2>2, <2>3
  <2>6. (k + 6) % 7 = 0 /\ \A j \in jour..(k - 1) : (j + 6) % 7 = 0 => j = jour /\ h >= 7
    <3>1. \A i \in 0..7 : (jour + i + 6) % 7 = (w + i) % 7
      BY SMT
    <3>2. PICK i \in 0..7 : k = jour + i /\ (w + i) % 7 = 0 /\ \A e \in 0..(i - 1) : (w + e) % 7 = 0 => e = 0 /\ h >= 7
      <4> HIDE DEF k, w
      <4>1. w \in {0, 1, 2, 3, 4, 5, 6}
        BY <2>3
      <4> QED BY <2>2, <2>3, <4>1
    <3>3. (k + 6) % 7 = 0
      <4>1. (jour + i + 6) % 7 = (w + i) % 7
        BY <3>1
      <4> HIDE DEF k, w
      <4> QED BY <3>2, <4>1
    <3>4. ASSUME NEW j \in jour..(k - 1), (j + 6) % 7 = 0 PROVE j = jour /\ h >= 7
      <4> DEFINE e == j - jour
      <4> HIDE DEF k, w
      <4>1. e \in 0..(i - 1) /\ e \in 0..7 /\ jour + e = j
        BY <3>2, <3>4
      <4>2. (jour + e + 6) % 7 = (w + e) % 7
        BY <3>1, <4>1
      <4> HIDE DEF e
      <4>3. (w + e) % 7 = 0
        BY <3>4, <4>1, <4>2
      <4> QED BY <3>2, <4>1, <4>3
    <3> QED BY <3>3, <3>4
  <2>7. E!Tombe(f, k) /\ \A j \in jour..(k - 1) : E!Tombe(f, j) => j = jour /\ h >= 7
    <3> HIDE DEF k, w, saut
    <3> QED BY <2>4, <2>5, <2>6
  <2> HIDE DEF n, k, w, saut
  <2>8. Premiere(f, m, n)
    BY <2>1, <2>5, <2>7, EstPremiere
  <2> QED BY <2>1, <2>5, <2>8 DEF n
<1>3. CASE f = "mensuel"
  <2> DEFINE k == E!Mensuelle(m)
             x == E!DateDe(jour)
             a == x.annee
             b == x.mois
  <2>1. n.jour = k /\ n.heure = 7
    <3>1. n = [heure |-> 7, jour |-> k]
      BY <1>3, EcheanceDe
    <3> HIDE DEF n, k
    <3> QED BY <3>1
  <2>2. k = IF x.jour = 1 /\ h < 7 THEN jour ELSE E!Premier(a + (IF b = 12 THEN 1 ELSE 0), (b % 12) + 1)
    BY <1>0 DEF E!Mensuelle
  <2>3. /\ a \in 2022..2027 /\ b \in 1..12 /\ E!Premier(a, b) <= jour /\ jour < Fin(a, b)
        /\ x.jour = jour - E!Premier(a, b) + 1
    BY DateConnue
  <2>4. \A j : E!Tombe(f, j) <=> E!DateDe(j).jour = 1
    BY <1>3, TombeDe
  <2> HIDE DEF n, k, x, a, b
  <2>5. /\ E!Premier(a, b) \in Int /\ Fin(a, b) \in Int /\ E!Premier(a, b) + 28 <= Fin(a, b)
        /\ Fin(a, b) <= E!Premier(a, b) + 31
    <3>1. Fin(a, b) \in Int
      <4>1. b + 1 \in 1..13
        BY <2>3
      <4> QED BY <2>3, <4>1, Cumuls, Annees4 DEF Fin
    <3> QED BY <2>3, <3>1, MoisSuit
  <2>6. \A j \in jour..(Fin(a, b) - 1) : E!DateDe(j).jour = 1 <=> j = E!Premier(a, b)
    <3> TAKE j \in jour..(Fin(a, b) - 1)
    <3>1. j \in Int /\ 0 <= j /\ j < 1461 /\ E!Premier(a, b) <= j /\ j < Fin(a, b)
      BY <2>3, <2>5
    <3>2. E!DateDe(j).jour = j - E!Premier(a, b) + 1
      BY <2>3, <3>1, DateUnique
    <3> QED BY <2>5, <3>1, <3>2
  <2>7. E!Premier(a + (IF b = 12 THEN 1 ELSE 0), (b % 12) + 1) = Fin(a, b)
    <3>1. CASE b < 12
      <4>1. a + (IF b = 12 THEN 1 ELSE 0) = a /\ (b % 12) + 1 = b + 1
        BY <2>3, <3>1
      <4> QED BY <2>3, <3>1, <4>1, MoisSuit
    <3>2. CASE b = 12
      <4>1. a + (IF b = 12 THEN 1 ELSE 0) = a + 1 /\ (b % 12) + 1 = 1
        BY <2>3, <3>2
      <4>2. E!Premier(a + 1, 1) = E!NouvelAn(a + 1)
        <5>1. E!NouvelAn(a + 1) \in Int
          BY <2>3, Annees4
        <5> QED BY <5>1 DEF E!Premier
      <4> QED BY <2>3, <3>2, <4>1, <4>2, MoisSuit
    <3> QED BY <2>3, <3>1, <3>2
  <2>8. CASE x.jour = 1 /\ h < 7
    <3>1. k = jour /\ k \in Int
      BY <2>2, <2>8
    <3>2. E!Tombe(f, k)
      BY <2>4, <2>8, <3>1 DEF x
    <3>3. Premiere(f, m, n)
      BY <2>1, <2>8, <3>1, <3>2, EstPremiere
    <3> QED BY <2>1, <3>1, <3>3 DEF n
  <2>9. CASE ~(x.jour = 1 /\ h < 7)
    <3>1. k = Fin(a, b) /\ k > jour /\ k <= jour + 31 /\ k \in Int
      BY <2>2, <2>3, <2>5, <2>7, <2>9
    <3>2. E!Tombe(f, k)
      <4>1. \E c \in 2022..2027, d \in 1..12 : k = E!Premier(c, d)
        <5>1. CASE b < 12
          <6>1. b + 1 \in 1..12 /\ k = E!Premier(a, b + 1)
            BY <2>3, <3>1, <5>1, MoisSuit
          <6> QED BY <2>3, <6>1
        <5>2. CASE b = 12
          <6>1. a # 2027
            <7>1. E!NouvelAn(a) <= jour /\ E!NouvelAn(a) \in Int
              BY <2>3, <2>5, MoisSuit, Annees4
            <7> QED BY <7>1, NouveauxAns
          <6>2. a + 1 \in 2022..2027
            BY <2>3, <6>1
          <6>3. k = E!NouvelAn(a + 1)
            BY <2>3, <3>1, <5>2, MoisSuit
          <6>4. E!Premier(a + 1, 1) = E!NouvelAn(a + 1)
            BY <6>2, Annees4 DEF E!Premier
          <6> QED BY <6>2, <6>3, <6>4
        <5> QED BY <2>3, <5>1, <5>2
      <4>2. PICK c \in 2022..2027, d \in 1..12 : k = E!Premier(c, d)
        BY <4>1
      <4>3. k \in Int /\ 0 <= k /\ k < 1461 /\ E!Premier(c, d) <= k /\ k < Fin(c, d)
        <5>1. k < Fin(c, d)
          <6>1. Fin(c, d) \in Int
            BY Cumuls, Annees4 DEF Fin
          <6> QED BY <3>1, <4>2, <6>1, MoisSuit
        <5> QED BY <3>1, <4>2, <5>1
      <4>4. E!DateDe(k).jour = k - E!Premier(c, d) + 1
        BY <4>3, DateUnique
      <4>5. E!DateDe(k).jour = 1
        BY <3>1, <4>2, <4>4
      <4> QED BY <2>4, <4>5
    <3>3. \A j \in jour..(k - 1) : E!Tombe(f, j) => j = jour /\ h >= 7
      <4> TAKE j \in jour..(k - 1)
      <4> HAVE E!Tombe(f, j)
      <4>1. j = E!Premier(a, b)
        BY <2>4, <2>6, <3>1
      <4>2. j = jour
        BY <2>3, <2>5, <4>1
      <4> QED BY <2>3, <2>5, <2>9, <4>1, <4>2
    <3>4. Premiere(f, m, n)
      BY <2>1, <3>1, <3>2, <3>3, EstPremiere
    <3> QED BY <2>1, <3>1, <3>4 DEF n
  <2> QED BY <2>8, <2>9
<1> QED BY <1>1, <1>2, <1>3 DEF E!Frequences

\* What is computed of a frequency and a moment: the next sending, and the one after it.
EcheancesLues ==
  part = "echeances" =>
    \/ x1 = Neant
    \/ /\ x1 \in [frequence : E!Frequences, apres : [jour : JoursEnvoi, heure : HeuresEnvoi]]
       /\ x2 = <<E!ProchaineEcheance(x1.frequence, x1.apres),
                 E!ProchaineEcheance(x1.frequence, E!ProchaineEcheance(x1.frequence, x1.apres))>>

\* Nothing is ever computed but the deadlines of a frequency, as the code computes them.
LEMMA EcheancesLuesInv == PlateformeSpec => []EcheancesLues
<1>1. PlateformeInit => EcheancesLues
  BY DepartLu DEF EcheancesLues, E!Init
<1>2. EcheancesLues /\ [PlateformeNext]_plateforme => EcheancesLues'
  <2> SUFFICES ASSUME EcheancesLues, [PlateformeNext]_plateforme, part' = "echeances" PROVE EcheancesLues'
    BY DEF EcheancesLues
  <2>1. part = "echeances" /\ (E!Next \/ UNCHANGED registers)
    BY PartFixe, PasLu
  <2>2. CASE E!Next
    <3>1. PICK f \in E!Frequences, j \in JoursEnvoi, h \in HeuresEnvoi :
            x1' = [frequence |-> f, apres |-> [jour |-> j, heure |-> h]]
      BY <2>2 DEF E!Next
    <3>2. x1' \in [frequence : E!Frequences, apres : [jour : JoursEnvoi, heure : HeuresEnvoi]]
      BY <3>1
    <3>3. x2' = <<E!ProchaineEcheance(x1'.frequence, x1'.apres),
                  E!ProchaineEcheance(x1'.frequence, E!ProchaineEcheance(x1'.frequence, x1'.apres))>>
      BY <2>2, Zenon DEF E!Next
    <3> QED BY <3>2, <3>3, Zenon DEF EcheancesLues
  <2>3. CASE UNCHANGED registers
    BY <2>1, <2>3 DEF EcheancesLues, registers
  <2> QED BY <2>1, <2>2, <2>3
<1> QED BY <1>1, <1>2, PTL DEF PlateformeSpec

\* A report is planned at the first deadline after the time it is computed at.
LEMMA PremiereApresTenue ==
  ASSUME part = "echeances", EcheancesLues
  PROVE  E!PremiereApres
<1> SUFFICES ASSUME x1 # Neant
             PROVE  LET depuis == <<x1.apres, x2[1]>>
                    IN \A i \in 1..2 : Premiere(x1.frequence, depuis[i], x2[i])
  BY DEF E!PremiereApres, Premiere
<1> DEFINE f == x1.frequence
           m == x1.apres
           n == E!ProchaineEcheance(f, m)
           o == E!ProchaineEcheance(f, n)
           jour == m.jour
           h == m.heure
<1>1. f \in E!Frequences /\ jour \in JoursEnvoi /\ h \in HeuresEnvoi /\ x2 = <<n, o>>
  BY DEF EcheancesLues
<1>2. jour \in JoursProches /\ h \in HeuresDuJour /\ jour \in 0..1095
  <2>1. JoursEnvoi \subseteq 0..1095 /\ HeuresEnvoi \subseteq 0..23
    BY ConstantesLues DEF E!EcheancesConstantes
  <2> HIDE DEF jour, h
  <2> QED BY <1>1, <2>1 DEF JoursProches, HeuresDuJour
<1> HIDE DEF f
<1>3. SuiteBornee(f, m, jour, n)
  <2>1. m.jour = jour /\ m.heure = h /\ f \in E!Frequences
    BY <1>1
  <2>2. jour \in JoursProches /\ h \in HeuresDuJour
    BY <1>2
  <2> HIDE DEF jour, h, m
  <2> QED BY <2>1, <2>2, PremiereSuite, Zenon
<1>4. SuiteBornee(f, n, n.jour, o)
  <2> DEFINE k == n.jour
  <2> HIDE DEF n, jour
  <2>1. k \in Int /\ jour <= k /\ k <= jour + 31 /\ n.heure = 7
    BY <1>3 DEF SuiteBornee
  <2>2. n.jour = k
    OBVIOUS
  <2> HIDE DEF k
  <2>3. k \in JoursProches /\ 7 \in HeuresDuJour
    BY <1>2, <2>1 DEF JoursProches, HeuresDuJour
  <2>4. f \in E!Frequences
    BY <1>1
  <2> HIDE DEF o
  <2>5. SuiteBornee(f, n, k, o)
    BY <2>1, <2>2, <2>3, <2>4, PremiereSuite, Zenon DEF o
  <2> QED BY <2>2, <2>5
<1>5. ASSUME NEW i \in 1..2 PROVE Premiere(f, <<m, x2[1]>>[i], x2[i])
  <2> HIDE DEF m, n, o
  <2>1. x2[1] = n /\ x2[2] = o
    BY <1>1
  <2>2. i = 1 \/ i = 2
    OBVIOUS
  <2> QED BY <1>3, <1>4, <2>1, <2>2 DEF SuiteBornee
<1> QED BY <1>5 DEF f
================================================================================
