----------------------------- MODULE LectureOdoo -----------------------------
(***************************************************************************)
(* What is published of Odoo: key figures, departments, reference and      *)
(* health (integrations/odoo.py), through the client that tries again and  *)
(* names the refusals (odoo_client.py).                                    *)
(*                                                                         *)
(* A case is what Odoo holds, and holds by the time the employees are read *)
(* by department, the answers it gives to each call, and the companies     *)
(* asked for.  The session that obtains the uid is OdooSession.            *)
(* Rates are in tenths of a percent; ND is "not available".                *)
(***************************************************************************)
EXTENDS Integers, Sequences, FiniteSets, FiniteSetsExt, Functions

CONSTANTS
    Societes,       \* res.company
    MaxEmployes,    \* MAX_EMPLOYES, rows read of the employees
    MaxPostes,      \* rows read of the jobs, 500 in the code
    Rien

OdooConstantes == IsFiniteSet(Societes) /\ MaxEmployes \in Nat /\ MaxPostes \in Nat

VARIABLES cas, publie

vars == <<cas, publie>>

ND == -1
SansDepartement == "aucun"
Toutes == {"toutes"}    \* no filter on the companies: None

-----------------------------------------------------------------------------
(* The client. *)

\* A transport failure is tried again, once; an answer of Odoo, refusals included, is not, nor is a certificate
\* that cannot be verified ("tls").
MaxTentatives == 2
Transport == {"timeout", "reseau"}

\* _appeler_brut: the first answer that is not to be tried again, or the last.
AppelerBrut(reponses) ==
    LET finales == {n \in 1..MaxTentatives : n = MaxTentatives \/ reponses[n] \notin Transport}
    IN [issue |-> reponses[Min(finales)], appels |-> Min(finales)]
Issue(c, appel) == AppelerBrut(c.reponses[appel]).issue

\* etat(err)
EtatDe(issue) ==
    IF issue = "ok" THEN "connected" ELSE IF issue \in {"absent", "droits"} THEN "disconnected" ELSE "error"

-----------------------------------------------------------------------------
(* The key figures. *)

\* The domain that every reading carries: the companies asked for.
Filtre(c) == IF c.societes = Toutes THEN Societes ELSE c.societes
Employes(c, actif) == {e \in c.employes : e.societe \in Filtre(c) /\ e.actif = actif}
\* The counts first, the departments later: employees come and go in between.
EmployesEnsuite(c) == {e \in c.ensuite : e.societe \in Filtre(c) /\ e.actif}
Postes(c) == {p \in c.postes : p.societe \in Filtre(c)}
Departements(c) == {d \in c.departements : d.societe \in Filtre(c)}

\* The rows of a bounded reading, which Odoo chooses.
Bornees(lignes, n) ==
    IF Cardinality(lignes) <= n THEN lignes ELSE CHOOSE lues \in SUBSET lignes : Cardinality(lues) = n

Valeur(issue, v) == IF issue = "ok" THEN v ELSE ND
Carte(issue, v) == [valeur |-> Valeur(issue, v), statut |-> EtatDe(issue)]

Pourcentage(part, total) == IF total <= 0 THEN ND ELSE (part * 1000 + total \div 2) \div total

\* _postes_ouverts: the schema first, then a bounded reading.
Ouverts(postes) == MapThenSumSet(LAMBDA p : p.ouverts, postes)
LirePostes(c) == Ouverts(Bornees(Postes(c), MaxPostes))
PostesOuverts(c) ==
    IF Issue(c, "champs_postes") # "ok" THEN Carte(Issue(c, "champs_postes"), 0)
    ELSE IF "no_of_recruitment" \notin c.champs THEN [valeur |-> ND, statut |-> "disconnected"]
    ELSE Carte(Issue(c, "postes"), LirePostes(c))

\* _repartition_par_departement
SansRepartition(statut) == [statut |-> statut, lignes |-> [d \in {} |-> 0], sans |-> ND]
Repartition(c) ==
    LET lus == Bornees(EmployesEnsuite(c), MaxEmployes)
        De(d) == Cardinality({e \in lus : e.departement = d})
    IN IF Issue(c, "champs_employes") # "ok" THEN SansRepartition(EtatDe(Issue(c, "champs_employes")))
       ELSE IF "department_id" \notin c.champs THEN SansRepartition("disconnected")
       ELSE IF Issue(c, "employes") # "ok" THEN SansRepartition(EtatDe(Issue(c, "employes")))
       ELSE [statut |-> IF Cardinality(lus) >= MaxEmployes THEN "partial" ELSE "connected",
             lignes |-> [d \in {e.departement : e \in lus} \ {SansDepartement} |-> De(d)],
             sans |-> De(SansDepartement)]

\* _guard and client.uid()
Bloque(c) == c.source # "connectee"
Deconnectes == [k \in {"actifs", "sortis", "departements", "metiers", "societes", "postes", "part"} |->
                  [valeur |-> ND, statut |-> "disconnected"]]
Vide(statut, repartition) ==
    [statut |-> statut, kpis |-> Deconnectes, departements |-> SansRepartition(repartition)]

\* The five readings that make the state of the page.
Lues == {"actifs", "sortis", "departements", "metiers", "societes"}

\* fetch_hr_kpis
Chiffres(c) ==
    LET actifs == Carte(Issue(c, "actifs"), Cardinality(Employes(c, TRUE)))
        sortis == Carte(Issue(c, "sortis"), Cardinality(Employes(c, FALSE)))
        entieres == actifs.valeur # ND /\ sortis.valeur # ND
        \* The companies asked for are counted, those of the Group are read.
        societes == IF c.societes = Toutes THEN Carte(Issue(c, "societes"), Cardinality(Societes))
                    ELSE Carte("ok", Cardinality(c.societes))
        kpis == [actifs |-> actifs, sortis |-> sortis, societes |-> societes,
                 departements |-> Carte(Issue(c, "departements"), Cardinality(Departements(c))),
                 metiers |-> Carte(Issue(c, "metiers"), Cardinality(Postes(c))),
                 postes |-> PostesOuverts(c),
                 part |-> [valeur |-> IF entieres THEN Pourcentage(sortis.valeur, actifs.valeur + sortis.valeur)
                                      ELSE ND,
                           statut |-> IF entieres THEN "connected" ELSE "disconnected"]]
        reussies == {k \in Lues : kpis[k].valeur # ND}
    IN IF Bloque(c) THEN Vide("disconnected", "disconnected")
       ELSE IF c.uid # "ok" THEN Vide("error", "error")
       ELSE [statut |-> IF reussies = Lues THEN "connected" ELSE IF reussies # {} THEN "partial" ELSE "error",
             kpis |-> kpis, departements |-> Repartition(c)]

\* fetch_hr_reference: which models exist, whatever the perimeter; four of the nine.
Modeles == <<"actifs", "departements", "metiers", "societes">>
Reference(c) ==
    LET presents == {i \in DOMAIN Modeles : Issue(c, Modeles[i]) = "ok"}
    IN IF Bloque(c) THEN [statut |-> "disconnected", presents |-> {}]
       ELSE IF c.uid # "ok" THEN [statut |-> "error", presents |-> {}]
       ELSE [statut |-> IF presents = DOMAIN Modeles THEN "connected"
                        ELSE IF presents # {} THEN "partial" ELSE "error",
             presents |-> {Modeles[i] : i \in presents}]

\* odoo_health, whose state is that of the last verification when the source is not connected.
Sante(c) ==
    IF Bloque(c) THEN (IF c.verifiee = "" THEN "disconnected" ELSE c.verifiee)
    ELSE IF c.uid \in {"auth", "config", "base"} THEN "auth_required"
    ELSE IF c.uid # "ok" THEN "error"
    ELSE IF c.verifiee = "stale" THEN "stale" ELSE "connected"

-----------------------------------------------------------------------------
(* Cases. *)

Appels == {"actifs", "sortis", "departements", "metiers", "societes", "champs_postes", "postes",
           "champs_employes", "employes"}
Reussi == <<"ok", "ok">>
Repris == <<"timeout", "ok">>
Pannes == {<<"timeout", "reseau">>, <<"absent", "ok">>, <<"droits", "ok">>, <<"tls", "ok">>}

Employe(s, i, actif, d) == [societe |-> s, rang |-> i, actif |-> actif, departement |-> d]
Effectifs ==
    {{Employe(k[1], k[2], f[k].actif, f[k].departement) : k \in DOMAIN f} :
        f \in UNION {[K -> [actif : BOOLEAN, departement : {"d1", SansDepartement}]] :
                        K \in SUBSET (Societes \X {1, 2})}}
Effectif == {Employe(s, 1, TRUE, "d1") : s \in Societes} \cup {Employe(s, 2, FALSE, SansDepartement) : s \in Societes}
LesPostes == {[societe |-> s, ouverts |-> 2] : s \in Societes}
LesDepartements == {[societe |-> s] : s \in Societes}

Cas(societes, employes, ensuite, reponses, champs, source, uid, verifiee) ==
    [societes |-> societes, employes |-> employes, ensuite |-> ensuite, reponses |-> reponses, champs |-> champs,
     source |-> source, uid |-> uid, verifiee |-> verifiee, postes |-> LesPostes, departements |-> LesDepartements]
ToutRepond == [a \in Appels |-> Reussi]
Champs == {"no_of_recruitment", "department_id"}
Demandees == {Toutes} \cup {S \in SUBSET Societes : S # {}}

Init == cas = Rien /\ publie = Rien

Next ==
    /\ cas = Rien
    /\ \E S \in Demandees :
           \* what Odoo holds
           \/ \E e \in Effectifs, f \in Effectifs :
                 /\ f = e \/ f = Effectif
                 /\ cas' = Cas(S, e, f, ToutRepond, Champs, "connectee", "ok", "connected")
           \* any two calls fail, the schema lacks a field
           \/ \E a, b \in Appels, p, q \in Pannes \cup {Repris}, ch \in SUBSET Champs :
                 cas' = Cas(S, Effectif, Effectif, [ToutRepond EXCEPT ![a] = p, ![b] = q], ch,
                            "connectee", "ok", "connected")
           \* every call fails
           \/ \E p \in Pannes :
                 cas' = Cas(S, Effectif, Effectif, [a \in Appels |-> p], Champs, "connectee", "ok", "connected")
           \* the source is not connected, or the session refused
           \/ \E source \in {"connectee", "non_connectee", "absente"}, u \in {"ok", "auth", "config", "base", "reseau"},
                 v \in {"", "connected", "stale", "auth_required"} :
                 cas' = Cas(S, Effectif, Effectif, ToutRepond, Champs, source, u, v)
    /\ publie' = [rh |-> Chiffres(cas'), reference |-> Reference(cas'), sante |-> Sante(cas')]

Spec == Init /\ [][Next]_vars

-----------------------------------------------------------------------------
(* Properties. *)

Publie == cas # Rien

\* A figure asked for some companies is that of an Odoo that holds nothing else, read for the whole Group: no
\* reading forgets the filter (odoo.py:195-199).
SocietesSeules ==
    Publie =>
        LET De(S) == {x \in S : x.societe \in Filtre(cas)}
            reduit == [cas EXCEPT !.societes = Toutes, !.employes = De(@), !.ensuite = De(@), !.postes = De(@),
                                  !.departements = De(@)]
            attendus == Chiffres(reduit)
        IN /\ \A k \in DOMAIN publie.rh.kpis \ {"societes"} : publie.rh.kpis[k] = attendus.kpis[k]
           /\ publie.rh.departements = attendus.departements

\* A figure is shown if and only if what it rests on was read, its card says so, and a model that is absent or
\* forbidden removes its own cards only; never a 0 for what is unknown (odoo.py:148-150, 208-245).
CarteParCarte ==
    Publie =>
        LET k == publie.rh.kpis
            Repond(appels) == \A a \in appels : Issue(cas, a) = "ok"
            ouverte == cas.source = "connectee" /\ cas.uid = "ok"
            Rests == [actifs |-> {"actifs"}, sortis |-> {"sortis"}, departements |-> {"departements"},
                      metiers |-> {"metiers"}, postes |-> {"champs_postes", "postes"}]
        IN /\ \A c \in DOMAIN Rests :
                 k[c].valeur # ND <=> /\ ouverte /\ Repond(Rests[c])
                                      /\ c = "postes" => "no_of_recruitment" \in cas.champs
           /\ \A c \in DOMAIN k \ {"part"} : k[c].valeur # ND <=> k[c].statut = "connected"
           /\ k["part"].valeur # ND => {k["actifs"].valeur, k["sortis"].valeur} \cap {ND} = {}
           /\ publie.rh.statut = "connected" =>
                \A c \in Lues : k[c].valeur # ND

\* The departments add up to the active employees of the card, unless the reading was cut, which is said, or
\* Odoo changed between the two calls, which nothing says (odoo.py:189-190, 233, 258-303).
DepartementsEntiers ==
    Publie =>
        LET d == publie.rh.departements
            somme == d.sans + FoldFunctionOnSet(+, 0, d.lignes, DOMAIN d.lignes)
            actifs == publie.rh.kpis["actifs"].valeur
        IN d.sans # ND /\ actifs # ND /\ cas.ensuite = cas.employes =>
             /\ somme <= actifs
             /\ d.statut = "connected" => somme = actifs
             /\ d.statut \in {"connected", "partial"}

\* A transport failure alone is tried again, at most once; and the health page asks for a new registration only
\* of an account or a base that Odoo refused, never after a failure of the network (odoo_client.py:134-174;
\* odoo.py:357-384).
RepriseEtSante ==
    Publie =>
        /\ \A a \in Appels :
               LET r == AppelerBrut(cas.reponses[a])
               IN r.appels = 2 <=> cas.reponses[a][1] \in Transport
        /\ publie.sante = "auth_required" => cas.uid # "reseau" \/ cas.verifiee = "auth_required"
=============================================================================
