--------------------------- MODULE SessionNavigateur ---------------------------
(***************************************************************************)
(* The session of a browser tab (frontend/web/src/lib/api.ts, auth.ts,     *)
(* sw.ts) and the server that renews it (accounts/jwt_views.py): calls     *)
(* share one renewal, a workstation is passed from one account to another, *)
(* and the service worker stores the answers, late ones too.               *)
(*                                                                         *)
(* What follows an answer runs to its next await at once: nothing is       *)
(* interleaved with it.  One address is read; its last answer is the one   *)
(* in the cache.                                                           *)
(***************************************************************************)
EXTENDS Integers, FiniteSets

CONSTANTS
    Comptes,
    Appels,             \* calls of the tab
    MaxConnexions,
    Rien

NavigateurConstantes == MaxConnexions \in Nat /\ Rien \notin Comptes /\ Rien \notin [compte : Comptes, vif : BOOLEAN]

VARIABLES
    stockage,           \* localStorage: access token, account of the refresh token, profile
    vol,                \* renouvellementEnVol: the account of the token presented, or Rien
    appel,              \* what each call waits for
    cache,              \* account whose answer the service worker holds, or Rien
    aRanger,            \* accounts of the answers it is about to store, or still waits for
    purge,              \* "non"; "simple"; "puis recharge": the page reloads once the caches are empty
    actifs,             \* accounts the server knows and lets in
    connecte,           \* who is sitting there: the last to log in, until the session is closed
    connexions,
    marques             \* ghosts: see Croise

vars == <<stockage, vol, appel, cache, aRanger, purge, actifs, connecte, connexions, marques>>

Vide == [acces |-> Rien, refresh |-> Rien, profil |-> Rien]
Jeton(c) == [compte |-> c, vif |-> TRUE]
Oisif == [etape |-> "oisif", jeton |-> Rien, profil |-> FALSE]

Init ==
    /\ stockage = Vide /\ vol = Rien /\ appel = [a \in Appels |-> Oisif]
    /\ cache = Rien /\ aRanger = {} /\ purge = "non"
    /\ actifs = Comptes /\ connecte = Rien /\ connexions = 0
    /\ marques = [renouvellement |-> FALSE, reponse |-> FALSE, tort |-> FALSE]

-----------------------------------------------------------------------------
(* Opening and closing. *)

\* Somebody logs in or out: is a renewal left in flight, or an answer that may still be stored?
Croise(tort) ==
    [renouvellement |-> marques.renouvellement \/ vol' # Rien,
     reponse |-> marques.reponse \/ aRanger # {} \/ \E a \in Appels : appel[a] # Oisif /\ appel'[a] # Oisif,
     tort |-> marques.tort \/ tort]

\* mutant: the token alone is erased
EffacerLeJeton == [stockage EXCEPT !.acces = Rien]
\* clearSession, in the storage; the purge of the caches follows.
Effacer == Vide

\* login has its tokens and waits for its profile: the page is still /login.
EnConnexion == \E a \in Appels : appel[a].etape = "connexion"

\* A session ends and the page stays: the tokens at once, the caches after.
Effacement ==
    /\ stockage' = Effacer /\ connecte' = Rien
    /\ purge' = IF purge = "non" THEN "simple" ELSE purge

\* logout: the page is not reloaded.
Deconnexion ==
    /\ connecte # Rien /\ ~EnConnexion
    /\ UNCHANGED <<vol, appel, cache, aRanger, actifs, connexions>>
    /\ Effacement /\ marques' = Croise(FALSE)

\* login, on a tab whose session is closed: the tokens are stored, then a call asks for the profile.
Connexion(a, c) ==
    /\ connecte = Rien /\ connexions < MaxConnexions /\ c \in actifs /\ purge # "puis recharge"
    /\ ~EnConnexion /\ appel[a] = Oisif
    /\ UNCHANGED <<vol, cache, aRanger, purge, actifs>>
    /\ stockage' = [stockage EXCEPT !.acces = Jeton(c), !.refresh = c]
    /\ appel' = [appel EXCEPT ![a] = [etape |-> "connexion", jeton |-> Jeton(c), profil |-> TRUE]]
    /\ connecte' = c /\ connexions' = connexions + 1 /\ marques' = Croise(FALSE)

Rendre(a) == appel' = [appel EXCEPT ![a] = Oisif]

\* fetchMe fails, whatever the cause: login cancels the session it had begun.
ConnexionAnnulee(a) ==
    /\ appel[a].etape = "connexion"
    /\ Rendre(a) /\ UNCHANGED <<vol, cache, aRanger, actifs, connexions>>
    /\ Effacement /\ marques' = Croise(FALSE)

\* on401: the tokens at once, the caches, then the page, unless it is /login, where a tab without a session
\* may be.  Was the account still welcome?
Fermer ==
    /\ \/ (EnConnexion \/ connecte = Rien) /\ Effacement
       \/ ~EnConnexion /\ stockage' = Effacer /\ connecte' = Rien /\ purge' = "puis recharge"
    /\ marques' = Croise(connecte # Rien /\ connecte \in actifs)
    /\ UNCHANGED <<cache, aRanger, actifs, connexions>>
Laisser == UNCHANGED <<cache, purge, actifs, connecte, connexions, marques>>

\* purgeApiCaches, and the reload that stops everything the page was waiting for.
Purger ==
    /\ purge # "non"
    /\ cache' = Rien /\ purge' = "non"
    /\ IF purge = "simple" THEN UNCHANGED <<vol, appel>> ELSE vol' = Rien /\ appel' = [a \in Appels |-> Oisif]
    /\ UNCHANGED <<stockage, aRanger, actifs, connecte, connexions, marques>>

-----------------------------------------------------------------------------
(* Calls. *)

Accepte(jeton) == jeton # Rien /\ jeton.vif /\ jeton.compte \in actifs

\* fetchAuthentifie, or rafraichirProfil
Envoyer(a, profil) ==
    /\ appel[a] = Oisif /\ stockage.acces # Rien /\ ~EnConnexion
    /\ appel' = [appel EXCEPT ![a] = [etape |-> "envoye", jeton |-> stockage.acces, profil |-> profil]]
    /\ UNCHANGED <<stockage, vol, aRanger>> /\ Laisser

\* A 200: the profile is written down, other answers are on their way to the cache.
Reussir(a) ==
    LET compte == appel[a].jeton.compte
    IN /\ appel[a].etape \in {"envoye", "rejoue", "connexion"} /\ Accepte(appel[a].jeton)
       /\ Rendre(a)
       /\ IF appel[a].profil
          THEN stockage' = [stockage EXCEPT !.profil = compte] /\ UNCHANGED aRanger
          ELSE aRanger' = aRanger \cup {compte} /\ UNCHANGED stockage
       /\ UNCHANGED vol /\ Laisser

\* No network: an error, or the answer in the cache, marked as dated.
SansReseau(a) ==
    /\ appel[a].etape \in {"envoye", "rejoue"}
    /\ Rendre(a)
    /\ UNCHANGED <<stockage, vol, aRanger>> /\ Laisser

\* NetworkFirst has waited its six seconds: the page has the answer in the cache, and the request that goes on
\* will be stored when it is answered.  The routes of the profile are never cached.
Tarder(a) ==
    /\ appel[a].etape \in {"envoye", "rejoue"} /\ ~appel[a].profil /\ cache # Rien /\ Accepte(appel[a].jeton)
    /\ Rendre(a) /\ aRanger' = aRanger \cup {appel[a].jeton.compte}
    /\ UNCHANGED <<stockage, vol>> /\ Laisser

\* A first 401: join the renewal in flight, start one, or close for want of a refresh token.
Refuse(a) ==
    /\ appel[a].etape = "envoye" /\ ~Accepte(appel[a].jeton)
    /\ \/ /\ vol # Rien \/ stockage.refresh # Rien
          /\ vol' = IF vol # Rien THEN vol ELSE stockage.refresh
          /\ appel' = [appel EXCEPT ![a].etape = "attend"]
          /\ UNCHANGED <<stockage, aRanger>> /\ Laisser
       \/ /\ vol = Rien /\ stockage.refresh = Rien
          /\ Rendre(a) /\ UNCHANGED vol /\ Fermer

\* A second 401 is not an expiry.
RefuseEncore(a) ==
    /\ appel[a].etape = "rejoue" /\ ~Accepte(appel[a].jeton)
    /\ Rendre(a) /\ UNCHANGED vol /\ Fermer

\* renouvelerSiProche
Anticiper ==
    /\ vol = Rien /\ stockage.acces # Rien /\ stockage.refresh # Rien /\ ~EnConnexion
    /\ vol' = stockage.refresh
    /\ UNCHANGED <<stockage, appel, aRanger>> /\ Laisser

\* Those that wait take up again, with the token in the storage.
Reprendre(etape, jeton) ==
    appel' = [a \in Appels |-> IF appel[a].etape = "attend" THEN [appel[a] EXCEPT !.etape = etape, !.jeton = jeton]
                               ELSE appel[a]]
Abandonner == appel' = [a \in Appels |-> IF appel[a].etape = "attend" THEN Oisif ELSE appel[a]]

\* SerialiseurRenouvellement.validate: the account must exist and be active; a rotation revokes nothing.
Renouvele ==
    /\ vol # Rien /\ vol \in actifs
    /\ stockage' = [stockage EXCEPT !.acces = Jeton(vol), !.refresh = vol]
    /\ vol' = Rien /\ Reprendre("rejoue", Jeton(vol))
    /\ UNCHANGED aRanger /\ Laisser

RenouvellementRefuse ==
    /\ vol # Rien /\ vol \notin actifs
    /\ vol' = Rien /\ Abandonner /\ Fermer

\* Transport, 5xx, unreadable body: nothing is erased.
RenouvellementSansReponse ==
    /\ vol # Rien
    /\ vol' = Rien /\ Abandonner
    /\ UNCHANGED <<stockage, aRanger>> /\ Laisser

\* The service worker stores an answer after it has handed it over, or after it has handed over an older one.
Ranger(c) ==
    /\ c \in aRanger
    /\ aRanger' = aRanger \ {c} /\ cache' = c
    /\ UNCHANGED <<stockage, vol, appel, purge, actifs, connecte, connexions, marques>>

\* An hour passes; tokens just renewed are presented long before.
Expirer ==
    /\ stockage.acces # Rien /\ stockage.acces.vif
    /\ vol = Rien /\ \A a \in Appels : appel[a].etape \notin {"rejoue", "connexion"}
    /\ stockage' = [stockage EXCEPT !.acces.vif = FALSE]
    /\ appel' = [a \in Appels |-> IF appel[a].jeton = Rien THEN appel[a] ELSE [appel[a] EXCEPT !.jeton.vif = FALSE]]
    /\ UNCHANGED <<vol, aRanger>> /\ Laisser

\* The account is deleted or disabled, or its refresh token has lived its seven days.
Revoquer(c) ==
    /\ c \in actifs
    /\ actifs' = actifs \ {c}
    /\ UNCHANGED <<stockage, vol, appel, cache, aRanger, purge, connecte, connexions, marques>>

Next ==
    \/ Deconnexion \/ Purger \/ Anticiper \/ Renouvele \/ RenouvellementRefuse \/ RenouvellementSansReponse \/ Expirer
    \/ \E c \in Comptes : Ranger(c) \/ Revoquer(c)
    \/ \E a \in Appels :
           \/ \E p \in BOOLEAN : Envoyer(a, p)
           \/ \E c \in Comptes : Connexion(a, c)
           \/ ConnexionAnnulee(a) \/ Reussir(a) \/ SansReseau(a) \/ Tarder(a) \/ Refuse(a) \/ RefuseEncore(a)

Spec == Init /\ [][Next]_vars

-----------------------------------------------------------------------------
(* Properties. *)

Jetons == [compte : Comptes, vif : BOOLEAN] \cup {Rien}

TypeOK ==
    /\ stockage \in [acces : Jetons, refresh : Comptes \cup {Rien}, profil : Comptes \cup {Rien}]
    /\ vol \in Comptes \cup {Rien}
    /\ appel \in [Appels -> [etape : {"oisif", "connexion", "envoye", "attend", "rejoue"}, jeton : Jetons, profil : BOOLEAN]]
    /\ cache \in Comptes \cup {Rien} /\ aRanger \subseteq Comptes
    /\ purge \in {"non", "simple", "puis recharge"}
    /\ actifs \subseteq Comptes /\ connecte \in Comptes \cup {Rien} /\ connexions \in 0..MaxConnexions

\* A session that was closed stays closed, and the tokens kept are those of who is sitting there, unless a
\* renewal was in flight when someone logged in or out (api.ts, setSession after clearSession).
SessionFermee ==
    ~marques.renouvellement =>
        /\ stockage.acces # Rien => stockage.acces.compte = connecte
        /\ stockage.refresh # Rien => stockage.refresh = connecte

\* What the workstation keeps of an account's data is the connected account's, once the caches are purged,
\* unless, when someone logged in or out, a renewal was in flight, or an answer was: one the page waits for, one
\* about to be stored, or one that NetworkFirst no longer waits for and will store all the same (sw.ts:92-101;
\* auth.ts, rafraichirProfil).
DonneesDuCompte ==
    ~marques.reponse /\ ~marques.renouvellement =>
        /\ purge = "non" => cache \in {Rien, connecte}
        /\ stockage.profil \in {Rien, connecte}

\* Nobody whom the server still welcomes is sent back to the login page, unless a call or a renewal crossed a
\* change of account: a failure of the network closes nothing (api.ts:112-119, 169-181) but a login that has not
\* read its profile, which stays on the page it is on (auth.ts:100-109).
JamaisATort == marques.tort => marques.renouvellement \/ marques.reponse
=============================================================================
