--------------------------- MODULE SourceControl ---------------------------
(***************************************************************************)
(* The integration control plane: one data source, its connector, its      *)
(* encrypted credentials and its synchronisation jobs, worked on by        *)
(* administrators whose requests overlap (integrations/views.py,           *)
(* services.py, serializers.py; the form of the Odoo account in            *)
(* odoo_session.py).                                                       *)
(*                                                                         *)
(* A request that calls the outside, or reads a row and later saves it     *)
(* whole, is several steps: appel[a] is where a's request stands and what  *)
(* it has read.  A secret is the date (1, 2, ...) at which it was typed.   *)
(***************************************************************************)
EXTENDS Naturals, Sequences, FiniteSets

CONSTANTS
    Admins,         \* integration administrators
    Types,          \* the types of source the instance has
    Demos,          \* what "demonstration data" may be set to
    Essais,         \* ESSAIS_ENREGISTREMENT, refused trials before a pause
    Cles,           \* primary keys a connector may have, from 1 on
    MaxSecrets,     \* bound: secrets typed
    MaxJobs,        \* bound: synchronisations
    EditsOverlap,   \* may a row be written between an edit's read and save?
    TypeMayChange   \* may an edit change the type of the source?

\* What the constants are; the host module checks it.
SourceConstantes == /\ Types \subseteq {"kaydan_shield", "odoo_hr", "rest", "postgres"}
                    /\ {Essais, MaxSecrets, MaxJobs} \subseteq Nat /\ Cles \subseteq Nat \ {0}
                    /\ Demos \cup {EditsOverlap, TypeMayChange} \subseteq BOOLEAN

VARIABLES
    source,        \* the row: Jamais, Supprimee, or type, status, active, demo
    connector,     \* the row: Absente, or cle, url, config, ok (last_test_ok)
    credentials,   \* kind -> secret, 0 when there is none
    jobs,          \* statuses of the jobs, in their order of creation
    essais,        \* refused trials of the Odoo form, counted in Redis
    appel,         \* requests in flight
    typed,         \* number of secrets typed so far
    eprouves,      \* history: secrets that were tried before being stored
    repondu,       \* history: has the source ever answered a probe?
    interrompu     \* history: has a worker stopped in a synchronisation?

vars == <<source, connector, credentials, jobs, essais, appel, typed,
          eprouves, repondu, interrompu>>

Kinds == {"api_key", "api_token", "password", "database", "login"}
Statuses == {"not_configured", "configured", "connected", "syncing",
             "error", "disabled"}
Verdicts == {"inconnu", "oui", "non"}

Jamais == [existe |-> "jamais"]
Supprimee == [existe |-> "supprimee"]
Absente == [existe |-> "non"]
Sources == [type : Types, status : Statuses, active : BOOLEAN, demo : BOOLEAN]
Connectors == [cle : Cles, url : BOOLEAN, config : BOOLEAN, ok : Verdicts]
Rien == [op |-> "rien"]

TypeOK ==
    /\ source \in Sources \cup {Jamais, Supprimee}
    /\ connector \in Connectors \cup {Absente}
    /\ credentials \in [Kinds -> 0..MaxSecrets]
    /\ jobs \in Seq({"running", "success", "error"}) /\ Len(jobs) <= MaxJobs
    /\ essais \in 0..Essais
    /\ \A a \in Admins : appel[a].op \in
          {"rien", "test", "sync", "fiche", "connecteur", "compte"}
    /\ typed \in 0..MaxSecrets
    /\ eprouves \subseteq 1..MaxSecrets
    /\ repondu \in BOOLEAN
    /\ interrompu \in BOOLEAN

(***************************************************************************)
(* What the handlers compute                                               *)
(***************************************************************************)

\* validate_config: what each type needs before anything is sent.
ConfigValide(type, c, creds) ==
    /\ c # Absente
    /\ type \in {"rest", "kaydan_shield", "odoo_hr"} => c.url
    /\ type = "odoo_hr" => creds["database"] # 0 \/ c.config
    /\ type = "postgres" => c.config

\* run_test: the types whose probe proves something.
Sondable(type) == type \in {"kaydan_shield", "odoo_hr", "rest"}

\* run_test: three outcomes, not two.
StatutDuTest(ok, preuve) ==
    IF ~ok THEN "error" ELSE IF preuve THEN "connected" ELSE "configured"

\* mutant: a valid configuration counts as a successful test
VerdictSansPreuve(ok, preuve) == IF ok THEN "oui" ELSE "non"

\* run_test: without proof the verdict is unknown, not positive.
VerdictDuTest(ok, preuve) ==
    IF ~preuve THEN "inconnu" ELSE IF ok THEN "oui" ELSE "non"

\* ConnectorCredentialSerializer.validate
DepotAccepte(kind, type) == ~(kind = "password" /\ type = "kaydan_shield")

Libre(a) == appel[a] = Rien
Presente == source \notin {Jamais, Supprimee}

\* The row a request has read is still there.
EstLa(cle) == connector # Absente /\ connector.cle = cle

\* A new row has a key no request in flight knows, the first of them: it never
\* takes the place of a row that was deleted.
Connues == {appel[b].cle : b \in {b \in Admins : appel[b].op \in {"test", "compte"}}}
           \cup {appel[b].row.cle : b \in {b \in Admins : appel[b].op = "connecteur"}}
CleNeuve(cle) == cle \notin Connues /\ \A k \in Cles \ Connues : cle <= k

ConnecteurVide(cle) == [cle |-> cle, url |-> FALSE, config |-> FALSE, ok |-> "inconnu"]

\* No edit is between its read and its save.
AucuneFicheOuverte ==
    \A a \in Admins : appel[a].op \notin {"fiche", "connecteur"}
RowsFree == EditsOverlap \/ AucuneFicheOuverte

Ends(a) == appel' = [appel EXCEPT ![a] = Rien]
Status(s) == source' = [source EXCEPT !.status = s]

(***************************************************************************)
(* The source: create, edit, enable, delete                                *)
(***************************************************************************)

\* perform_create: the source, its connector, the status "configured".
Create(a, type, demo, cle) ==
    /\ Libre(a) /\ source = Jamais /\ CleNeuve(cle)
    /\ source' = [type |-> type, status |-> "configured", active |-> TRUE,
                  demo |-> demo]
    /\ connector' = ConnecteurVide(cle)
    /\ UNCHANGED <<credentials, jobs, essais, appel, typed, eprouves, repondu,
                   interrompu>>

\* perform_update reads the row; what it read is saved back whole.
OpenFiche(a) ==
    /\ Libre(a) /\ Presente
    /\ appel' = [appel EXCEPT ![a] = [op |-> "fiche", row |-> source]]
    /\ UNCHANGED <<source, connector, credentials, jobs, essais, typed,
                   eprouves, repondu, interrompu>>

\* serializer.save(): every column, the status included (it is read-only for
\* the client, not for the save).  A deleted row is inserted again.
SaveFiche(a, type, active, demo) ==
    /\ appel[a].op = "fiche"
    /\ TypeMayChange \/ type = appel[a].row.type
    /\ source' = [appel[a].row EXCEPT !.type = type, !.active = active,
                                      !.demo = demo]
    /\ Ends(a)
    /\ UNCHANGED <<connector, credentials, jobs, essais, typed, eprouves,
                   repondu, interrompu>>

\* toggle_active
Toggle(a) ==
    /\ Libre(a) /\ Presente /\ RowsFree
    /\ source' = [source EXCEPT
                    !.active = ~source.active,
                    !.status = IF source.active THEN "disabled" ELSE "configured"]
    /\ UNCHANGED <<connector, credentials, jobs, essais, appel, typed, eprouves,
                   repondu, interrompu>>

\* perform_destroy: connector, credentials and jobs go with the source.
Destroy(a) ==
    /\ Libre(a) /\ Presente /\ RowsFree
    /\ source' = Supprimee
    /\ connector' = Absente
    /\ credentials' = [k \in Kinds |-> 0]
    /\ jobs' = <<>>
    /\ UNCHANGED <<essais, appel, typed, eprouves, repondu, interrompu>>

\* DataConnectorViewSet.update: read, then saved whole, the verdict of the
\* last test included.
OpenConnector(a) ==
    /\ Libre(a) /\ Presente /\ connector # Absente
    /\ appel' = [appel EXCEPT ![a] = [op |-> "connecteur", row |-> connector]]
    /\ UNCHANGED <<source, connector, credentials, jobs, essais, typed,
                   eprouves, repondu, interrompu>>

\* A deleted row is inserted again, unless its source is gone or has another
\* connector (one to one): the save then fails.
SaveConnector(a, url, config) ==
    /\ appel[a].op = "connecteur"
    /\ connector' = IF Presente /\ (connector = Absente \/ EstLa(appel[a].row.cle))
                    THEN [appel[a].row EXCEPT !.url = url, !.config = config]
                    ELSE connector
    /\ Ends(a)
    /\ UNCHANGED <<source, credentials, jobs, essais, typed, eprouves, repondu,
                   interrompu>>

\* DataConnectorViewSet.destroy: the credentials go with the connector.
RemoveConnector(a) ==
    /\ Libre(a) /\ connector # Absente /\ RowsFree
    /\ connector' = Absente
    /\ credentials' = [k \in Kinds |-> 0]
    /\ UNCHANGED <<source, jobs, essais, appel, typed, eprouves, repondu,
                   interrompu>>

\* DataConnectorViewSet.create: a source has one connector at most.
AddConnector(a, cle, url, config) ==
    /\ Libre(a) /\ Presente /\ connector = Absente /\ CleNeuve(cle)
    /\ connector' = [ConnecteurVide(cle) EXCEPT !.url = url, !.config = config]
    /\ UNCHANGED <<source, credentials, jobs, essais, appel, typed, eprouves,
                   repondu, interrompu>>

(***************************************************************************)
(* Credentials                                                             *)
(***************************************************************************)

\* ConnectorCredentialSerializer.create: replaces the secret of its kind.
Deposit(a, kind) ==
    /\ Libre(a) /\ Presente /\ connector # Absente /\ typed < MaxSecrets
    /\ DepotAccepte(kind, source.type)
    /\ typed' = typed + 1
    /\ credentials' = [credentials EXCEPT ![kind] = typed + 1]
    /\ UNCHANGED <<source, connector, jobs, essais, appel, eprouves, repondu,
                   interrompu>>

\* A credential is deleted, by the page or the administration site.
Revoke(a, kind) ==
    /\ Libre(a) /\ Presente /\ credentials[kind] # 0
    /\ credentials' = [credentials EXCEPT ![kind] = 0]
    /\ UNCHANGED <<source, connector, jobs, essais, appel, typed, eprouves,
                   repondu, interrompu>>

\* reauthenticate with a service account: Shield has accepted it, it is
\* stored (its own steps are the subject of ShieldAuth).
ShieldAccount(a) ==
    /\ Libre(a) /\ Presente /\ connector # Absente /\ typed < MaxSecrets
    /\ source.type = "kaydan_shield" /\ connector.url
    /\ typed' = typed + 1
    /\ credentials' = [credentials EXCEPT !["password"] = typed + 1]
    /\ eprouves' = eprouves \cup {typed + 1}
    /\ UNCHANGED <<source, connector, jobs, essais, appel, repondu, interrompu>>

(***************************************************************************)
(* Testing the connection (run_test)                                       *)
(***************************************************************************)

\* get_object, validate_config.  With probe=0, or a type without a probe, or
\* an invalid configuration, nothing is sent; a source without a connector
\* has no verdict to keep.
BeginTest(a, probe) ==
    /\ Libre(a) /\ Presente
    /\ LET ok == ConfigValide(source.type, connector, credentials)
       IN appel' = [appel EXCEPT ![a] =
            [op |-> "test", ok |-> ok, preuve |-> FALSE,
             cle |-> IF connector = Absente THEN 0 ELSE connector.cle,
             pas |-> CASE connector = Absente -> "statut"
                       [] ok /\ probe /\ Sondable(source.type) -> "sonde"
                       [] OTHER -> "verdict"]]
    /\ UNCHANGED <<source, connector, credentials, jobs, essais, typed,
                   eprouves, repondu, interrompu>>

\* network_probe, the client's healthcheck or verifier_odoo has answered.
Probed(a, ok) ==
    /\ appel[a].op = "test" /\ appel[a].pas = "sonde"
    /\ appel' = [appel EXCEPT ![a].ok = ok, ![a].preuve = TRUE,
                              ![a].pas = "verdict"]
    /\ repondu' = (repondu \/ ok)
    /\ UNCHANGED <<source, connector, credentials, jobs, essais, typed,
                   eprouves, interrompu>>

\* connector.save(update_fields=[last_test_ok, ...])
StoreVerdict(a) ==
    /\ appel[a].op = "test" /\ appel[a].pas = "verdict"
    /\ EstLa(appel[a].cle) /\ RowsFree
    /\ connector' = [connector EXCEPT
                        !.ok = VerdictDuTest(appel[a].ok, appel[a].preuve)]
    /\ appel' = [appel EXCEPT ![a].pas = "statut"]
    /\ UNCHANGED <<source, credentials, jobs, essais, typed, eprouves, repondu,
                   interrompu>>

\* source.set_status and the log
StoreStatus(a) ==
    /\ appel[a].op = "test" /\ appel[a].pas = "statut" /\ Presente /\ RowsFree
    /\ Status(StatutDuTest(appel[a].ok, appel[a].preuve))
    /\ Ends(a)
    /\ UNCHANGED <<connector, credentials, jobs, essais, typed, eprouves,
                   repondu, interrompu>>

(***************************************************************************)
(* Synchronising (run_sync)                                                *)
(***************************************************************************)

\* The connector is read, the job created, the status announced.
BeginSync(a) ==
    /\ Libre(a) /\ Presente /\ RowsFree /\ Len(jobs) < MaxJobs
    /\ jobs' = Append(jobs, "running")
    /\ Status("syncing")
    /\ appel' = [appel EXCEPT ![a] =
         [op |-> "sync", job |-> Len(jobs) + 1, demo |-> source.demo,
          connected |-> connector # Absente /\ connector.ok = "oui"]]
    /\ UNCHANGED <<connector, credentials, essais, typed, eprouves, repondu,
                   interrompu>>

\* run_sync: a source that is not connected is not synchronised.
StatutApresSync(connected, demo) ==
    IF connected THEN "connected" ELSE IF demo THEN "configured" ELSE "error"

EndSync(a) ==
    /\ appel[a].op = "sync" /\ Presente /\ RowsFree
    /\ jobs' = [jobs EXCEPT ![appel[a].job] =
                  IF appel[a].connected \/ appel[a].demo
                  THEN "success" ELSE "error"]
    /\ Status(StatutApresSync(appel[a].connected, appel[a].demo))
    /\ Ends(a)
    /\ UNCHANGED <<connector, credentials, essais, typed, eprouves, repondu,
                   interrompu>>

(***************************************************************************)
(* The Odoo account (enregistrer_compte_odoo)                              *)
(***************************************************************************)

\* Too many refused trials, or a field missing, ends it before any trial.
\* The view gives a connector to a source that has none.
BeginAccount(a, cle) ==
    /\ Libre(a) /\ Presente /\ source.type = "odoo_hr"
    /\ essais < Essais /\ typed < MaxSecrets
    /\ IF connector = Absente
       THEN CleNeuve(cle) /\ connector' = ConnecteurVide(cle)
       ELSE connector.cle = cle /\ connector' = connector
    /\ typed' = typed + 1
    /\ appel' = [appel EXCEPT ![a] =
         [op |-> "compte", pas |-> "essai", cle |-> cle, essais |-> essais,
          secret |-> typed + 1]]
    /\ UNCHANGED <<source, credentials, jobs, essais, eprouves, repondu,
                   interrompu>>

\* Odoo refuses, and this is counted from what was read before the trial; or
\* it does not answer.  Nothing is stored.
AccountRefused(a, refus) ==
    /\ appel[a].op = "compte" /\ appel[a].pas = "essai"
    /\ essais' = IF refus THEN appel[a].essais + 1 ELSE essais
    /\ Ends(a)
    /\ UNCHANGED <<source, connector, credentials, jobs, typed, eprouves,
                   repondu, interrompu>>

AccountAccepted(a) ==
    /\ appel[a].op = "compte" /\ appel[a].pas = "essai"
    /\ appel' = [appel EXCEPT ![a].pas = "database"]
    /\ eprouves' = eprouves \cup {appel[a].secret}
    /\ repondu' = TRUE
    /\ UNCHANGED <<source, connector, credentials, jobs, essais, typed,
                   interrompu>>

\* What follows the trial is one write after another, each of its own.
Suivant == [database |-> "login", login |-> "api_key", api_key |-> "menage",
            menage |-> "connecteur", connecteur |-> "statut", statut |-> "oubli"]
Avance(a) == appel' = [appel EXCEPT ![a].pas = Suivant[appel[a].pas]]

StoreSecret(a) ==
    /\ appel[a].op = "compte" /\ appel[a].pas \in {"database", "login", "api_key"}
    /\ EstLa(appel[a].cle)
    /\ credentials' = [credentials EXCEPT ![appel[a].pas] = appel[a].secret]
    /\ Avance(a)
    /\ UNCHANGED <<source, connector, jobs, essais, typed, eprouves, repondu,
                   interrompu>>

\* Older passwords and tokens are deleted.
DropOldSecrets(a) ==
    /\ appel[a].op = "compte" /\ appel[a].pas = "menage" /\ EstLa(appel[a].cle)
    /\ credentials' = [credentials EXCEPT !["password"] = 0, !["api_token"] = 0]
    /\ Avance(a)
    /\ UNCHANGED <<source, connector, jobs, essais, typed, eprouves, repondu,
                   interrompu>>

\* refresh_from_db, then connector.save(): the URL and the verdict are set, the
\* database and the login leave the configuration.
SaveVerified(a) ==
    /\ appel[a].op = "compte" /\ appel[a].pas = "connecteur"
    /\ EstLa(appel[a].cle) /\ RowsFree
    /\ connector' = [cle |-> appel[a].cle, url |-> TRUE, config |-> FALSE, ok |-> "oui"]
    /\ Avance(a)
    /\ UNCHANGED <<source, credentials, jobs, essais, typed, eprouves, repondu,
                   interrompu>>

AnnounceVerified(a) ==
    /\ appel[a].op = "compte" /\ appel[a].pas = "statut" /\ Presente /\ RowsFree
    /\ Status("connected")
    /\ Avance(a)
    /\ UNCHANGED <<connector, credentials, jobs, essais, typed, eprouves, repondu,
                   interrompu>>

\* The count of trials is forgotten.
FinishAccount(a) ==
    /\ appel[a].op = "compte" /\ appel[a].pas = "oubli"
    /\ essais' = 0
    /\ Ends(a)
    /\ UNCHANGED <<source, connector, credentials, jobs, typed, eprouves, repondu,
                   interrompu>>

\* The count of trials expires (FENETRE_ENREGISTREMENT).
WindowEnds ==
    /\ essais > 0 /\ essais' = 0
    /\ UNCHANGED <<source, connector, credentials, jobs, appel, typed,
                   eprouves, repondu, interrompu>>

\* The row the next write of the request needs was deleted meanwhile: it
\* fails, and so does the request.
Privee(r) ==
    \/ r.op = "sync" /\ ~Presente
    \/ r.op = "test" /\ IF r.pas = "statut" THEN ~Presente ELSE ~EstLa(r.cle)
    \/ /\ r.op = "compte"
       /\ \/ r.pas \in {"database", "login", "api_key", "menage", "connecteur"} /\ ~EstLa(r.cle)
          \/ r.pas = "statut" /\ ~Presente

Lost(a) ==
    /\ Privee(appel[a])
    /\ Ends(a)
    /\ UNCHANGED <<source, connector, credentials, jobs, essais, typed,
                   eprouves, repondu, interrompu>>

\* The worker is stopped in the middle of a request.
Crash(a) ==
    /\ ~Libre(a)
    /\ Ends(a)
    /\ interrompu' = (interrompu \/ appel[a].op = "sync")
    /\ UNCHANGED <<source, connector, credentials, jobs, essais, typed,
                   eprouves, repondu>>

Init ==
    /\ source = Jamais
    /\ connector = Absente
    /\ credentials = [k \in Kinds |-> 0]
    /\ jobs = <<>>
    /\ essais = 0
    /\ appel = [a \in Admins |-> Rien]
    /\ typed = 0
    /\ eprouves = {}
    /\ repondu = FALSE
    /\ interrompu = FALSE

Request(a) ==
    \/ \E type \in Types, demo \in Demos, cle \in Cles : Create(a, type, demo, cle)
    \/ OpenFiche(a) \/ OpenConnector(a) \/ Toggle(a) \/ Destroy(a)
    \/ RemoveConnector(a)
    \/ \E cle \in Cles, url, config \in BOOLEAN : AddConnector(a, cle, url, config)
    \/ \E kind \in Kinds : Deposit(a, kind) \/ Revoke(a, kind)
    \/ ShieldAccount(a)
    \/ \E probe \in BOOLEAN : BeginTest(a, probe)
    \/ BeginSync(a)
    \/ \E cle \in Cles : BeginAccount(a, cle)

Continue(a) ==
    \/ \E type \in Types, active \in BOOLEAN, demo \in Demos : SaveFiche(a, type, active, demo)
    \/ \E url, config \in BOOLEAN : SaveConnector(a, url, config)
    \/ \E ok \in BOOLEAN : Probed(a, ok)
    \/ StoreVerdict(a) \/ StoreStatus(a)
    \/ EndSync(a)
    \/ \E refus \in BOOLEAN : AccountRefused(a, refus)
    \/ AccountAccepted(a) \/ StoreSecret(a) \/ DropOldSecrets(a)
    \/ SaveVerified(a) \/ AnnounceVerified(a) \/ FinishAccount(a)
    \/ Lost(a)

Next ==
    \/ \E a \in Admins : Request(a) \/ Continue(a) \/ Crash(a)
    \/ WindowEnds

Spec == Init /\ [][Next]_vars

(***************************************************************************)
(* Properties                                                              *)
(***************************************************************************)

\* run_test, run_sync (services.py:178-191, 255): a source is only announced
\* as connected if it has answered.  A synchronisation repeats the verdict of
\* an earlier test, so it must not read "valid configuration" as "it answers".
ConnectedProven == (Presente /\ source.status = "connected") => repondu

\* serializers.py:41: the password of a Shield service account is only stored
\* by the form that tries it (as long as the type of the source is not edited).
PasswordTried ==
    (Presente /\ source.type = "kaydan_shield" /\ credentials["password"] # 0)
        => credentials["password"] \in eprouves

\* run_sync (services.py:253-272): "synchronising" is announced only while a
\* request synchronises, whatever tests and toggles do meanwhile, as long as
\* no worker is stopped there and no edit saves back an old status.
SyncingHasOwner ==
    (Presente /\ source.status = "syncing" /\ ~interrompu)
        => \E a \in Admins : appel[a].op = "sync"
=============================================================================
