# K-Insight: formal models of the governance backend

K-Insight is a Django backend (`backend/`) and a React front end
(`frontend/web/`). It reads human-resources data from two external systems,
Kaydan Shield and Odoo, keeps dated snapshots of it, computes indicators, scores
and reports, and lets an AI copilot propose actions that people approve. It runs as
several gunicorn workers with threads, Celery workers with Celery Beat, a PostgreSQL
database and a Redis cache: what the parts share, and what may happen between two
steps of a part, is where it is hard to test.

This directory holds TLA+ models of the parts where that matters, the TLC
configurations that check them on small instances, and TLAPS proofs of what holds for
every instance.

- [Inventory](#inventory)
- [Modules](#modules)
- [Runs](#runs): what each checks, with which bounds, and what it shows
- [Disagreements between the code and what it says](#disagreements)
- [Fairness](#fairness)
- [Proofs](#proofs)
- [What is not modelled](#what-is-not-modelled)
- [Plan](#plan)

Paths below are relative to `backend/apps/` unless they begin with `backend/` or
`frontend/`.

## Inventory

| part | state it keeps | operations | works with | hard because |
|---|---|---|---|---|
| **AI copilot approvals** `ai_copilot/tools.py`, `views.py` | action requests, approvals, tool executions | execute (files a request), approve, reject | roles, audit | rights are read before the row lock; concurrent approvals; roles and accounts change between signatures |
| **Odoo session** `integrations/odoo_session.py`, `odoo_client.py` | uid and cooldown, per process and in Redis; two locks | uid, invalidate, prime, replay after a refusal, registration form | Odoo, Redis | threads and processes; an expiring lock; Redis down; dead holders; late refusals |
| **Shield session** `integrations/shield_auth.py` | rotating token pair, service account, memo in one JSON column | renew, log in again, register an account, paste a token | Shield, database | each token is good for one use; two workers; answers lost after the rotation; whole-column writes |
| **Scheduled reports** `governance/rapports_programmes.py`, `rapports_views.py` | reports, next sending time, recipients, traces | Beat's task, the button, create, edit, delete | Celery, SMTP, roles | overlapping tasks with old lists; edits that write whole rows; crashes between advance and mail |
| **Shared payloads** `integrations/partage.py`, thresholds `governance/seuils_rh.py` | payload, thresholds and lock in Redis | read, forget, arbitrate a threshold | Shield and Odoo reading | expiring lock, waiters that give up, invalidation during a collection |
| **Shield HTTP client** `integrations/shield_client.py` | memory, requests in flight | get, wait for a twin, replay after 401 | Shield session | threads; a leader that fails; retries |
| **HR history** `governance/historique.py`, `tasks.py` | daily snapshots, job traces, collection lock | collect presence, stocks, Odoo; catch up; read a period, compare | Shield, Odoo, Celery | a lock that outlives its holder; a failed collection after a good one; partial days; leap years |
| **Source control plane** `integrations/views.py`, `services.py`, `serializers.py` | status of a source, last test, secrets, jobs | create, edit, test, synchronise, enable and disable, delete, register accounts | sessions, database | several writers of one status; trials before storage; a connector deleted or created under a request |
| **Shield and Odoo reading** `integrations/shield.py`, `shield_rules.py`, `shield_structure.py`, `odoo.py` | none | read, truncate, publish with a state | clients, history | one reading of several fails or is cut short |
| **Roles and perimeter** `accounts/rbac.py`, `models.py`, `backend/src/k_insight/access` | users, declared companies | permissions, scope, page access, filters | every view | many doors onto the same figures; a payload shared between accounts |
| **Indicators, signals, score** `governance/hr_registry.py`, `lecture_rh.py`, `signaux_rh.py`, `seuils_rh.py`, `decision_rh.py`, `score_rh.py`; `backend/src/k_insight/kpi` | thresholds | judge, compare, score | history | what is not measured; the same figure judged twice |
| **Pages of the mart** `governance/module_views.py`, `views.py`, `services.py`, `gateway.py`, `exports.py` | none | page, index, alerts, export | warehouse, roles | the warehouse does not answer; partial domains |
| **Copilot conversation and questions** `ai_copilot/services.py`, `views.py`, `providers.py`; `k_insight/semantic` | conversations, messages | chat, delete, resolve a question | providers, tools | several tabs; providers and tools that fail, some in ways nobody catches; a grounded figure |
| **Copilot automations** `ai_copilot/tasks.py` | last run of each automation | run what is due | Celery, tools | no lock between two ticks; forms that save whole rows |
| **Browser session** `frontend/web/src/lib/api.ts`, `auth.ts`, `sw.ts`; `accounts/jwt_views.py` | token pair in localStorage, HTTP cache | call, renew, log in and out, cache | JWT endpoints | a logout during a renewal; answers stored after the purge, or after the page stopped waiting; a login without its profile |
| Trusted proxy, administration site, diagnostic commands, front end, organisations, warehouse | | | | not modelled, see below |

What makes each part correct:

- *approvals*: an action runs at most once, with as many distinct signatures as its
  tool requires, in the name of somebody who holds the right at that moment, and a
  decision is final;
- *Odoo session*: one `authenticate` at a time, never over a uid just obtained, never in a
  loop, a cooldown for refusals only, and every request ends;
- *Shield session*: no refresh token is presented after its exchange, nor after a refusal
  when there is an account to log in with; a live token is never taken for a dead one; the
  verdict on the account lasts; and the link comes back by itself;
- *scheduled reports*: nobody receives one report twice for one due time, a trace says
  "sent" only of what was sent, and every due report is taken;
- *shared payloads, client, history*: one collection, one call, one writer at a time, and
  nothing newer replaced by something older;
- *control plane*: what it says of a source was proved by a trial;
- *readings, indicators, pages*: a figure is exact, or what it was made of is said to be missing; two pages that show
  one figure agree; nobody sees beyond their perimeter, by any door;
- *copilot*: an automation only reads; a conversation keeps whole pairs; an answer quotes no
  other metric's figure;
- *browser*: a closed session stays closed, and stored data are those of the account connected.

Where the code does not keep these, the properties say how far it goes, and [Disagreements](#disagreements) the rest.

The hazards of this code are in `PROJECT.json`, each at its line, with the property that would
catch it, or the reason why none does.

## Modules

| module | is |
|---|---|
| `ApprovalPromise` | abstract specification of an approved action: it runs once, in the step that brings its last signature, or never |
| `ActionApproval` | the approval circuit, which implements `ApprovalPromise` |
| `OdooSession` | one set of Odoo credentials and its users |
| `ShieldAuth` | the Shield connector's tokens and their users |
| `RapportsProgrammes`, `Echeances` | the scheduled reports; their calendar |
| `Partage` | the shared payload of Shield and the thresholds it is judged with |
| `ShieldClient` | one HTTP client shared by threads |
| `Historique`, `LectureHistorique` | the daily collections; the periods and values read from them |
| `SourceControl` | one source, its connector, secrets and jobs |
| `LectureShield`, `LectureOdoo` | what is published of each system |
| `Acces` | roles, perimeters and every door onto a figure |
| `Indicateurs` | thresholds, findings, decision page, scores, stocks and flows |
| `Gouvernance`, `Catalogue` | the pages of the mart; the catalogue of metrics and the questions |
| `Automates`, `Conversation` | the copilot's automations and chat |
| `SessionNavigateur` | the session of a browser tab and its renewal |
| `*_proofs` | theorems: one module for each of the four core models and the shared payload; for the other parts, `MCPlateforme_proofs` (history, sources, automations, indicators, deadlines), `MCPlateforme_usagers_proofs` (doors, chat, catalogue, browser, client, payload, types) and `MCPlateforme_lectures_proofs` (periods, mart, readings) |
| `MC*` | instances for TLC; `MCPlateforme` holds one of each of the other parts |

Definitions whose comment begins with `mutant:` are plausible bugs. They stand just
before the definition they would replace, nothing uses them, and each breaks a property:
they show that the property depends on the code being as it is.

The modules are of two kinds. Those whose steps **interleave** have an action per step of the
code between two points where another actor may come in. Those of **one step**
(`LectureShield`, `LectureOdoo`, `LectureHistorique`, `Echeances`, `Indicateurs`, `Gouvernance`,
`Catalogue`) choose a case (`cas`: what the sources hold, which readings fail, who asks for what)
and then publish what the code makes of it (`publie`, `rendu`, `juge`, `suite`) by operators that are
the functions of the code; their properties are reference definitions and relations between the results.

### ActionApproval

A request to `approve/` or `reject/` is two steps, because the caller's role is read before
the row is locked (tools.py:149, 154). `call[c]` is a request between the two.

| code | model |
|---|---|
| `PermissionAwareToolExecutor.execute` on a tool that needs an approval | `Execute` |
| the views find the request, the service tests the role | `Begin` |
| `approve`, the transaction: status test, unique signature, count, requester's right, handler | `Approve` |
| `reject`, the transaction | `Reject` |
| `ToolError`, `IntegrityError`, row gone: the transaction rolls back | `Refuse` |
| an administrator changes roles, an account is deleted | `ChangeRole`, `DeleteAccount` |

What a handler does is abstracted to success or failure: `_run` turns every exception of a
tool into a `ToolError`. Foreign keys behave as `models.py` declares them: the requests of a
deleted account go with it, its signatures stay.

### OdooSession

`lUid`, `lRefus` are the fields of `SessionOdoo` in each process while not expired, `kept` its `_uid` expired or not (`invalider` compares that one), `sUid`, `sRefus`, `sLock` the
keys in Redis, `mutex` the `threading.Lock`. A thread goes through `uid()` in the steps the
code takes: `Look` and `Cool` without the lock, `Lock`, `Recheck`, `Add` (`cache.add`), `Poll` and
`GiveUp` (the wait for another process), `Authenticate` and its outcomes, `Release`,
`Publish`, then `Call`, and `Drop` (`invalider`) after a refusal, once. `Prime` and `Share` are an
administrator's verification, which does not take the lock. The environment suspends or
recreates the account, lets keys expire, makes Redis unreachable and stops processes; the
constant `Disruptions` says which of these an instance has.

`own` and `overtaken` are history variables: `own[p]` says that the uid of the process was
obtained under its lock, `overtaken[t]` that the process obtained a uid after t's was refused.

### ShieldAuth

Shield keeps `fresh`, `spent` and `refused` refresh tokens; the database keeps the secrets and
`config`, the JSON column, of which each thread has a copy `conf[t]` that `_memoriser` writes
back whole. `Begin` to `Memorise` is `renouveler`, forced or not, with `reconnecter` inside;
`BeginEnrol` and `BeginPaste` open the two administrator's forms, which do not take the lock. The
exchange with Shield and each of the writes after it (access, refresh, memo) are separate
steps, so a crash or another thread may come between any two.

`marks` is a history variable: `overlap` says that a thread entered a form, or the lock, while another thread (of this
worker or another) was under way, `assumed` that a form condemned a token it had not tried.

Token names are finite and used again: `Unheld` says that neither the database nor a thread
has the name. This is sound because nothing compares a token with one that nobody holds. `BeginPaste` takes such a name:
the operator pastes a token he has from Shield, good or spent, and never the one that is stored, which no page shows.

### RapportsProgrammes

A worker's task takes `maintenant` once and lists the due reports (`Start`), then looks at each again
under its row lock and advances it (`Take`; the tasks that come upon the locked row pass it over, `PassedOver`) or finds it advanced, suspended or gone (`Skip`), loads its recipients (`Load`), renders and mails
(`Send`, `Fail`, `Ignore`, `Raise`), and traces (`Trace`). The button (`Press`) sends without an
echeance. The page creates, edits and deletes (`Create`, `Open`, `Save`, `Refuse`, `SetRecipients`,
`Remove`): `patch` reads a row, validates, and saves every column, which inserts the row again
if it was deleted meanwhile. That a task may also pass over a row because an edit's save, or a task about to stop, holds it for an
instant is left out: it leaves the row to the next task.

Time is a small number and the next echeance a multiple of the period; the calendar
(Mondays, first days of months, 07:00) is abstracted to "strictly later". `mailed` is what left, whatever
is written about it; `envoyes` is what the table says was sent. The constant `EditsOverlap` says
whether a task may take a report between an edit's read and its save: it may, and
`reports_edit` shows what happens then; with `FALSE` the other properties are checked free of that one cause.

### Partage

`lire` in its steps: `Hit`, `Miss`, `Lock` (`cache.add`), `Served` and `Impatient` (the wait), the
collection, `Unlock`, and only then `Store`, which is the order of partage.py:57-66. The collection reads the
thresholds (`Thresholds`, `CopyThresholds`) and a payload is known by their version. The PUT of a threshold is
`ReadBefore`, `Decide`, `ForgetThresholds`, `ForgetPayload`, `ForgetAgain`, `Audit`. Keys expire, a collector stops.

### ShieldClient

`get_json` of one URL by the threads of a worker: the memory, `Announce` (the event in flight: first or follower),
`Awake`, the attempts and their outcomes (`Reply`, `AttemptFails`, `Refused`), `Reauthenticate` after a 401 and the
replay (`ReplayRefused`, `ReplayCut`), `Release` in the `finally`. The session it renews is `ShieldAuth`, seen here
as renewed or not.

### Historique and LectureHistorique

A collection is `Start` (the trace and `cache.add`) or `StartBlind` when Redis is down, `Read`, `Write` in one transaction,
`Release`, `Trace`; the source changes, midnight passes, locks expire and workers stop. A measure is the
version of the source it was read from. A complete reading writes the Group, the kinds of staff and the sites that appear in it: a site that no longer
appears keeps its last line. An incomplete one writes the Group's counts alone, as unknown. So the lines of one day may be of several readings, and `DayIsWhole` says which
agree: the kinds with the Group where it is measured, and with each other always; no site is of a later reading than they. `LectureHistorique` has the periods (`Periode`, `Precedente`, `AnneePrecedente`, `Lire` for what a
request asks), on real dates of 2023 to 2025, and the value of one (`Agreger`, `Ventiler`) from rows that may be absent or unknown.

### SourceControl

A test is `BeginTest`, `Probed`, `StoreVerdict`, `StoreStatus`; a synchronisation `BeginSync`, `EndSync`; an edit `OpenFiche` or
`OpenConnector`, then a save of every column; the Odoo form `BeginAccount` (which gives a
connector to a source that has none), the trial, then one write after another: `StoreSecret` three times, `DropOldSecrets`, `SaveVerified`, `AnnounceVerified`,
`FinishAccount`. Connectors are created and deleted (`AddConnector`, `RemoveConnector`); a row created after a deletion is another row (`cle`), and a request whose row is gone fails.
Any of them may be cut by a stop. A secret is the date it was typed. `EditsOverlap` and `TypeMayChange` are FALSE in the instances:
an edit saved over a concurrent write brings an old status back (the serializers save whole rows), and an edit
of a source's type turns an untried password into one of the new type. The two are listed below, under what else was seen.

### Acces

`ScopeGroupe`, `Permissions`, `PeutModuleRh` are the rules of rbac.py and models.py; `Servi` is what each door
(Shield and Odoo figures, pages of modules, metrics of the history, score, signals, decision, report, mart pages) answers to an account
and a filter: a refusal, nothing, or values known by *what they add up* (the Group, a site, some companies).
The correspondence of companies is edited (`Declarer`) and the payloads shared between accounts are kept and expire
between two requests.

### The readings and the judgements

`LectureShield` follows the key figures, sites, series, overview, security and structure through readings that fail or are cut
at a number of rows; `LectureOdoo` the key figures, departments, reference and health through the two attempts of a call
and the kinds of answer Odoo gives, the departments being read after the counts from an Odoo that may have changed (`ensuite`). `Indicateurs` has the
thresholds and their two steps, the findings of the day and of the decision page, the sort and the cut, the numbers that each finding's sentence and rule hold and the
guard that lets a synthesis quote those (`Autorises`), the linear score and its
weights, the alerts and the movements of staff. `Gouvernance` has the scores by domain, the index, alerts, exports, HR summary and
overview, for each reader and for a warehouse that answers or not. `Catalogue` has all metrics of
`k_insight/semantic` as sets of words. `Echeances` has the calendar that `RapportsProgrammes` abstracts.

### Automates, Conversation

A tick lists the due rows (`Commencer`), then examines each (`Examiner`), runs its tool (`Lancer`) and notes it (`Noter`), while a
form reads and saves a row, rows and authors are deleted and workers stop. A chat is received, acts (the tool may fail, or be refused to the account)
or is answered by the first provider that does not step aside, and stores question and answer one after the other (`StockerQuestion`,
`StockerReponse`), while other tabs chat or delete. A provider steps aside (no key, `ProviderUnavailable`), breaks in a way the router does not catch (`http.client` exceptions,
an answer of another shape), gives a null text, or answers: a broken one is a 500 with nothing stored, a null text a 500 with the question alone.

### SessionNavigateur

What follows an answer runs to the next `await` at once, as JavaScript does. `vol` is
`renouvellementEnVol`; calls wait for their answer, for the renewal, or for the answer of their replay; the service worker stores answers
later (`Ranger`), and after six seconds hands over what its cache has while the request goes on and is stored when it is answered (`Tarder`). A login stores its tokens and then
asks for the profile (`Connexion`); if that fails, whatever the cause, the session is cancelled (`ConnexionAnnulee`). A definitive 401 erases the session and reloads the page, unless it is `/login`
(`Fermer`). The end of a session empties the caches, which takes time too.

## Runs

All bounds are constants of the modules, set in the `.cfg` files or in the INSTANCEs of `MCPlateforme`.

| run | instance | shows |
|---|---|---|
| `odoo_workers` | 2 processes, a request in each, an administrator, 2 uids; refusals, renumbering, expiry, network failures, crashes | no loop, one authenticate across processes while Redis answers, a cooldown only after a refusal |
| `odoo_disturbed` | 2 requests in one process, an administrator in another; Redis goes and comes, locks expire, processes crash | one authenticate per process, none over a uid just obtained, every request ends |
| `odoo_cooldown` | 2 requests of one process | *violation*: the cooldown is not honoured |
| `odoo_drop` | 2 requests of one process, the account suspended and restored | *violation*: a replaced uid is thrown away |
| `shield_worker` | 1 worker, 2 callers, a form, 3 disruptions among lost answers, network failures, answers without refresh, revocation and account changes | refusals remembered, live tokens not condemned and the verdict on the account lasting while no two threads are under way at once; no spent token is presented, ever |
| `shield_link` | 2 workers, 1 disruption among lost answers, revocation, network failure, crash | the link comes back |
| `shield_rotation` | 2 workers, no disruption | *violation*: a spent token is presented |
| `shield_account` | 1 worker, a renewal and a form | *violation*: a registered account is forgotten |
| `reports` | 2 reports (one whose rendering raises), 2 workers, 1 edit, periods 1 and 2, time to 2, 1 fault | one mail per echeance, true traces, no starvation |
| `reports_edit` | 1 report, 2 workers, 1 edit that overlaps | *violation*: mailed twice |
| `plateforme` | the 17 parts of `MCPlateforme` | everything else, see below |
| `history_incomplete` | `Historique` with 1 site, 2 workers, 2 days, 2 collections of which one may be cut | *violation*: an incomplete day is not written unknown as a whole |

### The run `plateforme`

`MCPlateforme` extends the approval circuit and instances the other modules. A behaviour is a behaviour of *one* part, chosen at the start:
the state space is the sum of those of the parts. The parts other than the approvals share ten registers, `x1` to `x10`; each `INSTANCE` says
what a register holds for it, and `PartTypeOK` is the type invariant of the part at hand. Calls, administrators and browser accounts are only compared
for equality: TLC takes their permutations as symmetries (no liveness is checked here). The run takes
between three and four minutes with two workers.

| property | of the parts | says |
|---|---|---|
| `RunsAtMostOnce`, `FourEyes`, `RunsForEntitledRequester`, `DecisionsAreFinal`, `KeepsPromise` | approval | an action runs once, with distinct signatures of people who did not reject it, for somebody entitled at that moment; decisions are final; `ApprovalPromise` is implemented |
| `Prouve` | source, secrets | "connected" was proved by an answer; "synchronising" has a worker; a stored Shield password was tried |
| `PersonneNAttendPourRien`, `AppelsComptes` | client | an event in flight has an owner that runs, and so does whom a follower waits for; one call for twins while nothing fails; bounded attempts and one renewal |
| `OneCollector`, `ArbitrageSuivi` | partage | one collector while the lock outlives the collection; after an arbitration what is served was judged by it |
| `JourneesEntieres`, `NeverOlder` | historique | one collection of a day at a time; the kinds of staff of the Group's reading where it is measured, no site of a later one; totals with their terms; a line is never replaced by an older reading |
| `PerimetreTenu`, `PortesConcordent` | acces | nobody reads beyond their perimeter; two doors onto one figure let the same people in; a filter is applied or said not to be |
| `LectureFidele` | shield, odoo | in the key figures, the security and the overview a failed reading removes its figures and shows in the state; in the structure a list read in full is counted exactly, and employees that could not be read, counted 0 beside workers that were, show in the state alone; series and sites of a day read in full are exact, and so are departments while Odoo did not change between two calls; the dates shown are those of the figures; a figure for some companies counts no other |
| `PeriodesComparables` | periodes, echeances | two periods compared are disjoint, ended and made of days both know whole; a report is next sent on the first day of its frequency after the moment asked for |
| `JugementsCoherents` | indicateurs | thresholds in order, findings and signals agree, the cut keeps the gravest, the guard lets through whole the synthesis made of the findings kept, the score is of what is measured, stocks and flows reconcile |
| `MartFidele` | gouvernance | nothing outside the perimeter, the index is that of the measured domains, alerts are founded, HR figures agree from page to page unless the mart holds no row, and none is given while it is down |
| `QuestionFondee` | catalogue | a metric is found by its name, and an answer quotes no other's figure |
| `CopiloteTenu` | automates, conversation | automations only read, and not twice within their interval except for the causes listed; messages in pairs, actions said as they went, an answer unless the provider whose turn it is breaks uncaught or gives a null text |
| `SessionTenue` | navigateur | a closed session stays closed, stored data are the connected account's, nobody still welcome is sent to the login page; but for renewals and answers, late ones included, in flight when somebody logs in or out |

Several of these hold under a condition that a history variable carries (`depasse`, `serein`, `trouble`, `interrompu`,
`excusees`, `marques`): the code's own comments claim no more, and the condition is where the promise ends.

Why the bounds are enough:

- *approval*: a destructive action needs two signatures, so three people let a third sign too late, and
  three calls let two of one person and one of another be between their role check and the lock together. Requests do not
  interact, except that an account's deletion removes all of its own.
- *odoo*: each property is about two parties, in one process (`odoo_disturbed`) or two (`odoo_workers`);
  a third request would wait as one of these does. Two uids let Odoo renumber the account under a request.
- *shield*: a thread holds at most two tokens and the database one. Three tokens are enough for two
  callers of one worker, since only one of them is inside the lock; a form is outside the lock and
  needs a fourth. Three disruptions let a refusal, a login without refresh and a failure follow each other, which
  is the sequence the durable flag `refresh_condamne` exists for.
- *reports*: time 0 to 2 gives an echeance of period 1 that passes twice and one of period 2 that
  passes once; two workers give an old list and a new one. There is one recipient in the run: the
  task handles recipients one by one and the proof is for any number.
- *client, partage, historique*: three parties, so that a leader, a follower and a late comer exist together; three versions or readings
  in `partage` let an arbitration fall before, during and after a collection.
- *source, secrets*: two administrators; one job or one secret at a time, in two instances, because tests and secrets meet only in the status. Two keys
  of connectors with tests, so that a request may hold a row that was deleted and replaced; one with secrets, deleted and created again once no request knows it.
  `Demos` is {FALSE} with secrets: only the end of a synchronisation reads the demonstration flag.
- *acces*: two subsidiaries, two Odoo companies and two Shield companies, one of which is declared to none; one account of each rule of
  rbac.py, directors in every combination of the boxes that could widen them.
- *gouvernance*: two subsidiaries, because sums and means over one cannot be wrong, and a trend of two of the three months that the rows are of.
- *cases*: each set of cases holds the equalities (a measure on a threshold, a day at the end of a month of 2024, a reading of exactly the
  limit) as well as both sides of them.
- *automates, conversation, navigateur*: two ticks, two messages, two calls and two accounts of one workstation.
- *history_incomplete*: two collections of one day, a good one and an incomplete one, are all it takes.

`CHECK_DEADLOCK FALSE` is set where the system may stop: no account left that could act, every
request of the instance ended, or the case of a one-step part published.

## Disagreements

Met while modelling; each is a run that TLC finds violated, and an entry of `PROJECT.json`.

1. **The cooldown is tested once, before the lock** (`odoo_cooldown`, odoo_session.py:147-151). Threads
   that were waiting for the process lock while the account was refused each authenticate again,
   though line 23 says a refusal is not retried before a delay.
2. **A replaced uid is not recognised** (`odoo_drop`, odoo_session.py:195). The comparison is between
   numbers, and the account keeps its number: a late refusal throws away the uid that another
   request has just obtained, which lines 188-192 say does not happen.
3. **Two workers present one refresh token** (`shield_rotation`, shield_auth.py:512). The check "has the token
   changed already?" (lines 81-83) is a read before the exchange; between processes nothing protects
   the interval to the deposit. Shield refuses the second, which then logs in with the service account if there is one.
4. **A registered service account is forgotten** (`shield_account`, shield_auth.py:494). A renewal that
   began before the form writes back the JSON column it had read, without the address the form has
   just stored. The same cause lets a worker or a form erase another's verdict on the account: this is why `VerdictDurable`
   and the two like it say nothing once two threads have been under way at once.
5. **An edit brings an old echeance back** (`reports_edit`, rapports_views.py:179). The page saves every
   column, `prochain_envoi` included, as it read it; a task that took the report in between has its advance
   undone, and the report is sent again.
6. **An incomplete day is not written unknown as a whole** (`history_incomplete`, historique.py:114-121). A collection that is truncated or meets an error writes
   `unknown` on the Group's three counts and returns; the lines by kind of staff and by site of a day measured before keep their values, where
   lines 90-92 say the day is written `unknown` « dans son ENSEMBLE ».

Others contradict a line of the repository too. The models have them, no run of its own shows them, and the properties stop short of what the line says.

- *A warehouse that fails breaks four pages* (module_views.py:96, 123). The index of the Group, the alerts and both exports call the gateway without `fetch_or_unavailable`: a 500,
  where gateway.py:36-39 and tests.py:493 say never.
- *Zero for what was not measured.* On an empty mart the overview and the copilot give 0, and so does every page of the HR figures for a period without a row, though services.py:57-66,
  tests.py:543-544 (« Un mart vide ne doit pas produire 0 XOF ») and value_resolver.py:5-7 say that nothing is shown then. `ChiffresRhConcordent` says what each page gives.
- *Employees that could not be read are 0* in a structure whose workers were read, with no deadline of a contract (shield_structure.py:289-301); line 271 says « jamais un effectif à 0 ». The state is
  "partial" (`StructureExacte`).
- *A provider may break uncaught.* providers.py:7-8 has the grounded sentence always answer; `_post` does not catch `http.client.IncompleteRead` (105), nor `complete` a `TypeError` (131-134, 156-160) or a null text:
  the chat answers 500 (`RepliAssure`).
- *More numbers may be quoted than those of the findings.* decision_rh.py:16 and 317 speak of numbers absent from the findings; `autorises` is every number of the period's label, the findings and the blind
  spots (255, 275), rules included (`Autorises`).
- *A sensitive automation files no request.* models.py:179-181 and tasks.py:3-5 say it does; tasks.py:33-39 blocks it and stops there.

Also seen, without a line of the code that says otherwise, or too small for a run of its own.

- *Sessions.* The form that registers an account writes `refresh_condamne` when its login brings no refresh (shield_auth.py:792), though nothing was learnt of the token already stored, which may live: `assumed`.
  Two processes that miss the uid together authenticate one after the other, since nothing looks for a uid after
  `cache.add` succeeds. The uid read from Redis is stored in the process outside the lock (odoo_session.py:128), one step of the model: it costs at most one more refusal.
- *Approvals.* A signature goes on counting after its author has lost the role or the account.
- *Control plane.* The serializers save whole rows, over a concurrent status or verdict, and insert a deleted connector again. A synchronisation that ends after the switch marks a disabled source connected. A source's type may be edited after a password was stored
  untried. Two Odoo forms may mix their secrets, and pass the limit of refused trials. A crash inside `run_sync` leaves "syncing" and a running job.
- *Shared payloads.* A payload collected during an arbitration is stored after it, and judged by the old thresholds until it expires.
- *Shield client.* After a failure a follower calls without an event and pops that of another. A replay that is cut raises an exception no caller qualifies.
- *History.* A whole first quarter of 90 days is compared with a fourth quarter cut at 29 December (historique.py:265-282). The line of a site that no longer appears is left, with the value of an earlier collection (historique.py:149-155). A collection whose lock expired under it
  may write an older reading over a newer one. The only date of a truncated reading is trusted. The value of one day ignores the subsidiary filter.
- *Readings.* People without a status are counted inactive. `score_presence` looks at the coverage of presence only. Of a day that was cut, the line of a site shows what was read of it, and nothing in the line says so. Nothing says either that Odoo changed
  between the counts and the departments. At most 500 jobs are summed, without a word. An unknown `days` becomes 30, without a word. An envelope is "connected" with nobody present when the summary is not a record.
- *Indicators.* A fifth threshold of the day, `presence_surveillance`, is published and judged by nothing. "Drop in the last month" compares the last two months *measured*. "Taux de
  recouvrement client" resolves to `finance.dso`. The catalogue calls the domain "hr", the roles "capital-humain".
- *Pages.* Where the doors of the modules test a page, those of the mart test only the domain, and the overview serves payroll under its own right. `blank_hr_summary` says "no row in the
  period" but the page tests only "no row".
- *Copilot.* Rows of `AIProvider` and `AITool.enabled` are read by nobody. An automation
  disabled after it was listed still runs once; a deleted row or author ends Beat's task for the rest of its list; a form saves `last_run_at` over that of a run and
  inserts a deleted row again. A chat whose conversation is deleted meanwhile ends in 500 and may leave its request behind. Messages of two tabs may interleave.
- *Browser.* A logout during a renewal is followed by the storage of the new tokens (DynamicSidebar.tsx:93 says `clearSession` closes that), a late 401 of the last account's replay closes the
  next one's session, and a late answer is stored after the logout, the one NetworkFirst no longer waits for included.
- *Reports.* A monthly report on the relative period "trimestre" sent on the first day of a quarter has no closed day yet, and is traced as ignored.

## Fairness

- `OdooSession!FairSpec`: weak fairness of each thread's steps. A thread that runs is scheduled, its
  network calls have a timeout, and its waits are bounded. Nothing is assumed of Redis, of Odoo or of crashes. A
  waiter is given the `threading.Lock` once it stays free; the runs have two threads per process at most, so
  no thread can overtake a waiter for ever.
- `ShieldAuth!FairSpec`: weak fairness of each caller's renewal (each exchange ends after
  `DELAI_REFRESH`), and of its start while no token is usable: screens and hourly collections keep asking.
  `LinkRestored` supposes that from some moment on the account is registered and accepted; disruptions are
  bounded, as any finite number of them is followed by a quiet time.
- `RapportsProgrammes!FairSpec`: Beat keeps starting tasks, and a task or a request that runs goes on. There is no
  fairness of a particular report's turn: that no report starves follows from the advance before the sending.
- The parts of `plateforme` state no fairness and no liveness: waits there are bounded by construction (a follower of
  `ShieldClient` or `Partage` gives up), which is why their safety is what matters.

## Proofs

All theorems are for every value of the constants (any number of people, threads, processes,
tokens, reports, accounts, sites, days, any time bound), from the assumptions named in the modules (`NullAssumption`,
`ProcAssumption`, `PartageConstantes`, `AccesConstantes` and so on: distinct null values, a thread runs in a process,
at least one attempt), which TLC evaluates. Each follows the same argument: an
inductive invariant that the initial states satisfy and each action preserves, one step per
action. TLC checks every property below on a small instance first, and checked the longer invariants too.

### The core models

| theorem | states | inductive invariant, and why it is needed |
|---|---|---|
| `ActionApproval_proofs!TypeCorrect` | `[]TypeOK` | `TypeOK` itself |
| `NoDoubleExecution`, `FourEyesPrinciple` | `[]RunsAtMostOnce`, `[]FourEyes` | an unasked request is blank and an open one has not run: without it a step could count a signature or a run that was there before |
| `RunsAreEntitled` | `RunsForEntitledRequester` | entitled accounts exist |
| `Finality` | `DecisionsAreFinal` | none beyond types |
| `Implements` | `Spec => KeepsPromise` | the same, with the refinement mapping `phase`, action by action |
| `OdooSession_proofs!OneFlight` | `[]OneFlightPerProcess` | a thread inside the section holds its process's lock (`LockIsMine`) |
| `SecondLook` | `NoAuthenticateWithUid` | a uid obtained under the lock is known to the process, and nobody is about to authenticate (`OwnIsKnown`) |
| `NoReplayLoop` | `[]NoLoop` | the count of authenticates by step and by retry (`Counted`) |
| `OneFlightShared` | `Prompt => []OneFlightAcrossProcesses` | whoever authenticates holds the shared lock (`SharedLock`) |
| `RefusalStartsCooldown` | `CooldownNeedsRefusal` | none beyond types: only the step that Odoo's refusal takes adds one |
| `ShieldAuth_proofs!NeverTwice` | `OneLastingWorker => []SpentNeverPresented` | the lock, and where each token may be: what a thread has got is unspent and its own (`GotClean`, `OwnTokens`), and a stored spent token is about to be replaced by the thread in the lock (`SpentIsReplaced`) |
| `RefusalIsRemembered`, `CondemnedIsReallyDead`, `VerdictLasts` | `NoCrash => []RefusalRemembered`, `[]CondemnedIsDead`, `VerdictDurable` | `Faithful`: while no two threads are under way at once, the database is as the thread under way has read it (`FaithfulMemory`), a refusal is written or about to be (`RefusalWritten`), a token said to be dead, or that a login is replacing, is dead (`DeadIfSaid`, `DeadIfReplaced`) |
| `RapportsProgrammes_proofs!SentOnce` | `~EditsOverlap => []OneMailPerEcheance` | every echeance in a row or in an open edit is later than all those already taken for the report (`Advanced`, `CopyAdvanced`), no two tasks send one echeance (`Distinct`), and what is left to send was not sent (`Unmailed`) |
| `TracesAreTrue` | `[]NoOptimisticTrace` | a worker about to trace has mailed (`Truthful`) |
| `Partage_proofs!CollectorIsAlone` | `[]OneCollector` | whoever collects is the lock's owner until a collection outlives it (`LockIsMine`) |
| `ArbitrationIsFollowed` | `[]ArbitrageSuivi` | while no collection overlaps an arbitration, whatever is cached or read is of the thresholds in force before the row is written, and nobody collects while the caches are forgotten (`Serene`) |
| `TypeCorrect` of each module | `[]TypeOK` | `TypeOK`, with the shape of what a step holds; in `Partage`, an arbitration that is about to write has a version left (`Room`) |

### The parts of the platform

`MCPlateforme` is a specification with constants of its own, and these theorems are about it: `PlateformeSpec => ...` for the
properties the run `plateforme` checks. Two lemmas open each of them: a behaviour stays in its part (`PartFixe`), and a step is a step
of that part's module (`Pas`). The payload reuses its own module's invariant, through an instance whose
actions are shown to be those of the host's instance.

| theorem | states | inductive invariant, and why it is needed |
|---|---|---|
| `MCPlateforme_proofs!DaysAreWhole`, `LinesNeverGoBack` | `[]JourneesEntieres`, `NeverOlder` | whoever collects holds the lock of its collection and day (`VerrouTenu`); what is about to be written is a reading of that day and no other, the Group with its kinds, no newer than the sources and no older than the lines it replaces (`Depose`, `Recentes`) |
| `SourcesAreProven` | `[]Prouve` | whatever could write "connected" was answered: the verdict of a test, the one a synchronisation repeats, a tried account (`Repondu`); what an edit is about to save back is what is there (`Relu`); a form that has gone on past its trial was accepted, whichever rows were deleted under it; a deleted source leaves neither connector nor password (`SansSource`) |
| `MCPlateforme_usagers_proofs!NobodySeesBeyondTheirPerimeter`, `DoorsAgree` | `[]PerimetreTenu`, `[]PortesConcordent` | the payload kept under a key adds up the companies of that key and nothing else (`ChargesJustes`); every value a door serves is within the perimeter, of an open domain, and what the filter asks (`Bonne`), door by door |
| `CopilotKeepsItsWord` | `[]CopiloteTenu` | unless excused, an automation is held by one tick, its row says when it last ran but for the run not noted yet, and who is about to run it finds the last run an interval away (`Surveillee`); a conversation holds of a call what its step says, question before answer (`Classee`, `Rattaches`), and a call leaves the one request it speaks of (`Dite`); what stopped a question is the first provider that did not step aside |
| `SessionIsOnesOwn` | `[]SessionTenue` | unless a renewal crossed a change of account, the tokens and the renewal in flight are those of who is connected (`AuConnecte`); unless an answer did too, one still to be stored included, so is all the tab keeps (`DuConnecte`); an open session has a refresh token (`Renouvelable`) |
| `PartsAreTyped` | `[]PartTypeOK` | the invariants above: the types need the shape of what each step holds |
| `NobodyWaitsForNothing`, `CallsAreCounted` | `[]PersonneNAttendPourRien`, `[]AppelsComptes` | without trouble, who calls or releases has registered, the reply is in the memory before the event is set, and is not forgotten while somebody waits (`ClientCalme`); whoever may still call has an attempt left (`ClientEssais`) |
| `CollectorIsAlone`, `ArbitrationIsFollowed` | `[]OneCollector`, `[]ArbitrageSuivi` | that of `Partage_proofs` |
| `MCPlateforme_proofs!JudgementsAgree` | `[]JugementsCoherents` | what is judged is what the code makes of the case chosen (`IndicateursJuges`); then, for any thresholds, measures and lengths: a finding and a signal have one bound, what is cut ranks below what is kept, a weighted mean lies between its terms, and a count splits along any partition of the employees |
| `MCPlateforme_lectures_proofs!PeriodsAreComparable` | `[]PeriodesComparables` | the same (`PeriodesLues`, `EcheancesLues`); then the calendar: a day has one date, years and quarters begin where the cumulated months say, the period before ends where this one begins; and sums: a total of a day, a rate of whole days, ranks that follow the values |
| `MCPlateforme_usagers_proofs!AnswersAreFounded` | `[]QuestionFondee` | a published answer is what the code makes of the question (`QuestionsLues`); then the catalogue, entry by entry (`MetriquesRh` and its like): keys are distinct, and each label has a word or a pair of words that no other metric has, but one, whose only word others have among more (`Reconnue`, `PlusDeMots`); of the metrics that share words with a question, one is placed behind no other |
| `MCPlateforme_lectures_proofs!MartIsFaithful` | `[]MartFidele` | what is shown is what the pages answer to a well-formed case (`MartLu`); then, for any subsidiaries, rows and length of a trend: the pages read nothing of the case but the rows of the perimeter and the filter; the index is a weighted mean of the notes of the measured domains (`IndiceEntre`), one note for the Group and for a subsidiary alone; sums by subsidiary add up to that of the rows (`TotalParEtiquette`), whichever rows the reader or the copilot asks for; going through the alerts keeps those of a severity, as many as there are (`DeBien`), and one alert comes of each score (`AlertesDesScores`) |
| `ReadingsAreFaithful` | `[]LectureFidele` | what is published is what the code makes of the case read (`ShieldLu`, `OdooLu`); then, of Shield: a page with failures shows what it shows without them, or nothing (`Honnete`); rows come newest first, so the rows of a day are read when those of the days after it and its own fit in the limit (`RangDuJour`), and a day from the earliest one that is sure on was read whole (`JourEntier`); a list below its cap holds everybody (`ListeEntiere`). Of Odoo: an Odoo cut down to the companies asked for gives each card the same rows (`SocietesSeulesTenues`); each card rests on its own calls (`ChiffresDe`); a bounded reading is made of rows that are there, all of them below the bound (`LectureBornee`), and the rows split by department (`DepartementsEntiersTenus`) |

The last five are about functions of lists and sets. They need induction, which the library's theorems state over an operator and no installed prover
instantiates; here it is over *sets*: a set of numbers, or of subsets of a finite set, that is not full has a least counterexample
(`Recurrence`, `RecurrenceFinie`, from the well-foundedness of the naturals and of strict inclusion). From it come what the community modules'
folds compute (`Sommation`, `SommeTotal`: a sum over a set is the term of one element plus the sum of the rest, whichever is taken first), that two sums
with the same terms are equal, that the sums of disjoint parts add up, that counting by class counts everybody, and that a finite set of numbers has a least and a greatest.

What the proofs corrected in the model:

- `Portee` in `Acces` and `Lire` in `LectureHistorique` had a `CASE` with overlapping guards, of which
  TLC takes the first and the semantics of TLA+ any; each is now an `IF` before a `CASE`, in the order of the code's own tests.
- `TrierPuisCouper` in `Indicateurs` sorted with a comparison that two findings of one severity did not satisfy in either direction, so that `SortSeq` had
  no value TLA+ defines. The code sorts by (severity, arrival), and the operator now says which findings have a place before the cut.
- `Gouvernance` chose alerts with `SelectSeq` and put its records together with `@@`, which tlapm does not know: the list is now a fold and the
  records are written field by field. TLC finds the same states.
- `LectureShield` and `LectureOdoo` filtered lists with `SelectSeq` and numbered the rows with `SetToSeq`, which tlapm does not know either: a list of people is now
  the set of their ranks in what Shield holds, a bounded reading of Odoo a set of rows of the size of the bound. TLC finds the same states.
- Days, thresholds, measures, limits of the readings, subsidiaries of the mart, lengths and the values of a line were numbers written in the modules or in the `INSTANCE`s: they are constants of
  `MCPlateforme` now, with named assumptions, and the theorems are for any of them.

### Hypotheses

The hypotheses are where the code's promise ends, and the runs show that they are needed:

- `Prompt` (`OneFlightShared`): the shared lock does not expire under its holder, Redis answers, and nobody
  gives up waiting. A crash is allowed.
- `OneLastingWorker` (`NeverTwice`): one process, and no crash.
  Lost answers, forms, forced renewals, answers without a refresh, revocations and network failures are allowed.
  `shield_rotation` violates the property with two processes.
- `NoCrash` (`RefusalIsRemembered` and the next two): any number of workers and forms, one after the other; all else that can happen is allowed. The
  properties themselves stop at `marks.overlap`; `shield_account` shows what an overlap loses. A crash between
  Shield's refusal and the line that writes it down forgets the refusal.
- `~EditsOverlap` (`SentOnce`): `reports_edit` violates the property otherwise. Crashes, SMTP failures,
  deletions, the button, and edits before or after a task are all allowed.
- `SourcesAreProven` is about the instances of `MCPlateforme`, where edits of a source do not overlap another write and do not change its type.

### Only model-checked

- The liveness properties `RequestsEnd`, `LinkRestored` and `DueIsTaken`: liveness under fairness is out of the prover's reach.
- The violations under [Disagreements](#disagreements) are counterexamples, not theorems.

## What is not modelled

`PROJECT.json` lists every component with its status. In the modelled ones:

- the approval circuit leaves out the audit log, and what each tool does;
- the Odoo session leaves out the memo for the status page; its form is in `SourceControl`;
- the Shield session makes one cause of those that behave alike (quota, network, unreadable answer), and
  leaves out how a second-factor challenge is recognised, and the read-only `etat_auth`;
- the scheduled reports leave out the contents of a report, make one of the reasons a recipient is passed over for,
  and reduce the validation of a request to acceptance or refusal; that a recipient's rights may
  change while the report is being sent is a hazard without a property;
- the readings leave out field names and the variants of a payload's spelling, and the endpoints that are read by one page and shown as they come;
- secrets are dates, their encryption is a library's;
- the browser has one tab: several tabs share localStorage and would each renew.

Left out for good:

- *trusted proxy and audit trail*: the client's address is a function of a header and of configured networks; no state;
- *administration site*: forms generated by Django; those that race with a component (the automations' rows) are actions of its module;
- *diagnostic commands*: read-only, run by hand;
- *front end*: layout and display of what the API answers;
- *organisations*: a reference table of the subsidiaries;
- *warehouse, deployment*: SQL, containers and scripts, not the program; layout of workbooks and documents: no state, output only.

## Plan

The system's own logic is modelled, and what its parts that interleave promise is proved. What is left:

1. `ShieldAuth` with crashes: which of the three promises survive them.
2. `SessionNavigateur` with several tabs; the composition of `ShieldClient` with `ShieldAuth`, when the product of their
   states is small enough.
