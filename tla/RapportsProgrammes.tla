------------------------- MODULE RapportsProgrammes -------------------------
(***************************************************************************)
(* The scheduled reports (governance/rapports_programmes.py and            *)
(* rapports_views.py).                                                     *)
(*                                                                         *)
(* A scheduled report has a next sending time, an echeance.  Every fifteen *)
(* minutes Celery Beat has a worker list the reports that are due and, for *)
(* each, advance the echeance in a transaction, THEN render the report and *)
(* mail it to each recipient, leaving a trace.  Tasks may overlap, when    *)
(* one is relaunched or several workers run, and a page may meanwhile      *)
(* create, edit, delete or send a report.  An edit reads the row, checks   *)
(* the request against other tables and writes the WHOLE row back.         *)
(*                                                                         *)
(* Time is counted in units of the shortest period; an echeance is a       *)
(* multiple of the report's period.                                        *)
(***************************************************************************)
EXTENDS Integers

CONSTANTS
  Reports, Users,
  Workers,      \* who runs envoyer: Celery's workers and the button of the page
  Editors,      \* requests of the page that create or edit a report
  Frequencies,  \* the periods
  Broken,       \* reports whose rendering raises
  NoReport, NoUser, NoRow,
  EditsOverlap, \* a worker may take a report between an edit's read and its save
  Disruptions,  \* what can go wrong, a subset of {"smtp", "crash"}
  MaxFaults,    \* and how many times; MaxNow and MaxEdits bound the rest
  MaxNow, MaxEdits

ASSUME FrequencyAssumption == Frequencies \subseteq Nat \ {0}
ASSUME NullAssumption == NoReport \notin Reports /\ NoUser \notin Users
ASSUME BoundAssumption == MaxFaults \in Nat /\ MaxNow \in Nat /\ MaxEdits \in Nat
ASSUME OverlapAssumption == EditsOverlap \in BOOLEAN

VARIABLES
  now,     \* the time
  status,  \* status[r] : "new", "there" or "gone"
  row,     \* row[r]    : actif, prochain_envoi and frequence of report r
  to,      \* to[r]     : its recipients
  pc,      \* pc[w]     : the next step of worker w
  at,      \* at[w]     : maintenant of its task
  todo,    \* todo[w]   : the reports its task listed and has not looked at yet
  report,  \* report[w] : the report it sends
  ech,     \* ech[w]    : the echeance it sends it for, Manual for the button
  left,    \* left[w]   : the recipients left
  cur,     \* cur[w]    : the recipient it has just mailed
  mode,    \* mode[e]   : the next step of edit e
  target,  \* target[e] : the report of edit e
  copy,    \* copy[e]   : the row as edit e has read it
  mailed,  \* the mails that left, as <<report, echeance, recipient>>
  envoyes, \* those traced as sent (EnvoiRapport)
  edits, faults

table == <<status, row, to>>
task == <<pc, at, todo, report, ech, left, cur>>
page == <<mode, target, copy>>
log == <<mailed, envoyes>>
vars == <<now, table, task, page, log, edits, faults>>

Manual == 0
Rows == [actif : BOOLEAN, prochain_envoi : Nat, frequence : Frequencies]

\* The next occurrence, strictly after t.
ProchaineEcheanceBack(f, t) == t - f - (t % f)  \* mutant: the occurrence before
ProchaineEcheance(f, t) == t + f - (t % f)

Init ==
  /\ now = 0
  /\ status \in [Reports -> {"new", "there"}]
  /\ \E f \in Frequencies :
       row = [r \in Reports |-> [actif |-> TRUE, frequence |-> f,
                                 prochain_envoi |-> ProchaineEcheance(f, 0)]]
  /\ to = [r \in Reports |-> IF status[r] = "there" THEN Users ELSE {}]
  /\ pc = [w \in Workers |-> "idle"]
  /\ at = [w \in Workers |-> 0]
  /\ todo = [w \in Workers |-> {}]
  /\ report = [w \in Workers |-> NoReport]
  /\ ech = [w \in Workers |-> Manual]
  /\ left = [w \in Workers |-> {}]
  /\ cur = [w \in Workers |-> NoUser]
  /\ mode = [e \in Editors |-> "idle"]
  /\ target = [e \in Editors |-> NoReport]
  /\ copy = [e \in Editors |-> NoRow]
  /\ mailed = {} /\ envoyes = {}
  /\ edits = 0 /\ faults = 0

-----------------------------------------------------------------------------
Goto(w, step) == pc' = [pc EXCEPT ![w] = step]

Fault(kind) == kind \in Disruptions /\ faults < MaxFaults /\ faults' = faults + 1

\* actif and prochain_envoi <= maintenant, of a row that is still there.
DueAt(r, t) == status[r] = "there" /\ row[r].actif /\ row[r].prochain_envoi <= t

\* The task, or the request, is over: nothing of it is left in memory.
End(w) ==
  /\ Goto(w, "idle")
  /\ at' = [at EXCEPT ![w] = 0]
  /\ todo' = [todo EXCEPT ![w] = {}]
  /\ report' = [report EXCEPT ![w] = NoReport]
  /\ ech' = [ech EXCEPT ![w] = Manual]
  /\ left' = [left EXCEPT ![w] = {}]
  /\ cur' = [cur EXCEPT ![w] = NoUser]

-----------------------------------------------------------------------------
\* envoyer_les_dus: maintenant is taken once, and the due reports listed.
Start(w) ==
  LET due == {r \in Reports : DueAt(r, now)}
  IN  /\ pc[w] = "idle"
      /\ at' = [at EXCEPT ![w] = now]
      /\ todo' = [todo EXCEPT ![w] = due]
      /\ Goto(w, "loop")
      /\ UNCHANGED <<now, table, report, ech, left, cur, page, log, edits, faults>>

\* The tasks that come upon the locked row of r pass it over (skip_locked).
PassedOver(w, r) ==
  \E S \in SUBSET {v \in Workers : pc[v] = "loop" /\ r \in todo[v]} :
    todo' = [v \in Workers |-> IF v \in S \cup {w} THEN todo[v] \ {r} ELSE todo[v]]

\* One report of the list, its row locked: looked at again, advanced, committed ...
TakeUnchecked(w, r) ==  \* mutant: the listed report is not looked at again
  /\ pc[w] = "loop" /\ r \in todo[w]
  /\ status[r] = "there"
  /\ EditsOverlap \/ \A e \in Editors : target[e] # r
  /\ PassedOver(w, r)
  /\ report' = [report EXCEPT ![w] = r]
  /\ ech' = [ech EXCEPT ![w] = row[r].prochain_envoi]
  /\ row' = [row EXCEPT ![r].prochain_envoi = ProchaineEcheance(row[r].frequence, at[w])]
  /\ Goto(w, "load")
  /\ UNCHANGED <<now, status, to, at, left, cur, page, log, edits, faults>>
TakeUnsaved(w, r) ==  \* mutant: the advance is not saved
  /\ pc[w] = "loop" /\ r \in todo[w]
  /\ DueAt(r, at[w])
  /\ EditsOverlap \/ \A e \in Editors : target[e] # r
  /\ PassedOver(w, r)
  /\ report' = [report EXCEPT ![w] = r]
  /\ ech' = [ech EXCEPT ![w] = row[r].prochain_envoi]
  /\ Goto(w, "load")
  /\ UNCHANGED <<now, table, at, left, cur, page, log, edits, faults>>
Take(w, r) ==
  /\ pc[w] = "loop" /\ r \in todo[w]
  /\ DueAt(r, at[w])
  /\ EditsOverlap \/ \A e \in Editors : target[e] # r
  /\ PassedOver(w, r)
  /\ report' = [report EXCEPT ![w] = r]
  /\ ech' = [ech EXCEPT ![w] = row[r].prochain_envoi]
  /\ row' = [row EXCEPT ![r].prochain_envoi = ProchaineEcheance(row[r].frequence, at[w])]
  /\ Goto(w, "load")
  /\ UNCHANGED <<now, status, to, at, left, cur, page, log, edits, faults>>

\* ... or passed over: advanced by another task, suspended or deleted.
Skip(w, r) ==
  /\ pc[w] = "loop" /\ r \in todo[w]
  /\ ~DueAt(r, at[w])
  /\ todo' = [todo EXCEPT ![w] = @ \ {r}]
  /\ UNCHANGED <<now, table, pc, at, report, ech, left, cur, page, log, edits, faults>>

Finish(w) ==
  /\ pc[w] = "loop" /\ todo[w] = {}
  /\ End(w)
  /\ UNCHANGED <<now, table, page, log, edits, faults>>

\* EnvoyerRapportView: the button sends a report whatever its echeance.
Press(w, r) ==
  /\ pc[w] = "idle" /\ edits < MaxEdits
  /\ status[r] = "there"
  /\ report' = [report EXCEPT ![w] = r]
  /\ edits' = edits + 1
  /\ Goto(w, "load")
  /\ UNCHANGED <<now, table, at, todo, ech, left, cur, page, log, faults>>

-----------------------------------------------------------------------------
\* envoyer: the recipients are read once, with their rights.
Load(w) ==
  /\ pc[w] = "load"
  /\ left' = [left EXCEPT ![w] = to[report[w]]]
  /\ Goto(w, "each")
  /\ UNCHANGED <<now, table, at, todo, report, ech, cur, page, log, edits, faults>>

\* A trace refers to its report: writing one for a deleted report stops the task.
Traceable(w) == status[report[w]] = "there"

Traced(w, u) ==
  \/ /\ Traceable(w)
     /\ left' = [left EXCEPT ![w] = @ \ {u}]
     /\ UNCHANGED <<pc, at, todo, report, ech, cur>>
  \/ ~Traceable(w) /\ End(w)

\* Without access, address, SMTP server or readable filters: a trace, and no mail.
Ignore(w, u) ==
  /\ pc[w] = "each" /\ u \in left[w]
  /\ Traced(w, u)
  /\ UNCHANGED <<now, table, page, log, edits, faults>>

\* A rendering that raises stops the whole task: its list waits for another one.
Raise(w) ==
  /\ pc[w] = "each" /\ left[w] # {} /\ report[w] \in Broken
  /\ End(w)
  /\ UNCHANGED <<now, table, page, log, edits, faults>>

\* The report, rendered under the rights of u, is sent: SMTP takes it ...
Send(w, u) ==
  /\ pc[w] = "each" /\ u \in left[w] /\ report[w] \notin Broken
  /\ mailed' = mailed \cup {<<report[w], ech[w], u>>}
  /\ left' = [left EXCEPT ![w] = @ \ {u}]
  /\ cur' = [cur EXCEPT ![w] = u]
  /\ Goto(w, "sent")
  /\ UNCHANGED <<now, table, at, todo, report, ech, page, envoyes, edits, faults>>

\* ... or it raises, though the mail may have left: the trace says ECHEC.
FailTracedAsSent(w, u) ==  \* mutant: fail_silently, a failure is traced as sent
  /\ pc[w] = "each" /\ u \in left[w] /\ report[w] \notin Broken
  /\ Fault("smtp")
  /\ left' = [left EXCEPT ![w] = @ \ {u}]
  /\ cur' = [cur EXCEPT ![w] = u]
  /\ Goto(w, "sent")
  /\ UNCHANGED <<now, table, at, todo, report, ech, page, log, edits>>
Fail(w, u) ==
  /\ pc[w] = "each" /\ u \in left[w] /\ report[w] \notin Broken
  /\ Fault("smtp")
  /\ mailed' \in {mailed, mailed \cup {<<report[w], ech[w], u>>}}
  /\ Traced(w, u)
  /\ UNCHANGED <<now, table, page, envoyes, edits>>

\* The trace of a mail that left: ENVOYE.
Trace(w) ==
  /\ pc[w] = "sent"
  /\ \/ /\ Traceable(w)
        /\ envoyes' = envoyes \cup {<<report[w], ech[w], cur[w]>>}
        /\ cur' = [cur EXCEPT ![w] = NoUser]
        /\ Goto(w, "each")
        /\ UNCHANGED <<at, todo, report, ech, left>>
     \/ ~Traceable(w) /\ End(w) /\ UNCHANGED envoyes
  /\ UNCHANGED <<now, table, page, mailed, edits, faults>>

\* Every recipient has been looked at: the next report, or the end of the request.
NextReport(w) ==
  /\ pc[w] = "each" /\ left[w] = {}
  /\ \/ ech[w] = Manual /\ End(w)
     \/ /\ ech[w] # Manual
        /\ Goto(w, "loop")
        /\ report' = [report EXCEPT ![w] = NoReport]
        /\ ech' = [ech EXCEPT ![w] = Manual]
        /\ UNCHANGED <<at, todo, left, cur>>
  /\ UNCHANGED <<now, table, page, log, edits, faults>>

-----------------------------------------------------------------------------
\* RapportsProgrammesView.post: the row, then its recipients.
Create(e, r) ==
  /\ mode[e] = "idle" /\ edits < MaxEdits
  /\ status[r] = "new"
  /\ status' = [status EXCEPT ![r] = "there"]
  /\ \E f \in Frequencies, a \in BOOLEAN :
       row' = [row EXCEPT ![r] = [actif |-> a, frequence |-> f,
                                  prochain_envoi |-> ProchaineEcheance(f, now)]]
  /\ mode' = [mode EXCEPT ![e] = "recipients"]
  /\ target' = [target EXCEPT ![e] = r]
  /\ edits' = edits + 1
  /\ UNCHANGED <<now, to, task, copy, log, faults>>

\* RapportProgrammeView._trouver, for an edit.
Open(e, r) ==
  /\ mode[e] = "idle" /\ edits < MaxEdits
  /\ status[r] = "there"
  /\ copy' = [copy EXCEPT ![e] = row[r]]
  /\ mode' = [mode EXCEPT ![e] = "edit"]
  /\ target' = [target EXCEPT ![e] = r]
  /\ edits' = edits + 1
  /\ UNCHANGED <<now, table, task, log, faults>>

Close(e) ==
  /\ mode' = [mode EXCEPT ![e] = "idle"]
  /\ target' = [target EXCEPT ![e] = NoReport]
  /\ copy' = [copy EXCEPT ![e] = NoRow]

Refuse(e) ==
  /\ mode[e] = "edit"
  /\ Close(e)
  /\ UNCHANGED <<now, table, task, log, edits, faults>>

\* The row an edit writes: a period given, or an activation, starts afresh from now;
\* a suspension and any other change keep the echeance that was read.
Edited(e, new) ==
  \/ new.prochain_envoi = ProchaineEcheance(new.frequence, now)
  \/ new = copy[e]
  \/ new = [copy[e] EXCEPT !.actif = FALSE]

\* patch: rapport.save() writes every column, and inserts a row deleted meanwhile.
Save(e) ==
  /\ mode[e] = "edit"
  /\ \E f \in Frequencies, a \in BOOLEAN,
        d \in {copy[e].prochain_envoi} \cup {ProchaineEcheance(g, now) : g \in Frequencies} :
       LET new == [actif |-> a, frequence |-> f, prochain_envoi |-> d]
       IN  Edited(e, new) /\ row' = [row EXCEPT ![target[e]] = new]
  /\ status' = [status EXCEPT ![target[e]] = "there"]
  /\ \/ Close(e)
     \/ mode' = [mode EXCEPT ![e] = "recipients"] /\ UNCHANGED <<target, copy>>
  /\ UNCHANGED <<now, to, task, log, edits, faults>>

\* rapport.destinataires.set, which fails when the report has been deleted.
SetRecipients(e) ==
  /\ mode[e] = "recipients"
  /\ \E S \in SUBSET Users \ {{}} :
       to' = [to EXCEPT ![target[e]] = IF status[target[e]] = "there" THEN S ELSE @]
  /\ Close(e)
  /\ UNCHANGED <<now, status, row, task, log, edits, faults>>

\* delete: the traces of the report and its recipients go with it.
Remove(r) ==
  /\ edits < MaxEdits
  /\ status[r] = "there"
  /\ status' = [status EXCEPT ![r] = "gone"]
  /\ to' = [to EXCEPT ![r] = {}]
  /\ envoyes' = {x \in envoyes : x[1] # r}
  /\ edits' = edits + 1
  /\ UNCHANGED <<now, row, task, page, mailed, faults>>

-----------------------------------------------------------------------------
Tick ==
  /\ now < MaxNow
  /\ now' = now + 1
  /\ UNCHANGED <<table, task, page, log, edits, faults>>

\* A worker stops.  Celery's messages are acknowledged before the task runs, so its
\* task does not come back.
Crash(w) ==
  /\ pc[w] # "idle" /\ Fault("crash")
  /\ End(w)
  /\ UNCHANGED <<now, table, page, log, edits>>

Sending(w) ==
  \/ \E r \in Reports : Take(w, r) \/ Skip(w, r)
  \/ \E u \in Users : Ignore(w, u) \/ Send(w, u) \/ Fail(w, u)
  \/ Finish(w) \/ Load(w) \/ Raise(w) \/ Trace(w) \/ NextReport(w)

Editing(e) == Save(e) \/ Refuse(e) \/ SetRecipients(e)

Next ==
  \/ \E w \in Workers : Start(w) \/ Sending(w) \/ Crash(w) \/ \E r \in Reports : Press(w, r)
  \/ \E e \in Editors : Editing(e) \/ \E r \in Reports : Create(e, r) \/ Open(e, r)
  \/ Tick \/ \E r \in Reports : Remove(r)

Spec == Init /\ [][Next]_vars

\* Celery Beat keeps starting tasks; a task and a request that run go on.
FairSpec ==
  /\ Spec
  /\ WF_vars(\E w \in Workers : Start(w))
  /\ \A w \in Workers : WF_vars(Sending(w))
  /\ \A e \in Editors : WF_vars(Editing(e))
-----------------------------------------------------------------------------
\* Type correctness of the reports, of the tasks, of the edits and of the log.
TypeOK ==
  /\ now \in 0..MaxNow
  /\ status \in [Reports -> {"new", "there", "gone"}]
  /\ row \in [Reports -> Rows] /\ to \in [Reports -> SUBSET Users]
  /\ pc \in [Workers -> {"idle", "loop", "load", "each", "sent"}]
  /\ at \in [Workers -> 0..MaxNow]
  /\ todo \in [Workers -> SUBSET Reports]
  /\ report \in [Workers -> Reports \cup {NoReport}]
  /\ ech \in [Workers -> Nat]
  /\ left \in [Workers -> SUBSET Users]
  /\ cur \in [Workers -> Users \cup {NoUser}]
  /\ mode \in [Editors -> {"idle", "edit", "recipients"}]
  /\ target \in [Editors -> Reports \cup {NoReport}]
  /\ copy \in [Editors -> Rows \cup {NoRow}]
  /\ mailed \subseteq Reports \X Nat \X Users
  /\ envoyes \subseteq Reports \X Nat \X Users
  /\ edits \in 0..MaxEdits /\ faults \in 0..MaxFaults

\* A recipient is never mailed a report twice for one echeance, though tasks overlap,
\* are relaunched after a crash and work from an old list and an old `maintenant',
\* and SMTP fails after it has taken the mail (rapports_programmes.py:11-12).
OneMailPerEcheance ==
  \A w \in Workers : \A u \in left[w] :
    pc[w] = "each" /\ ech[w] # Manual => <<report[w], ech[w], u>> \notin mailed

\* A report traced as sent was sent: the trace is never optimistic (models.py:144-145).
NoOptimisticTrace == envoyes \subseteq mailed

\* An active report that is due is eventually taken, though the rendering of others
\* raises, workers crash and edits go on: no report starves (settings.py:159).
DueIsTaken ==
  \A r \in Reports : DueAt(r, now) ~> ~DueAt(r, now)
=============================================================================
