---------------------- MODULE RapportsProgrammes_proofs ----------------------
(***************************************************************************)
(* Proofs about RapportsProgrammes, for any reports, recipients, workers,  *)
(* edits and periods: types, the truth of the traces and, when no worker   *)
(* takes a report while an edit has it open, one mail per echeance.        *)
(***************************************************************************)
EXTENDS RapportsProgrammes, TLAPS

\* The next occurrence is a time, and it is later.
LEMMA NextLater ==
  \A f \in Frequencies, t \in Nat :
    ProchaineEcheance(f, t) \in Nat /\ ProchaineEcheance(f, t) > t
<1> SUFFICES ASSUME NEW f \in Frequencies, NEW t \in Nat
             PROVE ProchaineEcheance(f, t) \in Nat /\ ProchaineEcheance(f, t) > t
    OBVIOUS
<1>1. f \in Nat /\ f > 0
      BY FrequencyAssumption
<1>2. t % f \in 0..(f - 1)
      BY <1>1, SMT
<1> QED BY <1>1, <1>2, SMT DEF ProchaineEcheance

\* What the end of a task leaves in its worker is well typed.
TaskOK ==
  /\ pc \in [Workers -> {"idle", "loop", "load", "each", "sent"}]
  /\ at \in [Workers -> 0..MaxNow]
  /\ todo \in [Workers -> SUBSET Reports]
  /\ report \in [Workers -> Reports \cup {NoReport}]
  /\ ech \in [Workers -> Nat]
  /\ left \in [Workers -> SUBSET Users]
  /\ cur \in [Workers -> Users \cup {NoUser}]

\* A task that ends leaves its worker well typed.
LEMMA EndTypes ==
  ASSUME TaskOK, NEW w \in Workers, End(w)
  PROVE TaskOK'
BY BoundAssumption DEF TaskOK, End, Goto, Manual

\* So does a trace without a mail.
LEMMA TracedTypes ==
  ASSUME TaskOK, NEW w \in Workers, NEW u \in Users, Traced(w, u)
  PROVE TaskOK'
<1>1. CASE End(w)
      BY <1>1, EndTypes
<1>2. CASE ~End(w)
      BY <1>2 DEF TaskOK, Traced
<1> QED BY <1>1, <1>2

Busy == {"load", "each", "sent"}

\* A worker that sends has a report, an edit that is open has a row.
Equipped ==
  /\ \A w \in Workers : pc[w] \in Busy => report[w] \in Reports
  /\ \A w \in Workers : pc[w] = "sent" => cur[w] \in Users
  /\ \A e \in Editors : mode[e] # "idle" => target[e] \in Reports
  /\ \A e \in Editors : mode[e] = "edit" => copy[e] \in Rows

\* Every step keeps the variables in their types.
LEMMA TypeStep ==
  ASSUME TypeOK, Equipped, [Next]_vars
  PROVE TypeOK'
<1> USE FrequencyAssumption, NullAssumption, BoundAssumption, NextLater
<1> USE DEF TypeOK, Equipped, Busy, Rows, Manual, Goto, table, task, page, log
<1>1. ASSUME NEW w \in Workers, Start(w) PROVE TypeOK'
      BY <1>1 DEF Start, DueAt
<1>2. ASSUME NEW w \in Workers, NEW r \in Reports, Take(w, r) PROVE TypeOK'
      BY <1>2 DEF Take, PassedOver, DueAt
<1>3. ASSUME NEW w \in Workers, NEW r \in Reports, Skip(w, r) PROVE TypeOK'
      BY <1>3 DEF Skip, DueAt
<1>4. ASSUME NEW w \in Workers, NEW u \in Users, Ignore(w, u) PROVE TypeOK'
      BY <1>4, TracedTypes DEF Ignore, TaskOK
<1>5. ASSUME NEW w \in Workers, NEW u \in Users, Send(w, u) PROVE TypeOK'
      BY <1>5 DEF Send
<1>6. ASSUME NEW w \in Workers, NEW u \in Users, Fail(w, u) PROVE TypeOK'
   <2>1. TaskOK'
         BY <1>6, TracedTypes DEF Fail, TaskOK
   <2>2. mailed' \subseteq Reports \X Nat \X Users /\ faults' \in 0..MaxFaults
         BY <1>6 DEF Fail, Fault
   <2> QED BY <1>6, <2>1, <2>2 DEF Fail, TaskOK
<1>7. ASSUME NEW w \in Workers, Finish(w) PROVE TypeOK'
      BY <1>7 DEF Finish, End
<1>8. ASSUME NEW w \in Workers, Load(w) PROVE TypeOK'
      BY <1>8 DEF Load
<1>9. ASSUME NEW w \in Workers, Raise(w) PROVE TypeOK'
      BY <1>9 DEF Raise, End
<1>10. ASSUME NEW w \in Workers, Trace(w) PROVE TypeOK'
   <2>1. TaskOK'
      <3>1. CASE End(w)
            BY <3>1, EndTypes DEF TaskOK
      <3>2. CASE ~End(w)
            BY <1>10, <3>2 DEF Trace, TaskOK
      <3> QED BY <3>1, <3>2
   <2>2. envoyes' \subseteq Reports \X Nat \X Users
         BY <1>10 DEF Trace
   <2> QED BY <1>10, <2>1, <2>2 DEF Trace, TaskOK
<1>11. ASSUME NEW w \in Workers, NextReport(w) PROVE TypeOK'
   <2>1. CASE ech[w] = Manual
      <3>1. End(w)
            BY <1>11, <2>1 DEF NextReport
      <3>2. TaskOK'
            BY <3>1, EndTypes DEF TaskOK
      <3> QED BY <1>11, <3>2 DEF NextReport, TaskOK
   <2>2. CASE ech[w] # Manual
      <3>1. /\ Goto(w, "loop")
            /\ report' = [report EXCEPT ![w] = NoReport]
            /\ ech' = [ech EXCEPT ![w] = Manual]
            /\ UNCHANGED <<at, todo, left, cur>>
            BY <1>11, <2>2 DEF NextReport
      <3>2. TaskOK'
            BY <3>1 DEF TaskOK
      <3> QED BY <1>11, <3>2 DEF NextReport, TaskOK
   <2> QED BY <2>1, <2>2
<1>12. ASSUME NEW w \in Workers, Crash(w) PROVE TypeOK'
      BY <1>12 DEF Crash, End, Fault
<1>13. ASSUME NEW w \in Workers, NEW r \in Reports, Press(w, r) PROVE TypeOK'
      BY <1>13 DEF Press
<1>14. ASSUME NEW e \in Editors, Save(e) PROVE TypeOK'
   <2>1. PICK f \in Frequencies, a \in BOOLEAN,
              d \in {copy[e].prochain_envoi} \cup {ProchaineEcheance(g, now) : g \in Frequencies} :
              row' = [row EXCEPT ![target[e]] = [actif |-> a, frequence |-> f, prochain_envoi |-> d]]
         BY <1>14 DEF Save
   <2>2. d \in Nat
         BY <1>14, <2>1 DEF Save
   <2>3. row' \in [Reports -> Rows]
         BY <2>1, <2>2
   <2>4. status' \in [Reports -> {"new", "there", "gone"}]
         BY <1>14 DEF Save
   <2>5. /\ mode' \in [Editors -> {"idle", "edit", "recipients"}]
         /\ target' \in [Editors -> Reports \cup {NoReport}]
         /\ copy' \in [Editors -> Rows \cup {NoRow}]
         BY <1>14 DEF Save, Close
   <2> QED BY <1>14, <2>3, <2>4, <2>5 DEF Save
<1>15. ASSUME NEW e \in Editors, Refuse(e) PROVE TypeOK'
      BY <1>15 DEF Refuse, Close
<1>16. ASSUME NEW e \in Editors, SetRecipients(e) PROVE TypeOK'
      BY <1>16 DEF SetRecipients, Close
<1>17. ASSUME NEW e \in Editors, NEW r \in Reports, Create(e, r) PROVE TypeOK'
      BY <1>17 DEF Create
<1>18. ASSUME NEW e \in Editors, NEW r \in Reports, Open(e, r) PROVE TypeOK'
      BY <1>18 DEF Open
<1>19. ASSUME NEW r \in Reports, Remove(r) PROVE TypeOK'
      BY <1>19 DEF Remove
<1>20. CASE Tick
      BY <1>20 DEF Tick
<1>21. CASE UNCHANGED vars
      BY <1>21 DEF vars
<1> QED BY <1>1, <1>2, <1>3, <1>4, <1>5, <1>6, <1>7, <1>8, <1>9, <1>10,
           <1>11, <1>12, <1>13, <1>14, <1>15, <1>16, <1>17, <1>18, <1>19, <1>20,
           <1>21
        DEF Next, Sending, Editing

\* Every step keeps the workers and the edits equipped.
LEMMA EquippedStep ==
  ASSUME TypeOK, Equipped, [Next]_vars
  PROVE Equipped'
<1> USE FrequencyAssumption, NullAssumption, BoundAssumption, NextLater
<1> USE DEF TypeOK, Equipped, Busy, Rows, Manual, Goto, table, task, page, log
<1>1. ASSUME NEW w \in Workers, Start(w) PROVE Equipped'
      BY <1>1 DEF Start, DueAt
<1>2. ASSUME NEW w \in Workers, NEW r \in Reports, Take(w, r) PROVE Equipped'
      BY <1>2 DEF Take, DueAt
<1>3. ASSUME NEW w \in Workers, NEW r \in Reports, Skip(w, r) PROVE Equipped'
      BY <1>3 DEF Skip, DueAt
<1>4. ASSUME NEW w \in Workers, NEW u \in Users, Ignore(w, u) PROVE Equipped'
      BY <1>4 DEF Ignore, Traced, Traceable, End
<1>5. ASSUME NEW w \in Workers, NEW u \in Users, Send(w, u) PROVE Equipped'
      BY <1>5 DEF Send
<1>6. ASSUME NEW w \in Workers, NEW u \in Users, Fail(w, u) PROVE Equipped'
      BY <1>6 DEF Fail, Traced, Traceable, End, Fault
<1>7. ASSUME NEW w \in Workers, Finish(w) PROVE Equipped'
      BY <1>7 DEF Finish, End
<1>8. ASSUME NEW w \in Workers, Load(w) PROVE Equipped'
      BY <1>8 DEF Load
<1>9. ASSUME NEW w \in Workers, Raise(w) PROVE Equipped'
      BY <1>9 DEF Raise, End
<1>10. ASSUME NEW w \in Workers, Trace(w) PROVE Equipped'
      BY <1>10 DEF Trace, Traceable, End
<1>11. ASSUME NEW w \in Workers, NextReport(w) PROVE Equipped'
      BY <1>11 DEF NextReport, End
<1>12. ASSUME NEW w \in Workers, Crash(w) PROVE Equipped'
      BY <1>12 DEF Crash, End, Fault
<1>13. ASSUME NEW w \in Workers, NEW r \in Reports, Press(w, r) PROVE Equipped'
      BY <1>13 DEF Press
<1>14. ASSUME NEW e \in Editors, Save(e) PROVE Equipped'
      BY <1>14 DEF Save, Close, Edited
<1>15. ASSUME NEW e \in Editors, Refuse(e) PROVE Equipped'
      BY <1>15 DEF Refuse, Close
<1>16. ASSUME NEW e \in Editors, SetRecipients(e) PROVE Equipped'
      BY <1>16 DEF SetRecipients, Close
<1>17. ASSUME NEW e \in Editors, NEW r \in Reports, Create(e, r) PROVE Equipped'
      BY <1>17 DEF Create
<1>18. ASSUME NEW e \in Editors, NEW r \in Reports, Open(e, r) PROVE Equipped'
      BY <1>18 DEF Open
<1>19. ASSUME NEW r \in Reports, Remove(r) PROVE Equipped'
      BY <1>19 DEF Remove
<1>20. CASE Tick
      BY <1>20 DEF Tick
<1>21. CASE UNCHANGED vars
      BY <1>21 DEF vars
<1> QED BY <1>1, <1>2, <1>3, <1>4, <1>5, <1>6, <1>7, <1>8, <1>9, <1>10,
           <1>11, <1>12, <1>13, <1>14, <1>15, <1>16, <1>17, <1>18, <1>19, <1>20,
           <1>21
        DEF Next, Sending, Editing

-----------------------------------------------------------------------------
\* Worker w is sending report r for an echeance.
Sends(w, r) == pc[w] \in Busy /\ report[w] = r /\ ech[w] # Manual

\* Every echeance report r was taken for is before d.
Above(r, d) ==
  /\ \A i \in Nat, u \in Users : <<r, i, u>> \in mailed /\ i # Manual => i < d
  /\ \A w \in Workers : Sends(w, r) => ech[w] < d

\* No report was taken for an echeance to come, and a worker that sends nothing has
\* no echeance.
PastOnly ==
  /\ \A w \in Workers : at[w] <= now /\ (pc[w] \notin Busy => ech[w] = Manual)
  /\ \A r \in Reports : Above(r, now + 1)

\* The next echeance of a report is later, in its row and in the copy of an edit.
Advanced == \A r \in Reports : Above(r, row[r].prochain_envoi)
CopyAdvanced ==
  \A e \in Editors : mode[e] = "edit" => Above(target[e], copy[e].prochain_envoi)

\* Two workers never send a report for the same echeance.
Distinct ==
  \A r \in Reports, w, v \in Workers :
    Sends(w, r) /\ Sends(v, r) /\ w # v => ech[w] # ech[v]

\* The recipients a worker has not looked at have not got the report.
Unmailed ==
  \A w \in Workers : ech[w] # Manual =>
    /\ pc[w] = "load" => \A u \in Users : <<report[w], ech[w], u>> \notin mailed
    /\ pc[w] \in {"each", "sent"} =>
         \A u \in left[w] : <<report[w], ech[w], u>> \notin mailed

\* A step in which no worker takes a report or reads its recipients.
Quiet ==
  \A v \in Workers :
    /\ at'[v] \in {0, at[v]} /\ left'[v] \subseteq left[v]
    /\ pc'[v] = "load" => pc[v] = "load"
    /\ pc'[v] \in {"each", "sent"} => pc[v] \in {"each", "sent"}
    /\ pc'[v] \in Busy => report'[v] = report[v] /\ ech'[v] = ech[v]
    /\ pc'[v] \notin Busy => ech'[v] = Manual \/ (pc[v] \notin Busy /\ ech'[v] = ech[v])

\* The end of a task is quiet.
LEMMA EndQuiet ==
  ASSUME TypeOK, NEW w \in Workers, End(w)
  PROVE Quiet
BY DEF TypeOK, End, Goto, Manual, Quiet, Busy

\* A trace without a mail is quiet.
LEMMA TracedQuiet ==
  ASSUME TypeOK, NEW w \in Workers, NEW u \in Users, Traced(w, u)
  PROVE Quiet
<1>1. CASE End(w)
      BY <1>1, EndQuiet
<1>2. CASE ~End(w)
      BY <1>2, BoundAssumption DEF TypeOK, Traced, Quiet
<1> QED BY <1>1, <1>2

\* The trace of a mail is quiet.
LEMMA TraceQuiet ==
  ASSUME TypeOK, NEW w \in Workers, Trace(w)
  PROVE Quiet
<1>1. CASE End(w)
      BY <1>1, EndQuiet
<1>2. CASE ~End(w)
      BY <1>2, BoundAssumption DEF TypeOK, Trace, Goto, Quiet, Busy
<1> QED BY <1>1, <1>2

\* Going on to the next report is quiet.
LEMMA NextReportQuiet ==
  ASSUME TypeOK, NEW w \in Workers, NextReport(w)
  PROVE Quiet
<1>1. CASE ech[w] = Manual
  <2>1. End(w)
        BY <1>1 DEF NextReport
  <2> QED BY <2>1, EndQuiet
<1>2. CASE ech[w] # Manual
  <2>1. /\ Goto(w, "loop")
        /\ report' = [report EXCEPT ![w] = NoReport]
        /\ ech' = [ech EXCEPT ![w] = Manual]
        /\ UNCHANGED <<at, todo, left, cur>>
        BY <1>2 DEF NextReport
  <2> QED BY <2>1, BoundAssumption DEF TypeOK, Goto, Quiet, Busy
<1> QED BY <1>1, <1>2

\* A step that mails nothing but what one worker is sending.
MailsOwn ==
  \/ mailed' = mailed
  \/ \E w \in Workers, u \in Users :
       pc[w] = "each" /\ mailed' = mailed \cup {<<report[w], ech[w], u>>}

\* A quiet step takes no report, so what was above the echeances taken still is.
LEMMA QuietAbove ==
  ASSUME TypeOK, Quiet, MailsOwn, NEW r \in Reports, NEW d \in Int, Above(r, d)
  PROVE /\ \A i \in Nat, u \in Users : <<r, i, u>> \in mailed' /\ i # Manual => i < d
        /\ \A w \in Workers : Sends(w, r)' => ech'[w] < d
<1>1. ASSUME NEW w \in Workers, Sends(w, r)' PROVE ech'[w] < d
      BY <1>1 DEF Sends, Above, Quiet, Busy
<1>2. ASSUME NEW i \in Nat, NEW u \in Users, <<r, i, u>> \in mailed', i # Manual PROVE i < d
  <2>1. CASE <<r, i, u>> \in mailed
        BY <2>1, <1>2 DEF Above
  <2>2. CASE <<r, i, u>> \notin mailed
    <3>1. PICK w \in Workers : pc[w] = "each" /\ report[w] = r /\ ech[w] = i
          BY <2>2, <1>2 DEF MailsOwn
    <3> QED BY <3>1, <1>2 DEF Above, Sends, Busy
  <2> QED BY <2>1, <2>2
<1> QED BY <1>1, <1>2

\* What a quiet step keeps.
LEMMA QuietPast ==
  ASSUME TypeOK, PastOnly, Quiet, MailsOwn, now' = now
  PROVE PastOnly'
<1>1. \A w \in Workers : at'[w] <= now' /\ (pc'[w] \notin Busy => ech'[w] = Manual)
      BY DEF TypeOK, PastOnly, Quiet
<1>2. ASSUME NEW r \in Reports PROVE Above(r, now + 1)'
  <2>1. now + 1 \in Int /\ Above(r, now + 1) /\ now' + 1 = now + 1
        BY DEF TypeOK, PastOnly
  <2> QED BY <2>1, QuietAbove DEF Above
<1> QED BY <1>1, <1>2 DEF PastOnly

\* The next echeance in the rows stays later than those taken ...
LEMMA QuietAdvanced ==
  ASSUME TypeOK, Advanced, Quiet, MailsOwn, row' = row
  PROVE Advanced'
<1> SUFFICES ASSUME NEW r \in Reports PROVE Above(r, row[r].prochain_envoi)'
    BY DEF Advanced
<1>1. /\ row[r].prochain_envoi \in Int /\ Above(r, row[r].prochain_envoi)
      /\ row'[r].prochain_envoi = row[r].prochain_envoi
      BY DEF TypeOK, Rows, Advanced
<1> QED BY <1>1, QuietAbove DEF Above

\* ... and so does the one in the copies.
LEMMA QuietCopy ==
  ASSUME TypeOK, Equipped, CopyAdvanced, Quiet, MailsOwn, UNCHANGED page
  PROVE CopyAdvanced'
<1> SUFFICES ASSUME NEW e \in Editors, mode'[e] = "edit"
             PROVE Above(target[e], copy[e].prochain_envoi)'
    BY DEF CopyAdvanced
<1>1. /\ mode[e] = "edit" /\ target[e] \in Reports /\ copy[e].prochain_envoi \in Int
      /\ target'[e] = target[e] /\ copy'[e].prochain_envoi = copy[e].prochain_envoi
      BY DEF page, Equipped, Rows
<1>2. Above(target[e], copy[e].prochain_envoi)
      BY <1>1 DEF CopyAdvanced
<1> QED BY <1>1, <1>2, QuietAbove DEF Above

\* A quiet step keeps the echeances of the workers distinct.
LEMMA QuietDistinct ==
  ASSUME TypeOK, Distinct, Quiet
  PROVE Distinct'
BY DEF TypeOK, Distinct, Quiet, Sends, Busy

\* A quiet step without a mail leaves the recipients left without one.
LEMMA QuietUnmailed ==
  ASSUME TypeOK, Unmailed, Quiet, mailed' = mailed
  PROVE Unmailed'
BY DEF TypeOK, Unmailed, Quiet, Busy

\* A report is taken when it is due.
LEMMA PastStep ==
  ASSUME TypeOK, Equipped, PastOnly, [Next]_vars
  PROVE PastOnly'
<1> USE FrequencyAssumption, NullAssumption, BoundAssumption, NextLater
<1> USE DEF PastOnly, TypeOK, Equipped, Busy, Rows, Manual, Sends, Above, Goto, table, task, page, log
<1>1. ASSUME NEW w \in Workers, Start(w) PROVE PastOnly'
      BY <1>1 DEF Start, DueAt
<1>2. ASSUME NEW w \in Workers, NEW r \in Reports, Take(w, r) PROVE PastOnly'
      BY <1>2 DEF Take, DueAt
<1>3. ASSUME NEW w \in Workers, NEW r \in Reports, Skip(w, r) PROVE PastOnly'
      BY <1>3 DEF Skip, DueAt
<1>4. ASSUME NEW w \in Workers, NEW u \in Users, Ignore(w, u) PROVE PastOnly'
      BY <1>4, TracedQuiet, QuietPast DEF Ignore, log, table, MailsOwn
<1>5. ASSUME NEW w \in Workers, NEW u \in Users, Send(w, u) PROVE PastOnly'
   <2>1. Quiet
         BY <1>5 DEF Send, Quiet
   <2>2. MailsOwn
         BY <1>5 DEF Send, MailsOwn
   <2> QED BY <1>5, <2>1, <2>2, QuietPast DEF Send, table
<1>6. ASSUME NEW w \in Workers, NEW u \in Users, Fail(w, u) PROVE PastOnly'
   <2>1. Quiet
         BY <1>6, TracedQuiet DEF Fail
   <2>2. MailsOwn
         BY <1>6 DEF Fail, MailsOwn
   <2> QED BY <1>6, <2>1, <2>2, QuietPast DEF Fail, table
<1>7. ASSUME NEW w \in Workers, Finish(w) PROVE PastOnly'
      BY <1>7 DEF Finish, End
<1>8. ASSUME NEW w \in Workers, Load(w) PROVE PastOnly'
      BY <1>8 DEF Load
<1>9. ASSUME NEW w \in Workers, Raise(w) PROVE PastOnly'
      BY <1>9 DEF Raise, End
<1>10. ASSUME NEW w \in Workers, Trace(w) PROVE PastOnly'
      BY <1>10, TraceQuiet, QuietPast DEF Trace, table, MailsOwn
<1>11. ASSUME NEW w \in Workers, NextReport(w) PROVE PastOnly'
      BY <1>11, NextReportQuiet, QuietPast DEF NextReport, table, log, MailsOwn
<1>12. ASSUME NEW w \in Workers, Crash(w) PROVE PastOnly'
      BY <1>12 DEF Crash, End, Fault
<1>13. ASSUME NEW w \in Workers, NEW r \in Reports, Press(w, r) PROVE PastOnly'
      BY <1>13 DEF Press
<1>14. ASSUME NEW e \in Editors, Save(e) PROVE PastOnly'
      BY <1>14 DEF Save, Close, Edited
<1>15. ASSUME NEW e \in Editors, Refuse(e) PROVE PastOnly'
      BY <1>15 DEF Refuse, Close
<1>16. ASSUME NEW e \in Editors, SetRecipients(e) PROVE PastOnly'
      BY <1>16 DEF SetRecipients, Close
<1>17. ASSUME NEW e \in Editors, NEW r \in Reports, Create(e, r) PROVE PastOnly'
      BY <1>17 DEF Create
<1>18. ASSUME NEW e \in Editors, NEW r \in Reports, Open(e, r) PROVE PastOnly'
      BY <1>18 DEF Open
<1>19. ASSUME NEW r \in Reports, Remove(r) PROVE PastOnly'
      BY <1>19 DEF Remove
<1>20. CASE Tick
      BY <1>20 DEF Tick
<1>21. CASE UNCHANGED vars
      BY <1>21 DEF vars
<1> QED BY <1>1, <1>2, <1>3, <1>4, <1>5, <1>6, <1>7, <1>8, <1>9, <1>10,
           <1>11, <1>12, <1>13, <1>14, <1>15, <1>16, <1>17, <1>18, <1>19, <1>20,
           <1>21
        DEF Next, Sending, Editing

\* An echeance taken is left behind.
LEMMA AdvancedStep ==
  ASSUME TypeOK, Equipped, PastOnly, Advanced, CopyAdvanced, [Next]_vars
  PROVE Advanced'
<1> USE FrequencyAssumption, NullAssumption, BoundAssumption, NextLater
<1> USE DEF PastOnly, Advanced, CopyAdvanced, TypeOK, Equipped, Busy, Rows, Manual, Sends, Above, Goto, table, task, page, log
<1>1. ASSUME NEW w \in Workers, Start(w) PROVE Advanced'
      BY <1>1 DEF Start, DueAt
<1>2. ASSUME NEW w \in Workers, NEW r \in Reports, Take(w, r) PROVE Advanced'
      BY <1>2 DEF Take, DueAt
<1>3. ASSUME NEW w \in Workers, NEW r \in Reports, Skip(w, r) PROVE Advanced'
      BY <1>3 DEF Skip, DueAt
<1>4. ASSUME NEW w \in Workers, NEW u \in Users, Ignore(w, u) PROVE Advanced'
      BY <1>4, TracedQuiet, QuietAdvanced DEF Ignore, log, table, MailsOwn
<1>5. ASSUME NEW w \in Workers, NEW u \in Users, Send(w, u) PROVE Advanced'
   <2>1. Quiet
         BY <1>5 DEF Send, Quiet
   <2>2. MailsOwn
         BY <1>5 DEF Send, MailsOwn
   <2> QED BY <1>5, <2>1, <2>2, QuietAdvanced DEF Send, table
<1>6. ASSUME NEW w \in Workers, NEW u \in Users, Fail(w, u) PROVE Advanced'
   <2>1. Quiet
         BY <1>6, TracedQuiet DEF Fail
   <2>2. MailsOwn
         BY <1>6 DEF Fail, MailsOwn
   <2> QED BY <1>6, <2>1, <2>2, QuietAdvanced DEF Fail, table
<1>7. ASSUME NEW w \in Workers, Finish(w) PROVE Advanced'
      BY <1>7 DEF Finish, End
<1>8. ASSUME NEW w \in Workers, Load(w) PROVE Advanced'
      BY <1>8 DEF Load
<1>9. ASSUME NEW w \in Workers, Raise(w) PROVE Advanced'
      BY <1>9 DEF Raise, End
<1>10. ASSUME NEW w \in Workers, Trace(w) PROVE Advanced'
      BY <1>10, TraceQuiet, QuietAdvanced DEF Trace, table, MailsOwn
<1>11. ASSUME NEW w \in Workers, NextReport(w) PROVE Advanced'
      BY <1>11, NextReportQuiet, QuietAdvanced DEF NextReport, table, log, MailsOwn
<1>12. ASSUME NEW w \in Workers, Crash(w) PROVE Advanced'
      BY <1>12 DEF Crash, End, Fault
<1>13. ASSUME NEW w \in Workers, NEW r \in Reports, Press(w, r) PROVE Advanced'
      BY <1>13 DEF Press
<1>14. ASSUME NEW e \in Editors, Save(e) PROVE Advanced'
      BY <1>14 DEF Save, Close, Edited
<1>15. ASSUME NEW e \in Editors, Refuse(e) PROVE Advanced'
      BY <1>15 DEF Refuse, Close
<1>16. ASSUME NEW e \in Editors, SetRecipients(e) PROVE Advanced'
      BY <1>16 DEF SetRecipients, Close
<1>17. ASSUME NEW e \in Editors, NEW r \in Reports, Create(e, r) PROVE Advanced'
      BY <1>17 DEF Create
<1>18. ASSUME NEW e \in Editors, NEW r \in Reports, Open(e, r) PROVE Advanced'
      BY <1>18 DEF Open
<1>19. ASSUME NEW r \in Reports, Remove(r) PROVE Advanced'
      BY <1>19 DEF Remove
<1>20. CASE Tick
      BY <1>20 DEF Tick
<1>21. CASE UNCHANGED vars
      BY <1>21 DEF vars
<1> QED BY <1>1, <1>2, <1>3, <1>4, <1>5, <1>6, <1>7, <1>8, <1>9, <1>10,
           <1>11, <1>12, <1>13, <1>14, <1>15, <1>16, <1>17, <1>18, <1>19, <1>20,
           <1>21
        DEF Next, Sending, Editing

\* No report is taken while an edit has it open.
LEMMA CopyStep ==
  ASSUME TypeOK, Equipped, PastOnly, Advanced, CopyAdvanced, ~EditsOverlap, [Next]_vars
  PROVE CopyAdvanced'
<1> USE FrequencyAssumption, NullAssumption, BoundAssumption, NextLater
<1> USE DEF PastOnly, Advanced, CopyAdvanced, TypeOK, Equipped, Busy, Rows, Manual, Sends, Above, Goto, table, task, page, log
<1>1. ASSUME NEW w \in Workers, Start(w) PROVE CopyAdvanced'
      BY <1>1 DEF Start, DueAt
<1>2. ASSUME NEW w \in Workers, NEW r \in Reports, Take(w, r) PROVE CopyAdvanced'
      BY <1>2 DEF Take, DueAt
<1>3. ASSUME NEW w \in Workers, NEW r \in Reports, Skip(w, r) PROVE CopyAdvanced'
      BY <1>3 DEF Skip, DueAt
<1>4. ASSUME NEW w \in Workers, NEW u \in Users, Ignore(w, u) PROVE CopyAdvanced'
      BY <1>4, TracedQuiet, QuietCopy DEF Ignore, log, table, MailsOwn
<1>5. ASSUME NEW w \in Workers, NEW u \in Users, Send(w, u) PROVE CopyAdvanced'
   <2>1. Quiet
         BY <1>5 DEF Send, Quiet
   <2>2. MailsOwn
         BY <1>5 DEF Send, MailsOwn
   <2> QED BY <1>5, <2>1, <2>2, QuietCopy DEF Send, table
<1>6. ASSUME NEW w \in Workers, NEW u \in Users, Fail(w, u) PROVE CopyAdvanced'
   <2>1. Quiet
         BY <1>6, TracedQuiet DEF Fail
   <2>2. MailsOwn
         BY <1>6 DEF Fail, MailsOwn
   <2> QED BY <1>6, <2>1, <2>2, QuietCopy DEF Fail, table
<1>7. ASSUME NEW w \in Workers, Finish(w) PROVE CopyAdvanced'
      BY <1>7 DEF Finish, End
<1>8. ASSUME NEW w \in Workers, Load(w) PROVE CopyAdvanced'
      BY <1>8 DEF Load
<1>9. ASSUME NEW w \in Workers, Raise(w) PROVE CopyAdvanced'
      BY <1>9 DEF Raise, End
<1>10. ASSUME NEW w \in Workers, Trace(w) PROVE CopyAdvanced'
      BY <1>10, TraceQuiet, QuietCopy DEF Trace, table, MailsOwn
<1>11. ASSUME NEW w \in Workers, NextReport(w) PROVE CopyAdvanced'
      BY <1>11, NextReportQuiet, QuietCopy DEF NextReport, table, log, MailsOwn
<1>12. ASSUME NEW w \in Workers, Crash(w) PROVE CopyAdvanced'
      BY <1>12 DEF Crash, End, Fault
<1>13. ASSUME NEW w \in Workers, NEW r \in Reports, Press(w, r) PROVE CopyAdvanced'
      BY <1>13 DEF Press
<1>14. ASSUME NEW e \in Editors, Save(e) PROVE CopyAdvanced'
      BY <1>14 DEF Save, Close, Edited
<1>15. ASSUME NEW e \in Editors, Refuse(e) PROVE CopyAdvanced'
      BY <1>15 DEF Refuse, Close
<1>16. ASSUME NEW e \in Editors, SetRecipients(e) PROVE CopyAdvanced'
      BY <1>16 DEF SetRecipients, Close
<1>17. ASSUME NEW e \in Editors, NEW r \in Reports, Create(e, r) PROVE CopyAdvanced'
      BY <1>17 DEF Create
<1>18. ASSUME NEW e \in Editors, NEW r \in Reports, Open(e, r) PROVE CopyAdvanced'
      BY <1>18 DEF Open
<1>19. ASSUME NEW r \in Reports, Remove(r) PROVE CopyAdvanced'
      BY <1>19 DEF Remove
<1>20. CASE Tick
      BY <1>20 DEF Tick
<1>21. CASE UNCHANGED vars
      BY <1>21 DEF vars
<1> QED BY <1>1, <1>2, <1>3, <1>4, <1>5, <1>6, <1>7, <1>8, <1>9, <1>10,
           <1>11, <1>12, <1>13, <1>14, <1>15, <1>16, <1>17, <1>18, <1>19, <1>20,
           <1>21
        DEF Next, Sending, Editing

\* A worker takes a report for an echeance of its own.
LEMMA DistinctStep ==
  ASSUME TypeOK, Equipped, PastOnly, Advanced, Distinct, [Next]_vars
  PROVE Distinct'
<1> USE FrequencyAssumption, NullAssumption, BoundAssumption, NextLater
<1> USE DEF PastOnly, Advanced, Distinct, TypeOK, Equipped, Busy, Rows, Manual, Sends, Above, Goto, table, task, page, log
<1>1. ASSUME NEW w \in Workers, Start(w) PROVE Distinct'
      BY <1>1 DEF Start, DueAt
<1>2. ASSUME NEW w \in Workers, NEW r \in Reports, Take(w, r) PROVE Distinct'
      BY <1>2 DEF Take, DueAt
<1>3. ASSUME NEW w \in Workers, NEW r \in Reports, Skip(w, r) PROVE Distinct'
      BY <1>3 DEF Skip, DueAt
<1>4. ASSUME NEW w \in Workers, NEW u \in Users, Ignore(w, u) PROVE Distinct'
      BY <1>4, TracedQuiet, QuietDistinct DEF Ignore
<1>5. ASSUME NEW w \in Workers, NEW u \in Users, Send(w, u) PROVE Distinct'
      BY <1>5 DEF Send
<1>6. ASSUME NEW w \in Workers, NEW u \in Users, Fail(w, u) PROVE Distinct'
      BY <1>6, TracedQuiet, QuietDistinct DEF Fail
<1>7. ASSUME NEW w \in Workers, Finish(w) PROVE Distinct'
      BY <1>7 DEF Finish, End
<1>8. ASSUME NEW w \in Workers, Load(w) PROVE Distinct'
      BY <1>8 DEF Load
<1>9. ASSUME NEW w \in Workers, Raise(w) PROVE Distinct'
      BY <1>9 DEF Raise, End
<1>10. ASSUME NEW w \in Workers, Trace(w) PROVE Distinct'
      BY <1>10, TraceQuiet, QuietDistinct
<1>11. ASSUME NEW w \in Workers, NextReport(w) PROVE Distinct'
      BY <1>11, NextReportQuiet, QuietDistinct
<1>12. ASSUME NEW w \in Workers, Crash(w) PROVE Distinct'
      BY <1>12 DEF Crash, End, Fault
<1>13. ASSUME NEW w \in Workers, NEW r \in Reports, Press(w, r) PROVE Distinct'
      BY <1>13 DEF Press
<1>14. ASSUME NEW e \in Editors, Save(e) PROVE Distinct'
      BY <1>14 DEF Save, Close, Edited
<1>15. ASSUME NEW e \in Editors, Refuse(e) PROVE Distinct'
      BY <1>15 DEF Refuse, Close
<1>16. ASSUME NEW e \in Editors, SetRecipients(e) PROVE Distinct'
      BY <1>16 DEF SetRecipients, Close
<1>17. ASSUME NEW e \in Editors, NEW r \in Reports, Create(e, r) PROVE Distinct'
      BY <1>17 DEF Create
<1>18. ASSUME NEW e \in Editors, NEW r \in Reports, Open(e, r) PROVE Distinct'
      BY <1>18 DEF Open
<1>19. ASSUME NEW r \in Reports, Remove(r) PROVE Distinct'
      BY <1>19 DEF Remove
<1>20. CASE Tick
      BY <1>20 DEF Tick
<1>21. CASE UNCHANGED vars
      BY <1>21 DEF vars
<1> QED BY <1>1, <1>2, <1>3, <1>4, <1>5, <1>6, <1>7, <1>8, <1>9, <1>10,
           <1>11, <1>12, <1>13, <1>14, <1>15, <1>16, <1>17, <1>18, <1>19, <1>20,
           <1>21
        DEF Next, Sending, Editing

\* A mail for an echeance leaves once.
LEMMA UnmailedStep ==
  ASSUME TypeOK, Equipped, PastOnly, Advanced, Distinct, Unmailed, [Next]_vars
  PROVE Unmailed'
<1> USE FrequencyAssumption, NullAssumption, BoundAssumption, NextLater
<1> USE DEF PastOnly, Advanced, Distinct, Unmailed, TypeOK, Equipped, Busy, Rows, Manual, Sends, Above, Goto, table, task, page, log
<1>1. ASSUME NEW w \in Workers, Start(w) PROVE Unmailed'
      BY <1>1 DEF Start, DueAt
<1>2. ASSUME NEW w \in Workers, NEW r \in Reports, Take(w, r) PROVE Unmailed'
      BY <1>2 DEF Take, DueAt
<1>3. ASSUME NEW w \in Workers, NEW r \in Reports, Skip(w, r) PROVE Unmailed'
      BY <1>3 DEF Skip, DueAt
<1>4. ASSUME NEW w \in Workers, NEW u \in Users, Ignore(w, u) PROVE Unmailed'
      BY <1>4, TracedQuiet, QuietUnmailed DEF Ignore
<1>5. ASSUME NEW w \in Workers, NEW u \in Users, Send(w, u) PROVE Unmailed'
      BY <1>5 DEF Send
<1>6. ASSUME NEW w \in Workers, NEW u \in Users, Fail(w, u) PROVE Unmailed'
   <2> DEFINE item == <<report[w], ech[w], u>>
   <2>1. mailed' \subseteq mailed \cup {item} /\ pc[w] = "each"
         BY <1>6 DEF Fail
   <2>2. Quiet
         BY <1>6, TracedQuiet DEF Fail
   <2>3. pc'[w] \in Busy => u \notin left'[w]
      <3>1. CASE End(w)
            BY <3>1 DEF End
      <3>2. CASE ~End(w)
            BY <1>6, <3>2 DEF Fail, Traced
      <3> QED BY <3>1, <3>2
   <2>4. ASSUME NEW v \in Workers \ {w}, pc'[v] \in Busy, ech'[v] # Manual, NEW x \in Users
         PROVE <<report'[v], ech'[v], x>> # item
         BY <2>1, <2>2, <2>4 DEF Quiet
   <2>5. ASSUME NEW v \in Workers, ech'[v] # Manual, pc'[v] = "load", NEW x \in Users
         PROVE <<report'[v], ech'[v], x>> \notin mailed'
         BY <2>1, <2>2, <2>4, <2>5 DEF Quiet
   <2>6. ASSUME NEW v \in Workers, ech'[v] # Manual, pc'[v] \in {"each", "sent"},
                NEW x \in left'[v]
         PROVE <<report'[v], ech'[v], x>> \notin mailed'
      <3>1. report'[v] = report[v] /\ ech'[v] = ech[v] /\ x \in left[v] /\ x \in Users
            BY <2>2, <2>6 DEF Quiet
      <3>2. <<report'[v], ech'[v], x>> \notin mailed
            BY <2>2, <2>6, <3>1 DEF Quiet
      <3>3. <<report'[v], ech'[v], x>> # item
            BY <2>3, <2>4, <2>6, <3>1
      <3> QED BY <2>1, <3>2, <3>3
   <2> QED BY <2>5, <2>6
<1>7. ASSUME NEW w \in Workers, Finish(w) PROVE Unmailed'
      BY <1>7 DEF Finish, End
<1>8. ASSUME NEW w \in Workers, Load(w) PROVE Unmailed'
      BY <1>8 DEF Load
<1>9. ASSUME NEW w \in Workers, Raise(w) PROVE Unmailed'
      BY <1>9 DEF Raise, End
<1>10. ASSUME NEW w \in Workers, Trace(w) PROVE Unmailed'
      BY <1>10, TraceQuiet, QuietUnmailed DEF Trace
<1>11. ASSUME NEW w \in Workers, NextReport(w) PROVE Unmailed'
      BY <1>11, NextReportQuiet, QuietUnmailed DEF NextReport
<1>12. ASSUME NEW w \in Workers, Crash(w) PROVE Unmailed'
      BY <1>12 DEF Crash, End, Fault
<1>13. ASSUME NEW w \in Workers, NEW r \in Reports, Press(w, r) PROVE Unmailed'
      BY <1>13 DEF Press
<1>14. ASSUME NEW e \in Editors, Save(e) PROVE Unmailed'
      BY <1>14 DEF Save, Close, Edited
<1>15. ASSUME NEW e \in Editors, Refuse(e) PROVE Unmailed'
      BY <1>15 DEF Refuse, Close
<1>16. ASSUME NEW e \in Editors, SetRecipients(e) PROVE Unmailed'
      BY <1>16 DEF SetRecipients, Close
<1>17. ASSUME NEW e \in Editors, NEW r \in Reports, Create(e, r) PROVE Unmailed'
      BY <1>17 DEF Create
<1>18. ASSUME NEW e \in Editors, NEW r \in Reports, Open(e, r) PROVE Unmailed'
      BY <1>18 DEF Open
<1>19. ASSUME NEW r \in Reports, Remove(r) PROVE Unmailed'
      BY <1>19 DEF Remove
<1>20. CASE Tick
      BY <1>20 DEF Tick
<1>21. CASE UNCHANGED vars
      BY <1>21 DEF vars
<1> QED BY <1>1, <1>2, <1>3, <1>4, <1>5, <1>6, <1>7, <1>8, <1>9, <1>10,
           <1>11, <1>12, <1>13, <1>14, <1>15, <1>16, <1>17, <1>18, <1>19, <1>20,
           <1>21
        DEF Next, Sending, Editing

-----------------------------------------------------------------------------
\* What is traced as sent, or is about to be, was mailed.
Truthful ==
  /\ NoOptimisticTrace
  /\ \A w \in Workers : pc[w] = "sent" => <<report[w], ech[w], cur[w]>> \in mailed

\* A mail leaves before it is traced.
LEMMA TruthStep ==
  ASSUME TypeOK, Equipped, Truthful, [Next]_vars
  PROVE Truthful'
<1> USE FrequencyAssumption, NullAssumption, BoundAssumption, NextLater
<1> USE DEF TypeOK, Equipped, Truthful, NoOptimisticTrace, Busy, Manual, Goto, table, task, page, log
<1>1. ASSUME NEW w \in Workers, Start(w) PROVE Truthful'
      BY <1>1 DEF Start, DueAt
<1>2. ASSUME NEW w \in Workers, NEW r \in Reports, Take(w, r) PROVE Truthful'
      BY <1>2 DEF Take, DueAt
<1>3. ASSUME NEW w \in Workers, NEW r \in Reports, Skip(w, r) PROVE Truthful'
      BY <1>3 DEF Skip, DueAt
<1>4. ASSUME NEW w \in Workers, NEW u \in Users, Ignore(w, u) PROVE Truthful'
      BY <1>4 DEF Ignore, Traced, Traceable, End
<1>5. ASSUME NEW w \in Workers, NEW u \in Users, Send(w, u) PROVE Truthful'
      BY <1>5 DEF Send
<1>6. ASSUME NEW w \in Workers, NEW u \in Users, Fail(w, u) PROVE Truthful'
      BY <1>6 DEF Fail, Traced, Traceable, End, Fault
<1>7. ASSUME NEW w \in Workers, Finish(w) PROVE Truthful'
      BY <1>7 DEF Finish, End
<1>8. ASSUME NEW w \in Workers, Load(w) PROVE Truthful'
      BY <1>8 DEF Load
<1>9. ASSUME NEW w \in Workers, Raise(w) PROVE Truthful'
      BY <1>9 DEF Raise, End
<1>10. ASSUME NEW w \in Workers, Trace(w) PROVE Truthful'
      BY <1>10 DEF Trace, Traceable, End
<1>11. ASSUME NEW w \in Workers, NextReport(w) PROVE Truthful'
      BY <1>11 DEF NextReport, End
<1>12. ASSUME NEW w \in Workers, Crash(w) PROVE Truthful'
      BY <1>12 DEF Crash, End, Fault
<1>13. ASSUME NEW w \in Workers, NEW r \in Reports, Press(w, r) PROVE Truthful'
      BY <1>13 DEF Press
<1>14. ASSUME NEW e \in Editors, Save(e) PROVE Truthful'
      BY <1>14 DEF Save, Close, Edited
<1>15. ASSUME NEW e \in Editors, Refuse(e) PROVE Truthful'
      BY <1>15 DEF Refuse, Close
<1>16. ASSUME NEW e \in Editors, SetRecipients(e) PROVE Truthful'
      BY <1>16 DEF SetRecipients, Close
<1>17. ASSUME NEW e \in Editors, NEW r \in Reports, Create(e, r) PROVE Truthful'
      BY <1>17 DEF Create
<1>18. ASSUME NEW e \in Editors, NEW r \in Reports, Open(e, r) PROVE Truthful'
      BY <1>18 DEF Open
<1>19. ASSUME NEW r \in Reports, Remove(r) PROVE Truthful'
      BY <1>19 DEF Remove
<1>20. CASE Tick
      BY <1>20 DEF Tick
<1>21. CASE UNCHANGED vars
      BY <1>21 DEF vars
<1> QED BY <1>1, <1>2, <1>3, <1>4, <1>5, <1>6, <1>7, <1>8, <1>9, <1>10,
           <1>11, <1>12, <1>13, <1>14, <1>15, <1>16, <1>17, <1>18, <1>19, <1>20,
           <1>21
        DEF Next, Sending, Editing

-----------------------------------------------------------------------------
\* The initial states are well typed, and nobody is at work.
LEMMA TypeInit == Init => TypeOK /\ Equipped
<1> USE FrequencyAssumption, NullAssumption, BoundAssumption, NextLater
<1> SUFFICES ASSUME Init PROVE TypeOK /\ Equipped
    OBVIOUS
<1>1. row \in [Reports -> Rows]
      BY DEF Init, Rows
<1>2. /\ status \in [Reports -> {"new", "there", "gone"}]
      /\ to \in [Reports -> SUBSET Users]
      BY DEF Init
<1>3. TaskOK
      BY DEF Init, TaskOK, Manual
<1>4. /\ mode \in [Editors -> {"idle", "edit", "recipients"}]
      /\ target \in [Editors -> Reports \cup {NoReport}]
      /\ copy \in [Editors -> Rows \cup {NoRow}]
      BY DEF Init
<1>5. now = 0 /\ mailed = {} /\ envoyes = {} /\ edits = 0 /\ faults = 0
      BY DEF Init
<1>6. TypeOK
      BY <1>1, <1>2, <1>3, <1>4, <1>5 DEF TypeOK, TaskOK
<1> QED BY <1>6 DEF Init, Equipped, Busy

\* Every variable keeps its type, whatever tasks, edits, deletions and crashes do.
THEOREM TypeCorrect == Spec => []TypeOK
<1>1. TypeOK /\ Equipped /\ [Next]_vars => (TypeOK /\ Equipped)'
      BY TypeStep, EquippedStep
<1> QED BY TypeInit, <1>1, PTL DEF Spec

\* A report traced as sent was sent, for any number of workers and edits.
THEOREM TracesAreTrue == Spec => []NoOptimisticTrace
<1> DEFINE IInv == TypeOK /\ Equipped /\ Truthful
<1>1. Init => IInv
      BY TypeInit DEF Init, Truthful, NoOptimisticTrace
<1>2. IInv /\ [Next]_vars => IInv'
      BY TypeStep, EquippedStep, TruthStep
<1>3. IInv => NoOptimisticTrace
      BY DEF Truthful
<1> QED BY <1>1, <1>2, <1>3, PTL DEF Spec

\* When no worker takes a report that an edit has open, nobody is mailed a report
\* twice for one echeance, for any number of overlapping, stale or crashing tasks.
THEOREM SentOnce ==
  ASSUME ~EditsOverlap PROVE Spec => []OneMailPerEcheance
<1> DEFINE IInv == /\ TypeOK /\ Equipped /\ PastOnly /\ Advanced
                   /\ CopyAdvanced /\ Distinct /\ Unmailed
<1>1. Init => IInv
  <2> SUFFICES ASSUME Init PROVE IInv
      OBVIOUS
  <2>1. /\ now = 0 /\ mailed = {}
        /\ \A w \in Workers : at[w] = 0 /\ ech[w] = Manual /\ pc[w] \notin Busy
        /\ \A e \in Editors : mode[e] # "edit"
        BY DEF Init, Busy
  <2>2. \A r \in Reports : \A d : Above(r, d)
        BY <2>1 DEF Above, Sends
  <2>3. PastOnly /\ Advanced /\ CopyAdvanced
        BY <2>1, <2>2 DEF PastOnly, Advanced, CopyAdvanced
  <2>4. Distinct /\ Unmailed
        BY <2>1 DEF Distinct, Unmailed, Sends
  <2> QED BY TypeInit, <2>3, <2>4
<1>2. IInv /\ [Next]_vars => IInv'
      BY TypeStep, EquippedStep, PastStep, AdvancedStep, CopyStep, DistinctStep, UnmailedStep
<1>3. IInv => OneMailPerEcheance
      BY DEF Unmailed, OneMailPerEcheance
<1> QED BY <1>1, <1>2, <1>3, PTL DEF Spec
=============================================================================
