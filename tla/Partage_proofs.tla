--------------------------- MODULE Partage_proofs ---------------------------
(***************************************************************************)
(* Proofs about Partage, for any requests, versions and disruptions.       *)
(***************************************************************************)
EXTENDS Partage, TLAPS

\* The lock is held by whoever collects, until a collection outlives it or a
\* waiter loses patience.
LockIsMine == ~depasse => \A r \in Requests : Collecting(r) => verrou = r

\* What was read or collected of the thresholds: a request that has read them
\* carries their version.
Carries(r) == etape[r] \in {"base", "rendre", "liberer", "ranger"}

\* Since the last arbitration no collection overlapped one.  Before the row is
\* written everything that exists is of the thresholds in force; while the
\* caches are forgotten nobody collects.
Current(v) == v = 0 \/ v = seuils
Serene ==
    serein =>
      /\ decision \in {"repos", "avant"} =>
           /\ Current(charge) /\ Current(copie)
           /\ \A r \in Requests : Carries(r) => lu[r] = seuils
      /\ decision \notin {"repos", "avant"} => \A r \in Requests : ~Busy(r)
      /\ decision \in {"charge", "ensuite", "audit"} => copie = 0
      /\ decision \in {"ensuite", "audit"} => charge = 0

\* An arbitration that is about to write has a version left to write.
Room == decision = "avant" => seuils < MaxVersion

IInv == TypeOK /\ Room /\ LockIsMine /\ Serene

-----------------------------------------------------------------------------
\* The inductive invariant holds at the start.
LEMMA InitInv == ASSUME PartageConstantes PROVE Init => IInv
<1> SUFFICES ASSUME Init PROVE IInv
  OBVIOUS
<1>1. TypeOK
  <2>1. seuils \in 1..MaxVersion /\ copie \in Versions /\ charge \in Versions /\ reads \in 0..MaxReads
    BY DEF Init, Versions, PartageConstantes
  <2>2. lu \in [Requests -> Versions]
    BY DEF Init, Versions, PartageConstantes
  <2>3. verrou \in Requests \cup {Personne} /\ etape \in [Requests -> Etapes]
    BY DEF Init, Etapes
  <2>4. decision \in {"repos", "avant", "copie", "charge", "ensuite", "audit"}
    BY DEF Init
  <2>5. depasse \in BOOLEAN /\ serein \in BOOLEAN
    BY DEF Init
  <2> QED BY <2>1, <2>2, <2>3, <2>4, <2>5 DEF TypeOK
<1>2. LockIsMine
  BY DEF Init, LockIsMine, Collecting
<1>3. Serene
  BY DEF Init, Serene, Current, Carries
<1>4. Room
  BY DEF Init, Room
<1> QED BY <1>1, <1>2, <1>3, <1>4 DEF IInv

\* Only an arbitration that has read the row goes on to write it, and only one
\* arbitration writes.
LEMMA RoomStep ==
  ASSUME PartageConstantes, TypeOK, Room, [Next]_vars
  PROVE  Room'
<1> USE DEF Room
<1>1. ASSUME NEW r \in Requests, Read(r) \/ Crash(r) PROVE Room'
  BY <1>1 DEF Read, Hit, Miss, Lock, Served, Impatient, Thresholds, CopyThresholds, Collected,
              Unlock, Store, Crash
<1>2. CASE Put \/ CrashInPut
  BY <1>2 DEF Put, ReadBefore, Decide, ForgetThresholds, ForgetPayload, ForgetAgain, Audit, CrashInPut
<1>3. CASE PayloadExpires \/ ThresholdsExpire \/ LockExpires \/ UNCHANGED vars
  BY <1>3 DEF PayloadExpires, ThresholdsExpire, LockExpires, vars
<1> QED BY <1>1, <1>2, <1>3 DEF Next

\* Every step keeps the types.
LEMMA TypeStep ==
  ASSUME PartageConstantes, TypeOK, Room, [Next]_vars
  PROVE  TypeOK'
<1> USE DEF PartageConstantes, TypeOK, Versions, Etapes, Goto, At
<1>1. ASSUME NEW r \in Requests, Read(r) PROVE TypeOK'
  <2>1. CASE Hit(r) \/ Miss(r) \/ Served(r) \/ Thresholds(r) \/ CopyThresholds(r)
    BY <2>1 DEF Hit, Miss, Served, Thresholds, CopyThresholds
  <2>2. CASE Lock(r) \/ Impatient(r)
    <3>1. serein' \in BOOLEAN
      BY <2>2, Zenon DEF Lock, Impatient
    <3>2. <<seuils, copie, charge, verrou, etape, lu, decision, reads, depasse>>'
            \in (1..MaxVersion) \X Versions \X Versions \X (Requests \cup {Personne}) \X [Requests -> Etapes]
                 \X [Requests -> Versions] \X {"repos", "avant", "copie", "charge", "ensuite", "audit"}
                 \X (0..MaxReads) \X BOOLEAN
      BY <2>2 DEF Lock, Impatient, Suite
    <3> QED BY <3>1, <3>2
  <2>3. CASE Collected(r) \/ Unlock(r) \/ Store(r)
    BY <2>3 DEF Collected, Unlock, Store
  <2> QED BY <1>1, <2>1, <2>2, <2>3 DEF Read
<1>2. ASSUME NEW r \in Requests, Crash(r) PROVE TypeOK'
  BY <1>2 DEF Crash
<1>3. CASE ReadBefore \/ ForgetThresholds \/ ForgetPayload \/ ForgetAgain \/ Audit
  BY <1>3 DEF ReadBefore, ForgetThresholds, ForgetPayload, Oublier, ForgetAgain, Audit
<1>4. CASE Decide
  <2>1. seuils' \in 1..MaxVersion
    BY <1>4 DEF Decide, Room
  <2>2. serein' \in BOOLEAN
    <3>1. serein' = (\A r \in Requests : ~Busy(r))
      BY <1>4 DEF Decide
    <3> HIDE DEF TypeOK, PartageConstantes
    <3> QED BY <3>1, Zenon
  <2>3. decision' = "copie" /\ UNCHANGED <<copie, charge, verrou, etape, lu, reads, depasse>>
    BY <1>4 DEF Decide
  <2> QED BY <2>1, <2>2, <2>3
<1>5. CASE CrashInPut
  <2>1. serein' \in BOOLEAN
    <3>1. serein' = (serein /\ decision = "avant")
      BY <1>5 DEF CrashInPut
    <3> HIDE DEF TypeOK, PartageConstantes
    <3> QED BY <3>1, Zenon
  <2>2. decision' = "repos"
    BY <1>5 DEF CrashInPut
  <2>3. /\ seuils' \in 1..MaxVersion /\ copie' \in Versions /\ charge' \in Versions
        /\ verrou' \in Requests \cup {Personne}
        /\ etape' \in [Requests -> Etapes] /\ lu' \in [Requests -> Versions]
        /\ reads' \in 0..MaxReads /\ depasse' \in BOOLEAN
    BY <1>5 DEF CrashInPut
  <2> QED BY <2>1, <2>2, <2>3
<1>6. CASE PayloadExpires \/ ThresholdsExpire
  BY <1>6 DEF PayloadExpires, ThresholdsExpire
<1>7. CASE LockExpires
  BY <1>7 DEF LockExpires, Collecting
<1>8. CASE UNCHANGED vars
  BY <1>8 DEF vars
<1> QED BY <1>1, <1>2, <1>3, <1>4, <1>5, <1>6, <1>7, <1>8 DEF Next, Put

\* Whoever starts to collect has added the lock, and only its holder deletes
\* it; when it expires under nobody's collection, nobody collects.
LEMMA LockStep ==
  ASSUME PartageConstantes, TypeOK, LockIsMine, [Next]_vars
  PROVE  LockIsMine'
<1> USE DEF PartageConstantes, TypeOK, LockIsMine, Collecting, Goto, At
<1>1. ASSUME NEW r \in Requests, Read(r) PROVE LockIsMine'
  <2>1. CASE Hit(r) \/ Miss(r) \/ Served(r) \/ Impatient(r)
    BY <2>1 DEF Hit, Miss, Served, Impatient
  <2>2. CASE Lock(r)
    BY <2>2 DEF Lock, Suite
  <2>3. CASE Thresholds(r) \/ CopyThresholds(r) \/ Collected(r) \/ Store(r)
    BY <2>3 DEF Thresholds, CopyThresholds, Collected, Store
  <2>4. CASE Unlock(r)
    BY <2>4 DEF Unlock
  <2> QED BY <1>1, <2>1, <2>2, <2>3, <2>4 DEF Read
<1>2. ASSUME NEW r \in Requests, Crash(r) PROVE LockIsMine'
  BY <1>2 DEF Crash
<1>3. CASE Put \/ CrashInPut \/ PayloadExpires \/ ThresholdsExpire \/ UNCHANGED vars
  BY <1>3 DEF Put, ReadBefore, Decide, ForgetThresholds, ForgetPayload, ForgetAgain, Audit,
              CrashInPut, PayloadExpires, ThresholdsExpire, vars
<1>4. CASE LockExpires
  BY <1>4 DEF LockExpires
<1> QED BY <1>1, <1>2, <1>3, <1>4 DEF Next

\* A collection that starts during an arbitration ends the quiet; otherwise a
\* request reads the thresholds in force, and stores what it has read.
LEMMA SereneStep ==
  ASSUME PartageConstantes, TypeOK, Serene, [Next]_vars
  PROVE  Serene'
<1> USE DEF PartageConstantes, TypeOK, Versions, Serene, Current, Carries, Busy, Collecting, Goto, At
<1>1. ASSUME NEW r \in Requests, Read(r) PROVE Serene'
  <2>1. CASE Hit(r) \/ Miss(r) \/ Served(r)
    BY <2>1 DEF Hit, Miss, Served
  <2>2. CASE Lock(r) \/ Impatient(r)
    BY <2>2 DEF Lock, Suite, Impatient
  <2>3. CASE Thresholds(r)
    BY <2>3 DEF Thresholds
  <2>4. CASE CopyThresholds(r)
    BY <2>4 DEF CopyThresholds
  <2>5. CASE Collected(r) \/ Unlock(r)
    BY <2>5 DEF Collected, Unlock
  <2>6. CASE Store(r)
    BY <2>6 DEF Store
  <2> QED BY <1>1, <2>1, <2>2, <2>3, <2>4, <2>5, <2>6 DEF Read
<1>2. ASSUME NEW r \in Requests, Crash(r) PROVE Serene'
  BY <1>2 DEF Crash
<1>3. CASE ReadBefore \/ Decide
  BY <1>3 DEF ReadBefore, Decide
<1>4. CASE ForgetThresholds \/ ForgetPayload \/ ForgetAgain
  BY <1>4 DEF ForgetThresholds, ForgetPayload, Oublier, ForgetAgain
<1>5. CASE Audit \/ CrashInPut
  BY <1>5 DEF Audit, CrashInPut
<1>6. CASE PayloadExpires \/ ThresholdsExpire \/ LockExpires \/ UNCHANGED vars
  BY <1>6 DEF PayloadExpires, ThresholdsExpire, LockExpires, vars
<1> QED BY <1>1, <1>2, <1>3, <1>4, <1>5, <1>6 DEF Next, Put

-----------------------------------------------------------------------------
\* Every step keeps the inductive invariant.
LEMMA InvStep == ASSUME PartageConstantes PROVE IInv /\ [Next]_vars => IInv'
BY TypeStep, RoomStep, LockStep, SereneStep DEF IInv

\* Type correctness of the shared payload and its thresholds.
THEOREM TypeCorrect == ASSUME PartageConstantes PROVE Spec => []TypeOK
<1>1. IInv => TypeOK
  BY DEF IInv
<1> QED BY InitInv, InvStep, <1>1, PTL DEF Spec

\* Any number of requests have one collector at a time, as long as no
\* collection outlives its lock and no waiter its patience, whatever keys
\* expire and whichever collectors stop.
THEOREM CollectorIsAlone == ASSUME PartageConstantes PROVE Spec => []OneCollector
<1>1. IInv => OneCollector
  BY DEF IInv, LockIsMine, OneCollector
<1> QED BY InitInv, InvStep, <1>1, PTL DEF Spec

\* Once an arbitration is over, the payload and the thresholds that are served
\* are those of the row it wrote, unless a collection overlapped it.
THEOREM ArbitrationIsFollowed == ASSUME PartageConstantes PROVE Spec => []ArbitrageSuivi
<1>1. IInv => ArbitrageSuivi
  BY DEF IInv, Serene, Current, ArbitrageSuivi
<1> QED BY InitInv, InvStep, <1>1, PTL DEF Spec
=============================================================================
