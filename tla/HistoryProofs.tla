--------------------------- MODULE HistoryProofs ---------------------------
(***************************************************************************)
(* Proofs about HistoryStore, Nightly and Archive together, for any dates, *)
(* tables, retention and number of faults: a backup holds every row of its *)
(* date, retention deletes no row it does not hold, and what is published  *)
(* is what was recorded.                                                   *)
(***************************************************************************)
EXTENDS Archive, FiniteSetTheorems, TLAPS

\* A set of natural numbers has a least element.
LEMMA MinIsLeast ==
  ASSUME NEW S \in SUBSET Nat, S # {}
  PROVE  Min(S) \in S /\ \A y \in S : Min(S) <= y
<1> DEFINE below == {0 .. n - 1 : n \in S}
<1>1. below \subseteq FiniteSubsetsOf(Nat) /\ below # {}
  <2>1. ASSUME NEW n \in S PROVE IsFiniteSet(0 .. n - 1) /\ 0 .. n - 1 \subseteq Nat
    BY FS_Interval
  <2> QED BY <2>1 DEF FiniteSubsetsOf
<1>2. PICK least \in below : \A b \in below : ~ (<<b, least>> \in StrictSubsetOrdering(Nat))
  <2> HIDE DEF below
  <2> QED BY <1>1, WFMin, FS_StrictSubsetOrderingWellFounded
<1>3. PICK x \in S : least = 0 .. x - 1
  OBVIOUS
<1>4. ASSUME NEW y \in S PROVE x <= y
  <2> SUFFICES ASSUME y < x PROVE FALSE
    OBVIOUS
  <2>1. 0 .. y - 1 \subseteq 0 .. x - 1 /\ y \in 0 .. x - 1 /\ y \notin 0 .. y - 1
    OBVIOUS
  <2>2. 0 .. y - 1 \in below
    OBVIOUS
  <2>3. <<0 .. y - 1, least>> \in StrictSubsetOrdering(Nat)
    <3>1. 0 .. y - 1 # least
      BY <2>1, <1>3
    <3>2. 0 .. y - 1 \in SUBSET Nat /\ least \in SUBSET Nat
      BY <1>3
    <3>3. StrictSubsetOrdering(Nat) =
            {ss \in (SUBSET Nat) \X (SUBSET Nat) : ss[1] \subseteq ss[2] /\ ss[1] # ss[2]}
      BY DEF StrictSubsetOrdering
    <3> HIDE DEF below
    <3> QED BY <3>1, <3>2, <3>3, <2>1, <1>3
  <2> QED BY <2>2, <2>3, <1>2
<1> QED BY <1>4 DEF Min

-----------------------------------------------------------------------------
(* The inductive invariant: the writer, the nightly job, the archive pass. *)

Closed(d) == IsPartitionClosed(d, now)
Spoilt == cut \cup damaged

\* Only the open date is written, to a file that holds all it was given.
StoreInv ==
  /\ StoreTypeOK
  /\ cycle # NoDay => conn \in Days /\ now <= Boundary(conn + 1)
  /\ (conn # NoDay /\ ~Closed(conn)) => live[conn].kind = "whole"
  /\ \A d \in Days : live[d].kind = "whole" => live[d].rows = written[d]
  /\ \A d \in Days : ~Closed(d) => \/ live[d].kind = "whole"
                                   \/ live[d].kind = "missing" /\ written[d] = NoRows

\* The job handles closed dates; only a fault leaves a file that is not whole.
NightInv ==
  /\ NightTypeOK
  /\ \A d \in Days : backup[d].kind # "missing" => Closed(d)
  /\ BackupHoldsEveryRow
  /\ \A d \in night.todo : Closed(d)
  /\ night.pc \in {"sync", "copy"} => \A d \in night.todo : live[d].kind # "missing"
  /\ night.pc = "copy" => night.todo # {}
  /\ night.pc = "history" => \A d \in night.todo : backup[d].kind # "missing"
  /\ \A d \in Days : live[d].kind \in {"torn", "zero"} => d \in Spoilt
  /\ \A d \in Days : backup[d].kind \in {"torn", "zero"} =>
                       d \in Spoilt \/ (night.pc = "copy" /\ d = InHand)

\* The pass publishes closed dates, from files that hold all their rows.
PassInv ==
  /\ ArchiveTypeOK
  /\ \A d \in pass.todo : Closed(d)
  /\ pass.pc = "push" => pass.todo # {}
  /\ (pass.pc = "push" /\ Today \notin Spoilt) => pass.rows = Compact(written[Today])
  /\ \A d \in Days : ~Closed(d) => Published(d) = {}
  /\ ArchiveIsFaithful

PipelineInv == StoreInv /\ NightInv /\ PassInv

LEMMA FileKinds ==
  ASSUME NEW f \in Files
  PROVE  /\ f.kind \in {"missing", "zero", "torn", "whole"}
         /\ f.kind = "whole" => f.rows \in Rows /\ f = Whole(f.rows)
         /\ f.rows \in Rows
BY StoreAssumption DEF Files, Whole, Missing, Zero, Torn, Rows, NoRows

LEMMA FilesHold ==
  /\ Missing \in Files /\ Zero \in Files /\ Torn \in Files
  /\ Missing.kind = "missing" /\ Zero.kind = "zero" /\ Torn.kind = "torn"
  /\ NoRows \in Rows
  /\ \A r \in Rows : Whole(r) \in Files /\ Whole(r).kind = "whole" /\ Whole(r).rows = r
<1>1. \A r \in Rows : Whole(r) \in Files
  BY DEF Files
<1>2. \A r \in Rows : Whole(r).kind = "whole" /\ Whole(r).rows = r
  BY DEF Whole
<1>3. Missing \in Files /\ Zero \in Files /\ Torn \in Files
  BY DEF Files
<1>4. NoRows \in Rows
  BY StoreAssumption DEF Rows, NoRows
<1> QED BY <1>1, <1>2, <1>3, <1>4 DEF Missing, Zero, Torn

LEMMA CompactTyped ==
  ASSUME NEW rows \in Rows
  PROVE  Compact(rows) \in [Tables -> Counts]
BY StoreAssumption, ArchiveAssumption DEF Compact, Counts, Rows

LEMMA TodayDue ==
  ASSUME NightTypeOK, ArchiveTypeOK
  PROVE  /\ pass.todo # {} => Today \in pass.todo /\ Today \in Days
         /\ night.todo # {} => InHand \in night.todo /\ InHand \in Days
<1>1. pass.todo \subseteq Days /\ night.todo \subseteq Days /\ Days \subseteq Nat
  BY StoreAssumption DEF NightTypeOK, ArchiveTypeOK, Days
<1> QED BY <1>1, MinIsLeast DEF Today, InHand

\* The date of the clock is a date, and open.
LEMMA DateOpen ==
  ASSUME StoreTypeOK
  PROVE  /\ ServiceDate(now) \in Days
         /\ ~Closed(ServiceDate(now))
         /\ now <= Boundary(ServiceDate(now) + 1)
BY StoreAssumption
   DEF StoreTypeOK, Instants, Days, ServiceDate, Closed, IsPartitionClosed, Boundary

LEMMA PipelineInit == ArchiveInitAll => PipelineInv
<1> SUFFICES ASSUME ArchiveInitAll PROVE PipelineInv
  OBVIOUS
<1> USE StoreAssumption, FilesHold DEF ArchiveInitAll, StoreInit, NightInit, ArchiveInit
<1>1. StoreTypeOK
  BY DEF StoreTypeOK, Instants, NoDay, Days, Rows
<1>2. StoreInv
  BY <1>1 DEF StoreInv, Days, NoDay
<1>3. NightTypeOK
  BY DEF NightTypeOK, Asleep, Phases
<1>4. NightInv
  BY <1>3 DEF NightInv, BackupHoldsEveryRow, Asleep
<1>5. ArchiveTypeOK
  BY ArchiveAssumption, NightlyAssumption DEF ArchiveTypeOK, Resting, Counts, Rows
<1>6. PassInv
  BY <1>5 DEF PassInv, Resting, ArchiveIsFaithful, Published
<1> QED BY <1>2, <1>4, <1>6 DEF PipelineInv
-----------------------------------------------------------------------------
(* The writer's steps.                                                     *)

\* What the writer's steps mean to the job and to the pass: time goes on, open
\* dates alone change, and no file of a closed date does.
WriterStep ==
  /\ \A d \in Days : Closed(d) => Closed(d)' /\ live'[d] = live[d] /\ written'[d] = written[d]
  /\ \A d \in Days : ~Closed(d) => live'[d].kind \notin {"torn", "zero"}
  /\ \A d \in Days : live[d].kind # "missing" => live'[d].kind # "missing"

LEMMA StoreTick ==
  ASSUME PipelineInv, Tick
  PROVE  StoreInv' /\ WriterStep
<1> USE StoreAssumption DEF Tick, PipelineInv, StoreInv
<1>1. now \in Nat /\ now' = now + 1 /\ \A d \in Days : Closed(d) => Closed(d)'
  BY DEF StoreTypeOK, Instants, Closed, IsPartitionClosed, Boundary, Days
<1>2. StoreTypeOK'
  BY DEF StoreTypeOK
<1>3. (cycle # NoDay => conn \in Days /\ now <= Boundary(conn + 1))'
  OBVIOUS
<1>4. ((conn # NoDay /\ ~Closed(conn)) => live[conn].kind = "whole")'
  BY <1>1 DEF StoreTypeOK
<1>5. StoreInv'
  BY <1>1, <1>2, <1>3, <1>4
<1>6. WriterStep
  BY <1>1 DEF WriterStep
<1> QED BY <1>5, <1>6

LEMMA StoreRotate ==
  ASSUME PipelineInv, Rotate
  PROVE  StoreInv' /\ WriterStep
<1> DEFINE today == ServiceDate(now)
<1> USE FilesHold DEF PipelineInv, StoreInv
<1>1. today \in Days /\ ~Closed(today) /\ now <= Boundary(today + 1) /\ StoreTypeOK
  BY DateOpen
<1> HIDE DEF today
<1>2. /\ live' \in [Days -> Files]
      /\ live'[today].kind = "whole" /\ live'[today].rows = written[today]
      /\ \A d \in Days \ {today} : live'[d] = live[d]
  <2>1. CASE conn = today
    BY <2>1, <1>1, StoreAssumption DEF Rotate, today, StoreTypeOK, Days, NoDay
  <2>2. CASE conn # today
    <3>1. live' = [live EXCEPT ![today] = Opened(live[today])]
      BY <2>2 DEF Rotate, today
    <3>2. /\ Opened(live[today]) \in Files
          /\ Opened(live[today]).kind = "whole" /\ Opened(live[today]).rows = written[today]
      BY <1>1 DEF Opened, StoreTypeOK
    <3> QED BY <3>1, <3>2, <1>1 DEF StoreTypeOK
  <2> QED BY <2>1, <2>2
<1>3. now' = now /\ conn' = today /\ cycle' = now /\ written' = written
  BY DEF Rotate, today
<1>4. StoreTypeOK'
  BY <1>1, <1>2, <1>3 DEF StoreTypeOK
<1>5. \A d \in Days : Closed(d)' = Closed(d)
  BY <1>3 DEF Closed
<1>6. StoreInv'
  BY <1>1, <1>2, <1>3, <1>4, <1>5
<1>7. WriterStep
  BY <1>1, <1>2, <1>3, <1>5 DEF WriterStep
<1> QED BY <1>6, <1>7

LEMMA StoreRecord ==
  ASSUME PipelineInv, NEW t \in Tables, Record(t)
  PROVE  StoreInv' /\ WriterStep
<1> USE FilesHold DEF PipelineInv, StoreInv
<1>1. conn \in Days /\ ~Closed(conn) /\ StoreTypeOK
  BY StoreAssumption DEF Record, Closed, IsPartitionClosed, Boundary, StoreTypeOK, Instants, Days
<1>2. live[conn].kind = "whole" /\ live[conn].rows = written[conn] /\ written[conn] \in Rows
  BY <1>1, StoreAssumption DEF StoreTypeOK, Days, NoDay
<1>3. AddRow(written[conn], t) \in Rows
  BY <1>1, <1>2, StoreAssumption DEF AddRow, Rows, Record
<1>4. /\ live' = [live EXCEPT ![conn] = Whole(AddRow(written[conn], t))]
      /\ written' = [written EXCEPT ![conn] = AddRow(written[conn], t)]
      /\ UNCHANGED <<now, conn, cycle>>
  <2>1. live[conn] = Whole(written[conn])
    BY <1>1, <1>2, FileKinds DEF StoreTypeOK
  <2>2. \A r : [live[conn] EXCEPT !.rows = r] = Whole(r)
    <3>1. ASSUME NEW w, NEW r PROVE [Whole(w) EXCEPT !.rows = r] = Whole(r)
      <4>1. [Whole(w) EXCEPT !.rows = r] = [f \in {"kind", "rows"} |-> IF f = "rows" THEN r ELSE Whole(w)[f]]
        BY DEF Whole
      <4>2. Whole(r) = [f \in {"kind", "rows"} |-> IF f = "rows" THEN r ELSE "whole"]
        BY DEF Whole
      <4> QED BY <4>1, <4>2 DEF Whole
    <3> QED BY <2>1, <3>1
  <2>3. live' = [live EXCEPT ![conn] = [live[conn] EXCEPT !.rows = AddRow(live[conn].rows, t)]]
    BY DEF Record
  <2>4. live[conn].rows = written[conn]
    BY <1>2
  <2> QED BY <2>2, <2>3, <2>4 DEF Record
<1>5. StoreTypeOK'
  BY <1>1, <1>3, <1>4 DEF StoreTypeOK
<1>6. \A d \in Days : Closed(d)' = Closed(d)
  BY <1>4 DEF Closed
<1>7. live'[conn].kind = "whole" /\ live'[conn].rows = written'[conn]
  BY <1>1, <1>3, <1>4 DEF StoreTypeOK
<1>8. \A d \in Days \ {conn} : live'[d] = live[d] /\ written'[d] = written[d]
  BY <1>4 DEF StoreTypeOK
<1>9. StoreInv'
  BY <1>1, <1>4, <1>5, <1>6, <1>7, <1>8
<1>10. WriterStep
  BY <1>1, <1>6, <1>7, <1>8 DEF WriterStep
<1> QED BY <1>9, <1>10

LEMMA StoreRest ==
  ASSUME PipelineInv, EndCycle \/ Stop \/ UNCHANGED storeVars
  PROVE  StoreInv' /\ WriterStep
<1> USE DEF PipelineInv, StoreInv
<1>1. UNCHANGED <<now, live, written>> /\ (UNCHANGED <<conn, cycle>> \/ cycle' = NoDay)
  BY DEF EndCycle, Stop, storeVars
<1>2. conn' = conn \/ conn' = NoDay
  BY DEF EndCycle, Stop, storeVars
<1>3. StoreTypeOK'
  BY <1>1, <1>2 DEF StoreTypeOK
<1>4. \A d : Closed(d)' = Closed(d)
  BY <1>1 DEF Closed
<1>5. StoreInv'
  BY <1>1, <1>2, <1>3, <1>4
<1>6. WriterStep
  BY <1>1, <1>4 DEF WriterStep, StoreTypeOK
<1> QED BY <1>5, <1>6

\* The job and the pass do not mind the writer.
LEMMA WriterKeeps ==
  ASSUME PipelineInv, WriterStep, UNCHANGED <<nightVars, archiveVars>>
  PROVE  NightInv' /\ PassInv'
<1> USE DEF PipelineInv, WriterStep, nightVars, archiveVars
<1>1. NightTypeOK' /\ ArchiveTypeOK' /\ NightTypeOK /\ ArchiveTypeOK
  BY DEF NightInv, PassInv, NightTypeOK, ArchiveTypeOK
<1>2. /\ \A d \in Days : backup[d].kind # "missing" => Closed(d) /\ Closed(d)' /\ written'[d] = written[d]
      /\ night.todo \subseteq Days /\ pass.todo \subseteq Days
      /\ InHand' = InHand /\ Spoilt' = Spoilt /\ Today' = Today
  BY <1>1 DEF NightInv, NightTypeOK, ArchiveTypeOK, InHand, Today, Spoilt
<1>3. BackupHoldsEveryRow'
  BY <1>2 DEF NightInv, BackupHoldsEveryRow
<1>4. NightInv'
  BY <1>1, <1>2, <1>3 DEF NightInv
<1>5. (pass.pc = "push" /\ Today \notin Spoilt => pass.rows = Compact(written[Today]))'
  BY <1>1, <1>2, TodayDue DEF PassInv
<1>6. \A d \in Days : Published(d)' = Published(d)
  BY DEF Published
<1>7. \A d \in Days : ~Closed(d)' => ~Closed(d)
  OBVIOUS
<1>8. ArchiveIsFaithful'
  <2> SUFFICES ASSUME NEW d \in Days \ Spoilt, NEW t \in Published(d)
               PROVE  remote[d][t] = Compact(written'[d])[t]
    BY <1>2, <1>6 DEF ArchiveIsFaithful, Spoilt
  <2>1. Closed(d)
    BY DEF PassInv
  <2> QED BY <2>1 DEF PassInv, ArchiveIsFaithful, Spoilt
<1> QED BY <1>1, <1>2, <1>4, <1>5, <1>6, <1>7, <1>8 DEF PassInv
-----------------------------------------------------------------------------
(* The job's steps.                                                        *)

\* A step of the job or a fault leaves the writer and the pass in order when it
\* empties or spoils closed dates only.
LEMMA JobKeeps ==
  ASSUME PipelineInv, NightTypeOK',
         UNCHANGED <<now, conn, cycle, written, archiveVars>>,
         live' \in [Days -> Files],
         \A d \in Days : live'[d] = live[d] \/ (Closed(d) /\ live'[d].kind # "whole"),
         Spoilt \subseteq Spoilt'
  PROVE  StoreInv' /\ PassInv'
<1> USE DEF PipelineInv
<1>1. \A d \in Days : Closed(d)' = Closed(d)
  BY DEF Closed
<1>2. StoreTypeOK'
  BY DEF StoreInv, StoreTypeOK
<1>3. (conn # NoDay /\ ~Closed(conn) => live[conn].kind = "whole")'
  BY <1>1, <1>2 DEF StoreInv, StoreTypeOK
<1>4. StoreInv'
  BY <1>1, <1>2, <1>3 DEF StoreInv
<1>5. ArchiveTypeOK' /\ Today' = Today /\ \A d \in Days : Published(d)' = Published(d)
  BY DEF PassInv, ArchiveTypeOK, archiveVars, Today, Published
<1>6. ArchiveIsFaithful'
  BY <1>5 DEF PassInv, ArchiveIsFaithful, Spoilt, archiveVars
<1>7. PassInv'
  BY <1>1, <1>5, <1>6 DEF PassInv, ArchiveTypeOK, archiveVars
<1> QED BY <1>4, <1>7

LEMMA JobStarts ==
  ASSUME PipelineInv, NightStart, UNCHANGED archiveVars
  PROVE  PipelineInv'
<1> USE DEF PipelineInv, NightStart, storeVars
<1>1. NightTypeOK'
  BY DEF NightInv, NightTypeOK, Unsynced, PastRetention, Present, Phases
<1>2. NightInv'
  <2>1. night'.pc = "sync" /\ night'.todo = Unsynced
    OBVIOUS
  <2>2. \A d \in Unsynced : Closed(d) /\ live[d].kind # "missing"
    BY DEF Unsynced, Present, Closed
  <2>3. \A d \in Days : backup[d].kind \in {"torn", "zero"} => d \in Spoilt
    BY DEF NightInv
  <2> QED BY <1>1, <2>1, <2>2, <2>3 DEF NightInv, Closed, Spoilt, BackupHoldsEveryRow
<1>3. StoreInv' /\ PassInv'
  BY <1>1, JobKeeps DEF StoreInv, StoreTypeOK, Spoilt
<1> QED BY <1>2, <1>3

LEMMA JobBeginsCopy ==
  ASSUME PipelineInv, BeginCopy, UNCHANGED archiveVars
  PROVE  PipelineInv'
<1> USE DEF PipelineInv, BeginCopy, storeVars
<1>1. NightTypeOK'
  BY FilesHold DEF NightInv, NightTypeOK, Phases
<1>2. /\ InHand \in night.todo /\ InHand \in Days
      /\ night'.pc = "copy" /\ night'.todo = night.todo /\ InHand' = InHand
      /\ \A d \in Days : backup'[d] = IF d = InHand THEN Zero ELSE backup[d]
  BY TodayDue DEF NightInv, PassInv, NightTypeOK, InHand
<1>3. NightInv'
  BY <1>1, <1>2, FilesHold DEF NightInv, Closed, Spoilt, BackupHoldsEveryRow
<1>4. StoreInv' /\ PassInv'
  BY <1>1, JobKeeps DEF StoreInv, StoreTypeOK, Spoilt
<1> QED BY <1>3, <1>4

LEMMA JobEndsCopy ==
  ASSUME PipelineInv, EndCopy, UNCHANGED archiveVars
  PROVE  PipelineInv'
<1> USE DEF PipelineInv, EndCopy, storeVars
<1>1. /\ InHand \in night.todo /\ InHand \in Days
      /\ live[InHand] \in Files /\ live[InHand].kind # "missing" /\ Closed(InHand)
  BY TodayDue DEF NightInv, PassInv, StoreInv, StoreTypeOK
<1>2. /\ night'.pc = "sync" /\ night'.todo \subseteq night.todo /\ night'.old = night.old
      /\ \A d \in Days : backup'[d] = IF d = InHand THEN live[InHand] ELSE backup[d]
  BY DEF Visited, NightInv, NightTypeOK
<1>3. NightTypeOK'
  BY <1>1, <1>2 DEF NightInv, NightTypeOK, Phases, Visited
<1>4. BackupHoldsEveryRow'
  BY <1>1, <1>2 DEF NightInv, StoreInv, BackupHoldsEveryRow
<1>5. \A d \in Days : backup'[d].kind \in {"torn", "zero"} => d \in Spoilt
  BY <1>1, <1>2 DEF NightInv
<1>6. NightInv'
  BY <1>1, <1>2, <1>3, <1>4, <1>5 DEF NightInv, Closed, Spoilt
<1>7. StoreInv' /\ PassInv'
  BY <1>3, JobKeeps DEF StoreInv, StoreTypeOK, Spoilt
<1> QED BY <1>6, <1>7

LEMMA JobRetains ==
  ASSUME PipelineInv, RetainHistory \/ RetainBackup, UNCHANGED archiveVars
  PROVE  PipelineInv'
<1> USE FilesHold DEF PipelineInv, storeVars
<1>1. InHand \in night.todo /\ InHand \in Days /\ Closed(InHand)
  BY TodayDue DEF NightInv, PassInv, RetainHistory, RetainBackup
<1>2. night' = [night EXCEPT !.todo = night.todo \ {InHand}]
  BY DEF RetainHistory, RetainBackup, Visited
<1>3. night'.pc = night.pc /\ night'.todo \subseteq night.todo
  BY <1>2 DEF NightInv, NightTypeOK
<1>4. /\ live' \in [Days -> Files] /\ backup' \in [Days -> Files]
      /\ \A d \in Days : live'[d] = live[d] \/ (Closed(d) /\ live'[d] = Missing)
      /\ \A d \in Days : backup'[d] = backup[d] \/ (night.pc = "backup" /\ backup'[d] = Missing)
      /\ UNCHANGED <<now, conn, cycle, written, cut, damaged>>
      /\ night.pc \in {"history", "backup"}
  BY <1>1 DEF RetainHistory, RetainBackup, StoreInv, StoreTypeOK, NightInv, NightTypeOK
<1>5. NightTypeOK'
  BY <1>2, <1>4 DEF NightInv, NightTypeOK
<1>6. /\ BackupHoldsEveryRow'
      /\ \A d \in Days : backup'[d].kind # "missing" => backup'[d] = backup[d]
      /\ \A d \in Days : live'[d].kind # "missing" => live'[d] = live[d]
      /\ \A d \in Days : Closed(d)' = Closed(d)
      /\ Spoilt' = Spoilt /\ night'.pc \notin {"sync", "copy"} /\ night.pc # "copy"
  BY <1>3, <1>4 DEF NightInv, Closed, Spoilt, BackupHoldsEveryRow
<1>7. night'.pc = "history" => \A d \in night'.todo : backup'[d].kind # "missing"
  <2>1. night.pc = "history" => backup' = backup
    BY DEF RetainHistory, RetainBackup
  <2> QED BY <1>3, <2>1 DEF NightInv
<1>8. \A d \in night'.todo : Closed(d)'
  BY <1>3, <1>6, <1>5 DEF NightInv, NightTypeOK
<1>9. NightInv'
  BY <1>5, <1>6, <1>7, <1>8 DEF NightInv
<1>10. StoreInv' /\ PassInv'
  BY <1>4, <1>5, JobKeeps DEF Spoilt
<1> QED BY <1>9, <1>10

LEMMA JobChangesPhase ==
  ASSUME PipelineInv, NightPhase, UNCHANGED archiveVars
  PROVE  PipelineInv'
<1> USE DEF PipelineInv, NightPhase, storeVars
<1>1. /\ Doomed \subseteq Days /\ night.old \cap Present(backup) \subseteq Days
      /\ \A d \in Doomed \cup (night.old \cap Present(backup)) : backup[d].kind # "missing"
      /\ night \in [pc : Phases, old : SUBSET Days, todo : SUBSET Days]
  BY DEF NightInv, NightTypeOK, Doomed, Present
<1>2. /\ night.pc \in {"sync", "history", "backup"} /\ night'.pc \in {"history", "backup", "asleep"}
      /\ \A d \in night'.todo : d \in Days /\ backup[d].kind # "missing"
      /\ night' \in [pc : Phases, old : SUBSET Days, todo : SUBSET Days]
  <2>1. CASE night.pc = "sync" /\ night' = [night EXCEPT !.pc = "history", !.todo = Doomed]
    BY <1>1, <2>1 DEF Phases
  <2>2. CASE night.pc = "history"
             /\ night' = [night EXCEPT !.pc = "backup", !.todo = night.old \cap Present(backup)]
    BY <1>1, <2>2 DEF Phases
  <2>3. CASE night.pc = "backup" /\ night' = Asleep
    BY <2>3 DEF Phases, Asleep
  <2> QED BY <2>1, <2>2, <2>3
<1>3. NightTypeOK'
  BY <1>2 DEF NightInv, NightTypeOK
<1>4. NightInv'
  BY <1>3, <1>2 DEF NightInv, Closed, Spoilt, BackupHoldsEveryRow
<1>5. StoreInv' /\ PassInv'
  BY <1>3, JobKeeps DEF StoreInv, StoreTypeOK, Spoilt
<1> QED BY <1>4, <1>5

LEMMA JobCrashes ==
  ASSUME PipelineInv, NightCrash, UNCHANGED archiveVars
  PROVE  PipelineInv'
<1> USE DEF PipelineInv, storeVars
<1>1. /\ UNCHANGED <<storeVars, damaged>> /\ night' = Asleep
      /\ Asleep.pc = "asleep" /\ Asleep.todo = {}
  BY DEF NightCrash, Asleep
<1>2. /\ backup' \in [Days -> Files] /\ cut \subseteq cut' /\ cut' \subseteq Days
      /\ \A d \in Days : backup'[d] = backup[d] \/ (Closed(d) /\ d \in cut' /\ backup'[d].kind # "whole")
      /\ \A d \in Days : (night.pc = "copy" /\ d = InHand) => d \in cut'
  <2>1. CASE night.pc = "copy"
    <3>1. InHand \in Days /\ Closed(InHand)
      BY <2>1, TodayDue DEF NightInv, PassInv
    <3>2. /\ cut' = cut \cup {InHand}
          /\ \E left \in {Zero, Torn} : backup' = [backup EXCEPT ![InHand] = left]
      BY <2>1 DEF NightCrash
    <3> QED BY <3>1, <3>2, FilesHold DEF NightInv, NightTypeOK
  <2>2. CASE night.pc # "copy"
    BY <2>2 DEF NightCrash, NightInv, NightTypeOK
  <2> QED BY <2>1, <2>2
<1>3. NightTypeOK'
  BY <1>1, <1>2 DEF NightInv, NightTypeOK, Asleep, Phases
<1>4. BackupHoldsEveryRow'
  BY <1>1, <1>2 DEF NightInv, BackupHoldsEveryRow
<1>5. \A d \in Days : Closed(d)' = Closed(d)
  BY <1>1 DEF Closed
<1>6. \A d \in Days : d \in Spoilt => d \in Spoilt'
  BY <1>1, <1>2 DEF Spoilt
<1>7. \A d \in Days : backup'[d].kind \in {"torn", "zero"} => d \in Spoilt'
  BY <1>1, <1>2, <1>6 DEF NightInv, Spoilt
<1>8. \A d \in Days : backup'[d].kind # "missing" => Closed(d)
  BY <1>2 DEF NightInv
<1>9. NightInv'
  BY <1>1, <1>3, <1>4, <1>5, <1>6, <1>7, <1>8 DEF NightInv
<1>10. StoreInv' /\ PassInv'
  BY <1>1, <1>2, <1>3, JobKeeps DEF StoreInv, StoreTypeOK, Spoilt
<1> QED BY <1>9, <1>10

LEMMA DiskDamages ==
  ASSUME PipelineInv, NEW d \in Days, Damage(d), UNCHANGED archiveVars
  PROVE  PipelineInv'
<1> USE FilesHold DEF PipelineInv, Damage
<1>1. /\ Closed(d) /\ UNCHANGED <<now, conn, cycle, written, backup, night, cut>>
      /\ live' \in [Days -> Files] /\ live'[d].kind # "whole"
      /\ \A e \in Days \ {d} : live'[e] = live[e]
      /\ d \in Spoilt' /\ Spoilt \subseteq Spoilt' /\ InHand' = InHand
  BY DEF StoreInv, StoreTypeOK, Closed, Spoilt, InHand
<1>2. NightTypeOK'
  BY DEF NightInv, NightTypeOK
<1>3. NightInv'
  BY <1>1, <1>2 DEF NightInv, Closed, BackupHoldsEveryRow
<1>4. StoreInv' /\ PassInv'
  BY <1>1, <1>2, JobKeeps
<1> QED BY <1>3, <1>4

LEMMA JobStep ==
  ASSUME PipelineInv, NightStep, UNCHANGED archiveVars
  PROVE  PipelineInv'
BY JobStarts, JobBeginsCopy, JobEndsCopy, JobRetains, JobChangesPhase, JobCrashes, DiskDamages
   DEF NightStep

-----------------------------------------------------------------------------
(* The pass's steps.                                                       *)

\* A step of the pass that publishes nothing and restores nothing.
LEMMA PassKeeps ==
  ASSUME PipelineInv, ArchiveTypeOK', UNCHANGED <<storeVars, nightVars, remote>>,
         \A d \in pass'.todo : Closed(d),
         pass'.pc = "push" => pass'.todo # {},
         (pass'.pc = "push" /\ Today' \notin Spoilt) => pass'.rows = Compact(written[Today'])
  PROVE  PipelineInv'
<1> USE DEF PipelineInv, storeVars, nightVars
<1>1. /\ \A d : Closed(d)' = Closed(d)
      /\ Spoilt' = Spoilt /\ InHand' = InHand
      /\ \A d \in Days : Published(d)' = Published(d)
  BY DEF Closed, Spoilt, InHand, Published
<1>2. StoreInv'
  BY <1>1 DEF StoreInv, StoreTypeOK
<1>3. NightInv'
  BY <1>1 DEF NightInv, NightTypeOK, BackupHoldsEveryRow
<1>4. ArchiveIsFaithful'
  BY <1>1 DEF PassInv, ArchiveIsFaithful
<1>5. PassInv'
  BY <1>1, <1>4 DEF PassInv
<1> QED BY <1>2, <1>3, <1>5

\* The rows of a readable file of a date no fault touched are all its rows.
LEMMA ReadWhole ==
  ASSUME PipelineInv, NEW d \in Days, NEW f \in {live[d], backup[d]}, Compactable(f),
         ~(night.pc = "copy" /\ d = InHand) \/ f = live[d]
  PROVE  f \in Files /\ (d \notin Spoilt => f.rows = written[d])
<1> USE DEF PipelineInv
<1>1. f \in Files
  BY DEF StoreInv, StoreTypeOK, NightInv, NightTypeOK
<1>2. ASSUME d \notin Spoilt PROVE f.kind = "whole"
  BY <1>2 DEF Compactable, NightInv
<1> QED BY <1>1, <1>2 DEF StoreInv, NightInv, BackupHoldsEveryRow

LEMMA PassVisits ==
  ASSUME PipelineInv, NEW d \in Days, VisitDay(d)
  PROVE  PipelineInv'
<1> USE DEF PipelineInv
<1>1. d = Today /\ Today \in pass.todo /\ Closed(Today) /\ ArchiveTypeOK
  BY TodayDue DEF VisitDay, NightInv, PassInv
<1>2. ASSUME NEW f \in Files
      PROVE  /\ Pushing(f).pc = "push" /\ Pushing(f).todo = pass.todo
             /\ Pushing(f).rows = Compact(f.rows)
             /\ Pushing(f) \in [pc : {"push"}, todo : SUBSET Days, rows : [Tables -> Counts],
                                left : SUBSET Tables, tries : 0 .. UploadAttempts]
  <2>1. Compact(f.rows) \in [Tables -> Counts] /\ 0 \in 0 .. UploadAttempts
    BY FileKinds, CompactTyped, ArchiveAssumption
  <2> QED BY <1>1, <2>1 DEF Pushing, ArchiveTypeOK
<1>3. /\ Passed.todo \subseteq pass.todo /\ Passed.pc = "days"
      /\ Passed \in [pc : {"days"}, todo : SUBSET Days, rows : [Tables -> Counts],
                     left : SUBSET Tables, tries : 0 .. UploadAttempts]
  <2>1. NoRows \in [Tables -> Counts] /\ 0 \in 0 .. UploadAttempts
    BY StoreAssumption, ArchiveAssumption DEF NoRows, Counts
  <2>2. Passed = [pass EXCEPT !.pc = "days", !.todo = pass.todo \ {Today}, !.rows = NoRows, !.tries = 0]
    BY DEF Passed, Today
  <2>3. pass.todo \ {Today} \in SUBSET Days
    BY <1>1 DEF ArchiveTypeOK
  <2> QED BY <1>1, <2>1, <2>2, <2>3 DEF ArchiveTypeOK
<1>4. Resting.todo = {} /\ Resting.pc = "resting"
      /\ Resting \in [pc : {"resting"}, todo : SUBSET Days, rows : [Tables -> Counts],
                      left : SUBSET Tables, tries : 0 .. UploadAttempts]
  BY StoreAssumption, ArchiveAssumption DEF Resting, NoRows, Counts
<1>5. CASE CompactDay
  <2>1. live[Today] \in Files /\ (Today \notin Spoilt => live[Today].rows = written[Today])
    BY <1>1, <1>5, ReadWhole DEF CompactDay
  <2>2. ArchiveTypeOK'
    BY <1>2, <1>5, <2>1 DEF CompactDay, PassInv, ArchiveTypeOK
  <2>3. Today' = Today
    BY <1>2, <1>5, <2>1 DEF CompactDay, Today
  <2> QED BY <1>1, <1>2, <1>5, <2>1, <2>2, <2>3, PassKeeps DEF CompactDay, PassInv
<1>6. CASE GiveUpDay
  <2>1. ArchiveTypeOK'
    BY <1>3, <1>6 DEF GiveUpDay, PassInv, ArchiveTypeOK
  <2> QED BY <1>3, <1>6, <2>1, PassKeeps DEF GiveUpDay, PassInv
<1>7. CASE RestoreDay /\ DataReadOnly
  <2>1. ArchiveTypeOK'
    BY <1>4, <1>7 DEF RestoreDay, PassInv, ArchiveTypeOK
  <2>2. UNCHANGED storeVars
    BY <1>7 DEF RestoreDay, storeVars
  <2> QED BY <1>4, <1>7, <2>1, <2>2, PassKeeps DEF RestoreDay, PassInv
<1>8. CASE RestoreDay /\ ~DataReadOnly
  <2>1. /\ UNCHANGED <<now, conn, cycle, written, nightVars, remote>>
        /\ backup[Today].kind # "missing" /\ ~Compactable(live[Today])
        /\ live' = [live EXCEPT ![Today] = backup[Today]]
        /\ pass' = IF Compactable(backup[Today]) THEN Pushing(backup[Today]) ELSE Passed
    BY <1>8 DEF RestoreDay, Unhealable
  <2>2. /\ live[Today] \in Files /\ backup[Today] \in Files /\ Today \in Days
        /\ \A e : Closed(e)' = Closed(e)
        /\ Spoilt' = Spoilt /\ InHand' = InHand
    BY <1>1, <2>1 DEF StoreInv, StoreTypeOK, NightInv, NightTypeOK, Closed, Spoilt, InHand, nightVars
  <2>3. /\ live'[Today] = backup[Today] /\ live' \in [Days -> Files]
        /\ \A e \in Days \ {Today} : live'[e] = live[e]
    BY <2>1, <2>2 DEF StoreInv, StoreTypeOK
  \* A copy under way is of a file that is there, so what it replaces is torn.
  <2>4. (night.pc = "copy" /\ Today = InHand) => Today \in Spoilt
    <3>1. ASSUME night.pc = "copy", Today = InHand PROVE live[Today].kind = "torn"
      <4>1. live[Today].kind # "missing"
        BY <3>1, TodayDue DEF NightInv, PassInv
      <4> QED BY <4>1, <2>1, <2>2, FileKinds DEF Compactable
    <3> QED BY <3>1, <2>2 DEF NightInv
  <2>5. backup[Today].kind \in {"torn", "zero"} => Today \in Spoilt
    BY <2>2, <2>4 DEF NightInv
  <2>6. Today \notin Spoilt => backup[Today].kind = "whole" /\ backup[Today].rows = written[Today]
    BY <2>1, <2>2, <2>5, FileKinds DEF NightInv, BackupHoldsEveryRow
  <2>7. StoreInv'
    <3>1. StoreTypeOK'
      BY <2>1, <2>3 DEF StoreInv, StoreTypeOK
    <3>2. (conn # NoDay /\ ~Closed(conn)) => conn \in Days \ {Today}
      BY <1>1 DEF StoreInv, StoreTypeOK
    <3>3. backup[Today].kind = "whole" => backup[Today].rows = written[Today]
      BY <2>2 DEF NightInv, BackupHoldsEveryRow
    <3> QED BY <1>1, <2>1, <2>2, <2>3, <3>1, <3>2, <3>3 DEF StoreInv
  <2>8. NightInv'
    BY <2>1, <2>2, <2>3, <2>5 DEF NightInv, NightTypeOK, BackupHoldsEveryRow, nightVars
  <2>9. pass'.todo \subseteq pass.todo /\ ArchiveTypeOK'
    BY <1>2, <1>3, <2>1, <2>2 DEF PassInv, ArchiveTypeOK
  <2>10. pass'.pc = "push" =>
           /\ pass'.todo # {} /\ Today' = Today
           /\ Today \notin Spoilt => pass'.rows = Compact(written[Today])
    BY <1>1, <1>2, <1>3, <2>1, <2>2, <2>6 DEF Today
  <2>11. ArchiveIsFaithful' /\ \A e \in Days : Published(e)' = Published(e)
    BY <2>1, <2>2 DEF PassInv, ArchiveIsFaithful, Published, nightVars
  <2>12. PassInv'
    <3>1. (pass.pc = "push" => pass.todo # {})'
      BY <2>10
    <3>2. (pass.pc = "push" /\ Today \notin Spoilt => pass.rows = Compact(written[Today]))'
      BY <2>1, <2>2, <2>10
    <3>3. (\A e \in pass.todo : Closed(e))'
      BY <2>2, <2>9 DEF PassInv
    <3> QED BY <2>2, <2>9, <2>11, <3>1, <3>2, <3>3 DEF PassInv
  <2> QED BY <2>7, <2>8, <2>12
<1> QED BY <1>5, <1>6, <1>7, <1>8 DEF VisitDay

LEMMA AtLeastZero ==
  ASSUME NEW n \in Int
  PROVE  Max({n, 0}) = IF n > 0 THEN n ELSE 0
<1>1. \E x \in {n, 0} : \A y \in {n, 0} : x >= y
  OBVIOUS
<1>2. Max({n, 0}) \in {n, 0} /\ \A y \in {n, 0} : Max({n, 0}) >= y
  BY <1>1 DEF Max
<1> QED BY <1>2

LEMMA PassPushes ==
  ASSUME PipelineInv, NEW t \in Tables, Push(t)
  PROVE  PipelineInv'
<1> USE DEF PipelineInv
<1>1. /\ pass.pc = "push" /\ t \in pass.left
      /\ Today \in pass.todo /\ Today \in Days /\ Closed(Today) /\ ArchiveTypeOK
  BY TodayDue DEF Push, NightInv, PassInv
<1>2. pass.rows[t] \in Counts /\ remote[Today][t] \in Counts \cup {Unpublished}
  BY <1>1 DEF ArchiveTypeOK
<1>3. DEFINE count == IF pass.rows[t] > 0 THEN pass.rows[t] ELSE Max({remote[Today][t], 0})
<1>4. /\ count \in Counts
      /\ pass.rows[t] = 0 /\ remote[Today][t] \in {Unpublished, 0} => count = 0
  BY <1>2, AtLeastZero, StoreAssumption DEF Counts, Unpublished
<1>5. /\ remote' = [remote EXCEPT ![Today][t] = count]
      /\ pass' = [pass EXCEPT !.left = @ \ {t}, !.tries = 0]
      /\ UNCHANGED <<storeVars, nightVars>>
  BY DEF Push
<1> HIDE DEF count
<1>6. /\ remote' \in [Days -> [Tables -> Counts \cup {Unpublished}]] /\ remote'[Today][t] = count
      /\ \A d \in Days, s \in Tables : <<d, s>> # <<Today, t>> => remote'[d][s] = remote[d][s]
  BY <1>1, <1>4, <1>5 DEF ArchiveTypeOK
<1>7. /\ pass'.pc = pass.pc /\ pass'.todo = pass.todo /\ pass'.rows = pass.rows
      /\ Today' = Today /\ ArchiveTypeOK'
  <2> DEFINE Positions == [pc : {"resting", "days", "push"}, todo : SUBSET Days, rows : [Tables -> Counts],
                           left : SUBSET Tables, tries : 0 .. UploadAttempts]
  <2>1. pass \in Positions
    BY <1>1 DEF ArchiveTypeOK
  <2>2. pass.left \ {t} \in SUBSET Tables /\ 0 \in 0 .. UploadAttempts
    BY <2>1, ArchiveAssumption
  <2>3. pass' \in Positions
    BY <1>5, <2>1, <2>2
  <2>4. pass'.pc = pass.pc /\ pass'.todo = pass.todo /\ pass'.rows = pass.rows
    BY <1>5, <2>1
  <2>5. ArchiveTypeOK'
    BY <1>6, <2>3 DEF ArchiveTypeOK
  <2> QED BY <2>4, <2>5 DEF Today
<1>8. /\ \A d : Closed(d)' = Closed(d)
      /\ Spoilt' = Spoilt /\ InHand' = InHand
  BY <1>5 DEF Closed, Spoilt, InHand, storeVars, nightVars
<1>9. StoreInv'
  BY <1>5, <1>8 DEF StoreInv, StoreTypeOK, storeVars
<1>10. NightInv'
  BY <1>5, <1>8 DEF NightInv, NightTypeOK, BackupHoldsEveryRow, storeVars, nightVars
<1>11. ArchiveIsFaithful'
  <2> SUFFICES ASSUME NEW d \in Days \ Spoilt, NEW s \in Tables, remote'[d][s] # Unpublished
               PROVE  remote'[d][s] = Compact(written[d])[s]
    BY <1>5, <1>8 DEF ArchiveIsFaithful, Spoilt, Published, storeVars
  <2>1. CASE <<d, s>> # <<Today, t>>
    BY <1>6, <2>1 DEF PassInv, ArchiveIsFaithful, Published, Spoilt
  <2>2. CASE d = Today /\ s = t
    <3>1. pass.rows[t] = Compact(written[Today])[t]
      BY <1>1, <2>2 DEF PassInv
    <3>2. remote[Today][t] # Unpublished => remote[Today][t] = pass.rows[t]
      BY <1>1, <2>2, <3>1 DEF PassInv, ArchiveIsFaithful, Published, Spoilt
    <3>3. CASE pass.rows[t] > 0
      BY <1>6, <2>2, <3>1, <3>3 DEF count
    <3>4. CASE pass.rows[t] = 0
      BY <1>4, <1>6, <2>2, <3>1, <3>2, <3>4
    <3>5. pass.rows[t] >= 0
      BY <1>2, StoreAssumption DEF Counts
    <3> QED BY <3>3, <3>4, <3>5, <1>2, StoreAssumption DEF Counts
  <2> QED BY <2>1, <2>2
<1>12. \A d \in Days : ~Closed(d) => Published(d)' = {}
  BY <1>1, <1>6 DEF PassInv, Published
<1>13. PassInv'
  BY <1>1, <1>5, <1>7, <1>8, <1>11, <1>12 DEF PassInv, storeVars
<1> QED BY <1>9, <1>10, <1>13

LEMMA PassGoesOn ==
  ASSUME PipelineInv, StartPass \/ PushFails \/ DayDone \/ EndPass \/ PassCrash
  PROVE  PipelineInv'
<1> USE DEF PipelineInv
<1>1. ArchiveTypeOK /\ Resting.todo = {} /\ Resting.pc = "resting" /\ Resting.tries = 0
  BY DEF PassInv, Resting
<1>2. Resting \in [pc : {"resting"}, todo : SUBSET Days, rows : [Tables -> Counts],
                   left : SUBSET Tables, tries : 0 .. UploadAttempts]
  BY StoreAssumption, ArchiveAssumption DEF Resting, NoRows, Counts
<1>3. UNCHANGED <<storeVars, nightVars, remote>>
  BY DEF StartPass, PushFails, DayDone, EndPass, PassCrash
<1>4. CASE StartPass
  <2>1. /\ pass' \in [pc : {"days"}, todo : SUBSET Days, rows : [Tables -> Counts],
                      left : SUBSET Tables, tries : 0 .. UploadAttempts]
        /\ pass'.todo \subseteq ClosedLocalDays
    BY <1>2, <1>4 DEF StartPass, ClosedLocalDays, Present
  <2>2. ArchiveTypeOK'
    BY <1>1, <1>3, <2>1 DEF ArchiveTypeOK
  <2> QED BY <1>3, <2>1, <2>2, PassKeeps DEF ClosedLocalDays, Closed
<1>5. CASE pass' = Resting
  <2>1. ArchiveTypeOK'
    BY <1>1, <1>2, <1>3, <1>5 DEF ArchiveTypeOK
  <2> QED BY <1>1, <1>3, <1>5, <2>1, PassKeeps
<1>6. CASE PushFails /\ pass' # Resting
  <2>1. pass' = [pass EXCEPT !.tries = @ + 1] /\ pass.tries + 1 < UploadAttempts
    BY <1>6 DEF PushFails
  <2>2. ArchiveTypeOK' /\ pass'.pc = pass.pc /\ pass'.todo = pass.todo /\ pass'.rows = pass.rows
    BY <1>1, <1>3, <2>1, ArchiveAssumption DEF ArchiveTypeOK
  <2>3. Today' = Today
    BY <2>2 DEF Today
  <2> QED BY <1>3, <2>2, <2>3, PassKeeps DEF PassInv
<1>7. CASE DayDone
  <2>1. pass' = [pass EXCEPT !.pc = "days", !.todo = pass.todo \ {Today}, !.rows = NoRows, !.tries = 0]
    BY <1>7 DEF DayDone, Passed, Today
  <2>2. NoRows \in [Tables -> Counts] /\ 0 \in 0 .. UploadAttempts /\ pass.todo \ {Today} \in SUBSET Days
    BY <1>1, StoreAssumption, ArchiveAssumption DEF NoRows, Counts, ArchiveTypeOK
  <2>3. ArchiveTypeOK' /\ pass'.pc = "days" /\ pass'.todo \subseteq pass.todo
    BY <1>1, <1>3, <2>1, <2>2 DEF ArchiveTypeOK
  <2> QED BY <1>3, <2>3, PassKeeps DEF PassInv
<1> QED BY <1>4, <1>5, <1>6, <1>7 DEF PushFails, EndPass, PassCrash

-----------------------------------------------------------------------------
(* Theorems.                                                               *)

LEMMA PipelineStutters ==
  ASSUME PipelineInv, UNCHANGED pipeline
  PROVE  PipelineInv'
<1>1. UNCHANGED <<storeVars, nightVars, archiveVars>>
  BY DEF pipeline
<1> QED BY <1>1, StoreRest, WriterKeeps DEF PipelineInv

LEMMA PipelineStep ==
  ASSUME PipelineInv, [PipelineNext]_pipeline
  PROVE  PipelineInv'
<1>1. CASE StoreNext /\ UNCHANGED <<nightVars, archiveVars>>
  <2>1. StoreInv' /\ WriterStep
    BY <1>1, StoreTick, StoreRotate, StoreRecord, StoreRest DEF StoreNext
  <2> QED BY <1>1, <2>1, WriterKeeps DEF PipelineInv
<1>2. CASE NightStep /\ UNCHANGED archiveVars
  BY <1>2, JobStep
<1>3. CASE PassStep
  BY <1>3, PassVisits, PassPushes, PassGoesOn DEF PassStep
<1>4. CASE PushFails \/ PassCrash
  BY <1>4, PassGoesOn
<1>5. CASE UNCHANGED pipeline
  BY <1>5, PipelineStutters
<1> QED BY <1>1, <1>2, <1>3, <1>4, <1>5 DEF PipelineNext

\* The inductive invariant of the writer, the job and the pass together.
THEOREM PipelineInductive == PipelineSpec => []PipelineInv
BY PipelineInit, PipelineStep, PTL DEF PipelineSpec

\* Every variable of the three keeps its type.
THEOREM PipelineTypeCorrect == PipelineSpec => []PipelineTypeOK
<1>1. PipelineInv => PipelineTypeOK
  BY DEF PipelineInv, PipelineTypeOK, StoreInv, NightInv, PassInv
<1> QED BY <1>1, PipelineInductive, PTL

\* A readable backup holds every row recorded for its date (sync.py copies
\* closed partitions only, and none is written again).
THEOREM BackupComplete == PipelineSpec => []BackupHoldsEveryRow
<1>1. PipelineInv => BackupHoldsEveryRow
  BY DEF PipelineInv, NightInv
<1> QED BY <1>1, PipelineInductive, PTL

\* What the archive publishes of a date no fault touched is what the poller
\* recorded (run.py, upload.py).
THEOREM PublishedFaithful == PipelineSpec => []ArchiveIsFaithful
<1>1. PipelineInv => ArchiveIsFaithful
  BY DEF PipelineInv, PassInv
<1> QED BY <1>1, PipelineInductive, PTL

\* Retention deletes a live partition only while the backup holds its rows,
\* faults aside (retention.py, the look at the backup).
THEOREM CopyKept == PipelineSpec => RetentionKeepsACopy
<1>1. PipelineInv /\ [PipelineNext]_pipeline =>
        [\A d \in Days :
           (night.pc = "history" /\ live[d].kind = "whole" /\ live'[d].kind = "missing")
             => \/ backup[d] = Whole(written[d])
                \/ d \in cut \cup damaged'
        ]_<<storeVars, nightVars>>
  <2> SUFFICES ASSUME PipelineInv, [PipelineNext]_pipeline, NEW d \in Days, night.pc = "history",
                      live[d].kind = "whole", live'[d].kind = "missing"
               PROVE  backup[d] = Whole(written[d]) \/ d \in cut \cup damaged'
    OBVIOUS
  <2>1. live'[d] # live[d]
    OBVIOUS
  <2>2. d = InHand /\ RetainHistory
    <3>1. CASE StoreNext /\ UNCHANGED <<nightVars, archiveVars>>
      <4>1. WriterStep
        BY <3>1, StoreTick, StoreRotate, StoreRecord, StoreRest DEF StoreNext
      <4> QED BY <4>1 DEF WriterStep
    <3>2. CASE NightStep
      BY <2>1, <3>2
         DEF NightStep, NightStart, BeginCopy, EndCopy, RetainHistory, RetainBackup, NightPhase,
             NightCrash, Damage, storeVars, PipelineInv, StoreInv, StoreTypeOK
    <3>3. CASE PassStep \/ PushFails \/ PassCrash
      <4>1. CASE RestoreDay
        BY <4>1, <2>1 DEF RestoreDay, Unhealable, PipelineInv, StoreInv, StoreTypeOK
      <4>2. CASE ~RestoreDay
        BY <4>2, <3>3, <2>1
           DEF PassStep, StartPass, VisitDay, CompactDay, GiveUpDay, Push, DayDone, EndPass,
               PushFails, PassCrash, storeVars
      <4> QED BY <4>1, <4>2
    <3>4. CASE UNCHANGED pipeline
      BY <3>4, <2>1 DEF pipeline, storeVars
    <3> QED BY <3>1, <3>2, <3>3, <3>4 DEF PipelineNext
  <2>3. backup[d] \in Files /\ backup[d].kind # "missing" /\ UNCHANGED damaged
    BY <2>2, TodayDue DEF RetainHistory, PipelineInv, NightInv, PassInv, NightTypeOK
  <2>4. d \notin Spoilt => backup[d].kind = "whole"
    BY <2>3, FileKinds DEF PipelineInv, NightInv
  <2>5. backup[d].kind = "whole" => backup[d] = Whole(written[d])
    BY <2>3, FileKinds DEF PipelineInv, NightInv, BackupHoldsEveryRow
  <2> QED BY <2>3, <2>4, <2>5 DEF Spoilt
<1> QED BY <1>1, PipelineInductive, PTL DEF PipelineSpec, RetentionKeepsACopy
=============================================================================
