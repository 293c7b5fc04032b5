------------------------------ MODULE Nightly ------------------------------
(***************************************************************************)
(* history/nightly.py: host cron copies closed partitions to a backup      *)
(* directory, then deletes old ones from both, while the polling process   *)
(* goes on.  The job may be killed anywhere, a copy being two steps.       *)
(***************************************************************************)
EXTENDS HistoryStore

CONSTANTS
  RetentionDays,   \* RETENTION_DAYS
  MaxFaults        \* bound on damaged files and on copies cut short

ASSUME NightlyAssumption == RetentionDays \in Nat /\ MaxFaults \in Nat

VARIABLES
  backup,    \* date -> its file in backup_dir
  night,     \* the job: its loop, the dates past retention, the dates to act on
  cut,       \* dates whose copy was cut short
  damaged    \* dates whose live file the disk damaged

nightVars == <<backup, night, cut, damaged>>

Asleep == [pc |-> "asleep", old |-> {}, todo |-> {}]
Phases == {"asleep", "sync", "copy", "history", "backup"}

NightInit ==
  /\ backup = [d \in Days |-> Missing]
  /\ night = Asleep
  /\ cut = {}
  /\ damaged = {}

NightTypeOK ==
  /\ backup \in [Days -> Files]
  /\ night \in [pc : Phases, old : SUBSET Days, todo : SUBSET Days]
  /\ cut \subseteq Days
  /\ damaged \subseteq Days

Present(directory) == {d \in Days : directory[d].kind # "missing"}
InHand == Min(night.todo)
Visited == [night EXCEPT !.todo = @ \ {InHand}]

\* Mutant: the partition being written is copied too.
UnsyncedOpen == {d \in Present(live) : backup[d].kind = "missing"}

\* The sync loop is for closed dates without a backup; a later job's now is another.
Unsynced == {d \in Present(live) : IsPartitionClosed(d, now) /\ backup[d].kind = "missing"}
PastRetention == {d \in Days : UtcDate(now) - d > RetentionDays}

NightStart ==
  /\ night.pc = "asleep"
  /\ night' = [pc |-> "sync", old |-> PastRetention, todo |-> Unsynced]
  /\ UNCHANGED <<storeVars, backup, cut, damaged>>

\* A copy begins as an empty file, which dest.exists() already finds.
BeginCopy ==
  /\ night.pc = "sync" /\ night.todo # {}
  /\ backup' = [backup EXCEPT ![InHand] = Zero]
  /\ night' = [night EXCEPT !.pc = "copy"]
  /\ UNCHANGED <<storeVars, cut, damaged>>

EndCopy ==
  /\ night.pc = "copy"
  /\ backup' = [backup EXCEPT ![InHand] = live[InHand]]
  /\ night' = [Visited EXCEPT !.pc = "sync"]
  /\ UNCHANGED <<storeVars, cut, damaged>>

Doomed == night.old \cap Present(live) \cap Present(backup)

\* Retention in history_dir spares a date that has no backup.
RetainHistory ==
  /\ night.pc = "history" /\ night.todo # {}
  /\ live' = [live EXCEPT ![InHand] = Missing]
  /\ night' = Visited
  /\ UNCHANGED <<now, conn, cycle, written, backup, cut, damaged>>

RetainBackup ==
  /\ night.pc = "backup" /\ night.todo # {}
  /\ backup' = [backup EXCEPT ![InHand] = Missing]
  /\ night' = Visited
  /\ UNCHANGED <<storeVars, cut, damaged>>

NightPhase ==
  /\ night.todo = {}
  /\ \/ night.pc = "sync" /\ night' = [night EXCEPT !.pc = "history", !.todo = Doomed]
     \/ night.pc = "history" /\ night' = [night EXCEPT !.pc = "backup", !.todo = night.old \cap Present(backup)]
     \/ night.pc = "backup" /\ night' = Asleep
  /\ UNCHANGED <<storeVars, backup, cut, damaged>>

\* The job dies, perhaps in the middle of a copy.
NightCrash ==
  /\ night.pc # "asleep"
  /\ night' = Asleep
  /\ IF night.pc = "copy"
     THEN /\ Cardinality(cut \cup damaged) < MaxFaults
          /\ cut' = cut \cup {InHand}
          /\ \E left \in {Zero, Torn} : backup' = [backup EXCEPT ![InHand] = left]
     ELSE UNCHANGED <<backup, cut>>
  /\ UNCHANGED <<storeVars, damaged>>

\* While no job runs, a closed partition goes bad on disk, or goes missing.
Damage(d) ==
  /\ Cardinality(cut \cup damaged) < MaxFaults
  /\ live[d].kind = "whole" /\ IsPartitionClosed(d, now)
  /\ night.pc = "asleep"
  /\ \E left \in {Missing, Torn} : live' = [live EXCEPT ![d] = left]
  /\ damaged' = damaged \cup {d}
  /\ UNCHANGED <<now, conn, cycle, written, backup, night, cut>>

NightStep ==
  \/ NightStart
  \/ BeginCopy
  \/ EndCopy
  \/ RetainHistory
  \/ RetainBackup
  \/ NightPhase
  \/ NightCrash
  \/ \E d \in Days : Damage(d)

-----------------------------------------------------------------------------
\* A readable backup holds every row ever recorded for its date: what is
\* copied is never written again (sync.py, "closed partitions are immutable").
BackupHoldsEveryRow ==
  \A d \in Days : backup[d].kind = "whole" => backup[d].rows = written[d]

\* Retention deletes a live partition only while the backup holds all its
\* rows, unless a crash cut that copy short or the disk had damaged the file.
RetentionKeepsACopy ==
  [][\A d \in Days :
       (night.pc = "history" /\ live[d].kind = "whole" /\ live'[d].kind = "missing")
         => \/ backup[d] = Whole(written[d])
            \/ d \in cut \cup damaged'
    ]_<<storeVars, nightVars>>
=============================================================================
