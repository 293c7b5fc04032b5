------------------------------ MODULE Archive ------------------------------
(***************************************************************************)
(* archive/: a nightly container publishes each closed service date to a   *)
(* dataset repository, one commit per table, healing an unreadable live    *)
(* partition from its backup.  What is published is listed once, when the  *)
(* pass starts; an upload refused three times ends the pass.               *)
(*                                                                         *)
(* Of the remote, per date and table: nothing, an entry of the empty-days  *)
(* manifest (no rows), or a file of so many rows.                          *)
(***************************************************************************)
EXTENDS Nightly

CONSTANTS
  Gaps,             \* poll_gap_events
  UploadAttempts,   \* _UPLOAD_ATTEMPTS
  DataReadOnly      \* /data is mounted :ro (deploy/docker-compose.yml)

ASSUME ArchiveAssumption ==
  /\ Gaps \in Tables
  /\ UploadAttempts \in Nat \ {0}
  /\ DataReadOnly \in BOOLEAN

Unpublished == -1
Counts == 0 .. 2 * MaxRows

VARIABLES
  remote,    \* date -> table -> what the repository holds
  pass       \* the pass: where it is, dates to visit, tables to push

archiveVars == <<remote, pass>>
pipeline == <<storeVars, nightVars, archiveVars>>

Resting == [pc |-> "resting", todo |-> {},
            rows |-> NoRows, left |-> {}, tries |-> 0]

ArchiveInit ==
  /\ remote = [d \in Days |-> [t \in Tables |-> Unpublished]]
  /\ pass = Resting

ArchiveTypeOK ==
  /\ remote \in [Days -> [Tables -> Counts \cup {Unpublished}]]
  /\ pass \in [pc : {"resting", "days", "push"}, todo : SUBSET Days, rows : [Tables -> Counts], left : SUBSET Tables,
               tries : 0 .. UploadAttempts]

PipelineTypeOK == StoreTypeOK /\ NightTypeOK /\ ArchiveTypeOK

Published(d) == {t \in Tables : remote[d][t] # Unpublished}
\* Mutant: a date counts as archived once any table is.
PartlyArchived(d) == Published(d) # {}

FullyArchived(d) == Published(d) = Tables

\* A table's rows, and in every other table a marker row per poll gap.
Compact(rows) ==
  [t \in Tables |-> IF t = Gaps THEN rows[t] ELSE rows[t] + rows[Gaps]]
Compactable(file) == file.kind \in {"whole", "zero"}

\* Mutant: the date still being recorded counts too.
LocalDays == Present(live) \cup Present(backup)

\* Dates to visit are settled when the pass starts, by one listing of the remote.
ClosedLocalDays ==
  {d \in Present(live) \cup Present(backup) : IsPartitionClosed(d, now)}

Today == Min(pass.todo)
Passed == [pass EXCEPT !.pc = "days", !.todo = @ \ {Min(@)}, !.rows = NoRows, !.tries = 0]
Pushing(file) ==
  [pass EXCEPT !.pc = "push", !.rows = Compact(file.rows), !.left = Tables, !.tries = 0]

StartPass ==
  /\ pass.pc = "resting"
  /\ pass' = [Resting EXCEPT !.pc = "days",
                 !.todo = {d \in ClosedLocalDays : ~FullyArchived(d)}]
  /\ UNCHANGED <<storeVars, nightVars, remote>>

CompactDay ==
  /\ pass.pc = "days"
  /\ Compactable(live[Today])
  /\ pass' = Pushing(live[Today])
  /\ UNCHANGED <<storeVars, nightVars, remote>>

Unhealable ==
  /\ pass.pc = "days"
  /\ ~Compactable(live[Today])

\* Neither copy can be read: the date is reported and left to the next pass.
GiveUpDay ==
  /\ Unhealable
  /\ backup[Today].kind = "missing"
  /\ pass' = Passed
  /\ UNCHANGED <<storeVars, nightVars, remote>>

\* The backup is copied over the live file and read again; a copy refused by
\* a read-only mount is no sqlite3.Error and ends the pass.
RestoreDay ==
  /\ Unhealable
  /\ backup[Today].kind # "missing"
  /\ IF DataReadOnly
     THEN pass' = Resting /\ UNCHANGED live
     ELSE /\ live' = [live EXCEPT ![Today] = backup[Today]]
          /\ pass' = IF Compactable(backup[Today]) THEN Pushing(backup[Today]) ELSE Passed
  /\ UNCHANGED <<now, conn, cycle, written, nightVars, remote>>

VisitDay(d) == pass.todo # {} /\ Today = d /\ (CompactDay \/ GiveUpDay \/ RestoreDay)

\* Tables with rows are uploaded first, then the others noted as empty.
Push(t) ==
  /\ pass.pc = "push" /\ t \in pass.left
  /\ pass.rows[t] > 0 \/ \A s \in pass.left : pass.rows[s] = 0
  /\ remote' = [remote EXCEPT ![Today][t] = IF pass.rows[t] > 0 THEN pass.rows[t] ELSE Max({@, 0})]
  /\ pass' = [pass EXCEPT !.left = @ \ {t}, !.tries = 0]
  /\ UNCHANGED <<storeVars, nightVars>>

\* An upload is tried again up to its attempts, an empty-days entry never.
PushFails ==
  /\ pass.pc = "push" /\ pass.left # {}
  /\ pass' = IF (\E t \in pass.left : pass.rows[t] > 0) /\ pass.tries + 1 < UploadAttempts
             THEN [pass EXCEPT !.tries = @ + 1]
             ELSE Resting
  /\ UNCHANGED <<storeVars, nightVars, remote>>

DayDone ==
  /\ pass.pc = "push" /\ pass.left = {}
  /\ pass' = Passed
  /\ UNCHANGED <<storeVars, nightVars, remote>>

EndPass ==
  /\ pass.pc = "days" /\ pass.todo = {}
  /\ pass' = Resting
  /\ UNCHANGED <<storeVars, nightVars, remote>>

PassCrash ==
  /\ pass.pc # "resting"
  /\ pass' = Resting
  /\ UNCHANGED <<storeVars, nightVars, remote>>

PassStep ==
  \/ StartPass
  \/ \E d \in Days : VisitDay(d)
  \/ \E t \in Tables : Push(t)
  \/ DayDone
  \/ EndPass

ArchiveInitAll == StoreInit /\ NightInit /\ ArchiveInit

PipelineNext ==
  \/ StoreNext /\ UNCHANGED <<nightVars, archiveVars>>
  \/ NightStep /\ UNCHANGED archiveVars
  \/ PassStep
  \/ PushFails
  \/ PassCrash

PipelineSpec == ArchiveInitAll /\ [][PipelineNext]_pipeline

\* Cron keeps starting the pass, which goes on, and does not die at the same
\* place for ever; an upload offered again and again is accepted in the end.
FairPipelineSpec ==
  /\ PipelineSpec
  /\ WF_pipeline(PassStep)
  /\ \A d \in Days : SF_pipeline(VisitDay(d))
  /\ \A t \in Tables : SF_pipeline(Push(t))

-----------------------------------------------------------------------------
\* What is published of a table is what the poller recorded of it, gap
\* markers included, unless a copy of that date was cut short or damaged.
ArchiveIsFaithful ==
  \A d \in Days \ (cut \cup damaged) : \A t \in Published(d) :
    remote[d][t] = Compact(written[d])[t]

\* An earlier date stops every pass before this one is reached: its live file
\* cannot be read, and its backup cannot be copied to a read-only mount.
Blocked(d) ==
  \E e \in Days : /\ e < d
                  /\ DataReadOnly
                  /\ Published(e) # Tables
                  /\ ~Compactable(live[e]) /\ backup[e].kind # "missing"

\* A closed date that can be read is published in the end, however often
\* uploads fail and passes die, unless retention gets there first or an
\* earlier date stops the passes (run_archive_pass, one date after another).
ClosedDayIsArchived ==
  \A d \in Days :
    (IsPartitionClosed(d, now) /\ live[d].kind = "whole" /\ ~Blocked(d))
      ~> (Published(d) = Tables \/ live[d].kind # "whole" \/ Blocked(d))

\* A date whose live file went bad is published from its backup: run.py has
\* the pass "self-heal missing/corrupt partitions from backup where possible".
HealsFromBackup ==
  \A d \in Days :
    (live[d].kind = "torn" /\ backup[d].kind = "whole")
      ~> (Published(d) = Tables \/ backup[d].kind = "missing")
=============================================================================
