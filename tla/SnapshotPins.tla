---------------------------- MODULE SnapshotPins ----------------------------
(***************************************************************************)
(* Which static timetable each service date is read against: the nightly   *)
(* fetch job stores the published zip and pins its digest to the date      *)
(* (gtfs/fetch.py), the polling process replaces a pin the live trips do   *)
(* not join (gtfs/repin.py), and both read, change and replace the one     *)
(* manifest file without a lock (gtfs/pinning.py).  Metro and V/Line each  *)
(* run this pair on a directory of their own.                              *)
(*                                                                         *)
(* A date has two instants, parted by UNPINNED_GRACE_S.  The portal's ETag *)
(* is that of its content.                                                 *)
(***************************************************************************)
EXTENDS Integers, FiniteSetsExt, SequencesExt

CONSTANTS
  Digests,          \* contents the portal may publish
  Timetables,       \* what the live feed may run on
  JoinPct,          \* timetable -> digest -> percent of its trips found there
  RepinBelow,       \* REPIN_BELOW_PCT
  MinImprovement,   \* MIN_IMPROVEMENT_PCT
  MaxCandidates,    \* MAX_CANDIDATES
  LastDay,          \* bound on the clock
  MaxChanges        \* bound on publications, live changes and zips cut short

ASSUME PinsAssumption ==
  /\ JoinPct \in [Timetables -> [Digests -> 0 .. 100]]
  /\ RepinBelow \in Nat /\ MinImprovement \in Nat \ {0} /\ MaxCandidates \in Nat
  /\ LastDay \in Nat /\ MaxChanges \in Nat

Days == 0 .. LastDay
Instants == 0 .. 2 * LastDay + 1
ServiceDate(n) == n \div 2
InGrace(n) == n % 2 = 0

None == "none"
Quiet == "quiet"   \* fewer than MIN_LIVE_TRIPS trips of the date
NoPin == [digest |-> None, replaced |-> None]
Pins == [digest : Digests, replaced : Digests \cup {None}] \cup {NoPin}
NoPins == [d \in Days |-> NoPin]

\* A file of pins, or what was cut short or written over, which none can read.
Whole(pins) == [whole |-> TRUE, pins |-> pins]
Cut == [whole |-> FALSE, pins |-> NoPins]
Contents == [whole : BOOLEAN, pins : [Days -> Pins]]

\* fetch_cache.json; opening it to write makes it unreadable.
Caches == [ok : BOOLEAN, etag : Digests \cup {None}, digest : Digests \cup {None}]

VARIABLES
  now, remote, live,   \* the clock, what is published, what trains run on
  changes,             \* changes so far
  shelf,               \* stored zips, the last written first
  torn,                \* digests whose zip is not all there
  fetchCache,          \* fetch_cache.json
  manifest,            \* pin_manifest.json
  tmp,                 \* what its temporary file holds, {} when there is none;
                       \* the two processes give it one name
  job,                 \* the fetch job
  check                \* the poller's join check

world == <<now, remote, live, changes>>
files == <<shelf, torn, fetchCache>>
pinFiles == <<manifest, tmp>>
vars == <<world, files, pinFiles, job, check>>

\* A task at hand; "at" is where the file it has open is now, and raced is set
\* once the other began to save while it did.
Idle == [pc |-> "idle", date |-> 0, etag |-> None, digest |-> None, pins |-> NoPins,
         at |-> "tmp", raced |-> FALSE]
Tasks == [pc : {"idle", "get", "store", "zip", "cache", "etag", "pin", "open", "write", "replace"},
          date : Days, etag : Digests \cup {None}, digest : Digests \cup {None},
          pins : [Days -> Pins], at : {"tmp", "manifest", "nowhere"}, raced : BOOLEAN]
Saving(task) == task.pc \in {"open", "write", "replace"}

\* No date is pinned yet; an earlier night may have stored a snapshot.
Init ==
  /\ now = 0
  /\ remote \in Digests /\ live \in Timetables
  /\ changes = 0
  /\ torn = {}
  /\ \/ shelf = <<>> /\ fetchCache = [ok |-> TRUE, etag |-> None, digest |-> None]
     \/ \E d \in Digests : shelf = <<d>> /\ fetchCache = [ok |-> TRUE, etag |-> d, digest |-> d]
  /\ manifest = Whole(NoPins) /\ tmp = {}
  /\ job = Idle /\ check = Idle

TypeOK ==
  /\ now \in Instants /\ remote \in Digests /\ live \in Timetables \cup {Quiet}
  /\ changes \in 0 .. MaxChanges
  /\ Range(shelf) \subseteq Digests /\ torn \subseteq Digests
  /\ fetchCache \in Caches
  /\ manifest \in Contents /\ tmp \subseteq Contents
  /\ job \in Tasks /\ check \in Tasks

Changes == changes < MaxChanges /\ changes' = changes + 1

Tick ==
  /\ now + 1 \in Instants
  /\ now' = now + 1
  /\ UNCHANGED <<remote, live, changes, files, pinFiles, job, check>>

Publish ==
  /\ Changes
  /\ remote' \in Digests \ {remote}
  /\ UNCHANGED <<now, live, files, pinFiles, job, check>>

Shift ==
  /\ Changes
  /\ live' \in (Timetables \cup {Quiet}) \ {live}
  /\ UNCHANGED <<now, remote, files, pinFiles, job, check>>

-----------------------------------------------------------------------------
(* The fetch job, refresh_and_pin, started by host cron.                   *)

\* The date, the cache and the HEAD request; the server may send no ETag.  A
\* cache that cannot be read raises, and every night is over before it began.
JobStart ==
  /\ job.pc = "idle" /\ fetchCache.ok
  /\ \E etag \in {remote, None} :
       job' = IF etag # None /\ etag = fetchCache.etag /\ fetchCache.digest \in Range(shelf)
              THEN [Idle EXCEPT !.pc = "pin", !.date = ServiceDate(now), !.digest = fetchCache.digest]
              ELSE [Idle EXCEPT !.pc = "get", !.date = ServiceDate(now), !.etag = etag]
  /\ UNCHANGED <<world, files, pinFiles, check>>

\* Mutant: what was downloaded is pinned before it is stored.
DownloadOnly ==
  /\ job.pc = "get"
  /\ job' = [job EXCEPT !.pc = "pin", !.digest = remote, !.etag = None]
  /\ UNCHANGED <<world, files, pinFiles, check>>

\* What is downloaded may be later than what the HEAD saw.
Download ==
  /\ job.pc = "get"
  /\ job' = [job EXCEPT !.pc = "store", !.digest = remote]
  /\ UNCHANGED <<world, files, pinFiles, check>>

\* The zip is written where it is looked for; a digest already on the shelf is
\* not written again, whole or not.
OpenZip ==
  /\ job.pc = "store"
  /\ IF job.digest \in Range(shelf)
     THEN UNCHANGED <<shelf, torn>> /\ job' = [job EXCEPT !.pc = "cache"]
     ELSE /\ shelf' = <<job.digest>> \o shelf /\ torn' = torn \cup {job.digest}
          /\ job' = [job EXCEPT !.pc = "zip"]
  /\ UNCHANGED <<world, fetchCache, pinFiles, check>>

CloseZip ==
  /\ job.pc = "zip"
  /\ torn' = torn \ {job.digest}
  /\ job' = [job EXCEPT !.pc = "cache"]
  /\ UNCHANGED <<world, shelf, fetchCache, pinFiles, check>>

\* The cache is written in place, when there is an ETag to keep.
OpenCache ==
  /\ job.pc = "cache"
  /\ IF job.etag = None
     THEN UNCHANGED fetchCache /\ job' = [job EXCEPT !.pc = "pin"]
     ELSE fetchCache' = [fetchCache EXCEPT !.ok = FALSE] /\ job' = [job EXCEPT !.pc = "etag"]
  /\ UNCHANGED <<world, shelf, torn, pinFiles, check>>

SaveCache ==
  /\ job.pc = "etag"
  /\ fetchCache' = [ok |-> TRUE, etag |-> job.etag, digest |-> job.digest]
  /\ job' = [job EXCEPT !.pc = "pin", !.etag = None]
  /\ UNCHANGED <<world, shelf, torn, pinFiles, check>>

\* A request fails past its retries, or the job is killed: what it was writing
\* stays as it is.
JobDies ==
  /\ job.pc # "idle"
  /\ Changes
  /\ job' = Idle
  /\ UNCHANGED <<now, remote, live, files, pinFiles, check>>

-----------------------------------------------------------------------------
(* PinManifest: load, open and write the temporary file, put it in place.  *)

PinsWith(task, old) == [manifest.pins EXCEPT ![task.date] = [digest |-> task.digest, replaced |-> old]]
Starts(task, pins, other) ==
  [task EXCEPT !.pc = "open", !.pins = pins, !.at = "tmp", !.raced = Saving(other)]

\* Mutant: an existing pin is overwritten.
LoadToPinAnyway ==
  /\ job.pc = "pin"
  /\ job' = IF ~manifest.whole THEN Idle ELSE Starts(job, PinsWith(job, None), check)
  /\ check' = [check EXCEPT !.raced = @ \/ (Saving(check) /\ Saving(job'))]
  /\ UNCHANGED <<world, files, pinFiles>>

\* pin_digest leaves an existing pin alone; a manifest that cannot be read raises.
LoadToPin ==
  /\ job.pc = "pin"
  /\ job' = IF ~manifest.whole \/ manifest.pins[job.date] # NoPin THEN Idle
            ELSE Starts(job, PinsWith(job, None), check)
  /\ check' = [check EXCEPT !.raced = @ \/ (Saving(check) /\ Saving(job'))]
  /\ UNCHANGED <<world, files, pinFiles>>

\* repin overwrites it and keeps the digest it replaces.
LoadToRepin ==
  /\ check.pc = "pin"
  /\ check' = IF ~manifest.whole THEN Idle
              ELSE Starts(check, PinsWith(check, manifest.pins[check.date].digest), job)
  /\ job' = [job EXCEPT !.raced = @ \/ (Saving(job) /\ Saving(check'))]
  /\ UNCHANGED <<world, files, pinFiles>>

\* Opening truncates what is there, the other's included.
Open(task) == task.pc = "open" /\ tmp' = {Cut} /\ UNCHANGED manifest

\* What the other wrote since may reach past the end of what is written over it.
Over(file, task) == {Whole(task.pins)} \cup (IF file.whole THEN {Cut} ELSE {})

\* The open file is written wherever the other has put it meanwhile.
Write(task) ==
  /\ task.pc = "write"
  /\ \/ /\ task.at = "tmp" /\ UNCHANGED manifest
        /\ \E file \in tmp : \E content \in Over(file, task) : tmp' = {content}
     \/ task.at = "manifest" /\ manifest' \in Over(manifest, task) /\ UNCHANGED tmp
     \/ task.at = "nowhere" /\ UNCHANGED pinFiles

\* A replace without a temporary file raises.
Replace(task) ==
  /\ task.pc = "replace"
  /\ tmp' = {}
  /\ IF tmp = {} THEN UNCHANGED manifest ELSE manifest' \in tmp
Moved(task) ==
  IF task.pc = "write" /\ tmp # {}
  THEN [task EXCEPT !.at = IF @ = "tmp" THEN "manifest" ELSE "nowhere"]
  ELSE task

JobSaves ==
  /\ \/ Open(job) /\ job' = [job EXCEPT !.pc = "write"] /\ UNCHANGED check
     \/ Write(job) /\ job' = [job EXCEPT !.pc = "replace"] /\ UNCHANGED check
     \/ Replace(job) /\ job' = Idle /\ check' = Moved(check)
  /\ UNCHANGED <<world, files>>

CheckSaves ==
  /\ \/ Open(check) /\ check' = [check EXCEPT !.pc = "write"] /\ UNCHANGED job
     \/ Write(check) /\ check' = [check EXCEPT !.pc = "replace"] /\ UNCHANGED job
     \/ Replace(check) /\ check' = Idle /\ job' = Moved(job)
  /\ UNCHANGED <<world, files>>

-----------------------------------------------------------------------------
(* SnapshotSelector.check: score the pin, then the last zips stored.       *)

Score(digest) == IF digest \in Range(shelf) THEN JoinPct[live][digest] ELSE 0
Candidates == SubSeq(shelf, 1, Min({MaxCandidates, Len(shelf)}))
Pinned == manifest.pins[ServiceDate(now)].digest
IsDue == live # Quiet /\ (Pinned = None => ~InGrace(now)) /\ Score(Pinned) < RepinBelow

\* The first candidate to score highest, above the pin itself.
Best ==
  FoldLeft(LAMBDA best, digest : IF Score(digest) > Score(best) THEN digest ELSE best,
           Pinned, Candidates)

\* A zip or a manifest that cannot be parsed raises, and the check is given up.
Parses == manifest.whole /\ (Range(Candidates) \cup {Pinned}) \cap torn = {}
Repin == check' = [Idle EXCEPT !.pc = "pin", !.date = ServiceDate(now), !.digest = Best]

\* Mutant: an improvement of exactly the margin is not enough.
CheckStartAbove ==
  /\ check.pc = "idle" /\ Parses /\ IsDue
  /\ Score(Best) - Score(Pinned) > MinImprovement
  /\ Repin
  /\ UNCHANGED <<world, files, pinFiles, job>>

CheckStart ==
  /\ check.pc = "idle" /\ Parses /\ IsDue
  /\ Score(Best) - Score(Pinned) >= MinImprovement
  /\ Repin
  /\ UNCHANGED <<world, files, pinFiles, job>>

PollerDies ==
  /\ check.pc # "idle"
  /\ Changes
  /\ check' = Idle
  /\ UNCHANGED <<now, remote, live, files, pinFiles, job>>

JobStep ==
  \/ JobStart \/ Download \/ OpenZip \/ CloseZip \/ OpenCache \/ SaveCache
  \/ LoadToPin \/ JobSaves
CheckStep == CheckStart \/ LoadToRepin \/ CheckSaves

Next == Tick \/ Publish \/ Shift \/ JobStep \/ JobDies \/ CheckStep \/ PollerDies

Spec == Init /\ [][Next]_vars

\* Cron keeps starting the job, and the poll loop the check.
FairSpec == Spec /\ WF_vars(JobStep) /\ WF_vars(CheckStep)

-----------------------------------------------------------------------------
\* A pin names a zip that is stored, though perhaps not all of it: the lookups
\* of the polling process find the file (schedule_cache.py, _load).
PinsAreStored ==
  \A d \in Days : manifest.pins[d] # NoPin => manifest.pins[d].digest \in Range(shelf)

\* A saver the other has not overlapped leaves a manifest that can be read, with
\* every pin it had, or one that names it (pinning.py, "the override is never
\* silent").
OverridesAreOnRecord ==
  [][(manifest' # manifest /\ ~job.raced /\ ~check.raced) =>
       /\ manifest'.whole
       /\ \A d \in Days :
            (manifest.pins[d] # NoPin /\ manifest'.pins[d] # manifest.pins[d])
              => manifest'.pins[d].replaced = manifest.pins[d].digest]_vars

\* Zips that stay as they are: not the one being written.
Ruined == IF job.pc = "zip" THEN torn \ {job.digest} ELSE torn

\* A pin the live trips do not join is replaced once a stored snapshot joins
\* clearly better, unless a zip or the manifest was left unreadable.
JoinRecovers ==
  (IsDue /\ Score(Best) - Score(Pinned) >= MinImprovement)
    ~> (~IsDue \/ Score(Best) - Score(Pinned) < MinImprovement \/ Ruined # {} \/ ~manifest.whole)
=============================================================================
