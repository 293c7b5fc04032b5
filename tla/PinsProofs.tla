----------------------------- MODULE PinsProofs -----------------------------
(***************************************************************************)
(* The pins of the static timetable, for any snapshots, any scores and any *)
(* clock.  Two things must be carried to the step that replaces the        *)
(* manifest: that a digest in hand is on the shelf (the job stored it, the *)
(* check scored it above a pin), and that what an undisturbed saver is     *)
(* about to write is the manifest as it still stands, but for its own      *)
(* date.                                                                   *)
(***************************************************************************)
EXTENDS SnapshotPins, TLAPS

Stored(pins) == \A d \in Days : pins[d] # NoPin => pins[d].digest \in Range(shelf)

\* What a task holds is on the shelf.
HoldsStored(task) ==
  /\ task.pc = "pin" => task.digest \in Range(shelf)
  /\ Saving(task) => Stored(task.pins)

\* A saver the other has not overlapped: alone, its pins are current, and the
\* temporary file is its own.
JobIsCurrent ==
  Saving(job) /\ ~job.raced =>
    /\ ~Saving(check) /\ manifest.whole
    /\ job.pins = PinsWith(job, None) /\ manifest.pins[job.date] = NoPin
    /\ job.at = "tmp"
    /\ job.pc = "write" => tmp = {Cut}
    /\ job.pc = "replace" => tmp = {Whole(job.pins)}
CheckIsCurrent ==
  Saving(check) /\ ~check.raced =>
    /\ ~Saving(job) /\ manifest.whole
    /\ check.pins = PinsWith(check, manifest.pins[check.date].digest)
    /\ check.at = "tmp"
    /\ check.pc = "write" => tmp = {Cut}
    /\ check.pc = "replace" => tmp = {Whole(check.pins)}

PinInv ==
  /\ TypeOK
  /\ shelf \in Seq(Digests)
  /\ job.pc \in {"store", "zip"} => job.digest \in Digests
  /\ job.pc \in {"zip", "cache", "etag"} => job.digest \in Range(shelf)
  /\ Stored(manifest.pins) /\ \A file \in tmp : Stored(file.pins)
  /\ HoldsStored(job) /\ HoldsStored(check)
  /\ JobIsCurrent /\ CheckIsCurrent

\* The date of an instant is one of the dates.
LEMMA DateOfNow ==
  ASSUME now \in Instants
  PROVE  ServiceDate(now) \in Days
  BY PinsAssumption DEF Instants, ServiceDate, Days

LEMMA NoPinsType ==
  /\ NoPin \in Pins /\ NoPins \in [Days -> Pins] /\ 0 \in Days /\ Idle \in Tasks
  /\ Cut \in Contents /\ ~Cut.whole /\ \A d \in Days : Cut.pins[d] = NoPin
  /\ \A pins \in [Days -> Pins] :
       Whole(pins) \in Contents /\ Whole(pins).whole /\ Whole(pins).pins = pins
<1>1. NoPin \in Pins /\ NoPins \in [Days -> Pins] /\ 0 \in Days
  BY PinsAssumption DEF NoPin, Pins, NoPins, Days
<1>2. Idle \in Tasks
  BY <1>1 DEF Idle, Tasks
<1>3. Cut \in Contents /\ ~Cut.whole /\ \A d \in Days : Cut.pins[d] = NoPin
  BY <1>1 DEF Cut, Contents, NoPins
<1>4. \A pins \in [Days -> Pins] : Whole(pins) \in Contents /\ Whole(pins).whole /\ Whole(pins).pins = pins
  BY DEF Whole, Contents
<1> QED BY <1>1, <1>2, <1>3, <1>4

\* A zip put on the shelf is there, and so are those that were.
LEMMA ShelfGrows ==
  ASSUME shelf \in Seq(Digests), NEW d \in Digests
  PROVE  /\ <<d>> \o shelf \in Seq(Digests)
         /\ Range(<<d>> \o shelf) = {d} \cup Range(shelf)
         /\ Range(shelf) \subseteq Digests
<1>1. /\ <<d>> \o shelf \in Seq(Digests) /\ Len(<<d>> \o shelf) = Len(shelf) + 1
      /\ (<<d>> \o shelf)[1] = d /\ \A i \in 1 .. Len(shelf) : (<<d>> \o shelf)[i + 1] = shelf[i]
  OBVIOUS
<1>2. \A i \in 1 .. Len(shelf) + 1 : i = 1 \/ (i - 1 \in 1 .. Len(shelf) /\ (<<d>> \o shelf)[i] = shelf[i - 1])
  BY <1>1
<1> DEFINE longer == <<d>> \o shelf
<1>3. DOMAIN shelf = 1 .. Len(shelf) /\ DOMAIN longer = 1 .. Len(shelf) + 1
  BY <1>1
<1>4. /\ longer[1] = d /\ 1 \in DOMAIN longer
      /\ \A i \in DOMAIN shelf : i + 1 \in DOMAIN longer /\ longer[i + 1] = shelf[i]
      /\ \A i \in DOMAIN longer : i = 1 \/ (i - 1 \in DOMAIN shelf /\ longer[i] = shelf[i - 1])
      /\ \A i \in DOMAIN shelf : shelf[i] \in Digests
  BY <1>1, <1>2, <1>3
<1> HIDE DEF longer
<1>5. Range(longer) = {d} \cup Range(shelf) /\ Range(shelf) \subseteq Digests
  BY <1>4 DEF Range
<1> QED BY <1>1, <1>5 DEF longer

\* A digest that scores above a pin by the margin is on the shelf: what cannot
\* be found scores nothing.
LEMMA WinnerIsStored ==
  ASSUME TypeOK, IsDue, NEW best, Score(best) - Score(Pinned) >= MinImprovement
  PROVE  best \in Range(shelf)
<1>1. live \in Timetables /\ Range(shelf) \subseteq Digests
  BY DEF TypeOK, IsDue
<1>2. Score(Pinned) \in Nat
  BY <1>1, PinsAssumption DEF Score
<1> QED BY <1>2, PinsAssumption DEF Score

LEMMA PinInit == Init => PinInv
<1> SUFFICES ASSUME Init PROVE PinInv
  OBVIOUS
<1>1. shelf \in Seq(Digests) /\ Range(shelf) \subseteq Digests
  <2>0. shelf = <<>> \/ \E d \in Digests : shelf = <<d>>
    BY DEF Init
  <2>1. shelf \in Seq(Digests)
    <3>1. CASE shelf = <<>>
      BY <3>1
    <3>2. ASSUME NEW d \in Digests, shelf = <<d>> PROVE shelf \in Seq(Digests)
      BY <3>2
    <3> QED BY <2>0, <3>1, <3>2
  <2>2. \A i \in DOMAIN shelf : shelf[i] \in Digests
    BY <2>1
  <2>3. Range(shelf) \subseteq Digests
    BY <2>2, Zenon DEF Range
  <2> QED BY <2>1, <2>3
<1>2. now \in Instants /\ changes \in 0 .. MaxChanges
  BY PinsAssumption DEF Init, Instants
<1>3. TypeOK
  <2>1. fetchCache \in Caches
    <3>1. \A d \in Digests \cup {None} : [ok |-> TRUE, etag |-> d, digest |-> d] \in Caches
      BY DEF Caches
    <3>2. \E d \in Digests \cup {None} : fetchCache = [ok |-> TRUE, etag |-> d, digest |-> d]
      BY DEF Init
    <3> QED BY <3>1, <3>2
  <2>2. manifest \in Contents /\ tmp \subseteq Contents /\ job \in Tasks /\ check \in Tasks
    BY NoPinsType DEF Init
  <2> QED BY <1>1, <1>2, <2>1, <2>2 DEF Init, TypeOK
<1>4. manifest.pins = NoPins /\ tmp = {} /\ job.pc = "idle" /\ check.pc = "idle"
  BY DEF Init, Whole, Idle
<1> QED BY <1>1, <1>3, <1>4
      DEF PinInv, Stored, HoldsStored, JobIsCurrent, CheckIsCurrent, Saving, NoPins

\* Steps of the world.
LEMMA WorldStep ==
  ASSUME PinInv, Tick \/ Publish \/ Shift
  PROVE  PinInv'
<1>1. UNCHANGED <<files, pinFiles, job, check>>
  BY DEF Tick, Publish, Shift
<1>2. /\ now' \in Instants /\ remote' \in Digests /\ live' \in Timetables \cup {Quiet}
      /\ changes' \in 0 .. MaxChanges
  BY PinsAssumption DEF Tick, Publish, Shift, Changes, PinInv, TypeOK
<1>3. TypeOK'
  BY <1>1, <1>2 DEF PinInv, TypeOK, files, pinFiles
<1> QED BY <1>1, <1>3
      DEF PinInv, Stored, HoldsStored, JobIsCurrent, CheckIsCurrent, Saving, PinsWith, files, pinFiles

\* A task that goes on, or starts anew, without saving.
LEMMA JobMoves ==
  ASSUME PinInv, UNCHANGED <<now, remote, live, shelf, pinFiles, check>>,
         changes' \in 0 .. MaxChanges, fetchCache' \in Caches, torn' \subseteq Digests,
         job' \in Tasks, ~Saving(job'),
         job'.pc \in {"store", "zip"} => job'.digest \in Digests,
         job'.pc \in {"zip", "cache", "etag", "pin"} => job'.digest \in Range(shelf)
  PROVE  PinInv'
<1>1. TypeOK'
  BY DEF PinInv, TypeOK, pinFiles
<1> QED BY <1>1 
      DEF PinInv, Stored, HoldsStored, JobIsCurrent, CheckIsCurrent, Saving, PinsWith, pinFiles

LEMMA CheckMoves ==
  ASSUME PinInv, UNCHANGED <<now, remote, live, files, pinFiles, job>>,
         changes' \in 0 .. MaxChanges,
         check' \in Tasks, ~Saving(check'),
         check'.pc = "pin" => check'.digest \in Range(shelf)
  PROVE  PinInv'
<1>1. TypeOK'
  BY DEF PinInv, TypeOK, files, pinFiles
<1> QED BY <1>1 
      DEF PinInv, Stored, HoldsStored, JobIsCurrent, CheckIsCurrent, Saving, PinsWith, files, pinFiles

\* A zip reaches the shelf: what was stored still is.
LEMMA ShelfStep ==
  ASSUME PinInv, NEW d \in Digests, shelf' = <<d>> \o shelf,
         UNCHANGED <<now, remote, live, pinFiles, check>>,
         changes' \in 0 .. MaxChanges, torn' \subseteq Digests,
         fetchCache' \in Caches,
         job' \in Tasks, ~Saving(job'),
         job'.pc \in {"store", "zip"} => job'.digest \in Digests,
         job'.pc \in {"zip", "cache", "etag", "pin"} => job'.digest \in Range(shelf')
  PROVE  PinInv'
<1>1. shelf' \in Seq(Digests) /\ Range(shelf') \subseteq Digests /\ Range(shelf) \subseteq Range(shelf')
  BY ShelfGrows DEF PinInv
<1>2. TypeOK'
  BY <1>1 DEF PinInv, TypeOK, pinFiles
<1>3. Stored(manifest.pins)' /\ \A file \in tmp' : Stored(file.pins)'
  BY <1>1 DEF PinInv, Stored, pinFiles
<1>4. HoldsStored(job)' /\ HoldsStored(check)'
  BY <1>1 DEF PinInv, Stored, HoldsStored, Saving
<1>5. JobIsCurrent' /\ CheckIsCurrent'
  BY DEF PinInv, JobIsCurrent, CheckIsCurrent, Saving, PinsWith, pinFiles
<1> QED BY <1>1, <1>2, <1>3, <1>4, <1>5 DEF PinInv

LEMMA JobWorks ==
  ASSUME PinInv, JobStart \/ Download \/ OpenZip \/ CloseZip \/ OpenCache \/ SaveCache \/ JobDies
  PROVE  PinInv'
<1>1. /\ job \in Tasks /\ Idle \in Tasks /\ ServiceDate(now) \in Days /\ remote \in Digests
      /\ changes \in 0 .. MaxChanges /\ Range(shelf) \subseteq Digests
      /\ fetchCache \in Caches /\ torn \subseteq Digests
  BY DateOfNow, NoPinsType DEF PinInv, TypeOK
<1>2. CASE JobStart
  <2>1. PICK etag \in {remote, None} :
          job' = IF etag # None /\ etag = fetchCache.etag /\ fetchCache.digest \in Range(shelf)
                 THEN [Idle EXCEPT !.pc = "pin", !.date = ServiceDate(now), !.digest = fetchCache.digest]
                 ELSE [Idle EXCEPT !.pc = "get", !.date = ServiceDate(now), !.etag = etag]
    BY <1>2 DEF JobStart
  <2>2. job' \in Tasks
    BY <1>1, <2>1 DEF Tasks, Caches
  <2>3. /\ ~Saving(job') /\ job'.pc \in {"pin", "get"}
        /\ job'.pc = "pin" => job'.digest \in Range(shelf)
    BY <1>1, <2>1 DEF Saving, Idle
  <2> QED BY <1>1, <1>2, <2>2, <2>3, JobMoves DEF JobStart, world, files
<1>3. CASE Download
  <2>1. job' = [job EXCEPT !.pc = "store", !.digest = remote]
    BY <1>3 DEF Download
  <2>2. job' \in Tasks /\ job'.pc = "store" /\ job'.digest \in Digests
    BY <1>1, <2>1 DEF Tasks
  <2> QED BY <1>1, <1>3, <2>2, JobMoves DEF Download, Saving, world, files
<1>4. CASE OpenZip
  <2>1. job.digest \in Digests /\ UNCHANGED <<world, fetchCache, pinFiles, check>>
    BY <1>4 DEF OpenZip, PinInv
  <2>2. CASE job.digest \in Range(shelf)
    <3>1. job' = [job EXCEPT !.pc = "cache"] /\ UNCHANGED <<shelf, torn>>
      BY <1>4, <2>2 DEF OpenZip
    <3>2. job' \in Tasks /\ job'.pc = "cache" /\ job'.digest = job.digest
      BY <1>1, <3>1 DEF Tasks
    <3> QED BY <1>1, <2>1, <2>2, <3>1, <3>2, JobMoves DEF Saving, world
  <2>3. CASE job.digest \notin Range(shelf)
    <3>1. /\ job' = [job EXCEPT !.pc = "zip"]
          /\ shelf' = <<job.digest>> \o shelf /\ torn' = torn \cup {job.digest}
      BY <1>4, <2>3 DEF OpenZip
    <3>2. job' \in Tasks /\ job'.pc = "zip" /\ job'.digest = job.digest
      BY <1>1, <3>1 DEF Tasks
    <3>3. job.digest \in Range(shelf') /\ torn' \subseteq Digests
      BY <1>1, <2>1, <3>1, ShelfGrows DEF PinInv
    <3> QED BY <1>1, <2>1, <3>1, <3>2, <3>3, ShelfStep DEF Saving, world
  <2> QED BY <2>2, <2>3
<1>5. CASE CloseZip \/ OpenCache \/ SaveCache
  <2>1. /\ job.pc \in {"zip", "cache", "etag"} /\ job.digest \in Range(shelf)
        /\ UNCHANGED <<world, shelf, pinFiles, check>> /\ torn' \subseteq Digests
    BY <1>1, <1>5 DEF CloseZip, OpenCache, SaveCache, PinInv
  <2>2. job' \in Tasks /\ job'.pc \in {"cache", "etag", "pin"} /\ job'.digest = job.digest
    BY <1>1, <1>5 DEF CloseZip, OpenCache, SaveCache, Tasks
  <2>3. fetchCache' \in Caches
    <3>1. CASE CloseZip
      BY <1>1, <3>1 DEF CloseZip
    <3>2. CASE OpenCache
      BY <1>1, <3>2 DEF OpenCache, Caches
    <3>3. CASE SaveCache
      BY <1>1, <3>3 DEF SaveCache, Caches, Tasks
    <3> QED BY <1>5, <3>1, <3>2, <3>3
  <2> QED BY <1>1, <2>1, <2>2, <2>3, JobMoves DEF Saving, world
<1>6. CASE JobDies
  <2>1. job' = Idle /\ ~Saving(Idle) /\ Idle.pc = "idle" /\ changes' \in 0 .. MaxChanges
    BY <1>1, <1>6, PinsAssumption DEF JobDies, Changes, Saving, Idle
  <2> QED BY <1>1, <1>6, <2>1, JobMoves DEF JobDies, files
<1> QED BY <1>2, <1>3, <1>4, <1>5, <1>6

\* A pin written into the manifest as it is read.
LEMMA NewPins ==
  ASSUME PinInv, NEW task \in Tasks, task.digest \in Range(shelf), NEW old \in Digests \cup {None}
  PROVE  PinsWith(task, old) \in [Days -> Pins] /\ Stored(PinsWith(task, old))
<1>1. /\ manifest.pins \in [Days -> Pins] /\ task.date \in Days /\ Range(shelf) \subseteq Digests
      /\ Stored(manifest.pins)
  BY DEF PinInv, TypeOK, Contents, Tasks
<1>2. [digest |-> task.digest, replaced |-> old] \in Pins
  BY <1>1 DEF Pins
<1> QED BY <1>1, <1>2 DEF PinsWith, Stored

\* A task that begins to save.
LEMMA SaveStarts ==
  ASSUME NEW task \in Tasks, NEW pins \in [Days -> Pins], NEW other \in Tasks
  PROVE  /\ Starts(task, pins, other) \in Tasks
         /\ Starts(task, pins, other).pc = "open" /\ Starts(task, pins, other).date = task.date
         /\ Starts(task, pins, other).digest = task.digest /\ Starts(task, pins, other).pins = pins
         /\ Starts(task, pins, other).at = "tmp" /\ Starts(task, pins, other).raced = Saving(other)
<1> DEFINE raced == Saving(other)
           started == [task EXCEPT !.pc = "open", !.pins = pins, !.at = "tmp", !.raced = raced]
<1>1. raced \in BOOLEAN
  BY DEF Saving
<1> HIDE DEF raced
<1>2. /\ started \in Tasks /\ started.pc = "open" /\ started.date = task.date
      /\ started.digest = task.digest /\ started.pins = pins
      /\ started.at = "tmp" /\ started.raced = raced
  BY <1>1 DEF Tasks
<1>3. Starts(task, pins, other) = started
  BY DEF Starts, raced
<1> QED BY <1>2, <1>3 DEF raced

LEMMA JobLoads ==
  ASSUME PinInv, LoadToPin
  PROVE  PinInv'
<1>1. /\ job.pc = "pin" /\ job.digest \in Range(shelf) /\ job \in Tasks /\ job.date \in Days
      /\ check \in Tasks /\ ~Saving(job) /\ Range(shelf) \subseteq Digests
      /\ UNCHANGED <<world, files, pinFiles>>
  BY DEF LoadToPin, PinInv, TypeOK, HoldsStored, Tasks, Saving
<1>2. check' = [check EXCEPT !.raced = @ \/ (Saving(check) /\ Saving(job'))]
  BY DEF LoadToPin
<1>3. /\ check' \in Tasks /\ check'.pc = check.pc /\ check'.date = check.date /\ check'.digest = check.digest
      /\ check'.pins = check.pins /\ check'.at = check.at
      /\ check'.raced = (check.raced \/ (Saving(check) /\ Saving(job')))
  BY <1>1, <1>2 DEF Tasks
<1>4. CASE ~manifest.whole \/ manifest.pins[job.date] # NoPin
  <2>1. job' = Idle /\ ~Saving(job') /\ job'.pc = "idle" /\ job' \in Tasks
    BY <1>4, NoPinsType DEF LoadToPin, Saving, Idle
  <2>2. TypeOK'
    BY <1>1, <1>3, <2>1 DEF PinInv, TypeOK, world, files, pinFiles
  <2> QED BY <1>1, <1>3, <2>1, <2>2
        DEF PinInv, Stored, HoldsStored, JobIsCurrent, CheckIsCurrent, Saving, PinsWith, files, pinFiles
<1>5. CASE manifest.whole /\ manifest.pins[job.date] = NoPin
  <2> DEFINE pins == PinsWith(job, None)
  <2>1. pins \in [Days -> Pins] /\ Stored(pins)
    BY <1>1, NewPins
  <2>2. job' = Starts(job, pins, check)
    BY <1>5 DEF LoadToPin
  <2> HIDE DEF pins
  <2>3. /\ job' \in Tasks /\ job'.pc = "open" /\ job'.date = job.date /\ job'.digest = job.digest
        /\ job'.pins = pins /\ job'.at = "tmp" /\ job'.raced = Saving(check)
    BY <1>1, <2>1, <2>2, SaveStarts
  <2>4. Saving(job')
    BY <2>3 DEF Saving
  <2>5. TypeOK'
    BY <1>1, <1>3, <2>3 DEF PinInv, TypeOK, world, files, pinFiles
  <2>6. JobIsCurrent'
    BY <1>1, <1>3, <1>5, <2>3 DEF JobIsCurrent, PinsWith, pins, Saving, pinFiles
  <2>7. CheckIsCurrent'
    BY <1>3, <2>3, <2>4 DEF CheckIsCurrent, Saving
  <2>8. HoldsStored(job)' /\ HoldsStored(check)' /\ Stored(manifest.pins)' /\ \A file \in tmp' : Stored(file.pins)'
    BY <1>1, <1>3, <2>1, <2>3 DEF PinInv, HoldsStored, Stored, Saving, files, pinFiles
  <2> QED BY <1>1, <2>3, <2>5, <2>6, <2>7, <2>8 DEF PinInv, files
<1> QED BY <1>4, <1>5

LEMMA CheckLoads ==
  ASSUME PinInv, LoadToRepin
  PROVE  PinInv'
<1>1. /\ check.pc = "pin" /\ check.digest \in Range(shelf) /\ check \in Tasks /\ check.date \in Days
      /\ job \in Tasks /\ ~Saving(check) /\ Range(shelf) \subseteq Digests
      /\ manifest.pins \in [Days -> Pins]
      /\ UNCHANGED <<world, files, pinFiles>>
  BY DEF LoadToRepin, PinInv, TypeOK, HoldsStored, Tasks, Saving, Contents
<1>2. job' = [job EXCEPT !.raced = @ \/ (Saving(job) /\ Saving(check'))]
  BY DEF LoadToRepin
<1>3. /\ job' \in Tasks /\ job'.pc = job.pc /\ job'.date = job.date /\ job'.digest = job.digest
      /\ job'.pins = job.pins /\ job'.at = job.at
      /\ job'.raced = (job.raced \/ (Saving(job) /\ Saving(check')))
  BY <1>1, <1>2 DEF Tasks
<1>4. CASE ~manifest.whole
  <2>1. check' = Idle /\ ~Saving(check') /\ check'.pc = "idle" /\ check' \in Tasks
    BY <1>4, NoPinsType DEF LoadToRepin, Saving, Idle
  <2>2. TypeOK'
    BY <1>1, <1>3, <2>1 DEF PinInv, TypeOK, world, files, pinFiles
  <2> QED BY <1>1, <1>3, <2>1, <2>2
        DEF PinInv, Stored, HoldsStored, JobIsCurrent, CheckIsCurrent, Saving, PinsWith, files, pinFiles
<1>5. CASE manifest.whole
  <2> DEFINE pins == PinsWith(check, manifest.pins[check.date].digest)
  <2>1. manifest.pins[check.date].digest \in Digests \cup {None}
    BY <1>1 DEF Pins, NoPin
  <2>2. pins \in [Days -> Pins] /\ Stored(pins)
    BY <1>1, <2>1, NewPins
  <2>3. check' = Starts(check, pins, job)
    BY <1>5 DEF LoadToRepin
  <2> HIDE DEF pins
  <2>4. /\ check' \in Tasks /\ check'.pc = "open" /\ check'.date = check.date
        /\ check'.digest = check.digest /\ check'.pins = pins /\ check'.at = "tmp"
        /\ check'.raced = Saving(job)
    BY <1>1, <2>2, <2>3, SaveStarts
  <2>5. Saving(check')
    BY <2>4 DEF Saving
  <2>6. TypeOK'
    BY <1>1, <1>3, <2>4 DEF PinInv, TypeOK, world, files, pinFiles
  <2>7. JobIsCurrent'
    BY <1>3, <2>4, <2>5 DEF JobIsCurrent, Saving
  <2>8. CheckIsCurrent'
    BY <1>1, <1>3, <1>5, <2>4 DEF CheckIsCurrent, PinsWith, pins, Saving, pinFiles
  <2>9. HoldsStored(job)' /\ HoldsStored(check)' /\ Stored(manifest.pins)' /\ \A file \in tmp' : Stored(file.pins)'
    BY <1>1, <1>3, <2>2, <2>4 DEF PinInv, HoldsStored, Stored, Saving, files, pinFiles
  <2> QED BY <1>1, <1>3, <2>4, <2>6, <2>7, <2>8, <2>9 DEF PinInv, files
<1> QED BY <1>4, <1>5

-----------------------------------------------------------------------------
(* A save.                                                                 *)

\* A saver goes on to its next step, or is done.
LEMMA NextOf ==
  ASSUME NEW task \in Tasks, NEW pc \in {"write", "replace"}, NEW next, next = [task EXCEPT !.pc = pc]
  PROVE  /\ next \in Tasks /\ next.pc = pc /\ next.pins = task.pins /\ next.date = task.date
         /\ next.digest = task.digest /\ next.at = task.at /\ next.raced = task.raced
  BY DEF Tasks

LEMMA MovedOnly ==
  ASSUME NEW task \in Tasks
  PROVE  /\ Moved(task) \in Tasks /\ Moved(task).pc = task.pc /\ Moved(task).pins = task.pins
         /\ Moved(task).date = task.date /\ Moved(task).digest = task.digest
         /\ Moved(task).raced = task.raced
         /\ ~Saving(task) => Moved(task) = task
<1>1. CASE task.pc = "write" /\ tmp # {}
  <2> DEFINE place == IF task.at = "tmp" THEN "manifest" ELSE "nowhere"
             moved == [task EXCEPT !.at = place]
  <2>1. Moved(task) = moved
    BY <1>1 DEF Moved
  <2>2. place \in {"tmp", "manifest", "nowhere"}
    OBVIOUS
  <2> HIDE DEF place
  <2>3. /\ moved \in Tasks /\ moved.pc = task.pc /\ moved.pins = task.pins /\ moved.date = task.date
        /\ moved.digest = task.digest /\ moved.raced = task.raced
    BY <2>2 DEF Tasks
  <2> QED BY <1>1, <2>1, <2>3 DEF Saving
<1>2. CASE ~(task.pc = "write" /\ tmp # {})
  BY <1>2 DEF Moved
<1> QED BY <1>1, <1>2

\* What a saver writes is pins that are stored, or nothing to be read.
LEMMA OverTyped ==
  ASSUME PinInv, NEW task \in Tasks, Stored(task.pins), NEW file, NEW content \in Over(file, task)
  PROVE  content \in Contents /\ Stored(content.pins)
<1>1. task.pins \in [Days -> Pins]
  BY DEF Tasks
<1>2. content \in {Whole(task.pins), Cut}
  BY DEF Over
<1> QED BY <1>1, <1>2, NoPinsType DEF Stored

\* Whoever saves, the files hold what is stored.
LEMMA FilesStayStored ==
  ASSUME PinInv, NEW task \in Tasks, Saving(task) => Stored(task.pins),
         Open(task) \/ Write(task) \/ Replace(task)
  PROVE  /\ manifest' \in Contents /\ tmp' \subseteq Contents
         /\ Stored(manifest'.pins) /\ \A file \in tmp' : Stored(file.pins)
<1>1. /\ manifest \in Contents /\ tmp \subseteq Contents
      /\ Stored(manifest.pins) /\ \A file \in tmp : Stored(file.pins)
  BY DEF PinInv, TypeOK
<1>2. CASE Open(task)
  BY <1>1, <1>2, NoPinsType DEF Open, Stored
<1>3. CASE Write(task)
  <2>1. Stored(task.pins)
    BY <1>3 DEF Write, Saving
  <2>2. CASE task.at = "tmp"
    BY <1>1, <1>3, <2>1, <2>2, OverTyped DEF Write
  <2>3. CASE task.at = "manifest"
    BY <1>1, <1>3, <2>1, <2>3, OverTyped DEF Write
  <2>4. CASE task.at = "nowhere"
    BY <1>1, <1>3, <2>4 DEF Write, pinFiles
  <2> QED BY <2>2, <2>3, <2>4 DEF Tasks
<1>4. CASE Replace(task)
  BY <1>1, <1>4 DEF Replace
<1> QED BY <1>2, <1>3, <1>4

\* An undisturbed saver finds its own, and only it touches the files.
LEMMA AloneWrites ==
  ASSUME PinInv, NEW task \in Tasks, task.at = "tmp", Open(task) \/ Write(task),
         task.pc = "write" => tmp = {Cut}
  PROVE  /\ manifest' = manifest
         /\ Open(task) => tmp' = {Cut}
         /\ Write(task) => tmp' = {Whole(task.pins)}
<1>1. ~Cut.whole
  BY NoPinsType
<1>2. Write(task) => manifest' = manifest /\ tmp' = {Whole(task.pins)}
  BY <1>1 DEF Write, Over
<1> QED BY <1>2 DEF Open

LEMMA JobWrites ==
  ASSUME PinInv, NEW pc \in {"write", "replace"}, job' = [job EXCEPT !.pc = pc],
         \/ Open(job) /\ pc = "write"
         \/ Write(job) /\ pc = "replace",
         UNCHANGED <<world, files, check>>
  PROVE  PinInv'
<1>1. job \in Tasks /\ Saving(job) /\ Stored(job.pins)
  BY DEF Open, Write, PinInv, TypeOK, HoldsStored, Saving
<1>2. /\ job' \in Tasks /\ job'.pc = pc /\ job'.pins = job.pins /\ job'.date = job.date
      /\ job'.digest = job.digest /\ job'.at = job.at /\ job'.raced = job.raced
  BY <1>1, NextOf
<1>3. /\ manifest' \in Contents /\ tmp' \subseteq Contents
      /\ Stored(manifest'.pins) /\ \A file \in tmp' : Stored(file.pins)
  BY <1>1, FilesStayStored
<1>4. TypeOK'
  BY <1>2, <1>3 DEF PinInv, TypeOK, world, files
<1>5. JobIsCurrent'
  <2> SUFFICES ASSUME ~job.raced PROVE JobIsCurrent'
    BY <1>2 DEF JobIsCurrent
  <2>1. /\ ~Saving(check) /\ manifest.whole
        /\ job.pins = PinsWith(job, None) /\ manifest.pins[job.date] = NoPin
        /\ job.at = "tmp"
        /\ job.pc = "write" => tmp = {Cut}
    BY <1>1 DEF PinInv, JobIsCurrent
  <2>2. /\ manifest' = manifest
        /\ Open(job) => tmp' = {Cut}
        /\ Write(job) => tmp' = {Whole(job.pins)}
    <3>1. Open(job) \/ Write(job)
      OBVIOUS
    <3> QED BY <1>1, <2>1, <3>1, AloneWrites
  <2>3. /\ pc = "write" => tmp' = {Cut}
        /\ pc = "replace" => tmp' = {Whole(job.pins)}
    BY <2>2
  <2>4. check' = check /\ ~Saving(check')
    BY <2>1
  <2> QED BY <1>2, <2>1, <2>2, <2>3, <2>4 DEF JobIsCurrent, PinsWith
<1>6. CheckIsCurrent'
  BY <1>1, <1>2 DEF PinInv, CheckIsCurrent, Saving
<1>7. HoldsStored(job)' /\ HoldsStored(check)' /\ Stored(manifest.pins)' /\ \A file \in tmp' : Stored(file.pins)'
  BY <1>1, <1>2, <1>3 DEF PinInv, HoldsStored, Stored, Saving, files
<1> QED BY <1>2, <1>4, <1>5, <1>6, <1>7 DEF PinInv, files

LEMMA CheckWrites ==
  ASSUME PinInv, NEW pc \in {"write", "replace"}, check' = [check EXCEPT !.pc = pc],
         \/ Open(check) /\ pc = "write"
         \/ Write(check) /\ pc = "replace",
         UNCHANGED <<world, files, job>>
  PROVE  PinInv'
<1>1. check \in Tasks /\ Saving(check) /\ Stored(check.pins)
  BY DEF Open, Write, PinInv, TypeOK, HoldsStored, Saving
<1>2. /\ check' \in Tasks /\ check'.pc = pc /\ check'.pins = check.pins /\ check'.date = check.date
      /\ check'.digest = check.digest /\ check'.at = check.at /\ check'.raced = check.raced
  BY <1>1, NextOf
<1>3. /\ manifest' \in Contents /\ tmp' \subseteq Contents
      /\ Stored(manifest'.pins) /\ \A file \in tmp' : Stored(file.pins)
  BY <1>1, FilesStayStored
<1>4. TypeOK'
  BY <1>2, <1>3 DEF PinInv, TypeOK, world, files
<1>5. CheckIsCurrent'
  <2> SUFFICES ASSUME ~check.raced PROVE CheckIsCurrent'
    BY <1>2 DEF CheckIsCurrent
  <2>1. /\ ~Saving(job) /\ manifest.whole
        /\ check.pins = PinsWith(check, manifest.pins[check.date].digest)
        /\ check.at = "tmp"
        /\ check.pc = "write" => tmp = {Cut}
    BY <1>1 DEF PinInv, CheckIsCurrent
  <2>2. /\ manifest' = manifest
        /\ Open(check) => tmp' = {Cut}
        /\ Write(check) => tmp' = {Whole(check.pins)}
    <3>1. Open(check) \/ Write(check)
      OBVIOUS
    <3> QED BY <1>1, <2>1, <3>1, AloneWrites
  <2>3. /\ pc = "write" => tmp' = {Cut}
        /\ pc = "replace" => tmp' = {Whole(check.pins)}
    BY <2>2
  <2>4. job' = job /\ ~Saving(job')
    BY <2>1
  <2> QED BY <1>2, <2>1, <2>2, <2>3, <2>4 DEF CheckIsCurrent, PinsWith
<1>6. JobIsCurrent'
  BY <1>1, <1>2 DEF PinInv, JobIsCurrent, Saving
<1>7. HoldsStored(job)' /\ HoldsStored(check)' /\ Stored(manifest.pins)' /\ \A file \in tmp' : Stored(file.pins)'
  BY <1>1, <1>2, <1>3 DEF PinInv, HoldsStored, Stored, Saving, files
<1> QED BY <1>2, <1>4, <1>5, <1>6, <1>7 DEF PinInv, files

\* A saver the other's replace disturbs has been raced already.
LEMMA JobReplaces ==
  ASSUME PinInv, Replace(job), job' = Idle, check' = Moved(check), UNCHANGED <<world, files>>
  PROVE  PinInv'
<1>1. /\ job \in Tasks /\ check \in Tasks /\ Saving(job) /\ Stored(job.pins)
      /\ ~Saving(Idle) /\ Idle.pc = "idle"
  BY DEF Replace, PinInv, TypeOK, HoldsStored, Saving, Idle
<1>2. /\ check' \in Tasks /\ check'.pc = check.pc /\ check'.pins = check.pins /\ check'.date = check.date
      /\ check'.digest = check.digest /\ check'.raced = check.raced
  BY <1>1, MovedOnly
<1>3. /\ manifest' \in Contents /\ tmp' \subseteq Contents
      /\ Stored(manifest'.pins) /\ \A file \in tmp' : Stored(file.pins)
  BY <1>1, FilesStayStored
<1>4. TypeOK'
  BY <1>2, <1>3, NoPinsType DEF PinInv, TypeOK, world, files
<1>5. CheckIsCurrent'
  BY <1>1, <1>2 DEF PinInv, CheckIsCurrent, Saving
<1>6. JobIsCurrent'
  BY <1>1 DEF JobIsCurrent, Saving
<1>7. HoldsStored(job)' /\ HoldsStored(check)' /\ Stored(manifest.pins)' /\ \A file \in tmp' : Stored(file.pins)'
  BY <1>1, <1>2, <1>3 DEF PinInv, HoldsStored, Stored, Saving, files
<1> QED BY <1>1, <1>4, <1>5, <1>6, <1>7 DEF PinInv, files

LEMMA CheckReplaces ==
  ASSUME PinInv, Replace(check), check' = Idle, job' = Moved(job), UNCHANGED <<world, files>>
  PROVE  PinInv'
<1>1. /\ check \in Tasks /\ job \in Tasks /\ Saving(check) /\ Stored(check.pins)
      /\ ~Saving(Idle) /\ Idle.pc = "idle"
  BY DEF Replace, PinInv, TypeOK, HoldsStored, Saving, Idle
<1>2. /\ job' \in Tasks /\ job'.pc = job.pc /\ job'.pins = job.pins /\ job'.date = job.date
      /\ job'.digest = job.digest /\ job'.raced = job.raced
  BY <1>1, MovedOnly
<1>3. /\ manifest' \in Contents /\ tmp' \subseteq Contents
      /\ Stored(manifest'.pins) /\ \A file \in tmp' : Stored(file.pins)
  BY <1>1, FilesStayStored
<1>4. TypeOK'
  BY <1>2, <1>3, NoPinsType DEF PinInv, TypeOK, world, files
<1>5. JobIsCurrent'
  BY <1>1, <1>2 DEF PinInv, JobIsCurrent, Saving
<1>6. CheckIsCurrent'
  BY <1>1 DEF CheckIsCurrent, Saving
<1>7. HoldsStored(job)' /\ HoldsStored(check)' /\ Stored(manifest.pins)' /\ \A file \in tmp' : Stored(file.pins)'
  BY <1>1, <1>2, <1>3 DEF PinInv, HoldsStored, Stored, Saving, files
<1> QED BY <1>1, <1>2, <1>4, <1>5, <1>6, <1>7 DEF PinInv, files

LEMMA PinStep == PinInv /\ [Next]_vars => PinInv'
<1> SUFFICES ASSUME PinInv, [Next]_vars PROVE PinInv'
  OBVIOUS
<1>1. CASE Tick \/ Publish \/ Shift
  BY <1>1, WorldStep
<1>2. CASE JobStart \/ Download \/ OpenZip \/ CloseZip \/ OpenCache \/ SaveCache \/ JobDies
  BY <1>2, JobWorks
<1>3. CASE LoadToPin
  BY <1>3, JobLoads
<1>4. CASE JobSaves
  BY <1>4, JobWrites, JobReplaces DEF JobSaves
<1>5. CASE CheckStart
  <2>1. Best \in Range(shelf)
    BY <1>5, WinnerIsStored DEF CheckStart, PinInv
  <2> DEFINE best == Best
  <2>2. check' = [Idle EXCEPT !.pc = "pin", !.date = ServiceDate(now), !.digest = best]
    BY <1>5 DEF CheckStart, Repin
  <2> HIDE DEF best
  <2>3. best \in Range(shelf) /\ best \in Digests /\ ServiceDate(now) \in Days /\ changes \in 0 .. MaxChanges
    BY <2>1, DateOfNow DEF PinInv, TypeOK, best
  <2>4. check' \in Tasks /\ ~Saving(check') /\ check'.digest = best
    BY <2>2, <2>3, NoPinsType DEF Tasks, Saving, Idle
  <2> QED BY <1>5, <2>3, <2>4, CheckMoves DEF CheckStart, world
<1>6. CASE LoadToRepin
  BY <1>6, CheckLoads
<1>7. CASE CheckSaves
  BY <1>7, CheckWrites, CheckReplaces DEF CheckSaves
<1>8. CASE PollerDies
  <2>1. check' = Idle /\ ~Saving(Idle) /\ Idle.pc = "idle" /\ changes' \in 0 .. MaxChanges
    BY <1>8, PinsAssumption DEF PollerDies, Changes, Saving, Idle, PinInv, TypeOK
  <2> QED BY <1>8, <2>1, NoPinsType, CheckMoves DEF PollerDies
<1>9. CASE UNCHANGED vars
  <2>1. TypeOK'
    BY <1>9 DEF vars, world, files, pinFiles, PinInv, TypeOK
  <2> QED BY <1>9, <2>1
        DEF vars, world, files, pinFiles, PinInv, Stored, HoldsStored, JobIsCurrent, CheckIsCurrent, Saving, PinsWith
<1> QED BY <1>1, <1>2, <1>3, <1>4, <1>5, <1>6, <1>7, <1>8, <1>9 DEF Next, JobStep, CheckStep

\* The inductive invariant of the pins (gtfs/pinning.py, gtfs/fetch.py,
\* gtfs/repin.py).
THEOREM PinsInductive == Spec => []PinInv
  BY PinInit, PinStep, PTL DEF Spec

\* A pin names a zip that is stored (gtfs/schedule_cache.py, _load).
THEOREM PinsStored == Spec => []PinsAreStored
<1>1. PinInv => PinsAreStored
  BY DEF PinInv, Stored, PinsAreStored
<1> QED BY <1>1, PinsInductive, PTL

\* A saver not overlapped leaves a manifest that can be read, and overwrites a
\* pin on the record (gtfs/pinning.py, repin).
THEOREM OverridesRecorded == Spec => OverridesAreOnRecord
<1>1. PinInv /\ [Next]_vars =>
        [(manifest' # manifest /\ ~job.raced /\ ~check.raced) =>
           /\ manifest'.whole
           /\ \A d \in Days :
                (manifest.pins[d] # NoPin /\ manifest'.pins[d] # manifest.pins[d])
                  => manifest'.pins[d].replaced = manifest.pins[d].digest]_vars
  <2> SUFFICES ASSUME PinInv, [Next]_vars, manifest' # manifest, ~job.raced, ~check.raced
               PROVE  /\ manifest'.whole
                      /\ \A d \in Days :
                           (manifest.pins[d] # NoPin /\ manifest'.pins[d] # manifest.pins[d])
                             => manifest'.pins[d].replaced = manifest.pins[d].digest
    OBVIOUS
  <2>0. /\ manifest.pins \in [Days -> Pins] /\ job \in Tasks /\ check \in Tasks
        /\ JobIsCurrent /\ CheckIsCurrent
    BY DEF PinInv, TypeOK, Contents
  <2>1. Replace(job) \/ Replace(check) \/ Write(job) \/ Write(check)
    BY DEF Next, Tick, Publish, Shift, JobStep, JobStart, Download, OpenZip, CloseZip, OpenCache, SaveCache,
           LoadToPin, JobSaves, JobDies, CheckStep, CheckStart, LoadToRepin, CheckSaves, PollerDies,
           Open, vars, pinFiles
  <2>2. ~Write(job) /\ ~Write(check)
    BY <2>0 DEF Write, JobIsCurrent, CheckIsCurrent, Saving
  <2>3. CASE Replace(job)
    <3>1. /\ job.pins = PinsWith(job, None) /\ manifest.pins[job.date] = NoPin
          /\ tmp = {Whole(job.pins)} /\ job.pins \in [Days -> Pins]
      BY <2>0, <2>3 DEF Replace, JobIsCurrent, Saving, Tasks
    <3>2. manifest'.whole /\ manifest'.pins = job.pins
      BY <2>3, <3>1, NoPinsType DEF Replace
    <3> QED BY <2>0, <3>1, <3>2 DEF PinsWith
  <2>4. CASE Replace(check)
    <3>1. /\ check.pins = PinsWith(check, manifest.pins[check.date].digest)
          /\ tmp = {Whole(check.pins)} /\ check.pins \in [Days -> Pins]
      BY <2>0, <2>4 DEF Replace, CheckIsCurrent, Saving, Tasks
    <3>2. manifest'.whole /\ manifest'.pins = check.pins
      BY <2>4, <3>1, NoPinsType DEF Replace
    <3> QED BY <2>0, <3>1, <3>2 DEF PinsWith
  <2> QED BY <2>1, <2>2, <2>3, <2>4
<1> QED BY <1>1, PinsInductive, PTL DEF Spec, OverridesAreOnRecord
=============================================================================
