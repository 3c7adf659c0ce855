----------------------------- MODULE DeviceProofs -----------------------------
(***************************************************************************)
(* The adapters of the booth's devices, for any capacities, configurations *)
(* and numbers of calls, failures and movements: what the runs of          *)
(* MCDevices check of the hook intake, the recorder, the earpiece and the  *)
(* status LED.  Each component has its inductive invariant, whose name     *)
(* ends in Sound.                                                          *)
(***************************************************************************)
EXTENDS HookIntake, Recorder, Playback, StatusLedDriver, SequenceTheorems, TLAPS

(* Sequences as queues *)

LEMMA EmptyIsShort == Len(<<>>) = 0
  OBVIOUS

\* One more at the end of a sequence.
LEMMA Appended ==
    ASSUME NEW S, NEW q \in Seq(S), NEW l \in S
    PROVE  /\ Append(q, l) \in Seq(S) /\ Append(q, l) # <<>>
           /\ Len(Append(q, l)) = Len(q) + 1 /\ Len(q) \in Nat
           /\ Append(q, l)[Len(Append(q, l))] = l
  BY AppendProperties, LenProperties

\* The first of a sequence is taken: the last stays, or was the first.
LEMMA Taken ==
    ASSUME NEW S, NEW q \in Seq(S), q # <<>>
    PROVE  /\ Head(q) \in S /\ Tail(q) \in Seq(S) /\ Len(Tail(q)) = Len(q) - 1
           /\ Len(q) \in Nat
           /\ Tail(q) = <<>> => Head(q) = q[Len(q)]
           /\ Tail(q) # <<>> => Tail(q)[Len(Tail(q))] = q[Len(q)]
<1>1. /\ Head(q) \in S /\ Tail(q) \in Seq(S) /\ Head(q) = q[1]
      /\ \A i \in 1..Len(Tail(q)) : Tail(q)[i] = q[i + 1]
  BY HeadTailProperties
<1>2. Len(q) \in Nat
  BY LenProperties
<1>3. Len(Tail(q)) = Len(q) - 1
  BY HeadTailProperties
<1>4. CASE Tail(q) = <<>>
  <2>1. Len(Tail(q)) = 0
    BY <1>4, EmptyIsShort
  <2>2. Len(q) - 1 = 0
    BY <1>3, <2>1
  <2>3. Len(q) = 1
    BY <1>2, <2>2
  <2>4. QED
    BY <1>1, <1>2, <1>3, <1>4, <2>3
<1>5. CASE Tail(q) # <<>>
  <2>1. Len(Tail(q)) \in Nat \ {0}
    BY <1>1, <1>5, EmptySeq
  <2>2. QED
    BY <1>1, <1>2, <1>3, <1>5, <2>1
<1>6. QED
  BY <1>4, <1>5

----------------------------------------------------------------------------
(* How the handset's position reaches the core *)

\* Where the core takes the handset to be once it has heard every queued event.
Coming == IF queue = <<>> THEN core ELSE queue[Len(queue)]

\* An edge on its way is from a poller that confirmed it last.
EdgesAreConfirmed ==
    poll.alive /\ ~edgeDropped =>
        IF poll.seeded THEN edges # <<>> => edges[Len(edges)] = poll.confirmed
        ELSE edges = <<>>

\* Without edges on their way, the core comes to know what the poller confirmed, or
\* what the snapshot returned.
ComingIsConfirmed ==
    gpio = "Read" /\ edges = <<>> /\ poll.alive /\ ~edgeDropped /\ ~missed =>
        Coming = IF poll.seeded THEN poll.confirmed ELSE level

HookProgress ==
    /\ gpio = "Starting" => queue = <<>> /\ poll.alive
    /\ gpio = "Lost" => edges = <<>> /\ ~poll.alive

HookSound == HookTypeOK /\ EdgesAreConfirmed /\ ComingIsConfirmed /\ HookProgress

LEMMA Capacities == EdgeCap \in Nat /\ QueueCap \in Nat /\ MaxToggles \in Nat /\ MaxLosses \in Nat
  BY HookIntakeAssumption

\* The states of the poller, and how they change.
LEMMA Pollers ==
    ASSUME NEW p \in Polling, NEW l \in Level, NEW b \in BOOLEAN
    PROVE  /\ Unseeded \in Polling /\ Poller(l) \in Polling
           /\ [p EXCEPT !.pending = b] \in Polling /\ [p EXCEPT !.alive = b] \in Polling
  BY DEF Polling, Unseeded, Poller, Level

LEMMA InitHook == HookInit => HookSound
<1> SUFFICES ASSUME HookInit PROVE HookSound
  OBVIOUS
<1>1. HookTypeOK
  <2>1. Unseeded \in Polling
    BY DEF Polling, Unseeded, Poller, Level
  <2>2. /\ edges \in Seq(Level) /\ queue \in Seq(Level)
        /\ Len(edges) = 0 /\ Len(queue) = 0
    BY EmptyIsShort DEF HookInit
  <2>3. {pin, level, core} \subseteq Level
    BY DEF HookInit, Level
  <2>4. {busy, edgeDropped, missed} \subseteq BOOLEAN
    BY DEF HookInit
  <2>5. poll \in Polling
    BY <2>1 DEF HookInit
  <2>6. /\ edges \in Seq(Level) /\ Len(edges) <= EdgeCap
    /\ queue \in Seq(Level) /\ Len(queue) <= QueueCap
    BY <2>2, Capacities
  <2>7. /\ gpio \in {"Starting", "Read", "Lost", "Reconcile"}
    /\ toggles \in 0..MaxToggles /\ losses \in 0..MaxLosses
    BY Capacities DEF HookInit
  <2>8. QED
    BY <2>3, <2>4, <2>5, <2>6, <2>7 DEF HookTypeOK
<1>2. EdgesAreConfirmed /\ ComingIsConfirmed /\ HookProgress
  BY DEF HookInit, EdgesAreConfirmed, ComingIsConfirmed, HookProgress, Unseeded, Poller
<1>3. QED
  BY <1>1, <1>2 DEF HookSound

\* What queue_event does to the queue.
LEMMA Enqueued ==
    ASSUME HookTypeOK, NEW l \in Level, Enqueue(l)
    PROVE  /\ queue' \in Seq(Level) /\ Len(queue') <= QueueCap /\ edgeDropped' \in BOOLEAN
           /\ edgeDropped => edgeDropped'
           /\ ~edgeDropped' => queue' # <<>> /\ queue'[Len(queue')] = l
<1>1. CASE Len(queue) < QueueCap
  <2>1. queue' = Append(queue, l) /\ edgeDropped' = edgeDropped
    BY <1>1 DEF Enqueue
  <2>2. queue \in Seq(Level) /\ edgeDropped \in BOOLEAN
    BY DEF HookTypeOK
  <2>3. QED
    BY <1>1, <2>1, <2>2, Appended, Capacities
<1>2. CASE ~(Len(queue) < QueueCap)
  BY <1>2 DEF Enqueue, HookTypeOK
<1>3. QED
  BY <1>1, <1>2

\* Every step keeps the types.
LEMMA HookTypes ==
    ASSUME HookTypeOK, [HookNext]_hookVars
    PROVE  HookTypeOK'
<1> USE Capacities DEF HookTypeOK
<1>1. CASE Toggle
  BY <1>1 DEF Toggle
<1>2. CASE Busy
  BY <1>2 DEF Busy
<1>3. CASE Seed
  BY <1>3, Pollers DEF Seed
<1>4. CASE Sample
  <2>1. CASE pin = poll.confirmed \/ ~poll.pending
    BY <1>4, <2>1, Pollers DEF Sample
  <2>2. CASE pin # poll.confirmed /\ poll.pending
    <3>1. /\ Poller(pin) \in Polling /\ Append(edges, pin) \in Seq(Level)
          /\ Len(Append(edges, pin)) = Len(edges) + 1 /\ Len(edges) \in Nat
      BY Pollers, Appended
    <3>2. edges' = edges \/ (Len(edges) < EdgeCap /\ edges' = Append(edges, pin))
      BY <1>4, <2>2 DEF Sample
    <3>3. edges' \in Seq(Level) /\ Len(edges') <= EdgeCap
      BY <3>1, <3>2
    <3>4. level' \in Level /\ poll' \in Polling /\ edgeDropped' \in BOOLEAN
      BY <1>4, <2>2, <3>1 DEF Sample
    <3>5. QED
      BY <1>4, <3>3, <3>4 DEF Sample
  <2>3. QED
    BY <2>1, <2>2
<1>5. CASE StreamLost
  <2>1. poll' \in Polling
    BY <1>5, Pollers DEF StreamLost
  <2>2. losses' \in 0..MaxLosses
    BY <1>5 DEF StreamLost
  <2>3. QED
    BY <1>5, <2>1, <2>2 DEF StreamLost
<1>6. CASE Start
  BY <1>6 DEF Start, Bounce
<1>7. CASE GpioReads
  BY <1>7, Taken, Enqueued DEF GpioReads
<1>8. CASE GpioLoses
  BY <1>8 DEF GpioLoses
<1>9. CASE Rebuild
  BY <1>9, Pollers DEF Rebuild
<1>10. CASE Reconcile
  BY <1>10, Enqueued DEF Reconcile, Bounce
<1>11. CASE CoreHears
  BY <1>11, Taken DEF CoreHears
<1>12. CASE UNCHANGED hookVars
  BY <1>12 DEF hookVars
<1>13. QED
  BY <1>1, <1>2, <1>3, <1>4, <1>5, <1>6, <1>7, <1>8, <1>9, <1>10, <1>11, <1>12
     DEF HookNext, GpioTask

\* Every step keeps what is on its way in step with what the poller confirmed.
LEMMA HookStep ==
    ASSUME HookSound, [HookNext]_hookVars
    PROVE  HookSound'
<1>1. HookTypeOK /\ HookTypeOK'
  BY HookTypes DEF HookSound
<1> SUFFICES EdgesAreConfirmed' /\ ComingIsConfirmed' /\ HookProgress'
  BY <1>1 DEF HookSound
<1> USE DEF HookSound, EdgesAreConfirmed, ComingIsConfirmed, HookProgress, Coming
<1>2. CASE Toggle
  BY <1>2 DEF Toggle
<1>3. CASE Busy
  BY <1>3 DEF Busy
<1>4. CASE Seed
  BY <1>4 DEF Seed, Poller
<1>5. CASE Sample
  <2>1. CASE pin = poll.confirmed \/ ~poll.pending
    <3>1. poll'.alive = poll.alive /\ poll'.seeded = poll.seeded /\ poll'.confirmed = poll.confirmed
      BY <1>1, <1>5, <2>1 DEF Sample, HookTypeOK, Polling
    <3>2. poll.seeded /\ UNCHANGED <<edges, queue, core, gpio, edgeDropped, missed>>
      BY <1>5, <2>1 DEF Sample
    <3>3. QED
      BY <3>1, <3>2
  <2>2. CASE pin # poll.confirmed /\ poll.pending
    <3>1. poll'.alive /\ poll'.seeded /\ poll'.confirmed = pin
      BY <1>5, <2>2 DEF Sample, Poller
    <3>2. poll.alive /\ poll.seeded /\ UNCHANGED <<queue, core, gpio, missed>>
      BY <1>5 DEF Sample
    <3>3. edgeDropped' \/ edges' = Append(edges, pin)
      BY <1>5, <2>2 DEF Sample
    <3>4. edgeDropped' \/ (edges' # <<>> /\ edges'[Len(edges')] = pin)
      BY <1>1, <3>3, Appended DEF HookTypeOK
    <3>5. QED
      BY <3>1, <3>2, <3>4
  <2>3. QED
    BY <2>1, <2>2
<1>6. CASE StreamLost
  BY <1>1, <1>6 DEF StreamLost, HookTypeOK
<1>7. CASE Start
  BY <1>7 DEF Start, Bounce
<1>8. CASE GpioReads
  <2>1. /\ edgeDropped => edgeDropped'
        /\ Tail(edges) = <<>> => Head(edges) = edges[Len(edges)]
        /\ Tail(edges) # <<>> => Tail(edges)[Len(Tail(edges))] = edges[Len(edges)]
        /\ ~edgeDropped' => queue' # <<>> /\ queue'[Len(queue')] = Head(edges)
    <3>1. Head(edges) \in Level
      BY <1>1, <1>8, Taken DEF GpioReads, HookTypeOK
    <3>2. QED
      BY <1>1, <1>8, <3>1, Taken, Enqueued DEF GpioReads, HookTypeOK
  <2>2. edges # <<>> /\ edges' = Tail(edges) /\ UNCHANGED <<poll, gpio, missed>> /\ gpio = "Read"
    BY <1>8 DEF GpioReads
  <2>3. EdgesAreConfirmed' /\ HookProgress'
    BY <2>1, <2>2
  <2>4. ComingIsConfirmed'
    BY <2>1, <2>2
  <2>5. QED
    BY <2>3, <2>4
<1>9. CASE GpioLoses
  BY <1>9 DEF GpioLoses
<1>10. CASE Rebuild
  BY <1>10 DEF Rebuild, Unseeded, Poller
<1>11. CASE Reconcile
  <2>1. /\ edgeDropped => edgeDropped'
        /\ ~edgeDropped' => queue' # <<>> /\ queue'[Len(queue')] = level
    BY <1>1, <1>11, Enqueued DEF Reconcile, HookTypeOK
  <2>2. QED
    BY <1>11, <2>1 DEF Reconcile, Bounce
<1>12. CASE CoreHears
  <2>1. Coming' = Coming
    BY <1>1, <1>12, Taken DEF CoreHears, HookTypeOK
  <2>2. QED
    BY <1>12, <2>1 DEF CoreHears
<1>13. CASE UNCHANGED hookVars
  BY <1>13 DEF hookVars
<1>14. QED
  BY <1>2, <1>3, <1>4, <1>5, <1>6, <1>7, <1>8, <1>9, <1>10, <1>11, <1>12, <1>13
     DEF HookNext, GpioTask

\* When nothing is under way the core knows where the handset is, whatever the
\* queues hold and however often the edge stream was lost (poll_edges, gpio_task,
\* reconcile_hook), unless an edge was dropped or moved while it was being opened.
THEOREM HandsetIsKnown == HookSpec => []HookInv
<1>1. HookSound => HookInv
  BY DEF HookSound, HookInv, QuietMeansKnown, ComingIsConfirmed, Coming
<1>2. QED
  BY <1>1, InitHook, HookStep, PTL DEF HookSpec

----------------------------------------------------------------------------
(* Recordings on the disk *)

FilesOf(b) == {"audio", "path"} \X (1..b)

\* A directory of the first b recordings: each name leads to its own file.
Named(d, b) ==
    /\ DOMAIN d \subseteq {"temp", "final"} \X FilesOf(b)
    /\ \A n \in DOMAIN d : d[n] = n[2]

\* An audio file under its final name is among those that are safe.
Whole(d, safe) == \A r \in Recordings : Final(Audio(r)) \in DOMAIN d => Audio(r) \in safe

\* The audio of these recordings can be found.
Kept(d, kept) == \A r \in kept : Final(Audio(r)) \in DOMAIN d

\* What no power failure can damage any more, and what must not be lost.
Safe == (written \cap synced) \ torn
Answers == answered \ dropped

Directory(d) == Named(d, begun) /\ Whole(d, Safe) /\ Kept(d, Answers)

\* How far the last recording has come.
Recorded ==
    /\ holder \in {"held", "joining"} <=> thread.phase # "none"
    /\ holder # "free" => begun \in 1..begun /\ begun \notin answered
    /\ thread.phase # "none" => Audio(begun) \notin torn
    /\ thread.phase \in {"opening", "capturing"} /\ ~thread.cancel => captured[begun] < MaxSamples
    /\ thread.phase = "renaming" => Audio(begun) \in written \cap synced
    /\ thread.phase = "syncing" => Final(Audio(begun)) \in DOMAIN dir
    /\ (thread.phase = "ended" /\ ~thread.failed) \/ holder \in {"persisting", "storing"} =>
          Final(Audio(begun)) \in DOMAIN dir /\ Final(Audio(begun)) \in DOMAIN ondisk

Counted ==
    /\ torn \subseteq FilesOf(begun)
    /\ answered \subseteq 1..begun /\ finished \subseteq Answers
    /\ \A r \in Recordings : r > begun => captured[r] = 0

RecorderSound ==
    RecorderTypeOK /\ Directory(dir) /\ Directory(ondisk) /\ Recorded /\ Counted

\* Linking a name.
LEMMA Links ==
    ASSUME NEW d, NEW n, NEW f, NEW m
    PROVE  /\ m \in DOMAIN Linked(d, n, f) <=> m \in DOMAIN d \/ m = n
           /\ m \in DOMAIN Linked(d, n, f) => Linked(d, n, f)[m] = IF m = n THEN f ELSE d[m]
  BY DEF Linked

\* Unlinking it.
LEMMA Unlinks ==
    ASSUME NEW d, NEW n, NEW m
    PROVE  /\ m \in DOMAIN Unlinked(d, n) <=> m \in DOMAIN d /\ m # n
           /\ m \in DOMAIN Unlinked(d, n) => Unlinked(d, n)[m] = d[m]
  BY DEF Unlinked, Restrict

LEMMA NamedLinked ==
    ASSUME NEW b \in Nat, NEW d, Named(d, b), NEW f \in FilesOf(b), NEW k \in {"temp", "final"}
    PROVE  Named(Linked(d, <<k, f>>, f), b)
<1> DEFINE n == <<k, f>>
<1>1. n \in {"temp", "final"} \X FilesOf(b) /\ n[2] = f
  OBVIOUS
<1> HIDE DEF n
<1>2. Named(Linked(d, n, f), b)
  <2>1. DOMAIN Linked(d, n, f) \subseteq {"temp", "final"} \X FilesOf(b)
    BY <1>1, Links DEF Named
  <2>2. ASSUME NEW m \in DOMAIN Linked(d, n, f) PROVE Linked(d, n, f)[m] = m[2]
    <3>1. Linked(d, n, f)[m] = IF m = n THEN f ELSE d[m]
      BY Links
    <3>2. m = n \/ m \in DOMAIN d
      BY Links
    <3>3. QED
      BY <1>1, <3>1, <3>2 DEF Named
  <2>3. QED
    BY <2>1, <2>2 DEF Named
<1>3. QED
  BY <1>2 DEF n

LEMMA NamedUnlinked ==
    ASSUME NEW b, NEW d, Named(d, b), NEW n
    PROVE  Named(Unlinked(d, n), b)
<1>1. DOMAIN Unlinked(d, n) \subseteq DOMAIN d
  BY Unlinks
<1>2. ASSUME NEW m \in DOMAIN Unlinked(d, n) PROVE Unlinked(d, n)[m] = m[2]
  BY <1>1, Unlinks DEF Named
<1>3. QED
  BY <1>1, <1>2 DEF Named

LEMMA NamedMoved ==
    ASSUME NEW b \in Nat, NEW d, Named(d, b), NEW f \in FilesOf(b)
    PROVE  Named(Moved(d, f), b)
  BY NamedLinked, NamedUnlinked DEF Moved, Final

LEMMA NamedMore ==
    ASSUME NEW b \in Nat, NEW c \in Nat, b <= c, NEW d, Named(d, b)
    PROVE  Named(d, c)
<1>1. FilesOf(b) \subseteq FilesOf(c)
  BY DEF FilesOf
<1>2. QED
  BY <1>1 DEF Named

LEMMA NamedTypes ==
    ASSUME NEW b \in 0..MaxRecordings, NEW d, Named(d, b)
    PROVE  /\ DOMAIN d \subseteq Names /\ Range(d) \subseteq File /\ Range(d) \subseteq FilesOf(b)
           /\ FilesOf(b) \subseteq File
<1>1. FilesOf(b) \subseteq File
  BY RecorderAssumption DEF FilesOf, File, Recordings
<1>2. Range(d) \subseteq FilesOf(b)
  BY DEF Range, Named
<1>3. QED
  BY <1>1, <1>2 DEF Named, Names

\* Only a rename of the audio file itself gives it its name, and only a discard
\* takes it away.
LEMMA AudioNames ==
    ASSUME NEW d, NEW r, NEW q
    PROVE  /\ Final(Audio(r)) \in DOMAIN Linked(d, Temp(Audio(q)), Audio(q))
                <=> Final(Audio(r)) \in DOMAIN d
           /\ Final(Audio(r)) \in DOMAIN Linked(d, Temp(Path(q)), Path(q))
                <=> Final(Audio(r)) \in DOMAIN d
           /\ Final(Audio(r)) \in DOMAIN Moved(d, Path(q)) <=> Final(Audio(r)) \in DOMAIN d
           /\ Final(Audio(r)) \in DOMAIN Moved(d, Audio(q))
                <=> Final(Audio(r)) \in DOMAIN d \/ r = q
           /\ Final(Audio(r)) \in DOMAIN Unlinked(d, Temp(Path(q))) <=> Final(Audio(r)) \in DOMAIN d
           /\ Final(Audio(r)) \in DOMAIN Unlinked(d, Final(Path(q))) <=> Final(Audio(r)) \in DOMAIN d
           /\ Final(Audio(r)) \in DOMAIN Unlinked(Unlinked(d, Final(Path(q))), Final(Audio(q)))
                <=> Final(Audio(r)) \in DOMAIN d /\ r # q
<1>1. /\ \A f, g : Final(f) # Temp(g) /\ (Final(f) = Final(g) => f = g)
      /\ Audio(r) # Path(q) /\ (Audio(r) = Audio(q) <=> r = q)
  BY DEF Final, Temp, Audio, Path
<1> DEFINE a == Final(Audio(r))
<1>2. /\ a # Temp(Audio(q)) /\ a # Temp(Path(q)) /\ a # Final(Path(q))
      /\ a = Final(Audio(q)) <=> r = q
  BY <1>1
<1> HIDE DEF a
<1>3. /\ a \in DOMAIN Linked(d, Temp(Audio(q)), Audio(q)) <=> a \in DOMAIN d
      /\ a \in DOMAIN Linked(d, Temp(Path(q)), Path(q)) <=> a \in DOMAIN d
  BY <1>2, Links, Unlinks
<1>4. /\ a \in DOMAIN Moved(d, Path(q)) <=> a \in DOMAIN d
      /\ a \in DOMAIN Moved(d, Audio(q)) <=> a \in DOMAIN d \/ r = q
  BY <1>2, Links, Unlinks DEF Moved
<1>5. /\ a \in DOMAIN Unlinked(d, Temp(Path(q))) <=> a \in DOMAIN d
      /\ a \in DOMAIN Unlinked(d, Final(Path(q))) <=> a \in DOMAIN d
      /\ a \in DOMAIN Unlinked(Unlinked(d, Final(Path(q))), Final(Audio(q)))
            <=> a \in DOMAIN d /\ r # q
  BY <1>2, Links, Unlinks
<1>6. QED
  BY <1>3, <1>4, <1>5 DEF a

\* What is safe stays safe.
LEMMA StillDirectory ==
    ASSUME NEW d, Directory(d), UNCHANGED begun, Safe \subseteq Safe', Answers' \subseteq Answers
    PROVE  Named(d, begun') /\ Whole(d, Safe') /\ Kept(d, Answers')
  BY DEF Directory, Whole, Kept

LEMMA InitRecorder == RecorderInit => RecorderSound
<1> SUFFICES ASSUME RecorderInit PROVE RecorderSound
  OBVIOUS
<1>1. DOMAIN dir = {} /\ DOMAIN ondisk = {} /\ Range(dir) = {} /\ Range(ondisk) = {}
  BY DEF RecorderInit, Range
<1>2. RecorderTypeOK
  BY <1>1, RecorderAssumption DEF RecorderInit, RecorderTypeOK, NoThread, Phases
<1>3. Directory(dir) /\ Directory(ondisk)
  BY <1>1 DEF RecorderInit, Directory, Named, Whole, Kept, Answers
<1>4. Recorded /\ Counted
  BY DEF RecorderInit, Recorded, Counted, NoThread, Answers
<1>5. QED
  BY <1>2, <1>3, <1>4 DEF RecorderSound

Threads == [phase : Phases, cancel : BOOLEAN, stalled : BOOLEAN, failed : BOOLEAN]

\* A step that touches no file keeps the directories.
LEMMA DirectoriesStand ==
    ASSUME RecorderSound, UNCHANGED <<disk, begun, answered, dropped>>
    PROVE  /\ Directory(dir)' /\ Directory(ondisk)'
           /\ DOMAIN dir' \subseteq Names /\ Range(dir') \subseteq File
           /\ DOMAIN ondisk' \subseteq Names /\ Range(ondisk') \subseteq File
           /\ UNCHANGED <<dir, ondisk, written, synced, torn, Answers>>
  BY DEF RecorderSound, RecorderTypeOK, Directory, Safe, Answers, disk

\* The thread captures, and is told to stop.
LEMMA CaptureStep ==
    ASSUME RecorderSound,
           \/ StopTakes \/ StopJoins
           \/ CaptureOpens \/ Fails \/ Captures \/ CaptureError \/ CaptureCloses \/ TimeIsUp
    PROVE  RecorderSound'
<1>1. UNCHANGED <<disk, begun, finished, answered, dropped, crashes>>
  BY DEF StopTakes, StopJoins, CaptureOpens, Fails, Captures, CaptureError, CaptureCloses,
     TimeIsUp, source
<1>2. /\ Directory(dir)' /\ Directory(ondisk)'
      /\ DOMAIN dir' \subseteq Names /\ Range(dir') \subseteq File
      /\ DOMAIN ondisk' \subseteq Names /\ Range(ondisk') \subseteq File
      /\ UNCHANGED <<dir, ondisk, written, synced, torn, Answers>>
  BY <1>1, DirectoriesStand
<1>3. thread \in Threads /\ begun \in Nat /\ captured \in [Recordings -> 0..MaxSamples]
  BY RecorderAssumption DEF RecorderSound, RecorderTypeOK, Threads
<1>4. SUFFICES /\ holder' \in {"free", "held", "joining", "persisting", "storing"}
               /\ thread' \in Threads /\ captured' \in [Recordings -> 0..MaxSamples]
               /\ \A r \in Recordings : r > begun => captured'[r] = 0
               /\ Recorded'
  BY <1>1, <1>2, <1>4 DEF RecorderSound, RecorderTypeOK, Counted, Threads
<1>5. /\ Recorded /\ \A r \in Recordings : r > begun => captured[r] = 0
      /\ holder \in {"free", "held", "joining", "persisting", "storing"}
  BY DEF RecorderSound, RecorderTypeOK, Counted
<1>6. CASE StopTakes
  <2>1. thread' \in Threads /\ thread'.phase = thread.phase /\ thread'.cancel
        /\ thread'.failed = thread.failed
    BY <1>3, <1>6 DEF StopTakes, Threads, Phases
  <2>2. holder = "held" /\ holder' = "joining" /\ captured' = captured
    BY <1>5, <1>6 DEF StopTakes
  <2>3. QED
    BY <1>1, <1>2, <1>3, <1>5, <2>1, <2>2 DEF Recorded
<1>7. CASE StopJoins
  <2>1. thread' \in Threads /\ thread'.phase = "none"
    BY <1>3, <1>7 DEF StopJoins, Threads, Phases, NoThread
  <2>2. /\ holder = "joining" /\ thread.phase = "ended"
        /\ holder' = IF thread.failed THEN "free" ELSE "persisting"
        /\ captured' = captured
    BY <1>5, <1>7 DEF StopJoins
  <2>3. QED
    BY <1>1, <1>2, <1>3, <1>5, <2>1, <2>2 DEF Recorded
<1>8. CASE CaptureOpens
  <2>1. thread' \in Threads /\ thread'.phase = "capturing" /\ thread'.cancel = thread.cancel
    BY <1>3, <1>8 DEF CaptureOpens, Threads, Phases
  <2>2. thread.phase = "opening" /\ UNCHANGED <<holder, captured>>
    BY <1>5, <1>8 DEF CaptureOpens, source
  <2>3. QED
    BY <1>1, <1>2, <1>3, <1>5, <2>1, <2>2 DEF Recorded
<1>9. CASE Fails
  <2>1. thread' \in Threads /\ thread'.phase = "ended" /\ thread'.failed
    BY <1>3, <1>9 DEF Fails, Threads, Phases
  <2>2. thread.phase # "none" /\ UNCHANGED <<holder, captured>>
    BY <1>5, <1>9 DEF Fails, source
  <2>3. QED
    BY <1>1, <1>2, <1>3, <1>5, <2>1, <2>2 DEF Recorded
<1>10. CASE Captures
  <2>1. begun \in Recordings /\ captured[begun] \in 0..MaxSamples /\ captured[begun] < MaxSamples
    BY <1>3, <1>5, <1>10 DEF Captures, Recorded, RecorderSound, RecorderTypeOK, Recordings
  <2>2. /\ captured' \in [Recordings -> 0..MaxSamples]
        /\ captured'[begun] = captured[begun] + 1
        /\ \A r \in Recordings : r # begun => captured'[r] = captured[r]
    BY <1>3, <1>10, <2>1, RecorderAssumption DEF Captures
  <2>3. /\ (captured'[begun] >= MaxSamples) \in BOOLEAN
        /\ ~(captured'[begun] >= MaxSamples) => captured'[begun] < MaxSamples
    BY <2>1, <2>2, RecorderAssumption
  <2>4. /\ thread' = [thread EXCEPT !.cancel = (captured'[begun] >= MaxSamples)]
        /\ thread.phase = "capturing" /\ holder' = holder
    BY <1>10 DEF Captures, source
  <2>5. /\ thread' \in Threads /\ thread'.phase = "capturing"
        /\ ~thread'.cancel => captured'[begun] < MaxSamples
    BY <1>3, <2>3, <2>4 DEF Threads
  <2>6. Recorded'
    BY <1>1, <1>2, <1>5, <2>4, <2>5 DEF Recorded
  <2>7. QED
    BY <1>3, <1>5, <2>2, <2>4, <2>5, <2>6
<1>11. CASE CaptureError
  <2>1. thread' \in Threads /\ thread'.phase = "capturing" /\ thread'.cancel
    BY <1>3, <1>11 DEF CaptureError, Threads, Phases
  <2>2. thread.phase = "capturing" /\ UNCHANGED <<holder, captured>>
    BY <1>5, <1>11 DEF CaptureError, source
  <2>3. QED
    BY <1>1, <1>2, <1>3, <1>5, <2>1, <2>2 DEF Recorded
<1>12. CASE CaptureCloses
  <2>1. thread' \in Threads /\ thread'.phase = "encoding"
    BY <1>3, <1>12 DEF CaptureCloses, Threads, Phases
  <2>2. thread.phase = "capturing" /\ UNCHANGED <<holder, captured>>
    BY <1>5, <1>12 DEF CaptureCloses, source
  <2>3. QED
    BY <1>1, <1>2, <1>3, <1>5, <2>1, <2>2 DEF Recorded
<1>13. CASE TimeIsUp
  <2>1. thread' \in Threads /\ thread'.phase = "encoding"
    BY <1>3, <1>13 DEF TimeIsUp, Threads, Phases
  <2>2. thread.phase = "capturing" /\ UNCHANGED <<holder, captured>>
    BY <1>5, <1>13 DEF TimeIsUp, source
  <2>3. QED
    BY <1>1, <1>2, <1>3, <1>5, <2>1, <2>2 DEF Recorded
<1>14. QED
  BY <1>6, <1>7, <1>8, <1>9, <1>10, <1>11, <1>12, <1>13

\* What the steps on directories do to the audio files that are safe, and kept.
LEMMA DirectorySteps ==
    ASSUME NEW d, NEW q, NEW safe, NEW kept, Whole(d, safe), Kept(d, kept)
    PROVE  /\ Whole(Linked(d, Temp(Audio(q)), Audio(q)), safe)
           /\ Kept(Linked(d, Temp(Audio(q)), Audio(q)), kept)
           /\ Whole(Linked(d, Temp(Path(q)), Path(q)), safe)
           /\ Kept(Linked(d, Temp(Path(q)), Path(q)), kept)
           /\ Whole(Moved(d, Path(q)), safe) /\ Kept(Moved(d, Path(q)), kept)
           /\ Audio(q) \in safe => Whole(Moved(d, Audio(q)), safe)
           /\ Kept(Moved(d, Audio(q)), kept)
           /\ Whole(Unlinked(d, Temp(Path(q))), safe) /\ Kept(Unlinked(d, Temp(Path(q))), kept)
           /\ Whole(Unlinked(d, Final(Path(q))), safe) /\ Kept(Unlinked(d, Final(Path(q))), kept)
           /\ Whole(Unlinked(Unlinked(d, Final(Path(q))), Final(Audio(q))), safe)
           /\ Kept(Unlinked(Unlinked(d, Final(Path(q))), Final(Audio(q))), kept \ {q})
  BY AudioNames DEF Whole, Kept

LEMMA WholeMore ==
    ASSUME NEW d, NEW safe, NEW more, safe \subseteq more, Whole(d, safe)
    PROVE  Whole(d, more)
  BY DEF Whole

\* The thread writes its file, and the system writes back what it likes.
LEMMA FileStep ==
    ASSUME RecorderSound,
           \/ Encodes \/ Writes \/ Renames \/ Syncs
           \/ WritesNames \/ \E f \in File : WritesContents(f)
    PROVE  RecorderSound'
<1>1. /\ UNCHANGED <<holder, begun, finished, answered, dropped, crashes, captured, torn>>
      /\ Answers' = Answers
  BY DEF Encodes, Writes, Renames, Syncs, WritesNames, WritesContents, source, Answers
<1>2. /\ thread \in Threads /\ begun \in Nat /\ begun \in 0..MaxRecordings
      /\ written \subseteq File /\ synced \subseteq File
      /\ Named(dir, begun) /\ Whole(dir, Safe) /\ Kept(dir, Answers)
      /\ Named(ondisk, begun) /\ Whole(ondisk, Safe) /\ Kept(ondisk, Answers)
  BY RecorderAssumption DEF RecorderSound, RecorderTypeOK, Threads, Directory
<1>3. Recorded
  BY DEF RecorderSound
<1>4. thread.phase # "none" => /\ Audio(begun) \in FilesOf(begun) /\ Audio(begun) \in File
                              /\ Audio(begun) \notin torn
                              /\ holder \in {"held", "joining"}
  BY <1>2, <1>3 DEF Recorded, FilesOf, File, Audio, Recordings
<1>5. SUFFICES /\ thread' \in Threads /\ written' \subseteq File /\ synced' \subseteq File
               /\ Safe \subseteq Safe'
               /\ Named(dir', begun) /\ Whole(dir', Safe') /\ Kept(dir', Answers)
               /\ Named(ondisk', begun) /\ Whole(ondisk', Safe') /\ Kept(ondisk', Answers)
               /\ Recorded'
  <2>1. Directory(dir)' /\ Directory(ondisk)'
    BY <1>1, <1>5 DEF Directory
  <2>2. /\ DOMAIN dir' \subseteq Names /\ Range(dir') \subseteq File
        /\ DOMAIN ondisk' \subseteq Names /\ Range(ondisk') \subseteq File
    BY <1>2, <1>5, NamedTypes
  <2>3. RecorderTypeOK' /\ Counted'
    BY <1>1, <1>5, <2>2 DEF RecorderSound, RecorderTypeOK, Counted, Threads
  <2>4. QED
    BY <1>5, <2>1, <2>3 DEF RecorderSound
<1>6. CASE Encodes
  <2>1. /\ dir' = Linked(dir, Temp(Audio(begun)), Audio(begun))
        /\ thread.phase = "encoding" /\ UNCHANGED <<ondisk, written, synced>>
    BY <1>6 DEF Encodes
  <2>2. thread' \in Threads /\ thread'.phase = "writing"
    BY <1>2, <1>6 DEF Encodes, Threads, Phases
  <2>3. Safe' = Safe
    BY <1>1, <2>1 DEF Safe
  <2>4. Named(dir', begun)
    BY <1>2, <1>4, <2>1, NamedLinked DEF Temp
  <2>5. Whole(dir', Safe') /\ Kept(dir', Answers)
    BY <1>2, <2>1, <2>3, DirectorySteps
  <2>6. Recorded'
    BY <1>1, <1>3, <1>4, <2>1, <2>2 DEF Recorded
  <2>7. QED
    BY <1>2, <2>1, <2>2, <2>3, <2>4, <2>5, <2>6
<1>7. CASE Writes
  <2>1. /\ written' = written \cup {Audio(begun)} /\ synced' = synced \cup {Audio(begun)}
        /\ thread.phase = "writing" /\ UNCHANGED <<dir, ondisk>>
    BY <1>7 DEF Writes
  <2>2. thread' \in Threads /\ thread'.phase = "renaming"
    BY <1>2, <1>7 DEF Writes, Threads, Phases
  <2>3. Safe \subseteq Safe'
    BY <1>1, <2>1 DEF Safe
  <2>4. Whole(dir', Safe') /\ Whole(ondisk', Safe')
    BY <1>2, <2>1, <2>3, WholeMore
  <2>5. Recorded'
    BY <1>1, <1>3, <1>4, <2>1, <2>2 DEF Recorded
  <2>6. QED
    BY <1>2, <1>4, <2>1, <2>2, <2>3, <2>4, <2>5
<1>8. CASE Renames
  <2>1. /\ dir' = Moved(dir, Audio(begun))
        /\ thread.phase = "renaming" /\ UNCHANGED <<ondisk, written, synced>>
    BY <1>8 DEF Renames
  <2>2. thread' \in Threads /\ thread'.phase = "syncing"
    BY <1>2, <1>8 DEF Renames, Threads, Phases
  <2>3. Safe' = Safe /\ Audio(begun) \in Safe
    BY <1>1, <1>3, <1>4, <2>1 DEF Safe, Recorded
  <2>4. Named(dir', begun)
    BY <1>2, <1>4, <2>1, NamedMoved
  <2>5. Whole(dir', Safe') /\ Kept(dir', Answers)
    BY <1>2, <2>1, <2>3, DirectorySteps
  <2>6. Final(Audio(begun)) \in DOMAIN dir'
    BY <2>1, AudioNames
  <2>7. Recorded'
    BY <1>1, <1>3, <1>4, <2>1, <2>2, <2>6 DEF Recorded
  <2>8. QED
    BY <1>2, <2>1, <2>2, <2>3, <2>4, <2>5, <2>7
<1>9. CASE Syncs
  <2>1. ondisk' = dir /\ thread.phase = "syncing" /\ UNCHANGED <<dir, written, synced>>
    BY <1>9 DEF Syncs
  <2>2. thread' \in Threads /\ thread'.phase = "ended"
    BY <1>2, <1>9 DEF Syncs, Threads, Phases
  <2>3. Safe' = Safe
    BY <1>1, <2>1 DEF Safe
  <2>4. Recorded'
    BY <1>1, <1>3, <1>4, <2>1, <2>2 DEF Recorded
  <2>5. QED
    BY <1>2, <2>1, <2>2, <2>3, <2>4
<1>10. CASE WritesNames
  <2>1. ondisk' = dir /\ UNCHANGED <<thread, dir, written, synced>>
    BY <1>10 DEF WritesNames
  <2>2. Safe' = Safe
    BY <1>1, <2>1 DEF Safe
  <2>3. Recorded'
    BY <1>1, <1>3, <2>1 DEF Recorded
  <2>4. QED
    BY <1>2, <2>1, <2>2, <2>3
<1>11. ASSUME NEW f \in File, WritesContents(f)
       PROVE  /\ thread' \in Threads /\ written' \subseteq File /\ synced' \subseteq File
              /\ Safe \subseteq Safe'
              /\ Named(dir', begun) /\ Whole(dir', Safe') /\ Kept(dir', Answers)
              /\ Named(ondisk', begun) /\ Whole(ondisk', Safe') /\ Kept(ondisk', Answers)
              /\ Recorded'
  <2>1. synced' = synced \cup {f} /\ UNCHANGED <<thread, dir, ondisk, written>>
    BY <1>11 DEF WritesContents
  <2>2. Safe \subseteq Safe'
    BY <1>1, <2>1 DEF Safe
  <2>3. Whole(dir', Safe') /\ Whole(ondisk', Safe')
    BY <1>2, <2>1, <2>2, WholeMore
  <2>4. Recorded'
    BY <1>1, <1>3, <2>1 DEF Recorded
  <2>5. QED
    BY <1>2, <2>1, <2>2, <2>3, <2>4
<1>12. QED
  BY <1>6, <1>7, <1>8, <1>9, <1>10, <1>11

\* A new recording begins with a number of its own.
LEMMA StartStep ==
    ASSUME RecorderSound, StartRecording
    PROVE  RecorderSound'
<1>1. /\ holder = "free" /\ holder' = "held" /\ begun' = begun + 1 /\ begun < MaxRecordings
      /\ UNCHANGED <<captured, dir, ondisk, written, synced, torn, finished, answered, dropped,
                     crashes>>
  BY DEF StartRecording, disk
<1>2. thread' \in Threads /\ thread'.phase = "opening"
  BY DEF StartRecording, NoThread, Threads, Phases
<1>3. /\ begun \in Nat /\ begun' \in 0..MaxRecordings /\ begun' \in 1..begun' /\ begun' > begun
      /\ begun <= begun' /\ begun' \in Nat /\ begun' \in Recordings
  BY <1>1, RecorderAssumption DEF RecorderSound, RecorderTypeOK, Recordings
<1>4. Safe' = Safe /\ Answers' = Answers
  BY <1>1 DEF Safe, Answers
<1>5. Directory(dir)' /\ Directory(ondisk)'
  BY <1>1, <1>3, <1>4, NamedMore DEF RecorderSound, Directory
<1>6. FilesOf(begun) \subseteq FilesOf(begun')
  BY <1>3 DEF FilesOf
<1>7. Counted'
  BY <1>1, <1>3, <1>4, <1>6 DEF RecorderSound, Counted
<1>8. Audio(begun') \notin FilesOf(begun) /\ begun' \notin 1..begun /\ captured[begun'] = 0
  BY <1>3 DEF Audio, FilesOf, RecorderSound, Counted
<1>9. Recorded'
  BY <1>1, <1>2, <1>3, <1>8, RecorderAssumption DEF RecorderSound, Counted, Recorded
<1>10. RecorderTypeOK'
  BY <1>1, <1>2, <1>3 DEF RecorderSound, RecorderTypeOK, Threads
<1>11. QED
  BY <1>5, <1>7, <1>9, <1>10 DEF RecorderSound

\* Before the recorder's answer its path is stored, or that fails.
LEMMA StoreStep ==
    ASSUME RecorderSound, StoreWrites \/ StoreRenames \/ StoreFails
    PROVE  RecorderSound'
<1>1. /\ holder \in {"persisting", "storing"}
      /\ UNCHANGED <<begun, thread, captured, ondisk, synced, torn, dropped, crashes>>
      /\ written' = written \/ written' = written \cup {Path(begun)}
  BY DEF StoreWrites, StoreRenames, StoreFails
<1>2. /\ begun \in Nat /\ begun \in 0..MaxRecordings
      /\ written \subseteq File /\ synced \subseteq File
      /\ Named(dir, begun) /\ Whole(dir, Safe) /\ Kept(dir, Answers)
      /\ Named(ondisk, begun) /\ Whole(ondisk, Safe) /\ Kept(ondisk, Answers)
  BY RecorderAssumption DEF RecorderSound, RecorderTypeOK, Directory
<1>3. /\ begun \in 1..begun /\ begun \notin answered /\ thread.phase = "none"
      /\ Final(Audio(begun)) \in DOMAIN dir /\ Final(Audio(begun)) \in DOMAIN ondisk
  BY <1>1 DEF RecorderSound, Recorded
<1>4. Path(begun) \in FilesOf(begun) /\ Path(begun) \in File /\ begun \in Recordings
  BY <1>2, <1>3 DEF FilesOf, File, Path, Recordings
<1>5. Safe \subseteq Safe'
  BY <1>1 DEF Safe
<1>6. \/ dir' = Linked(dir, Temp(Path(begun)), Path(begun))
      \/ dir' = Moved(dir, Path(begun))
      \/ dir' = Unlinked(dir, Temp(Path(begun)))
  BY DEF StoreWrites, StoreRenames, StoreFails
<1>7. Named(dir', begun) /\ Whole(dir', Safe) /\ Kept(dir', Answers)
      /\ Final(Audio(begun)) \in DOMAIN dir'
  <2>1. CASE dir' = Linked(dir, Temp(Path(begun)), Path(begun))
    <3>1. Named(dir', begun)
      BY <1>2, <1>4, <2>1, NamedLinked DEF Temp
    <3>2. Whole(dir', Safe) /\ Kept(dir', Answers) /\ Final(Audio(begun)) \in DOMAIN dir'
      BY <1>2, <1>3, <2>1, DirectorySteps, AudioNames
    <3>3. QED
      BY <3>1, <3>2
  <2>2. CASE dir' = Moved(dir, Path(begun))
    <3>1. Named(dir', begun)
      BY <1>2, <1>4, <2>2, NamedMoved
    <3>2. Whole(dir', Safe) /\ Kept(dir', Answers) /\ Final(Audio(begun)) \in DOMAIN dir'
      BY <1>2, <1>3, <2>2, DirectorySteps, AudioNames
    <3>3. QED
      BY <3>1, <3>2
  <2>3. CASE dir' = Unlinked(dir, Temp(Path(begun)))
    <3>1. Named(dir', begun)
      BY <1>2, <2>3, NamedUnlinked
    <3>2. Whole(dir', Safe) /\ Kept(dir', Answers) /\ Final(Audio(begun)) \in DOMAIN dir'
      BY <1>2, <1>3, <2>3, DirectorySteps, AudioNames
    <3>3. QED
      BY <3>1, <3>2
  <2>4. QED
    BY <1>6, <2>1, <2>2, <2>3
<1>8. \/ holder' = "storing" /\ UNCHANGED <<finished, answered>>
      \/ holder' = "free" /\ finished' = finished \cup {begun} /\ answered' = answered \cup {begun}
  BY DEF StoreWrites, StoreRenames, StoreFails, Handed
<1>9. Answers' \subseteq Answers \cup {begun}
  BY <1>1, <1>8 DEF Answers
<1>10. Directory(dir)' /\ Directory(ondisk)'
  <2>1. Whole(dir', Safe') /\ Whole(ondisk', Safe')
    BY <1>1, <1>2, <1>5, <1>7, WholeMore
  <2>2. Kept(dir', Answers') /\ Kept(ondisk', Answers')
    BY <1>1, <1>2, <1>3, <1>7, <1>9 DEF Kept
  <2>3. QED
    BY <1>1, <1>2, <1>7, <2>1, <2>2 DEF Directory
<1>11. Counted'
  <2>1. begun \notin dropped
    BY <1>3 DEF RecorderSound, RecorderTypeOK
  <2>2. QED
    BY <1>1, <1>3, <1>8, <2>1 DEF RecorderSound, Counted, Answers
<1>12. Recorded'
  BY <1>1, <1>3, <1>7, <1>8 DEF RecorderSound, Recorded
<1>13. RecorderTypeOK'
  <2>1. /\ DOMAIN dir' \subseteq Names /\ Range(dir') \subseteq File
        /\ DOMAIN ondisk' \subseteq Names /\ Range(ondisk') \subseteq File
    BY <1>1, <1>2, <1>7, NamedTypes
  <2>2. QED
    BY <1>1, <1>4, <1>8, <2>1 DEF RecorderSound, RecorderTypeOK
<1>14. QED
  BY <1>10, <1>11, <1>12, <1>13 DEF RecorderSound

\* A recording is discarded, or cleaned up when the operator has it.
LEMMA RemovalStep ==
    ASSUME RecorderSound, NEW r \in Recordings, Discard(r) \/ CleansUp(r)
    PROVE  RecorderSound'
<1>1. /\ UNCHANGED <<holder, begun, thread, captured, ondisk, written, synced, torn, answered, crashes>>
      /\ finished' = finished \ {r}
      /\ r \in answered
      /\ \/ /\ dropped' = dropped \cup {r}
            /\ dir' = Unlinked(Unlinked(dir, Final(Path(r))), Final(Audio(r)))
         \/ dropped' = dropped /\ dir' = Unlinked(dir, Final(Path(r)))
  BY DEF Discard, CleansUp, RecorderSound, Counted, Answers
<1>2. /\ begun \in Nat /\ begun \in 0..MaxRecordings
      /\ Named(dir, begun) /\ Whole(dir, Safe) /\ Kept(dir, Answers)
      /\ Named(ondisk, begun) /\ Whole(ondisk, Safe) /\ Kept(ondisk, Answers)
  BY RecorderAssumption DEF RecorderSound, RecorderTypeOK, Directory
<1>3. Safe' = Safe /\ Answers' \subseteq Answers /\ (dropped' # dropped => Answers' = Answers \ {r})
  BY <1>1 DEF Safe, Answers
<1>4. Named(dir', begun) /\ Whole(dir', Safe)
  <2>1. Named(Unlinked(dir, Final(Path(r))), begun)
    BY <1>2, NamedUnlinked
  <2>2. Named(Unlinked(Unlinked(dir, Final(Path(r))), Final(Audio(r))), begun)
    BY <2>1, NamedUnlinked
  <2>3. Named(dir', begun)
    BY <1>1, <2>1, <2>2
  <2>4. /\ Whole(Unlinked(dir, Final(Path(r))), Safe)
        /\ Whole(Unlinked(Unlinked(dir, Final(Path(r))), Final(Audio(r))), Safe)
    BY <1>2, DirectorySteps
  <2>5. QED
    BY <1>1, <2>3, <2>4
<1>5. Kept(dir', Answers') /\ Kept(ondisk', Answers')
  <2>1. Kept(ondisk', Answers')
    BY <1>1, <1>2, <1>3 DEF Kept
  <2>2. CASE dir' = Unlinked(dir, Final(Path(r)))
    <3>1. Kept(dir', Answers)
      BY <1>2, <2>2, DirectorySteps
    <3>2. QED
      BY <1>3, <2>1, <3>1 DEF Kept
  <2>3. CASE /\ dropped' = dropped \cup {r}
             /\ dir' = Unlinked(Unlinked(dir, Final(Path(r))), Final(Audio(r)))
    <3>1. Kept(dir', Answers \ {r})
      BY <1>2, <2>3, DirectorySteps
    <3>2. Answers' = Answers \ {r}
      BY <1>1, <2>3 DEF Answers
    <3>3. QED
      BY <2>1, <3>1, <3>2
  <2>4. QED
    BY <1>1, <2>2, <2>3
<1>6. Directory(dir)' /\ Directory(ondisk)'
  BY <1>1, <1>2, <1>3, <1>4, <1>5 DEF Directory
<1>7. Counted'
  BY <1>1 DEF RecorderSound, Counted, Answers
<1>8. Recorded'
  <2>1. holder # "free" => r # begun
    BY <1>1 DEF RecorderSound, Recorded
  <2>2. thread.phase # "none" => holder # "free"
    BY DEF RecorderSound, Recorded
  <2>3. holder # "free" /\ Final(Audio(begun)) \in DOMAIN dir => Final(Audio(begun)) \in DOMAIN dir'
    BY <1>1, <2>1, AudioNames
  <2>4. QED
    BY <1>1, <2>2, <2>3 DEF RecorderSound, Recorded
<1>9. RecorderTypeOK'
  <2>1. /\ DOMAIN dir' \subseteq Names /\ Range(dir') \subseteq File
        /\ DOMAIN ondisk' \subseteq Names /\ Range(ondisk') \subseteq File
    BY <1>1, <1>2, <1>4, NamedTypes
  <2>2. QED
    BY <1>1, <2>1 DEF RecorderSound, RecorderTypeOK
<1>10. QED
  BY <1>6, <1>7, <1>8, <1>9 DEF RecorderSound

\* The power fails.
LEMMA PowerStep ==
    ASSUME RecorderSound, PowerFails
    PROVE  RecorderSound'
<1>1. PICK lost \in SUBSET (Range(ondisk) \ synced) :
          torn' = torn \cup lost /\ synced' = synced \cup (Range(ondisk) \ lost)
  BY DEF PowerFails
<1>2. /\ crashes < MaxCrashes /\ crashes' = crashes + 1
      /\ dir' = ondisk /\ holder' = "free" /\ thread' = NoThread /\ finished' = {}
      /\ UNCHANGED <<begun, captured, ondisk, written, answered, dropped>>
  BY DEF PowerFails
<1>3. /\ begun \in 0..MaxRecordings
      /\ Named(ondisk, begun) /\ Whole(ondisk, Safe) /\ Kept(ondisk, Answers)
  BY DEF RecorderSound, RecorderTypeOK, Directory
<1>4. /\ Range(ondisk) \subseteq FilesOf(begun) /\ FilesOf(begun) \subseteq File
  BY <1>3, NamedTypes
<1>5. Safe \subseteq Safe' /\ Answers' = Answers
  BY <1>1, <1>2 DEF Safe, Answers
<1>6. Directory(dir)' /\ Directory(ondisk)'
  BY <1>2, <1>3, <1>5, WholeMore DEF Directory
<1>7. thread' \in Threads /\ thread'.phase = "none"
  BY <1>2 DEF Threads, NoThread, Phases
<1>8. Counted'
  BY <1>1, <1>2, <1>4, <1>5 DEF RecorderSound, Counted
<1>9. Recorded'
  BY <1>2, <1>7 DEF Recorded
<1>10. RecorderTypeOK'
  <2>1. crashes' \in 0..MaxCrashes
    BY <1>2, RecorderAssumption DEF RecorderSound, RecorderTypeOK
  <2>2. synced' \subseteq File /\ torn' \subseteq File
    BY <1>1, <1>4 DEF RecorderSound, RecorderTypeOK
  <2>3. QED
    BY <1>2, <1>7, <2>1, <2>2 DEF RecorderSound, RecorderTypeOK, Threads
<1>11. QED
  BY <1>6, <1>8, <1>9, <1>10 DEF RecorderSound

LEMMA RecorderStep ==
    ASSUME RecorderSound, [RecorderNext]_recorderVars
    PROVE  RecorderSound'
<1>1. CASE UNCHANGED recorderVars
  <2>1. /\ RecorderTypeOK' /\ Recorded' /\ Counted'
    BY <1>1 DEF RecorderSound, RecorderTypeOK, Recorded, Counted, Answers, recorderVars
  <2>2. Directory(dir)' /\ Directory(ondisk)'
    BY <1>1 DEF RecorderSound, Directory, Safe, Answers, recorderVars
  <2>3. QED
    BY <2>1, <2>2 DEF RecorderSound
<1>2. QED
  BY <1>1, StartStep, StoreStep, RemovalStep, PowerStep, FileStep, CaptureStep
     DEF RecorderNext, CaptureThread

\* An answer survives, whole and under its name, whatever is lost with the power at
\* any moment of finalize_recording and FileStorage::set, and whatever is discarded
\* or cleaned up meanwhile, for any number of recordings and of power failures.
THEOREM RecordingsSurvive == RecorderSpec => []RecorderInv
<1>1. RecorderSound => RecorderInv
  BY DEF RecorderSound, RecorderInv, NamesAreContents, AnswerIsOnDisk, KnownIsThere, Directory,
     Whole, Kept, Safe, Answers, Counted, RecorderTypeOK
<1>2. QED
  BY <1>1, InitRecorder, RecorderStep, PTL DEF RecorderSpec

----------------------------------------------------------------------------
(* The one stream of the earpiece *)

\* The level that the meters will show when the channel is empty.
LastLevel == IF levels = <<>> THEN shown ELSE levels[Len(levels)]

Untold(t) == \A i \in DOMAIN told : told[i] # t

\* The thread that plays is the one the sink holds, or is being joined, and is the
\* last one.
StreamHeld ==
    /\ at.tag # "down" =>
          \A t \in Live : t = sink \/ (at.tag = "stopping" /\ t = at.task /\ threads[t].cancel)
    /\ \A s, t \in Live : s = t
    /\ at.tag \in {"stopping", "loading", "ending"} => sink = NoTask
    /\ sink # NoTask => sink = Len(threads) /\ ~threads[sink].cancel /\ Untold(sink)
    /\ at.tag = "select" /\ playing => sink # NoTask

\* What audio_task awaits.
Awaited ==
    /\ \A i \in DOMAIN told : told[i] <= Len(threads)
    /\ at.tag = "stopping" => at.task <= Len(threads) /\ at.why # "any"
    /\ at.tag = "loading" => at.why \in {"play", "replace"}
    /\ at.tag \in {"loading", "stopping"} /\ at.why \in {"play", "replace"} =>
          at.clip \in Clips /\ Len(threads) < MaxPlays
    /\ at.tag = "stopping" /\ at.why = "play" => ~playing
    /\ at.tag = "ending" => /\ at.task = Len(threads) /\ at.task # NoTask /\ at.task \notin Live
                            /\ ~threads[at.task].cancel /\ Untold(at.task)

\* A thread that has not ended can still send its terminal level; before it opens
\* its stream, and after it has ended, the last level is silence.
Metered ==
    /\ \A t \in Live : threads[t].tries < Attempts
    /\ ~gaveUp /\ (\A t \in Live : threads[t].phase = "opening") => LastLevel = "silent"

PlaybackSound == PlaybackTypeOK /\ StreamHeld /\ Awaited /\ Metered

LEMMA InitPlayback == PlaybackInit => PlaybackSound
<1> SUFFICES ASSUME PlaybackInit PROVE PlaybackSound
  OBVIOUS
<1>1. threads = <<>> /\ Len(threads) = 0 /\ DOMAIN threads = {} /\ DOMAIN told = {} /\ Live = {}
  BY EmptyIsShort DEF PlaybackInit, Live
<1>2. /\ threads \in Seq(ThreadStates) /\ told \in Seq(0..MaxPlays)
      /\ levels \in Seq({"silent", "loud"}) /\ Len(levels) = 0
  BY EmptyIsShort DEF PlaybackInit
<1>3. at \in Awaits
  BY PlaybackAssumption DEF PlaybackInit, Select, Await, Awaits, NoTask
<1>4. PlaybackTypeOK
  <2>1. sink \in 0..Len(threads) /\ Len(threads) <= MaxPlays /\ Len(levels) <= LevelCapacity
    BY <1>1, <1>2, PlaybackAssumption DEF PlaybackInit, NoTask
  <2>2. playing \in BOOLEAN /\ shown \in {"silent", "loud"} /\ gaveUp \in BOOLEAN
    BY DEF PlaybackInit
  <2>3. commands \in 0..MaxCommands
    BY PlaybackAssumption DEF PlaybackInit
  <2>4. QED
    BY <1>2, <1>3, <2>1, <2>2, <2>3 DEF PlaybackTypeOK
<1>5. StreamHeld /\ Awaited /\ Metered
  BY <1>1 DEF PlaybackInit, StreamHeld, Awaited, Metered, LastLevel, Select, Await, NoTask
<1>6. QED
  BY <1>4, <1>5 DEF PlaybackSound

\* One thread changes.
LEMMA ThreadChanges ==
    ASSUME NEW threads1 \in Seq(ThreadStates), NEW t \in DOMAIN threads1, NEW x \in ThreadStates
    PROVE  /\ [threads1 EXCEPT ![t] = x] \in Seq(ThreadStates)
           /\ Len([threads1 EXCEPT ![t] = x]) = Len(threads1)
           /\ DOMAIN [threads1 EXCEPT ![t] = x] = DOMAIN threads1
           /\ \A s \in DOMAIN threads1 :
                 [threads1 EXCEPT ![t] = x][s] = IF s = t THEN x ELSE threads1[s]
  BY ExceptSeq, LenProperties

\* A thread that is live takes a step, and may send a level.
LEMMA ThreadStep ==
    ASSUME PlaybackSound, NEW t \in Live, NEW x \in ThreadStates,
           threads' = [threads EXCEPT ![t] = x],
           UNCHANGED <<at, playing, sink, shown, told, commands>>,
           x.cancel = threads[t].cancel, x.phase # "opening",
           x.phase # "ended" => x.tries < Attempts,
           levels' \in Seq({"silent", "loud"}), Len(levels') <= LevelCapacity,
           gaveUp' \in BOOLEAN, x.phase = "ended" /\ ~gaveUp' => LastLevel' = "silent"
    PROVE  PlaybackSound'
<1>1. /\ threads \in Seq(ThreadStates) /\ t \in DOMAIN threads /\ threads[t].phase # "ended"
      /\ DOMAIN threads = 1..Len(threads) /\ Len(threads) \in Nat
  BY LenProperties DEF PlaybackSound, PlaybackTypeOK, Live
<1>2. /\ threads' \in Seq(ThreadStates) /\ Len(threads') = Len(threads)
      /\ DOMAIN threads' = DOMAIN threads
      /\ \A s \in DOMAIN threads : threads'[s] = IF s = t THEN x ELSE threads[s]
  BY <1>1, ThreadChanges
<1>3. /\ Live' \subseteq Live /\ Live = {t}
      /\ \A s \in DOMAIN threads : threads'[s].cancel = threads[s].cancel
      /\ Live' = IF x.phase = "ended" THEN {} ELSE {t}
  BY <1>1, <1>2 DEF Live, PlaybackSound, StreamHeld
<1>4. PlaybackTypeOK'
  BY <1>2 DEF PlaybackSound, PlaybackTypeOK
<1>5. StreamHeld'
  <2>1. sink \in 0..Len(threads) /\ (sink # NoTask => sink \in DOMAIN threads)
    BY <1>1 DEF PlaybackSound, PlaybackTypeOK, NoTask
  <2>2. QED
    BY <1>1, <1>2, <1>3, <2>1 DEF PlaybackSound, StreamHeld, Untold
<1>6. Awaited'
  <2>1. at.tag = "ending" => at.task \in DOMAIN threads
    BY <1>1 DEF PlaybackSound, PlaybackTypeOK, Awaits, Awaited, NoTask
  <2>2. QED
    BY <1>1, <1>2, <1>3, <2>1 DEF PlaybackSound, Awaited, Untold
<1>7. Metered'
  BY <1>1, <1>2, <1>3 DEF PlaybackSound, Metered
<1>8. QED
  BY <1>4, <1>5, <1>6, <1>7 DEF PlaybackSound

\* A level that is sent, or lost because the channel is full.
LEMMA LevelSent ==
    ASSUME PlaybackTypeOK, NEW l \in {"silent", "loud"}
    PROVE  /\ TrySend(levels, l) \in Seq({"silent", "loud"})
           /\ Len(TrySend(levels, l)) <= LevelCapacity
<1>1. levels \in Seq({"silent", "loud"}) /\ Len(levels) <= LevelCapacity
  BY DEF PlaybackTypeOK
<1>2. /\ Append(levels, l) \in Seq({"silent", "loud"})
      /\ Len(Append(levels, l)) = Len(levels) + 1 /\ Len(levels) \in Nat
  BY <1>1, Appended
<1>3. QED
  BY <1>1, <1>2, PlaybackAssumption DEF TrySend

\* The device calls back, or the loop of play_blocking closes the stream.
LEMMA DeviceStep ==
    ASSUME PlaybackSound, NEW t \in DOMAIN threads, Device(t)
    PROVE  PlaybackSound'
<1> DEFINE th == threads[t]
<1>1. /\ threads \in Seq(ThreadStates) /\ th \in ThreadStates
      /\ levels \in Seq({"silent", "loud"}) /\ Len(levels) <= LevelCapacity
      /\ PlaybackTypeOK /\ gaveUp \in BOOLEAN
  BY LenProperties, ElementOfSeq DEF PlaybackSound, PlaybackTypeOK
<1>2. UNCHANGED <<at, playing, sink, shown, gaveUp, told, commands>>
  BY DEF Device
<1>3. th.phase \in {"opening", "running"} /\ t \in Live
  BY DEF Device, Opens, OpenFails, Observes, Publishes, RunsOut, StreamError, Closes, Calls, Live
<1>4. th.tries < Attempts
  BY <1>3 DEF PlaybackSound, Metered
<1>5. ASSUME NEW x \in ThreadStates, threads' = [threads EXCEPT ![t] = x],
             x.cancel = th.cancel, x.phase \in {"running", "closing"}, x.tries = th.tries,
             levels' \in Seq({"silent", "loud"}), Len(levels') <= LevelCapacity
      PROVE  PlaybackSound'
  BY <1>1, <1>2, <1>3, <1>4, <1>5, ThreadStep
<1>6. CASE Opens(t)
  <2> DEFINE x == [th EXCEPT !.phase = "running"]
  <2>1. x \in ThreadStates /\ x.cancel = th.cancel /\ x.phase = "running" /\ x.tries = th.tries
    BY <1>1 DEF ThreadStates
  <2>2. threads' = [threads EXCEPT ![t] = x] /\ levels' = levels
    BY <1>6 DEF Opens
  <2> HIDE DEF x
  <2>3. QED
    BY <1>1, <1>5, <2>1, <2>2
<1>7. CASE OpenFails(t)
  <2> DEFINE x == [th EXCEPT !.phase = "ended", !.result = "error"]
  <2>1. x \in ThreadStates /\ x.cancel = th.cancel /\ x.phase = "ended"
    BY <1>1 DEF ThreadStates
  <2>2. threads' = [threads EXCEPT ![t] = x] /\ levels' = levels /\ th.phase = "opening"
    BY <1>7 DEF OpenFails
  <2>3. ~gaveUp' => LastLevel' = "silent"
    BY <1>2, <1>3, <2>2 DEF PlaybackSound, StreamHeld, Metered, LastLevel
  <2> HIDE DEF x
  <2>4. QED
    BY <1>1, <1>2, <1>3, <2>1, <2>2, <2>3, ThreadStep
<1>8. CASE Observes(t)
  <2>1. PICK b \in {"silent", "loud"} :
           threads' = [threads EXCEPT ![t].block = b] /\ levels' = levels /\ th.phase = "running"
    BY <1>8 DEF Observes, Calls
  <2> DEFINE x == [th EXCEPT !.block = b]
  <2>2. x \in ThreadStates /\ x.cancel = th.cancel /\ x.phase = th.phase /\ x.tries = th.tries
    BY <1>1 DEF ThreadStates
  <2>3. threads' = [threads EXCEPT ![t] = x]
    BY <2>1
  <2> HIDE DEF x
  <2>4. QED
    BY <1>1, <1>5, <2>1, <2>2, <2>3
<1>9. CASE Publishes(t)
  <2> DEFINE x == [th EXCEPT !.block = "empty"]
  <2>1. x \in ThreadStates /\ x.cancel = th.cancel /\ x.phase = th.phase /\ x.tries = th.tries
    BY <1>1 DEF ThreadStates
  <2>2. /\ threads' = [threads EXCEPT ![t] = x] /\ levels' = TrySend(levels, th.block)
        /\ th.phase = "running" /\ th.block # "empty"
    BY <1>9 DEF Publishes, Calls
  <2>3. th.block \in {"silent", "loud"}
    BY <1>1, <2>2 DEF ThreadStates
  <2>4. levels' \in Seq({"silent", "loud"}) /\ Len(levels') <= LevelCapacity
    BY <1>1, <2>2, <2>3, LevelSent
  <2> HIDE DEF x
  <2>5. QED
    BY <1>5, <2>1, <2>2, <2>4
<1>10. CASE RunsOut(t)
  <2> DEFINE x == [th EXCEPT !.done = TRUE]
  <2>1. x \in ThreadStates /\ x.cancel = th.cancel /\ x.phase = th.phase /\ x.tries = th.tries
    BY <1>1 DEF ThreadStates
  <2>2. threads' = [threads EXCEPT ![t] = x] /\ levels' = levels /\ th.phase = "running"
    BY <1>10 DEF RunsOut, Calls
  <2> HIDE DEF x
  <2>3. QED
    BY <1>1, <1>5, <2>1, <2>2
<1>11. CASE StreamError(t)
  <2> DEFINE x == [th EXCEPT !.stalled = TRUE, !.done = TRUE]
  <2>1. x \in ThreadStates /\ x.cancel = th.cancel /\ x.phase = th.phase /\ x.tries = th.tries
    BY <1>1 DEF ThreadStates
  <2>2. threads' = [threads EXCEPT ![t] = x] /\ levels' = levels /\ th.phase = "running"
    BY <1>11 DEF StreamError, Calls
  <2> HIDE DEF x
  <2>3. QED
    BY <1>1, <1>5, <2>1, <2>2
<1>12. CASE Closes(t)
  <2> DEFINE x == [th EXCEPT !.phase = "closing", !.block = "empty"]
  <2>1. x \in ThreadStates /\ x.cancel = th.cancel /\ x.phase = "closing" /\ x.tries = th.tries
    BY <1>1 DEF ThreadStates
  <2>2. /\ threads' = [threads EXCEPT ![t] = x]
        /\ levels' = IF th.block = "empty" THEN levels ELSE TrySend(levels, th.block)
    BY <1>12 DEF Closes
  <2>3. th.block \in {"empty", "silent", "loud"}
    BY <1>1 DEF ThreadStates
  <2>4. levels' \in Seq({"silent", "loud"}) /\ Len(levels') <= LevelCapacity
    BY <1>1, <2>2, <2>3, LevelSent
  <2> HIDE DEF x
  <2>5. QED
    BY <1>5, <2>1, <2>2, <2>4
<1>13. QED
  BY <1>6, <1>7, <1>8, <1>9, <1>10, <1>11, <1>12 DEF Device

\* The thread sends its terminal level, tries again, or gives up.
LEMMA FinishStep ==
    ASSUME PlaybackSound, NEW t \in DOMAIN threads, Finishes(t)
    PROVE  PlaybackSound'
<1> DEFINE th == threads[t]
<1>1. /\ threads \in Seq(ThreadStates) /\ th \in ThreadStates
      /\ levels \in Seq({"silent", "loud"}) /\ Len(levels) <= LevelCapacity
      /\ PlaybackTypeOK /\ gaveUp \in BOOLEAN
  BY LenProperties, ElementOfSeq DEF PlaybackSound, PlaybackTypeOK
<1>2. UNCHANGED <<at, playing, sink, shown, told, commands>> /\ Terminal(t)
  BY DEF Finishes
<1>3. th.phase = "closing" /\ t \in Live
  BY <1>2 DEF Terminal, Live
<1>4. th.tries < Attempts
  BY <1>3 DEF PlaybackSound, Metered
<1>5. CASE Len(levels) < LevelCapacity
  <2> DEFINE x == [th EXCEPT !.phase = "ended"]
  <2>1. x \in ThreadStates /\ x.cancel = th.cancel /\ x.phase = "ended"
    BY <1>1 DEF ThreadStates
  <2>2. threads' = [threads EXCEPT ![t] = x] /\ levels' = Append(levels, "silent") /\ gaveUp' = gaveUp
    BY <1>2, <1>5 DEF Terminal
  <2>3. /\ levels' \in Seq({"silent", "loud"}) /\ Len(levels') = Len(levels) + 1
        /\ Len(levels) \in Nat /\ levels' # <<>> /\ levels'[Len(levels')] = "silent"
    <3> DEFINE S == {"silent", "loud"}
    <3>1. levels \in Seq(S) /\ "silent" \in S
      BY <1>1
    <3> HIDE DEF S
    <3>2. /\ Append(levels, "silent") \in Seq(S) /\ Append(levels, "silent") # <<>>
          /\ Len(Append(levels, "silent")) = Len(levels) + 1 /\ Len(levels) \in Nat
          /\ Append(levels, "silent")[Len(Append(levels, "silent"))] = "silent"
      BY <3>1, Appended
    <3>3. QED
      BY <2>2, <3>2 DEF S
  <2>4. Len(levels') <= LevelCapacity
    BY <1>5, <2>3, PlaybackAssumption
  <2>5. LastLevel' = "silent"
    BY <2>3 DEF LastLevel
  <2> HIDE DEF x
  <2>6. QED
    BY <1>1, <1>2, <1>3, <2>1, <2>2, <2>3, <2>4, <2>5, ThreadStep
<1>6. CASE ~(Len(levels) < LevelCapacity)
  <2> DEFINE tries == th.tries + 1
             x == [th EXCEPT !.tries = tries, !.phase = IF tries = Attempts THEN "ended" ELSE @]
  <2>1. tries \in 0..Attempts /\ (tries # Attempts => tries < Attempts)
    BY <1>1, <1>4, PlaybackAssumption DEF ThreadStates
  <2>2. /\ x \in ThreadStates /\ x.cancel = th.cancel /\ x.phase # "opening"
        /\ x.phase # "ended" => x.tries < Attempts
        /\ x.phase = "ended" => tries = Attempts
    BY <1>1, <1>3, <2>1 DEF ThreadStates
  <2>3. /\ threads' = [threads EXCEPT ![t] = x] /\ levels' = levels
        /\ gaveUp' = (gaveUp \/ tries = Attempts)
    BY <1>2, <1>6 DEF Terminal
  <2>4. gaveUp' \in BOOLEAN /\ (tries = Attempts => gaveUp')
    BY <1>1, <2>3
  <2> HIDE DEF x, tries
  <2>5. QED
    BY <1>1, <1>2, <1>3, <2>2, <2>3, <2>4, ThreadStep
<1>7. QED
  BY <1>5, <1>6

\* A command: the thread is taken from the sink and told to stop.
LEMMA StopStep ==
    ASSUME PlaybackSound, Listens,
           NEW why \in {"play", "replace", "stop", "down"}, NEW clip \in Clips \cup {NoClip},
           Stopping(why, clip), UNCHANGED <<playing, levels, shown, gaveUp, told>>,
           why \in {"play", "replace"} => clip \in Clips /\ Len(threads) < MaxPlays,
           why = "play" => ~playing
    PROVE  PlaybackSound'
<1>1. /\ threads \in Seq(ThreadStates) /\ sink \in 0..Len(threads) /\ Len(threads) <= MaxPlays
      /\ DOMAIN threads = 1..Len(threads) /\ Len(threads) \in Nat
      /\ at.tag \in {"select", "ending"} /\ commands \in 0..MaxCommands /\ commands < MaxCommands
  BY LenProperties DEF PlaybackSound, PlaybackTypeOK, Listens
<1>2. /\ at' = Await("stopping", why, clip, sink) /\ sink' = NoTask
      /\ threads' = Cancelled(sink) /\ commands' = commands + 1
  BY DEF Stopping
<1>3. /\ at' \in Awaits /\ at'.tag = "stopping" /\ at'.why = why /\ at'.clip = clip
      /\ at'.task = sink
  BY <1>1, <1>2, PlaybackAssumption DEF Await, Awaits
<1>4. /\ threads' \in Seq(ThreadStates) /\ Len(threads') = Len(threads)
      /\ DOMAIN threads' = DOMAIN threads
      /\ \A s \in DOMAIN threads : /\ threads'[s].phase = threads[s].phase
                                   /\ threads'[s].tries = threads[s].tries
                                   /\ s = sink => threads'[s].cancel
  <2>1. CASE sink = NoTask
    BY <1>1, <1>2, <2>1 DEF Cancelled, NoTask
  <2>2. CASE sink # NoTask
    <3> DEFINE x == [threads[sink] EXCEPT !.cancel = TRUE]
    <3>1. sink \in DOMAIN threads /\ threads[sink] \in ThreadStates
      BY <1>1, <2>2, ElementOfSeq DEF NoTask
    <3>2. /\ x \in ThreadStates /\ x.cancel /\ x.phase = threads[sink].phase
          /\ x.tries = threads[sink].tries
      BY <3>1 DEF ThreadStates
    <3>3. threads' = [threads EXCEPT ![sink] = x]
      BY <1>2, <2>2 DEF Cancelled
    <3> HIDE DEF x
    <3>4. QED
      BY <1>1, <3>1, <3>2, <3>3, ThreadChanges
  <2>3. QED
    BY <2>1, <2>2
<1>5. Live' = Live
  BY <1>4 DEF Live
<1>6. PlaybackTypeOK'
  <2>1. sink' \in 0..Len(threads') /\ commands' \in 0..MaxCommands
    BY <1>1, <1>2, <1>4, PlaybackAssumption DEF NoTask
  <2>2. QED
    BY <1>1, <1>3, <1>4, <2>1 DEF PlaybackSound, PlaybackTypeOK
<1>7. StreamHeld'
  <2>1. ASSUME NEW t \in Live PROVE t = sink
    <3>1. at.tag # "down" /\ at.tag # "stopping"
      BY <1>1
    <3>2. QED
      BY <3>1 DEF PlaybackSound, StreamHeld
  <2>2. \A t \in Live : t \in DOMAIN threads
    BY DEF Live
  <2>3. QED
    BY <1>2, <1>3, <1>4, <1>5, <2>1, <2>2 DEF StreamHeld
<1>8. Awaited'
  BY <1>1, <1>3, <1>4 DEF PlaybackSound, Awaited
<1>9. Metered'
  <2>1. LastLevel' = LastLevel
    BY DEF LastLevel
  <2>2. Live \subseteq DOMAIN threads
    BY DEF Live
  <2>3. QED
    BY <1>4, <1>5, <2>1, <2>2 DEF PlaybackSound, Metered
<1>10. QED
  BY <1>6, <1>7, <1>8, <1>9 DEF PlaybackSound

LEMMA CommandStep ==
    ASSUME PlaybackSound, TakePlay \/ TakeStop \/ TakeShutdown
    PROVE  PlaybackSound'
<1>1. CASE TakePlay
  <2>1. PICK clip \in Clips : Stopping(IF playing THEN "replace" ELSE "play", clip)
    BY <1>1 DEF TakePlay
  <2>2. Listens /\ Len(threads) < MaxPlays /\ UNCHANGED <<playing, levels, shown, gaveUp, told>>
    BY <1>1 DEF TakePlay
  <2>3. CASE playing
    BY <2>1, <2>2, <2>3, StopStep
  <2>4. CASE ~playing
    BY <2>1, <2>2, <2>4, StopStep
  <2>5. QED
    BY <2>3, <2>4
<1>2. CASE TakeStop
  BY <1>2, StopStep DEF TakeStop
<1>3. CASE TakeShutdown
  <2>1. Listens /\ UNCHANGED <<playing, levels, shown, gaveUp, told>>
    BY <1>3 DEF TakeShutdown
  <2>2. CASE playing
    BY <1>3, <2>1, <2>2, StopStep DEF TakeShutdown
  <2>3. CASE ~playing
    <3>1. at' = Down /\ commands' = commands + 1 /\ UNCHANGED <<sink, threads>>
      BY <1>3, <2>3 DEF TakeShutdown
    <3>2. at' \in Awaits /\ at'.tag = "down"
      BY <3>1, PlaybackAssumption DEF Down, Await, Awaits, NoTask
    <3>3. commands' \in 0..MaxCommands
      BY <2>1, <3>1, PlaybackAssumption DEF Listens, PlaybackSound, PlaybackTypeOK
    <3>4. Live' = Live /\ LastLevel' = LastLevel
      BY <2>1, <3>1 DEF Live, LastLevel
    <3>5. PlaybackTypeOK' /\ StreamHeld'
      BY <2>1, <3>1, <3>2, <3>3, <3>4 DEF PlaybackSound, PlaybackTypeOK, StreamHeld, Untold
    <3>6. Awaited' /\ Metered'
      BY <2>1, <3>1, <3>2, <3>4 DEF PlaybackSound, Awaited, Metered
    <3>7. QED
      BY <3>5, <3>6 DEF PlaybackSound
  <2>4. QED
    BY <2>2, <2>3
<1>4. QED
  BY <1>1, <1>2, <1>3

\* A wait of audio_task ends while no thread is live: the next one is awaited, or none.
LEMMA NoneLives ==
    ASSUME PlaybackSound,
           \/ at.tag = "stopping" /\ Joined(at.task)
           \/ at.tag \in {"loading", "ending"}
           \/ at.tag = "select" /\ Joined(sink)
    PROVE  Live = {}
  BY DEF PlaybackSound, StreamHeld, Joined, Live, PlaybackTypeOK, NoTask

LEMMA StoppedStep ==
    ASSUME PlaybackSound, Stopped
    PROVE  PlaybackSound'
<1>1. /\ at.tag = "stopping" /\ Live = {} /\ sink = NoTask
      /\ playing' = IF at.why = "stop" THEN FALSE ELSE playing
      /\ UNCHANGED <<sink, threads, levels, shown, gaveUp, told, commands>>
  BY NoneLives DEF Stopped, PlaybackSound, StreamHeld
<1>2. at \in Awaits /\ at.why \in {"play", "replace", "stop", "down"}
  BY <1>1 DEF PlaybackSound, PlaybackTypeOK, Awaited, Awaits
<1>3. \/ at.why = "down" /\ at' = Down
      \/ at.why \in {"stop", "play"} /\ at' = Select
      \/ at.why \in {"play", "replace"} /\ at' = Await("loading", at.why, at.clip, NoTask)
  BY <1>2 DEF Stopped
<1>4. /\ at' \in Awaits
      /\ \/ at'.tag = "down"
         \/ at'.tag = "select" /\ at.why \in {"stop", "play"}
         \/ /\ at'.tag = "loading" /\ at'.why = at.why /\ at'.clip = at.clip
            /\ at.why \in {"play", "replace"}
  BY <1>2, <1>3, PlaybackAssumption DEF Down, Select, Await, Awaits, NoTask
<1>5. Live' = {} /\ LastLevel' = LastLevel
  BY <1>1 DEF Live, LastLevel
<1>6. PlaybackTypeOK' /\ Metered'
  BY <1>1, <1>4, <1>5 DEF PlaybackSound, PlaybackTypeOK, Metered
<1>7. StreamHeld'
  BY <1>1, <1>4, <1>5 DEF PlaybackSound, StreamHeld, Awaited
<1>8. Awaited'
  BY <1>1, <1>4 DEF PlaybackSound, Awaited
<1>9. QED
  BY <1>6, <1>7, <1>8 DEF PlaybackSound

\* A clip was loaded: its thread is the only one.
LEMMA LoadedStep ==
    ASSUME PlaybackSound, Loaded
    PROVE  PlaybackSound'
<1> DEFINE n == Len(threads) + 1
           x == Thread(at.clip)
<1>1. /\ at.tag = "loading" /\ Live = {} /\ at.clip \in Clips /\ Len(threads) < MaxPlays
      /\ threads' = Append(threads, x) /\ sink' = Len(threads')
      /\ playing' \in BOOLEAN /\ at' = Select
      /\ UNCHANGED <<levels, shown, gaveUp, told, commands>>
  BY NoneLives DEF Loaded, PlaybackSound, Awaited
<1>2. x \in ThreadStates /\ x.phase = "opening" /\ ~x.cancel /\ x.tries = 0
  BY <1>1, PlaybackAssumption DEF Thread, ThreadStates
<1>3. threads \in Seq(ThreadStates) /\ Len(threads) \in Nat /\ DOMAIN threads = 1..Len(threads)
  BY LenProperties DEF PlaybackSound, PlaybackTypeOK
<1> HIDE DEF x
<1>4. /\ threads' \in Seq(ThreadStates) /\ Len(threads') = n /\ threads'[n] = x
      /\ \A s \in 1..Len(threads) : threads'[s] = threads[s]
  BY <1>1, <1>2, <1>3, AppendProperties
<1>5. DOMAIN threads' = 1..n
  BY <1>4, LenProperties
<1>6. Live' = {n}
  <2>1. n \in DOMAIN threads' /\ threads'[n].phase # "ended"
    BY <1>2, <1>3, <1>4, <1>5
  <2>2. ASSUME NEW s \in DOMAIN threads', s # n PROVE threads'[s].phase = "ended"
    <3>1. s \in 1..Len(threads)
      BY <1>3, <1>5, <2>2
    <3>2. QED
      BY <1>1, <1>3, <1>4, <3>1 DEF Live
  <2>3. QED
    BY <2>1, <2>2 DEF Live
<1>7. at' \in Awaits /\ at'.tag = "select"
  BY <1>1, PlaybackAssumption DEF Select, Await, Awaits, NoTask
<1>8. PlaybackTypeOK'
  <2>1. sink' \in 0..Len(threads') /\ Len(threads') <= MaxPlays
    BY <1>1, <1>3, <1>4, PlaybackAssumption
  <2>2. QED
    BY <1>1, <1>4, <1>7, <2>1 DEF PlaybackSound, PlaybackTypeOK
<1>9. \A i \in DOMAIN told : told[i] <= Len(threads) /\ told[i] # n
  <2>1. ASSUME NEW i \in DOMAIN told PROVE told[i] \in Nat /\ told[i] <= Len(threads)
    BY PlaybackAssumption, ElementOfSeq, LenProperties DEF PlaybackSound, PlaybackTypeOK, Awaited
  <2>2. QED
    BY <1>3, <2>1
<1>10. StreamHeld'
  BY <1>1, <1>2, <1>3, <1>4, <1>6, <1>7, <1>9 DEF StreamHeld, Untold, NoTask
<1>11. Awaited'
  <2>1. \A i \in DOMAIN told : told[i] \in Nat
    BY PlaybackAssumption, ElementOfSeq, LenProperties DEF PlaybackSound, PlaybackTypeOK
  <2>2. QED
    BY <1>1, <1>3, <1>4, <1>7, <1>9, <2>1 DEF Awaited
<1>12. Metered'
  <2>1. LastLevel' = LastLevel /\ (~gaveUp => LastLevel = "silent")
    BY <1>1 DEF LastLevel, PlaybackSound, Metered
  <2>2. QED
    BY <1>1, <1>2, <1>4, <1>6, <2>1, PlaybackAssumption DEF Metered
<1>13. QED
  BY <1>8, <1>10, <1>11, <1>12 DEF PlaybackSound

\* A clip could not be loaded, is found to have ended, or its end is told.
LEMMA EndStep ==
    ASSUME PlaybackSound, LoadFails \/ WaitForEnd \/ Ended
    PROVE  PlaybackSound'
<1>1. /\ Live = {} /\ UNCHANGED <<threads, levels, shown, gaveUp, commands>>
      /\ threads \in Seq(ThreadStates) /\ DOMAIN threads = 1..Len(threads) /\ Len(threads) \in Nat
  BY NoneLives, LenProperties DEF LoadFails, WaitForEnd, Ended, PlaybackSound, PlaybackTypeOK
<1>2. Live' = {} /\ LastLevel' = LastLevel
  BY <1>1 DEF Live, LastLevel
<1>3. Metered'
  BY <1>1, <1>2 DEF PlaybackSound, Metered
<1>4. CASE LoadFails
  <2>1. at' = Select /\ playing' = FALSE /\ UNCHANGED <<sink, told>>
    BY <1>4 DEF LoadFails
  <2>2. at' \in Awaits /\ at'.tag = "select"
    BY <2>1, PlaybackAssumption DEF Select, Await, Awaits, NoTask
  <2>3. PlaybackTypeOK'
    BY <1>1, <2>1, <2>2 DEF PlaybackSound, PlaybackTypeOK
  <2>4. StreamHeld'
    BY <1>1, <1>2, <2>1, <2>2 DEF PlaybackSound, StreamHeld, Untold
  <2>5. Awaited'
    BY <1>1, <2>1, <2>2 DEF PlaybackSound, Awaited
  <2>6. QED
    BY <1>3, <2>3, <2>4, <2>5 DEF PlaybackSound
<1>5. CASE WaitForEnd
  <2>1. /\ at.tag = "select" /\ playing /\ at' = Await("ending", "any", NoClip, sink)
        /\ sink' = NoTask /\ UNCHANGED <<playing, told>>
    BY <1>5 DEF WaitForEnd
  <2>2. /\ sink # NoTask /\ sink = Len(threads) /\ ~threads[sink].cancel /\ Untold(sink)
        /\ Len(threads) <= MaxPlays
    BY <2>1 DEF PlaybackSound, PlaybackTypeOK, StreamHeld
  <2>3. at' \in Awaits /\ at'.tag = "ending" /\ at'.task = sink
    BY <1>1, <2>1, <2>2, PlaybackAssumption DEF Await, Awaits
  <2>4. PlaybackTypeOK'
    BY <1>1, <2>1, <2>3 DEF PlaybackSound, PlaybackTypeOK, NoTask
  <2>5. StreamHeld' /\ Awaited'
    BY <1>1, <1>2, <2>1, <2>2, <2>3 DEF PlaybackSound, StreamHeld, Awaited, Untold
  <2>6. QED
    BY <1>3, <2>4, <2>5 DEF PlaybackSound
<1>6. CASE Ended
  <2>1. /\ at.tag = "ending" /\ playing' = FALSE /\ at' = Select /\ sink' = sink
        /\ told' = IF Failed(at.task) THEN told ELSE Append(told, at.task)
    BY <1>6 DEF Ended
  <2>2. /\ at.task = Len(threads) /\ sink = NoTask /\ Len(threads) <= MaxPlays
        /\ told \in Seq(0..MaxPlays) /\ at.task \in 0..MaxPlays
    BY <1>1, <2>1, PlaybackAssumption DEF PlaybackSound, PlaybackTypeOK, StreamHeld, Awaited
  <2>3. at' \in Awaits /\ at'.tag = "select"
    BY <2>1, PlaybackAssumption DEF Select, Await, Awaits, NoTask
  <2>4. told' \in Seq(0..MaxPlays) /\ \A i \in DOMAIN told' : told'[i] <= Len(threads)
    <3>1. CASE Failed(at.task)
      BY <2>1, <2>2, <3>1 DEF PlaybackSound, Awaited
    <3>2. CASE ~Failed(at.task)
      <4>1. /\ told' \in Seq(0..MaxPlays) /\ Len(told') = Len(told) + 1
            /\ \A i \in 1..Len(told) : told'[i] = told[i]
            /\ told'[Len(told) + 1] = at.task
        BY <2>1, <2>2, <3>2, AppendProperties
      <4>2. /\ DOMAIN told' = 1..Len(told') /\ DOMAIN told = 1..Len(told) /\ Len(told) \in Nat
        BY <2>2, <4>1, LenProperties
      <4>3. ASSUME NEW i \in DOMAIN told' PROVE told'[i] <= Len(threads)
        <5>1. i \in 1..Len(told) \/ i = Len(told) + 1
          BY <4>1, <4>2
        <5>2. QED
          BY <1>1, <2>2, <4>1, <4>2, <5>1 DEF PlaybackSound, Awaited
      <4>4. QED
        BY <4>1, <4>3
    <3>3. QED
      BY <3>1, <3>2
  <2>5. PlaybackTypeOK'
    BY <1>1, <2>1, <2>3, <2>4 DEF PlaybackSound, PlaybackTypeOK
  <2>6. StreamHeld' /\ Awaited'
    BY <1>1, <1>2, <2>1, <2>2, <2>3, <2>4 DEF StreamHeld, Awaited
  <2>7. QED
    BY <1>3, <2>5, <2>6 DEF PlaybackSound
<1>7. QED
  BY <1>4, <1>5, <1>6

\* A level is handed to the bus.
LEMMA ForwardStep ==
    ASSUME PlaybackSound, Forwards
    PROVE  PlaybackSound'
<1>1. /\ levels # <<>> /\ shown' = Head(levels) /\ levels' = Tail(levels)
      /\ UNCHANGED <<at, playing, sink, threads, gaveUp, told, commands>>
  BY DEF Forwards
<1>2. levels \in Seq({"silent", "loud"}) /\ Len(levels) <= LevelCapacity
  BY DEF PlaybackSound, PlaybackTypeOK
<1>3. /\ Head(levels) \in {"silent", "loud"} /\ Tail(levels) \in Seq({"silent", "loud"})
      /\ Len(Tail(levels)) = Len(levels) - 1 /\ Len(levels) \in Nat
      /\ Tail(levels) = <<>> => Head(levels) = levels[Len(levels)]
      /\ Tail(levels) # <<>> => Tail(levels)[Len(Tail(levels))] = levels[Len(levels)]
  BY <1>1, <1>2, Taken
<1>4. LastLevel' = LastLevel
  BY <1>1, <1>3 DEF LastLevel
<1>5. Live' = Live
  BY <1>1 DEF Live
<1>6. PlaybackTypeOK'
  <2>1. /\ levels' \in Seq({"silent", "loud"}) /\ Len(levels') <= LevelCapacity
        /\ shown' \in {"silent", "loud"}
    BY <1>1, <1>2, <1>3, PlaybackAssumption
  <2>2. QED
    BY <1>1, <2>1 DEF PlaybackSound, PlaybackTypeOK
<1>7. StreamHeld' /\ Awaited'
  BY <1>1, <1>5 DEF PlaybackSound, StreamHeld, Awaited, Untold
<1>8. Metered'
  BY <1>1, <1>4, <1>5 DEF PlaybackSound, Metered
<1>9. QED
  BY <1>6, <1>7, <1>8 DEF PlaybackSound

LEMMA PlaybackStep ==
    ASSUME PlaybackSound, [PlaybackNext]_playbackVars
    PROVE  PlaybackSound'
<1>1. CASE UNCHANGED playbackVars
  <2>1. Live' = Live /\ LastLevel' = LastLevel
    BY <1>1 DEF playbackVars, Live, LastLevel
  <2>2. QED
    BY <1>1, <2>1 DEF playbackVars, PlaybackSound, PlaybackTypeOK, StreamHeld, Awaited, Metered,
       Untold
<1>2. QED
  BY <1>1, CommandStep, StoppedStep, LoadedStep, EndStep, DeviceStep, FinishStep, ForwardStep
     DEF PlaybackNext, Task

\* Whatever await of audio_task a command interrupts, the one stream that is open is
\* held by the sink or told to stop, no two play, and the meters come to show silence,
\* for any number of clips, tones, commands and attempts (PiAudioSink, LevelMeter).
THEOREM OneStreamIsHeld == PlaybackSpec => []PlaybackInv
<1>1. PlaybackSound => PlaybackInv
  BY DEF PlaybackSound, PlaybackInv, StreamHeld, LiveIsHeld, OneStream, Metered, MeterFallsSilent,
     LastLevel
<1>2. QED
  BY <1>1, InitPlayback, PlaybackStep, PTL DEF PlaybackSpec

\* The PlaybackEnded the core is told is the end of the clip asked for last, which was
\* not stopped, and it is told once (PiAudioSink::wait_for_end, audio_task).
THEOREM EndsAreTheClips == PlaybackSpec => EndIsTheClips
<1> DEFINE Told == told' # told =>
                     LET t == Last(told')
                     IN  /\ t \in DOMAIN threads /\ t = Len(threads)
                         /\ threads[t].phase = "ended" /\ ~threads[t].cancel
                         /\ ~Contains(told, t)
<1>1. PlaybackSound /\ [PlaybackNext]_playbackVars => [Told]_playbackVars
  <2> SUFFICES ASSUME PlaybackSound, PlaybackNext, told' # told PROVE Told
    BY DEF playbackVars
  <2>1. Ended
    BY DEF PlaybackNext, TakePlay, TakeStop, TakeShutdown, Task, Stopped, Loaded, LoadFails,
       WaitForEnd, Device, Finishes, Forwards
  <2>2. /\ at.tag = "ending" /\ told' = Append(told, at.task) /\ told \in Seq(0..MaxPlays)
        /\ threads \in Seq(ThreadStates)
    BY <2>1 DEF Ended, PlaybackSound, PlaybackTypeOK
  <2>3. /\ at.task = Len(threads) /\ at.task # NoTask /\ at.task \notin Live
        /\ ~threads[at.task].cancel /\ Untold(at.task)
        /\ at.task \in 0..MaxPlays
    BY <2>2 DEF PlaybackSound, PlaybackTypeOK, Awaited, Awaits
  <2>4. at.task \in DOMAIN threads /\ threads[at.task].phase = "ended"
    BY <2>2, <2>3, LenProperties DEF Live, NoTask
  <2>5. Last(told') = at.task
    BY <2>2, <2>3, AppendProperties DEF Last
  <2>6. ~Contains(told, at.task)
    BY <2>2, <2>3, LenProperties DEF Contains, Untold
  <2>7. QED
    BY <2>3, <2>4, <2>5, <2>6
<1>2. QED
  BY <1>1, InitPlayback, PlaybackStep, PTL DEF PlaybackSpec, EndIsTheClips

----------------------------------------------------------------------------
(* The light of the ring *)

TaskStates == [phase : {"none", "waiting", "ticked", "writing", "gone"},
               cancelled : BOOLEAN, time : 0..(Period + Duration + 1)]

LitOnly(colour) == \A c \in Channels : c # colour => high[c] = Inactive

\* The lock of the channels, and who has it.
LockHeld ==
    /\ write.by = "nobody" <=> write = NoWrite
    /\ write.by # "nobody" => write.call \in 1..Len(asked)
    /\ write.by = "set" => setter = "writing" /\ write.call = Current
    /\ write.by = "task" => task[write.call].phase = "writing"
    /\ write.lit <= Ceiling
    /\ write.selected => LitOnly(asked[write.call].colour)

\* Tasks are spawned for calls, the call under way has none yet, and a fade that goes
\* on is not over.
Animations ==
    /\ \A n \in LedCalls : task[n].phase # "none" => n <= Len(asked)
    /\ \A n \in LedCalls : task[n].phase = "waiting" /\ n \in tried /\ asked[n].pattern = "Fade"
                             => task[n].time < Duration
    /\ setter = "writing" => write.by = "set"
    /\ setter \in {"ready", "writing"} => /\ Current \in LedCalls /\ Current \notin tried
                                          /\ task[Current].phase = "none" /\ handle = 0
    /\ tried \subseteq 1..Len(asked)
    /\ handle = 0 \/ handle = reported

\* One channel is lit, within the ceiling, and it is the one that was reported.
Ring ==
    /\ \E c \in Channels : LitOnly(c)
    /\ \A c \in Channels : Lit(c) <= Ceiling
    /\ ~intruded /\ reported \in tried => LitOnly(asked[reported].colour)

LedSound == LedTypeOK /\ LockHeld /\ Animations /\ Ring

\* Division rounds down, and so keeps a bound.
LEMMA Quotient ==
    ASSUME NEW a \in Nat, NEW b \in Nat \ {0}, NEW c \in Nat, a <= b * c
    PROVE  a \div b \in 0..c
<1> DEFINE q == a \div b
           r == a % b
<1>1. q \in Int /\ r \in 0..(b - 1) /\ a = b * q + r
  OBVIOUS
<1> HIDE DEF q, r
<1>2. q >= 0
  <2> SUFFICES ASSUME q <= -1 PROVE FALSE
    BY <1>1
  <2>1. b * q <= -b
    BY <1>1
  <2>2. QED
    BY <1>1, <2>1
<1>3. q <= c
  <2> SUFFICES ASSUME q >= c + 1 PROVE FALSE
    BY <1>1
  <2>1. b * q >= b * c + b
    BY <1>1
  <2>2. QED
    BY <1>1, <2>1
<1>4. QED
  BY <1>1, <1>2, <1>3 DEF q

\* The shape of a pattern stays within full brightness.
LEMMA BrightnessBounded ==
    ASSUME NEW request \in Requests, NEW time \in Nat
    PROVE  Brightness(request, time) \in 0..Full
<1> DEFINE phase == time % Period
<1>1. /\ Full \in Nat \ {0} /\ Period \in Nat \ {0} /\ Duration \in Nat \ {0}
      /\ request.pattern \in Patterns /\ request.level \in 0..Full
  BY StatusLedAssumption
<1>2. phase \in 0..(Period - 1)
  BY <1>1
<1> HIDE DEF phase
<1>3. CASE request.pattern = "Steady"
  BY <1>1, <1>3 DEF Brightness
<1>4. CASE request.pattern = "Pulse"
  <2>1. 2 * Full * phase \in Nat /\ 2 * Full * phase <= Period * (2 * Full)
    BY <1>1, <1>2
  <2>2. (2 * Full * phase) \div Period \in 0..(2 * Full)
    BY <1>1, <2>1, Quotient
  <2>3. Full - Distance((2 * Full * phase) \div Period, Full) \in 0..Full
    BY <1>1, <2>2 DEF Distance
  <2>4. Brightness(request, time) = Full - Distance((2 * Full * phase) \div Period, Full)
    BY <1>4 DEF Brightness, phase
  <2>5. QED
    BY <2>3, <2>4
<1>5. CASE request.pattern = "Blink"
  BY <1>1, <1>5 DEF Brightness
<1>6. CASE request.pattern = "Fade"
  <2>1. CASE time < Duration
    <3>1. Full * time \in Nat /\ Full * time <= Duration * Full
      BY <1>1, <2>1
    <3>2. (Full * time) \div Duration \in 0..Full
      BY <1>1, <3>1, Quotient
    <3>3. Brightness(request, time) = Full - ((Full * time) \div Duration)
      BY <1>6, <2>1 DEF Brightness
    <3>4. QED
      BY <1>1, <3>2, <3>3
  <2>2. CASE ~(time < Duration)
    BY <1>1, <1>6, <2>2 DEF Brightness
  <2>3. QED
    BY <2>1, <2>2
<1>7. QED
  BY <1>1, <1>3, <1>4, <1>5, <1>6 DEF Patterns

\* No request lights the ring above the ceiling.
LEMMA FractionBounded ==
    ASSUME NEW request \in Requests, NEW time \in Nat
    PROVE  lit_fraction(request, time) \in 0..Ceiling
<1> DEFINE b == Brightness(request, time)
<1>1. b \in 0..Full /\ Full \in Nat \ {0} /\ Ceiling \in Nat
  BY BrightnessBounded, StatusLedAssumption
<1> HIDE DEF b
<1>2. b * Ceiling \in Nat /\ b * Ceiling <= Full * Ceiling
  BY <1>1
<1>3. (b * Ceiling) \div Full \in 0..Ceiling
  BY <1>1, <1>2, Quotient
<1>4. QED
  BY <1>3 DEF lit_fraction, b

LEMMA InitLed == LedInit => LedSound
<1> SUFFICES ASSUME LedInit PROVE LedSound
  OBVIOUS
<1>1. /\ asked \in Seq(Requests) /\ Len(asked) = 0 /\ Current = 0 /\ handle = 0 /\ reported = 0
      /\ setter = "idle" /\ write = NoWrite /\ tried = {} /\ intruded = FALSE
  BY EmptyIsShort DEF LedInit, Current
<1>2. task \in [LedCalls -> TaskStates] /\ \A n \in LedCalls : task[n].phase = "none"
  BY StatusLedAssumption DEF LedInit, NoAnimation, TaskStates
<1>3. high \in [Channels -> 0..Full] /\ \A c \in Channels : high[c] = Inactive
  BY StatusLedAssumption DEF LedInit, Inactive
<1>4. \A c \in Channels : Lit(c) = 0
  BY <1>3, StatusLedAssumption DEF Lit, Inactive
<1>5. LedTypeOK
  <2>1. write \in [by : {"nobody", "set", "task"}, call : 0..Len(asked), lit : 0..Full,
                   selected : BOOLEAN]
    BY <1>1, StatusLedAssumption DEF NoWrite
  <2>2. Len(asked) <= MaxCalls /\ handle \in 0..Len(asked) /\ reported \in 0..Len(asked)
    BY <1>1, StatusLedAssumption
  <2>3. QED
    BY <1>1, <1>2, <1>3, <2>1, <2>2 DEF LedTypeOK, TaskStates
<1>6. LockHeld /\ Animations
  BY <1>1, <1>2, StatusLedAssumption DEF LockHeld, Animations, NoWrite
<1>7. Ring
  BY <1>1, <1>3, <1>4, StatusLedAssumption DEF Ring, LitOnly, Channels
<1>8. QED
  BY <1>5, <1>6, <1>7 DEF LedSound

\* What an abort does to the tasks: one that waits is gone, one that runs is cancelled.
LEMMA Aborts ==
    ASSUME NEW n \in 0..MaxCalls, task \in [LedCalls -> TaskStates]
    PROVE  /\ Aborted(n) \in [LedCalls -> TaskStates]
           /\ \A m \in LedCalls :
                 /\ Aborted(n)[m].phase = task[m].phase
                    \/ (task[m].phase = "waiting" /\ Aborted(n)[m].phase = "gone")
                 /\ Aborted(n)[m].time = task[m].time
                 /\ task[m].cancelled => Aborted(n)[m].cancelled
                 /\ m = n => Aborted(n)[m].phase = "gone" \/ Aborted(n)[m].cancelled
<1>1. CASE n = 0
  <2>1. Aborted(n) = task
    BY <1>1 DEF Aborted
  <2>2. \A m \in LedCalls : m # n
    BY <1>1, StatusLedAssumption DEF LedCalls
  <2>3. QED
    BY <2>1, <2>2
<1>2. CASE n # 0
  <2> DEFINE x == IF task[n].phase = "waiting" THEN [task[n] EXCEPT !.phase = "gone"]
                  ELSE [task[n] EXCEPT !.cancelled = TRUE]
  <2>1. n \in LedCalls /\ task[n] \in TaskStates
    BY <1>2, StatusLedAssumption DEF LedCalls
  <2>2. /\ x \in TaskStates
        /\ x.phase = task[n].phase \/ (task[n].phase = "waiting" /\ x.phase = "gone")
        /\ x.time = task[n].time /\ (task[n].cancelled => x.cancelled)
        /\ x.phase = "gone" \/ x.cancelled
    <3>1. CASE task[n].phase = "waiting"
      BY <2>1, <3>1 DEF TaskStates
    <3>2. CASE task[n].phase # "waiting"
      BY <2>1, <3>2 DEF TaskStates
    <3>3. QED
      BY <3>1, <3>2
  <2>3. Aborted(n) = [task EXCEPT ![n] = x]
    BY <1>2 DEF Aborted
  <2> HIDE DEF x
  <2>4. /\ Aborted(n) \in [LedCalls -> TaskStates] /\ Aborted(n)[n] = x
        /\ \A m \in LedCalls : m # n => Aborted(n)[m] = task[m]
    BY <2>1, <2>2, <2>3
  <2>5. ASSUME NEW m \in LedCalls
        PROVE  /\ Aborted(n)[m].phase = task[m].phase
                  \/ (task[m].phase = "waiting" /\ Aborted(n)[m].phase = "gone")
               /\ Aborted(n)[m].time = task[m].time
               /\ task[m].cancelled => Aborted(n)[m].cancelled
               /\ m = n => Aborted(n)[m].phase = "gone" \/ Aborted(n)[m].cancelled
    BY <2>2, <2>4
  <2>6. QED
    BY <2>4, <2>5
<1>3. QED
  BY <1>1, <1>2

\* A call takes the animation that is held, and aborts it.
LEMMA CallLights == ASSUME NEW r \in Requests, LedSound, Call(r) PROVE LedSound'
<1>1. LedTypeOK /\ LockHeld /\ Animations /\ Ring
  BY DEF LedSound
<1>2. /\ asked \in Seq(Requests) /\ Len(asked) \in Nat /\ Len(asked) < MaxCalls /\ MaxCalls \in Nat
      /\ asked' = Append(asked, r) /\ handle' = 0 /\ setter = "idle" /\ setter' = "ready"
      /\ task' = Aborted(handle) /\ handle \in 0..MaxCalls
      /\ write' = write /\ high' = high /\ reported' = reported /\ tried' = tried
      /\ intruded' = intruded
  BY <1>1, LenProperties, StatusLedAssumption DEF LedTypeOK, Call
<1>3. /\ asked' \in Seq(Requests) /\ Len(asked') = Len(asked) + 1
      /\ \A n \in 1..Len(asked) : asked'[n] = asked[n]
  BY <1>2, AppendProperties
<1>4. task \in [LedCalls -> TaskStates]
  BY <1>1 DEF LedTypeOK, TaskStates
<1>5. /\ task' \in [LedCalls -> TaskStates]
      /\ \A m \in LedCalls :
            /\ task'[m].phase = task[m].phase
               \/ (task[m].phase = "waiting" /\ task'[m].phase = "gone")
            /\ task'[m].time = task[m].time
            /\ task[m].cancelled => task'[m].cancelled
            /\ m = handle => task'[m].phase = "gone" \/ task'[m].cancelled
  BY <1>2, <1>4, Aborts
<1>6. LedTypeOK'
  <2>1. \A m \in LedCalls : task'[m].phase \in {"none", "gone"} \/ task'[m].cancelled
    BY <1>1, <1>4, <1>5 DEF LedTypeOK
  <2>2. write' \in [by : {"nobody", "set", "task"}, call : 0..Len(asked'), lit : 0..Full,
                    selected : BOOLEAN]
    BY <1>1, <1>2, <1>3 DEF LedTypeOK
  <2>3. reported' \in 0..Len(asked') /\ handle' \in 0..Len(asked') /\ Len(asked') <= MaxCalls
    BY <1>1, <1>2, <1>3 DEF LedTypeOK
  <2>4. /\ high' \in [Channels -> 0..Full] /\ tried' \subseteq LedCalls /\ intruded' \in BOOLEAN
        /\ setter' \in {"idle", "ready", "writing", "dropped"}
    BY <1>1, <1>2 DEF LedTypeOK
  <2>5. QED
    BY <1>3, <1>5, <2>1, <2>2, <2>3, <2>4 DEF LedTypeOK, TaskStates
<1>7. LockHeld'
  <2>1. write.by \in {"nobody", "set", "task"} /\ write.by # "set"
    BY <1>1, <1>2 DEF LedTypeOK, LockHeld
  <2>2. write.by = "task" => task'[write.call].phase = "writing"
    <3>1. write.by = "task" => write.call \in LedCalls /\ task[write.call].phase = "writing"
      BY <1>1, <1>2 DEF LockHeld, LedCalls
    <3>2. QED
      BY <1>5, <3>1
  <2>3. write.by # "nobody" => write.call \in 1..Len(asked')
                               /\ asked'[write.call] = asked[write.call]
    BY <1>1, <1>2, <1>3 DEF LockHeld
  <2>4. write.selected => write.by # "nobody"
    BY <1>1 DEF LockHeld, NoWrite
  <2>5. write.selected => \A c \in Channels : c # asked'[write.call].colour => high'[c] = Inactive
    BY <1>1, <1>2, <2>3, <2>4 DEF LockHeld, LitOnly
  <2>6. QED
    BY <1>1, <1>2, <2>1, <2>2, <2>3, <2>5 DEF LockHeld, LitOnly
<1>8. Animations'
  <2>1. \A n \in LedCalls : task'[n].phase # "none" => n <= Len(asked)
    BY <1>1, <1>5 DEF Animations
  <2>2. \A n \in LedCalls : task'[n].phase = "waiting" =>
           task[n].phase = "waiting" /\ task'[n].time = task[n].time /\ asked'[n] = asked[n]
    BY <1>2, <1>3, <1>5, <2>1 DEF LedCalls
  <2>3. Current' = Len(asked) + 1 /\ Current' \in LedCalls /\ Current' \notin tried
    BY <1>1, <1>2, <1>3 DEF Current, LedCalls, Animations
  <2>4. task'[Current'].phase = "none"
    BY <1>2, <2>1, <2>3, <1>5 DEF LedCalls, TaskStates
  <2>5. tried \subseteq 1..Len(asked')
    BY <1>1, <1>2, <1>3 DEF Animations
  <2>6. \A n \in LedCalls : task'[n].phase # "none" => n <= Len(asked')
    BY <1>2, <1>3, <2>1 DEF LedCalls
  <2>7. \A n \in LedCalls : task'[n].phase = "waiting" /\ n \in tried' /\ asked'[n].pattern = "Fade"
           => task'[n].time < Duration
    BY <1>1, <1>2, <2>2 DEF Animations
  <2>8. QED
    BY <1>2, <2>3, <2>4, <2>5, <2>6, <2>7 DEF Animations
<1>9. Ring'
  <2>1. reported \in tried => asked'[reported] = asked[reported]
    BY <1>1, <1>3 DEF Animations
  <2>2. QED
    BY <1>1, <1>2, <2>1 DEF Ring, LitOnly, Lit
<1>10. QED
  BY <1>6, <1>7, <1>8, <1>9 DEF LedSound

\* A steady call takes the lock of the channels.
LEMMA LocksLights == ASSUME LedSound, Locks PROVE LedSound'
<1>1. LedTypeOK /\ LockHeld /\ Animations /\ Ring
  BY DEF LedSound
<1>2. /\ setter = "ready" /\ setter' = "writing" /\ write = NoWrite
      /\ asked' = asked /\ handle' = handle /\ task' = task /\ high' = high
      /\ reported' = reported /\ tried' = tried /\ intruded' = intruded
  BY DEF Locks
<1>3. /\ Current \in LedCalls /\ Current \in 1..Len(asked) /\ asked[Current] \in Requests
  BY <1>1, <1>2, ElementOfSeq DEF LedTypeOK, Animations, Current, LedCalls
<1>4. lit_fraction(asked[Current], 0) \in 0..Ceiling /\ Ceiling \in 0..Full /\ Full \in Nat
  BY <1>3, FractionBounded, StatusLedAssumption
<1>5. /\ write' = [by |-> "set", call |-> Current, lit |-> lit_fraction(asked[Current], 0),
                   selected |-> FALSE]
  BY DEF Locks
<1>6. /\ write'.by = "set" /\ write'.call = Current /\ write'.lit <= Ceiling /\ ~write'.selected
      /\ write' \in [by : {"nobody", "set", "task"}, call : 0..Len(asked), lit : 0..Full,
                     selected : BOOLEAN]
  BY <1>3, <1>4, <1>5
<1>7. LedTypeOK'
  BY <1>1, <1>2, <1>6 DEF LedTypeOK
<1>8. LockHeld'
  BY <1>2, <1>3, <1>6 DEF LockHeld, Current, NoWrite
<1>9. Animations' /\ Ring'
  BY <1>1, <1>2, <1>6 DEF Animations, Ring, LitOnly, Lit, Current
<1>10. QED
  BY <1>7, <1>8, <1>9 DEF LedSound

\* Any other call has its task, which alone is not aborted.
LEMMA SpawnsLights == ASSUME LedSound, Spawns PROVE LedSound'
<1>1. LedTypeOK /\ LockHeld /\ Animations /\ Ring
  BY DEF LedSound
<1>2. /\ setter = "ready" /\ setter' = "idle" /\ handle' = Current /\ reported' = Current
      /\ asked' = asked /\ write' = write /\ high' = high /\ tried' = tried
      /\ intruded' = intruded
  BY DEF Spawns
<1>3. /\ Current \in LedCalls /\ Current \in 1..Len(asked) /\ Current \notin tried
      /\ task[Current].phase = "none" /\ handle = 0
  BY <1>1, <1>2 DEF LedTypeOK, Animations, Current, LedCalls
<1> DEFINE x == [task[Current] EXCEPT !.phase = "waiting"]
<1>4. task \in [LedCalls -> TaskStates]
  BY <1>1 DEF LedTypeOK, TaskStates
<1>5. x \in TaskStates /\ x.phase = "waiting"
  BY <1>3, <1>4 DEF TaskStates
<1>6. task' = [task EXCEPT ![Current] = x]
  BY DEF Spawns
<1> HIDE DEF x
<1>7. /\ task' \in [LedCalls -> TaskStates] /\ task'[Current].phase = "waiting"
      /\ \A m \in LedCalls : m # Current => task'[m] = task[m]
  BY <1>3, <1>4, <1>5, <1>6
<1>8. LedTypeOK'
  <2>1. \A n \in LedCalls : task'[n].phase \in {"none", "gone"} \/ task'[n].cancelled \/ n = handle'
    BY <1>1, <1>2, <1>3, <1>7 DEF LedTypeOK, LedCalls
  <2>2. handle' \in 0..Len(asked') /\ reported' \in 0..Len(asked')
    BY <1>2, <1>3
  <2>3. QED
    BY <1>1, <1>2, <1>7, <2>1, <2>2 DEF LedTypeOK, TaskStates
<1>9. LockHeld'
  <2>1. write.by = "task" => task'[write.call].phase = "writing"
    <3>1. write.by = "task" => task[write.call].phase = "writing" /\ write.call # Current
      BY <1>1, <1>3 DEF LockHeld
    <3>2. write.by = "task" => write.call \in LedCalls
      <4>1. Len(asked) \in Nat /\ Len(asked) <= MaxCalls /\ MaxCalls \in Nat
        BY <1>1, LenProperties, StatusLedAssumption DEF LedTypeOK
      <4>2. QED
        BY <1>1, <4>1 DEF LockHeld, LedCalls
    <3>3. QED
      BY <1>7, <3>1, <3>2
  <2>2. write.by # "set"
    BY <1>1, <1>2 DEF LockHeld
  <2>3. QED
    BY <1>1, <1>2, <2>1, <2>2 DEF LockHeld, LitOnly
<1>10. Animations'
  BY <1>1, <1>2, <1>3, <1>7 DEF Animations, Current
<1>11. Ring'
  BY <1>1, <1>2, <1>3 DEF Ring, LitOnly, Lit
<1>12. QED
  BY <1>8, <1>9, <1>10, <1>11 DEF LedSound

\* The lock's holder turns the other channels off.
LEMMA SelectsLights == ASSUME LedSound, Selects PROVE LedSound'
<1> DEFINE colour == asked[write.call].colour
<1>1. LedTypeOK /\ LockHeld /\ Animations /\ Ring
  BY DEF LedSound
<1>2. /\ write # NoWrite /\ write' = [write EXCEPT !.selected = TRUE]
      /\ high' = [c \in Channels |-> IF c = colour THEN high[c] ELSE Inactive]
      /\ asked' = asked /\ setter' = setter /\ handle' = handle /\ task' = task
      /\ reported' = reported /\ tried' = tried /\ intruded' = intruded
  BY DEF Selects
<1>3. Inactive \in 0..Full /\ Full \in Nat /\ Ceiling \in Nat
  BY StatusLedAssumption DEF Inactive
<1>4. /\ write' \in [by : {"nobody", "set", "task"}, call : 0..Len(asked), lit : 0..Full,
                     selected : BOOLEAN]
      /\ write'.by = write.by /\ write'.call = write.call /\ write'.lit = write.lit
      /\ write.by # "nobody" /\ write' # NoWrite
  BY <1>1, <1>2 DEF LedTypeOK, LockHeld, NoWrite
<1>5. colour \in Channels
  <2>1. write.call \in 1..Len(asked)
    BY <1>1, <1>4 DEF LockHeld
  <2>2. asked[write.call] \in Requests
    BY <1>1, <2>1, ElementOfSeq DEF LedTypeOK
  <2>3. QED
    BY <2>2, StatusLedAssumption
<1> HIDE DEF colour
<1>6. /\ high' \in [Channels -> 0..Full]
      /\ \A c \in Channels : high'[c] = IF c = colour THEN high[c] ELSE Inactive
  BY <1>1, <1>2, <1>3 DEF LedTypeOK
<1>7. LedTypeOK' /\ Animations'
  BY <1>1, <1>2, <1>4, <1>6 DEF LedTypeOK, Animations, Current
<1>8. LockHeld'
  BY <1>1, <1>2, <1>4, <1>6 DEF LockHeld, LitOnly, Current, colour
<1>9. Ring'
  <2>1. \E c \in Channels : LitOnly(c)'
    BY <1>5, <1>6 DEF LitOnly
  <2>2. \A c \in Channels : Lit(c)' <= Ceiling
    BY <1>1, <1>3, <1>6, StatusLedAssumption DEF Ring, Lit, Inactive
  <2>3. ~intruded' /\ reported' \in tried' => LitOnly(asked[reported].colour)'
    BY <1>1, <1>2, <1>6 DEF Ring, LitOnly
  <2>4. QED
    BY <2>1, <2>2, <2>3 DEF Ring
<1>10. QED
  BY <1>7, <1>8, <1>9 DEF LedSound

\* Whoever holds the lock does so for a call that was made.
LEMMA Holder ==
    ASSUME LedSound, write # NoWrite
    PROVE  /\ write.by \in {"set", "task"} /\ write.call \in LedCalls
           /\ write.call \in 1..Len(asked) /\ asked[write.call] \in Requests
           /\ asked[write.call].colour \in Channels
<1>1. LedTypeOK /\ LockHeld
  BY DEF LedSound
<1>2. write.by \in {"set", "task"} /\ write.call \in 1..Len(asked)
  BY <1>1 DEF LedTypeOK, LockHeld
<1>3. asked[write.call] \in Requests
  BY <1>1, <1>2, ElementOfSeq DEF LedTypeOK
<1>4. Len(asked) \in Nat /\ Len(asked) <= MaxCalls /\ MaxCalls \in Nat
  BY <1>1, LenProperties, StatusLedAssumption DEF LedTypeOK
<1>5. QED
  BY <1>2, <1>3, <1>4, StatusLedAssumption DEF LedCalls

\* The end of a write, whether it succeeded or not: a task that wrote goes on or is gone,
\* every other stays as it was, and the lock is free.
LEMMA Unlocked ==
    ASSUME LedSound, write # NoWrite, Unlocks,
           task' = task \/ write.by = "task",
           task' \in [LedCalls -> TaskStates],
           \A m \in LedCalls : m # write.call => task'[m] = task[m],
           write.by = "task" =>
              task'[write.call].phase = "gone"
              \/ /\ task'[write.call].phase = "waiting" /\ ~task[write.call].cancelled
                 /\ ~Over(asked[write.call], task'[write.call].time),
           reported' \in {reported, write.call}, write.by = "task" => reported' = reported,
           high' \in [Channels -> 0..Full], intruded' \in BOOLEAN
    PROVE  LedTypeOK' /\ LockHeld' /\ Animations'
<1>1. LedTypeOK /\ LockHeld /\ Animations
  BY DEF LedSound
<1>2. /\ write' = NoWrite /\ tried' = tried \cup {write.call} /\ asked' = asked /\ handle' = handle
      /\ setter' = IF write.by = "set" THEN "idle" ELSE setter
  BY DEF Unlocks
<1>3. /\ write.by \in {"set", "task"} /\ write.call \in LedCalls
      /\ write.call \in 1..Len(asked)
  BY Holder
<1>4. LedTypeOK'
  <2>1. \A n \in LedCalls : task'[n].phase \in {"none", "gone"} \/ task'[n].cancelled \/ n = handle
    <3> SUFFICES ASSUME NEW n \in LedCalls
                 PROVE  task'[n].phase \in {"none", "gone"} \/ task'[n].cancelled \/ n = handle
      OBVIOUS
    <3>1. CASE n # write.call \/ task' = task
      BY <1>1, <3>1 DEF LedTypeOK
    <3>2. CASE n = write.call /\ write.by = "task"
      <4>1. task[n].phase = "writing"
        BY <1>1, <3>2 DEF LockHeld
      <4>2. task[n].cancelled \/ n = handle
        BY <1>1, <4>1 DEF LedTypeOK
      <4>3. QED
        BY <3>2, <4>2
    <3>3. QED
      BY <3>1, <3>2
  <2>2. write' \in [by : {"nobody", "set", "task"}, call : 0..Len(asked), lit : 0..Full,
                    selected : BOOLEAN]
    <3>1. Len(asked) \in Nat /\ Full \in Nat
      BY <1>1, LenProperties, StatusLedAssumption DEF LedTypeOK
    <3>2. QED
      BY <1>2, <3>1 DEF NoWrite
  <2>3. reported' \in 0..Len(asked) /\ tried' \subseteq LedCalls
    BY <1>1, <1>2, <1>3 DEF LedTypeOK
  <2>4. setter' \in {"idle", "ready", "writing", "dropped"} /\ handle' \in 0..Len(asked)
    BY <1>1, <1>2 DEF LedTypeOK
  <2>5. asked' \in Seq(Requests) /\ Len(asked') <= MaxCalls
    BY <1>1, <1>2 DEF LedTypeOK
  <2>6. QED
    BY <1>2, <2>1, <2>2, <2>3, <2>4, <2>5 DEF LedTypeOK, TaskStates
<1>5. LockHeld'
  BY <1>2, StatusLedAssumption DEF LockHeld, NoWrite
<1>6. Animations'
  <2>1. \A n \in LedCalls : task'[n].phase # "none" => n <= Len(asked)
    BY <1>1, <1>3 DEF Animations
  <2>2. ASSUME NEW n \in LedCalls, task'[n].phase = "waiting", n \in tried',
               asked[n].pattern = "Fade"
        PROVE  task'[n].time < Duration
    <3>1. CASE n # write.call
      BY <1>1, <1>2, <2>2, <3>1 DEF Animations
    <3>2. CASE n = write.call /\ write.by = "task"
      <4>1. ~Over(asked[n], task'[n].time) /\ task'[n].time \in Nat /\ Duration \in Nat
        BY <2>2, <3>2, StatusLedAssumption DEF TaskStates
      <4>2. QED
        BY <2>2, <4>1 DEF Over
    <3>3. CASE n = write.call /\ write.by = "set"
      BY <1>1, <1>3, <2>2, <3>3 DEF LockHeld, Animations
    <3>4. QED
      BY <1>3, <3>1, <3>2, <3>3
  <2>3. setter' # "writing"
    BY <1>1, <1>2 DEF Animations
  <2>4. setter' = "ready" => /\ Current \in LedCalls /\ Current \notin tried'
                             /\ task'[Current].phase = "none" /\ handle = 0
    <3> SUFFICES ASSUME setter' = "ready" PROVE /\ Current \in LedCalls /\ Current \notin tried'
                             /\ task'[Current].phase = "none" /\ handle = 0
      OBVIOUS
    <3>1. write.by = "task" /\ setter = "ready"
      BY <1>2, <1>3
    <3>2. /\ Current \in LedCalls /\ Current \notin tried
          /\ task[Current].phase = "none" /\ handle = 0
      BY <1>1, <3>1 DEF Animations
    <3>3. Current # write.call
      BY <1>1, <3>1, <3>2 DEF LockHeld
    <3>4. QED
      BY <1>2, <3>2, <3>3
  <2>5. tried' \subseteq 1..Len(asked)
    BY <1>1, <1>2, <1>3 DEF Animations
  <2>6. handle = 0 \/ handle = reported'
    BY <1>1, <1>3 DEF Animations, LockHeld
  <2>7. QED
    BY <1>2, <2>1, <2>2, <2>3, <2>4, <2>5, <2>6 DEF Animations, Current
<1>7. QED
  BY <1>4, <1>5, <1>6

\* The channel has its duty, and the lock is free.
LEMMA DrivesLights == ASSUME LedSound, Drives PROVE LedSound'
<1> DEFINE n == write.call
           colour == asked[n].colour
           duty == IF ActiveLow THEN Full - write.lit ELSE write.lit
           phase == IF task[n].cancelled \/ Over(asked[n], task[n].time) THEN "gone" ELSE "waiting"
           x == [task[n] EXCEPT !.phase = phase]
<1>1. LedTypeOK /\ LockHeld /\ Animations /\ Ring
  BY DEF LedSound
<1>2. /\ write # NoWrite /\ write.selected /\ high' = [high EXCEPT ![colour] = duty]
      /\ task' = IF write.by = "set" THEN task ELSE [task EXCEPT ![n] = x]
      /\ reported' = IF write.by = "set" THEN n ELSE reported
      /\ intruded' = (write.by = "task" /\ task[n].cancelled) /\ Unlocks
  BY DEF Drives, Released
<1>3. /\ write.by \in {"set", "task"} /\ n \in LedCalls /\ colour \in Channels
  BY <1>2, Holder
<1>4. /\ task \in [LedCalls -> TaskStates] /\ high \in [Channels -> 0..Full]
      /\ write.lit \in 0..Full /\ write.lit <= Ceiling
      /\ Full \in Nat /\ Ceiling \in Nat /\ ActiveLow \in BOOLEAN
  BY <1>1, StatusLedAssumption DEF LedTypeOK, LockHeld, TaskStates
<1>5. /\ x \in TaskStates /\ x.phase \in {"gone", "waiting"} /\ x.time = task[n].time
      /\ x.phase = "waiting" => ~task[n].cancelled /\ ~Over(asked[n], x.time)
  BY <1>3, <1>4 DEF TaskStates
<1>6. duty \in 0..Full
  BY <1>4
<1> HIDE DEF x, duty
<1>7. /\ high' \in [Channels -> 0..Full] /\ high'[colour] = duty
      /\ \A c \in Channels : c # colour => high'[c] = high[c]
  BY <1>2, <1>3, <1>4, <1>6
<1>8. \A c \in Channels : c # colour => high'[c] = Inactive
  BY <1>1, <1>2, <1>7 DEF LockHeld, LitOnly
<1>9. asked' = asked /\ tried' = tried \cup {n}
  BY <1>2 DEF Unlocks
<1>10. LedTypeOK' /\ LockHeld' /\ Animations'
  <2>1. /\ task' = task \/ write.by = "task"
        /\ task' \in [LedCalls -> TaskStates]
        /\ \A m \in LedCalls : m # n => task'[m] = task[m]
    BY <1>2, <1>3, <1>4, <1>5
  <2>2. write.by = "task" => task'[n] = x
    BY <1>2, <1>3, <1>4
  <2>3. write.by = "task" =>
           task'[n].phase = "gone"
           \/ /\ task'[n].phase = "waiting" /\ ~task[n].cancelled
              /\ ~Over(asked[n], task'[n].time)
    BY <1>5, <2>2
  <2>4. reported' \in {reported, n} /\ (write.by = "task" => reported' = reported)
    BY <1>2
  <2>5. intruded' \in BOOLEAN
    BY <1>2
  <2>6. QED
    BY <1>2, <1>7, <2>1, <2>3, <2>4, <2>5, Unlocked
<1>11. Ring'
  <2>1. \E c \in Channels : LitOnly(c)'
    BY <1>3, <1>8 DEF LitOnly
  <2>2. \A c \in Channels : Lit(c)' <= Ceiling
    <3>1. \A c \in Channels : c # colour => Lit(c)' = 0
      BY <1>4, <1>8 DEF Lit, Inactive
    <3>2. \A c \in Channels : c = colour => Lit(c)' = write.lit
      BY <1>4, <1>7 DEF Lit, duty
    <3>3. QED
      BY <1>4, <3>1, <3>2
  <2>3. ASSUME ~intruded' PROVE reported' = n
    <3>1. CASE write.by = "task"
      <4>1. ~task[n].cancelled /\ task[n].phase = "writing"
        BY <1>1, <1>2, <2>3, <3>1 DEF LockHeld
      <4>2. n = handle /\ n # 0
        BY <1>1, <1>3, <4>1 DEF LedTypeOK, LedCalls
      <4>3. QED
        BY <1>1, <1>2, <3>1, <4>2 DEF Animations
    <3>2. CASE write.by = "set"
      BY <1>2, <3>2
    <3>3. QED
      BY <1>3, <3>1, <3>2
  <2>4. ~intruded' => LitOnly(asked[reported].colour)'
    BY <1>8, <1>9, <2>3 DEF LitOnly
  <2>5. QED
    BY <2>1, <2>2, <2>4 DEF Ring
<1>12. QED
  BY <1>10, <1>11 DEF LedSound

\* A write fails: the pins keep their levels.
LEMMA DriveFailsLights == ASSUME LedSound, DriveFails PROVE LedSound'
<1> DEFINE n == write.call
           x == [task[n] EXCEPT !.phase = "gone"]
<1>1. LedTypeOK /\ LockHeld /\ Animations /\ Ring
  BY DEF LedSound
<1>2. /\ write # NoWrite /\ write.selected
      /\ task' = IF write.by = "set" THEN task ELSE [task EXCEPT ![n] = x]
      /\ high' = high /\ reported' = reported /\ intruded' = intruded /\ Unlocks
  BY DEF DriveFails
<1>3. write.by \in {"set", "task"} /\ n \in LedCalls
  BY <1>2, Holder
<1>4. task \in [LedCalls -> TaskStates] /\ high \in [Channels -> 0..Full] /\ intruded \in BOOLEAN
  BY <1>1 DEF LedTypeOK, TaskStates
<1>5. x \in TaskStates /\ x.phase = "gone"
  BY <1>3, <1>4 DEF TaskStates
<1> HIDE DEF x
<1>6. asked' = asked /\ tried' = tried \cup {n}
  BY <1>2 DEF Unlocks
<1>7. LedTypeOK' /\ LockHeld' /\ Animations'
  <2>1. /\ task' = task \/ write.by = "task"
        /\ task' \in [LedCalls -> TaskStates]
        /\ \A m \in LedCalls : m # n => task'[m] = task[m]
    BY <1>2, <1>3, <1>4, <1>5
  <2>2. write.by = "task" => task'[n].phase = "gone"
    BY <1>2, <1>3, <1>4, <1>5
  <2>3. QED
    BY <1>2, <1>4, <2>1, <2>2, Unlocked
<1>8. Ring'
  <2>1. reported \in tried' => reported = n \/ reported \in tried
    BY <1>6
  <2>2. LitOnly(asked[n].colour)
    BY <1>1, <1>2 DEF LockHeld
  <2>3. ~intruded /\ reported \in tried' => LitOnly(asked[reported].colour)
    BY <1>1, <2>1, <2>2 DEF Ring
  <2>4. QED
    BY <1>1, <1>2, <1>6, <2>3 DEF Ring, LitOnly, Lit
<1>9. QED
  BY <1>7, <1>8 DEF LedSound

\* The adapter is dropped.
LEMMA DropLights == ASSUME LedSound, Drop PROVE LedSound'
<1>1. LedTypeOK /\ LockHeld /\ Animations /\ Ring
  BY DEF LedSound
<1>2. /\ Len(asked) \in Nat /\ Len(asked) <= MaxCalls /\ MaxCalls \in Nat
      /\ asked' = asked /\ handle' = 0 /\ setter = "idle" /\ setter' = "dropped"
      /\ task' = Aborted(handle) /\ handle \in 0..MaxCalls
      /\ write' = write /\ reported' = reported /\ tried' = tried /\ intruded' = intruded
  BY <1>1, LenProperties, StatusLedAssumption DEF LedTypeOK, Drop
<1>3. task \in [LedCalls -> TaskStates]
  BY <1>1 DEF LedTypeOK, TaskStates
<1>4. /\ task' \in [LedCalls -> TaskStates]
      /\ \A m \in LedCalls :
            /\ task'[m].phase = task[m].phase
               \/ (task[m].phase = "waiting" /\ task'[m].phase = "gone")
            /\ task'[m].time = task[m].time
            /\ task[m].cancelled => task'[m].cancelled
            /\ m = handle => task'[m].phase = "gone" \/ task'[m].cancelled
  BY <1>2, <1>3, Aborts
<1>5. Inactive \in 0..Full /\ Full \in Nat /\ Ceiling \in Nat
  BY StatusLedAssumption DEF Inactive
<1>6. /\ high' \in [Channels -> 0..Full]
      /\ high' = high \/ \A c \in Channels : high'[c] = Inactive
  <2>1. high' = IF write = NoWrite THEN [c \in Channels |-> Inactive] ELSE high
    BY DEF Drop
  <2>2. QED
    BY <1>1, <1>5, <2>1 DEF LedTypeOK
<1>7. LedTypeOK'
  <2>1. \A m \in LedCalls : task'[m].phase \in {"none", "gone"} \/ task'[m].cancelled
    BY <1>1, <1>3, <1>4 DEF LedTypeOK
  <2>2. handle' \in 0..Len(asked)
    BY <1>2
  <2>3. QED
    BY <1>1, <1>2, <1>4, <1>6, <2>1, <2>2 DEF LedTypeOK, TaskStates
<1>8. LockHeld'
  <2>1. write.by # "set"
    BY <1>1, <1>2 DEF LockHeld
  <2>2. write.by = "task" => task'[write.call].phase = "writing"
    <3>1. write.by = "task" => write.call \in LedCalls /\ task[write.call].phase = "writing"
      BY <1>1, <1>2 DEF LockHeld, LedCalls
    <3>2. QED
      BY <1>4, <3>1
  <2>3. write.selected => LitOnly(asked[write.call].colour)'
    BY <1>1, <1>2, <1>6 DEF LockHeld, LitOnly
  <2>4. QED
    BY <1>1, <1>2, <2>1, <2>2, <2>3 DEF LockHeld, LitOnly
<1>9. Animations'
  BY <1>1, <1>2, <1>4 DEF Animations
<1>10. Ring'
  <2>1. \E c \in Channels : LitOnly(c)'
    BY <1>1, <1>6 DEF Ring, LitOnly
  <2>2. \A c \in Channels : Lit(c)' <= Ceiling
    BY <1>1, <1>5, <1>6, StatusLedAssumption DEF Ring, Lit, Inactive
  <2>3. ~intruded' /\ reported' \in tried' => LitOnly(asked[reported].colour)'
    BY <1>1, <1>2, <1>6 DEF Ring, LitOnly
  <2>4. QED
    BY <2>1, <2>2, <2>3 DEF Ring
<1>11. QED
  BY <1>7, <1>8, <1>9, <1>10 DEF LedSound

\* A change of one task that runs and does not hold the lock.
LEMMA TaskMoves ==
    ASSUME LedSound, NEW n \in LedCalls, NEW x \in TaskStates,
           task' = [task EXCEPT ![n] = x], x.phase \in {"ticked", "gone"},
           task[n].phase \in {"waiting", "ticked"}, x.cancelled = task[n].cancelled,
           UNCHANGED <<asked, setter, handle, write, high, reported, tried, intruded>>
    PROVE  LedSound'
<1>1. LedTypeOK /\ LockHeld /\ Animations /\ Ring
  BY DEF LedSound
<1>2. task \in [LedCalls -> TaskStates]
  BY <1>1 DEF LedTypeOK, TaskStates
<1>3. /\ task' \in [LedCalls -> TaskStates] /\ task'[n] = x
      /\ \A m \in LedCalls : m # n => task'[m] = task[m]
  BY <1>2
<1>4. LedTypeOK'
  <2>1. \A m \in LedCalls : task'[m].phase \in {"none", "gone"} \/ task'[m].cancelled \/ m = handle
    BY <1>1, <1>3 DEF LedTypeOK
  <2>2. QED
    BY <1>1, <1>3, <2>1 DEF LedTypeOK, TaskStates
<1>5. LockHeld'
  <2>1. write.by = "task" => task'[write.call].phase = "writing"
    <3>1. write.by = "task" => task[write.call].phase = "writing" /\ write # NoWrite
      BY <1>1 DEF LockHeld
    <3>2. write.by = "task" => write.call \in LedCalls /\ write.call # n
      BY <3>1, Holder
    <3>3. QED
      BY <1>3, <3>1, <3>2
  <2>2. QED
    BY <1>1, <2>1 DEF LockHeld, LitOnly, Current
<1>6. Animations'
  BY <1>1, <1>3 DEF Animations, Current
<1>7. Ring'
  BY <1>1 DEF Ring, LitOnly, Lit
<1>8. QED
  BY <1>4, <1>5, <1>6, <1>7 DEF LedSound

\* The clock of an animation is read: a fade's is bounded, since one that goes on is not
\* over, and any other's starts again with its period.
LEMMA TicksLights == ASSUME NEW n \in LedCalls, LedSound, Ticks(n) PROVE LedSound'
<1>1. LedTypeOK /\ Animations
  BY DEF LedSound
<1>2. PICK late \in {0, 1} :
         LET time == IF n \in tried THEN task[n].time + 1 + late ELSE late
         IN  task' = [task EXCEPT ![n].phase = "ticked",
                                  ![n].time = IF asked[n].pattern = "Fade"
                                              THEN time ELSE time % Period]
  BY DEF Ticks
<1> DEFINE time == IF n \in tried THEN task[n].time + 1 + late ELSE late
           read == IF asked[n].pattern = "Fade" THEN time ELSE time % Period
           x == [task[n] EXCEPT !.phase = "ticked", !.time = read]
<1>3. task[n] \in TaskStates /\ task[n].phase = "waiting"
  BY <1>1 DEF LedTypeOK, TaskStates, Ticks
<1>4. task' = [task EXCEPT ![n] = x]
  BY <1>2
<1>5. read \in 0..(Period + Duration + 1)
  <2>1. Period \in Nat \ {0} /\ Duration \in Nat \ {0} /\ task[n].time \in Nat
    BY <1>3, StatusLedAssumption DEF TaskStates
  <2>2. n \in tried /\ asked[n].pattern = "Fade" => task[n].time < Duration
    BY <1>1, <1>3 DEF Animations
  <2>3. time \in Nat
    BY <2>1
  <2>4. CASE asked[n].pattern = "Fade"
    BY <2>1, <2>2, <2>4
  <2>5. CASE asked[n].pattern # "Fade"
    <3> HIDE DEF time
    <3>1. time % Period \in 0..(Period - 1)
      BY <2>1, <2>3
    <3>2. QED
      BY <2>1, <2>5, <3>1
  <2>6. QED
    BY <2>4, <2>5
<1> HIDE DEF read
<1>6. x \in TaskStates /\ x.phase = "ticked" /\ x.cancelled = task[n].cancelled
  BY <1>3, <1>5 DEF TaskStates
<1> HIDE DEF x
<1>7. UNCHANGED <<asked, setter, handle, write, high, reported, tried, intruded>>
  BY DEF Ticks
<1>8. QED
  BY <1>3, <1>4, <1>6, <1>7, TaskMoves

\* An aborted task stops at the lock.
LEMMA StopsLights == ASSUME NEW n \in LedCalls, LedSound, StopsAtLock(n) PROVE LedSound'
<1> DEFINE x == [task[n] EXCEPT !.phase = "gone"]
<1>1. task[n] \in TaskStates /\ task[n].phase = "ticked"
  BY DEF LedSound, LedTypeOK, TaskStates, StopsAtLock
<1>2. task' = [task EXCEPT ![n] = x]
  BY DEF StopsAtLock
<1>3. x \in TaskStates /\ x.phase = "gone" /\ x.cancelled = task[n].cancelled
  BY <1>1 DEF TaskStates
<1> HIDE DEF x
<1>4. UNCHANGED <<asked, setter, handle, write, high, reported, tried, intruded>>
  BY DEF StopsAtLock
<1>5. QED
  BY <1>1, <1>2, <1>3, <1>4, TaskMoves

\* A task takes the lock; its write stays below the ceiling.
LEMMA TaskLocksLights == ASSUME NEW n \in LedCalls, LedSound, TaskLocks(n) PROVE LedSound'
<1> DEFINE x == [task[n] EXCEPT !.phase = "writing"]
           lit == IF Over(asked[n], task[n].time) THEN 0
                  ELSE lit_fraction(asked[n], task[n].time)
<1>1. LedTypeOK /\ LockHeld /\ Animations /\ Ring
  BY DEF LedSound
<1>2. /\ write = NoWrite /\ task[n].phase = "ticked"
      /\ write' = [by |-> "task", call |-> n, selected |-> FALSE, lit |-> lit]
      /\ asked' = asked /\ setter' = setter /\ handle' = handle /\ high' = high
      /\ reported' = reported /\ tried' = tried /\ intruded' = intruded
  BY DEF TaskLocks
<1>3. task' = [task EXCEPT ![n] = x]
  BY DEF TaskLocks
<1>4. task \in [LedCalls -> TaskStates]
  BY <1>1 DEF LedTypeOK, TaskStates
<1>5. x \in TaskStates /\ x.phase = "writing" /\ x.cancelled = task[n].cancelled
  BY <1>4 DEF TaskStates
<1> HIDE DEF x
<1>6. /\ task' \in [LedCalls -> TaskStates] /\ task'[n] = x
      /\ \A m \in LedCalls : m # n => task'[m] = task[m]
  BY <1>3, <1>4, <1>5
<1>7. n \in 1..Len(asked) /\ asked[n] \in Requests
  <2>1. Len(asked) \in Nat /\ n \in Nat /\ n >= 1
    BY <1>1, LenProperties, StatusLedAssumption DEF LedTypeOK, LedCalls
  <2>2. n <= Len(asked)
    BY <1>1, <1>2 DEF Animations
  <2>3. n \in 1..Len(asked)
    BY <2>1, <2>2
  <2>4. QED
    BY <1>1, <2>3, ElementOfSeq DEF LedTypeOK
<1>8. lit \in 0..Ceiling /\ Ceiling \in 0..Full /\ Full \in Nat
  <2>1. Ceiling \in 0..Full /\ Full \in Nat
    BY StatusLedAssumption
  <2>2. task[n].time \in Nat
    BY <1>4, StatusLedAssumption DEF TaskStates
  <2>3. lit_fraction(asked[n], task[n].time) \in 0..Ceiling
    BY <1>7, <2>2, FractionBounded
  <2>4. QED
    BY <2>1, <2>3
<1> HIDE DEF lit
<1>9. /\ write' \in [by : {"nobody", "set", "task"}, call : 0..Len(asked), lit : 0..Full,
                     selected : BOOLEAN]
      /\ write'.by = "task" /\ write'.call = n /\ write'.lit <= Ceiling /\ ~write'.selected
  BY <1>2, <1>7, <1>8
<1>10. LedTypeOK'
  <2>1. \A m \in LedCalls : task'[m].phase \in {"none", "gone"} \/ task'[m].cancelled \/ m = handle
    BY <1>1, <1>2, <1>5, <1>6 DEF LedTypeOK
  <2>2. QED
    BY <1>1, <1>2, <1>6, <1>9, <2>1 DEF LedTypeOK, TaskStates
<1>11. LockHeld'
  BY <1>2, <1>5, <1>6, <1>7, <1>9 DEF LockHeld, NoWrite
<1>12. Animations'
  <2>1. setter # "writing"
    BY <1>1, <1>2 DEF Animations, NoWrite
  <2>2. setter = "ready" => n # Current
    BY <1>1, <1>2 DEF Animations
  <2>3. QED
    BY <1>1, <1>2, <1>5, <1>6, <1>7, <2>1, <2>2 DEF Animations, Current
<1>13. Ring'
  BY <1>1, <1>2 DEF Ring, LitOnly, Lit
<1>14. QED
  BY <1>10, <1>11, <1>12, <1>13 DEF LedSound

LEMMA LedStep == LedSound /\ [LedNext]_ledVars => LedSound'
<1> SUFFICES ASSUME LedSound, [LedNext]_ledVars PROVE LedSound'
  OBVIOUS
<1>1. CASE \E r \in Requests : Call(r)
  BY <1>1, CallLights
<1>2. CASE Locks
  BY <1>2, LocksLights
<1>3. CASE Spawns
  BY <1>3, SpawnsLights
<1>4. CASE Selects
  BY <1>4, SelectsLights
<1>5. CASE Drives
  BY <1>5, DrivesLights
<1>6. CASE DriveFails
  BY <1>6, DriveFailsLights
<1>7. CASE Drop
  BY <1>7, DropLights
<1>8. CASE \E n \in LedCalls : Animation(n)
  <2>1. PICK n \in LedCalls : Animation(n)
    BY <1>8
  <2>2. QED
    BY <2>1, TicksLights, TaskLocksLights, StopsLights DEF Animation
<1>9. CASE UNCHANGED ledVars
  BY <1>9 DEF ledVars, LedSound, LedTypeOK, LockHeld, Animations, Ring, LitOnly, Lit, Current
<1>10. QED
  BY <1>1, <1>2, <1>3, <1>4, <1>5, <1>6, <1>7, <1>8, <1>9 DEF LedNext

\* The resistor that the three channels share is never overloaded, whichever tasks write
\* and whichever writes fail, and between calls the ring is lit in no colour but the one
\* that apply_status_led reported, unless an aborted animation wrote once more.
THEOREM RingIsSafe == LedSpec => []LedInv
<1>1. LedSound => LedInv
  <2> SUFFICES ASSUME LedSound PROVE LedInv
    OBVIOUS
  <2>1. Ring /\ LedTypeOK
    BY DEF LedSound
  <2>2. \A c \in Channels : Lit(c) > 0 => high[c] # Inactive
    BY <2>1, StatusLedAssumption DEF Lit, Inactive, LedTypeOK
  <2>3. \A c \in Channels : high[c] = Inactive => Lit(c) = 0
    BY <2>1, StatusLedAssumption DEF Lit, Inactive, LedTypeOK
  <2>4. OneChannel
    BY <2>1, <2>2, <2>3 DEF Ring, LitOnly, OneChannel
  <2>5. LitIsReported
    BY <2>1, <2>2 DEF Ring, LitOnly, LitIsReported
  <2>6. QED
    BY <2>1, <2>4, <2>5 DEF LedInv
<1>2. QED
  BY <1>1, InitLed, LedStep, PTL DEF LedSpec
=============================================================================
