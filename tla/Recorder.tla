------------------------------ MODULE Recorder ------------------------------
(***************************************************************************)
(* The mouthpiece: PiAudioSource of booth-pi, the thread that captures and *)
(* then finalizes a recording, and booth-bin's FileStorage, in which the   *)
(* path of a recording is kept.  Both write files, and the booth may lose  *)
(* its power between any two steps.                                        *)
(*                                                                         *)
(* Recordings are numbered.  Their ids are digests of their contents: two  *)
(* recordings are taken to differ.  What was captured counts only by       *)
(* length, and the FLAC encoding by whether it succeeds.                   *)
(***************************************************************************)
EXTENDS Integers, FiniteSets, Functions

CONSTANTS
    MaxRecordings,  \* bound: how many recordings are begun
    MaxCrashes,     \* bound: how often the power fails
    MaxSamples,     \* max_samples of record_blocking, in units of capture
    MinSamples      \* min_recording_secs, likewise: shorter ones are discarded

ASSUME RecorderAssumption ==
    /\ MaxRecordings \in Nat /\ MaxCrashes \in Nat
    /\ MaxSamples \in Nat \ {0} /\ MinSamples \in Nat

VARIABLES
    holder,     \* what PiAudioSource is doing with its recording task
    begun,      \* how many recordings were begun; the last one is the task's
    thread,     \* the recording thread: [phase, cancel, stalled, failed]
    captured,   \* how much of each recording was captured
    dir,        \* the directories as programs see them: name to file
    ondisk,     \* the directories as the disk has them
    written,    \* the files whose contents were handed to the system
    synced,     \* the files whose contents are on the disk
    torn,       \* the files that lost contents in a power failure
    finished,   \* PiAudioSource::finished
    answered,   \* history: the recordings that stop returned
    dropped,    \* history: of these, the ones discarded as too short
    crashes

recorderVars == <<holder, begun, thread, captured, dir, ondisk, written, synced, torn,
          finished, answered, dropped, crashes>>

source == <<holder, begun, finished, answered, dropped, crashes>>
disk == <<dir, ondisk, written, synced, torn>>

Recordings == 1..MaxRecordings

\* A recording has two files, each first written under a temporary name: its
\* audio and, in the FileStorage, its path.
File == {"audio", "path"} \X Recordings
Temp(f) == <<"temp", f>>
Final(f) == <<"final", f>>
Names == {"temp", "final"} \X File
Audio(r) == <<"audio", r>>
Path(r) == <<"path", r>>

\* A directory maps names to files.
Linked(d, n, f) == [m \in DOMAIN d \cup {n} |-> IF m = n THEN f ELSE d[m]]
Unlinked(d, n) == Restrict(d, DOMAIN d \ {n})
Moved(d, f) == Linked(Unlinked(d, Temp(f)), Final(f), f)

NoThread == [phase |-> "none", cancel |-> FALSE, stalled |-> FALSE, failed |-> FALSE]

RecorderInit ==
    /\ holder = "free"
    /\ begun = 0
    /\ thread = NoThread
    /\ captured = [r \in Recordings |-> 0]
    /\ dir = <<>> /\ ondisk = <<>>
    /\ written = {} /\ synced = {} /\ torn = {}
    /\ finished = {} /\ answered = {} /\ dropped = {}
    /\ crashes = 0

-----------------------------------------------------------------------------
(* PiAudioSource.                                                          *)

\* start: the thread is spawned; whether it finds a device is not waited for.
StartRecording ==
    /\ holder = "free" /\ begun < MaxRecordings
    /\ holder' = "held"
    /\ begun' = begun + 1
    /\ thread' = [NoThread EXCEPT !.phase = "opening"]
    /\ UNCHANGED <<captured, disk, finished, answered, dropped, crashes>>

\* Mutated StopTakes: the thread is joined without being told.
StopTakesUntold ==
    /\ holder = "held"
    /\ holder' = "joining"
    /\ UNCHANGED <<begun, thread, captured, disk, finished, answered, dropped, crashes>>

\* stop_recording takes the task, tells its thread to stop, and joins it.
StopTakes ==
    /\ holder = "held"
    /\ holder' = "joining"
    /\ thread' = [thread EXCEPT !.cancel = TRUE]
    /\ UNCHANGED <<begun, captured, disk, finished, answered, dropped, crashes>>

\* The join returns: with an error, which is the answer, or with a handle, whose
\* path is then persisted.
StopJoins ==
    /\ holder = "joining" /\ thread.phase = "ended"
    /\ holder' = IF thread.failed THEN "free" ELSE "persisting"
    /\ thread' = NoThread
    /\ UNCHANGED <<begun, captured, disk, finished, answered, dropped, crashes>>

\* FileStorage::set, its first half: the temporary file.
StoreWrites ==
    /\ holder = "persisting"
    /\ holder' = "storing"
    /\ dir' = Linked(dir, Temp(Path(begun)), Path(begun))
    /\ written' = written \cup {Path(begun)}
    /\ UNCHANGED <<begun, thread, captured, ondisk, synced, torn, finished, answered,
                   dropped, crashes>>

Handed == finished' = finished \cup {begun} /\ answered' = answered \cup {begun}

\* Its second half: the rename.  stop then returns the id.
StoreRenames ==
    /\ holder = "storing"
    /\ holder' = "free"
    /\ dir' = Moved(dir, Path(begun))
    /\ Handed
    /\ UNCHANGED <<begun, thread, captured, ondisk, written, synced, torn, dropped, crashes>>

\* Either half fails: the temporary file is removed if it was the rename, the
\* failure is logged, and stop returns the id all the same.
StoreFails ==
    /\ holder \in {"persisting", "storing"}
    /\ holder' = "free"
    /\ dir' = Unlinked(dir, Temp(Path(begun)))
    /\ Handed
    /\ UNCHANGED <<begun, thread, captured, ondisk, written, synced, torn, dropped, crashes>>

\* Mutated Discard: the recording stays among those that are finished.
DiscardKeepsHandle(r) ==
    /\ r \in finished /\ captured[r] < MinSamples
    /\ dropped' = dropped \cup {r}
    /\ dir' = Unlinked(Unlinked(dir, Final(Path(r))), Final(Audio(r)))
    /\ UNCHANGED <<holder, begun, thread, captured, ondisk, written, synced, torn, finished,
                   answered, crashes>>

\* effect_task, UploadRecording: an answer that is too short is discarded, its
\* file with it.  Without a duration, after a restart, it is not.
Discard(r) ==
    /\ r \in finished /\ captured[r] < MinSamples
    /\ finished' = finished \ {r}
    /\ dropped' = dropped \cup {r}
    /\ dir' = Unlinked(Unlinked(dir, Final(Path(r))), Final(Audio(r)))
    /\ UNCHANGED <<holder, begun, thread, captured, ondisk, written, synced, torn, answered,
                   crashes>>

\* cleanup_recording once the operator has the recording: the audio file stays.
CleansUp(r) ==
    /\ r \in answered \ dropped
    /\ Final(Path(r)) \in DOMAIN dir \/ r \in finished
    /\ finished' = finished \ {r}
    /\ dir' = Unlinked(dir, Final(Path(r)))
    /\ UNCHANGED <<holder, begun, thread, captured, ondisk, written, synced, torn, answered,
                   dropped, crashes>>

-----------------------------------------------------------------------------
(* record_blocking, its input stream, and finalize_recording.              *)

CaptureOpens ==
    /\ thread.phase = "opening"
    /\ thread' = [thread EXCEPT !.phase = "capturing"]
    /\ UNCHANGED <<captured, disk, source>>

\* Any step up to the end may fail; the thread then ends with the error, which
\* waits for stop.
Fails ==
    /\ thread.phase \in {"opening", "encoding", "writing", "renaming", "syncing"}
    /\ thread' = [thread EXCEPT !.phase = "ended", !.failed = TRUE]
    /\ UNCHANGED <<captured, disk, source>>

\* Mutated Captures: the limit is looked at one sample late.
CapturesOneMore ==
    /\ thread.phase = "capturing" /\ ~thread.cancel /\ ~thread.stalled
    /\ captured' = [captured EXCEPT ![begun] = @ + 1]
    /\ thread' = [thread EXCEPT !.cancel = (captured'[begun] > MaxSamples)]
    /\ UNCHANGED <<disk, source>>

\* The input callback appends samples until it is told to stop; a full recording
\* stops itself.
Captures ==
    /\ thread.phase = "capturing" /\ ~thread.cancel /\ ~thread.stalled
    /\ captured' = [captured EXCEPT ![begun] = @ + 1]
    /\ thread' = [thread EXCEPT !.cancel = (captured'[begun] >= MaxSamples)]
    /\ UNCHANGED <<disk, source>>

\* Mutated StreamError: the error is only logged.
CaptureErrorLogged ==
    /\ thread.phase = "capturing" /\ ~thread.stalled
    /\ thread' = [thread EXCEPT !.stalled = TRUE]
    /\ UNCHANGED <<captured, disk, source>>

\* err_fn: the stream fails, its callbacks stop, and the recording ends.
CaptureError ==
    /\ thread.phase = "capturing" /\ ~thread.stalled
    /\ thread' = [thread EXCEPT !.stalled = TRUE, !.cancel = TRUE]
    /\ UNCHANGED <<captured, disk, source>>

\* The wait loop ends and drops the stream; what was captured goes to be encoded.
CaptureCloses ==
    /\ thread.phase = "capturing" /\ thread.cancel
    /\ thread' = [thread EXCEPT !.phase = "encoding"]
    /\ UNCHANGED <<captured, disk, source>>

\* It also ends after max_recording_secs.
TimeIsUp ==
    /\ thread.phase = "capturing" /\ ~thread.cancel
    /\ thread' = [thread EXCEPT !.phase = "encoding"]
    /\ UNCHANGED <<captured, disk, source>>

\* The audio is encoded, and its temporary file created.
Encodes ==
    /\ thread.phase = "encoding"
    /\ dir' = Linked(dir, Temp(Audio(begun)), Audio(begun))
    /\ thread' = [thread EXCEPT !.phase = "writing"]
    /\ UNCHANGED <<captured, ondisk, written, synced, torn, source>>

\* Mutated Writes: the contents are not synchronized.
WritesUnsynced ==
    /\ thread.phase = "writing"
    /\ written' = written \cup {Audio(begun)}
    /\ thread' = [thread EXCEPT !.phase = "renaming"]
    /\ UNCHANGED <<captured, dir, ondisk, synced, torn, source>>

\* write_all and sync_all.
Writes ==
    /\ thread.phase = "writing"
    /\ written' = written \cup {Audio(begun)}
    /\ synced' = synced \cup {Audio(begun)}
    /\ thread' = [thread EXCEPT !.phase = "renaming"]
    /\ UNCHANGED <<captured, dir, ondisk, torn, source>>

\* The file gets its name.
Renames ==
    /\ thread.phase = "renaming"
    /\ dir' = Moved(dir, Audio(begun))
    /\ thread' = [thread EXCEPT !.phase = "syncing"]
    /\ UNCHANGED <<captured, ondisk, written, synced, torn, source>>

\* Mutated Syncs: the directory is left to the system.
SyncsNothing ==
    /\ thread.phase = "syncing"
    /\ thread' = [thread EXCEPT !.phase = "ended"]
    /\ UNCHANGED <<captured, disk, source>>

\* The directory is synchronized, and the thread returns the handle.
Syncs ==
    /\ thread.phase = "syncing"
    /\ ondisk' = dir
    /\ thread' = [thread EXCEPT !.phase = "ended"]
    /\ UNCHANGED <<captured, dir, written, synced, torn, source>>

-----------------------------------------------------------------------------
(* The system under the booth.                                             *)

\* It writes names and contents back when it likes, in either order.
WritesNames ==
    /\ ondisk # dir
    /\ ondisk' = dir
    /\ UNCHANGED <<captured, thread, dir, written, synced, torn, source>>

WritesContents(f) ==
    /\ f \in written \ synced
    /\ synced' = synced \cup {f}
    /\ UNCHANGED <<captured, thread, dir, ondisk, written, torn, source>>

\* The power fails: what was not written back may be lost, in part or whole, and
\* the booth starts again with the directories the disk has.
PowerFails ==
    /\ crashes < MaxCrashes
    /\ crashes' = crashes + 1
    /\ dir' = ondisk
    /\ \E lost \in SUBSET (Range(ondisk) \ synced) :
          /\ torn' = torn \cup lost
          /\ synced' = synced \cup (Range(ondisk) \ lost)
    /\ holder' = "free"
    /\ thread' = NoThread
    /\ finished' = {}
    /\ UNCHANGED <<begun, captured, ondisk, written, answered, dropped>>

-----------------------------------------------------------------------------
CaptureThread ==
    \/ CaptureOpens \/ Fails \/ Captures \/ CaptureError \/ CaptureCloses \/ TimeIsUp
    \/ Encodes \/ Writes \/ Renames \/ Syncs

RecorderNext ==
    \/ StartRecording \/ StopTakes \/ StopJoins \/ StoreWrites \/ StoreRenames \/ StoreFails
    \/ \E r \in Recordings : Discard(r) \/ CleansUp(r)
    \/ CaptureThread
    \/ WritesNames
    \/ \E f \in File : WritesContents(f)
    \/ PowerFails

\* The thread and the task that stops it run.  Nothing is assumed of the device,
\* nor of the clock: a recording need not wait for its longest duration.
RecorderFairness ==
    /\ WF_recorderVars(CaptureOpens \/ Fails)
    /\ WF_recorderVars(CaptureCloses)
    /\ WF_recorderVars(Encodes \/ Writes \/ Renames \/ Syncs)
    /\ WF_recorderVars(StopJoins)
    /\ WF_recorderVars(StoreWrites \/ StoreRenames \/ StoreFails)

RecorderSpec == RecorderInit /\ [][RecorderNext]_recorderVars /\ RecorderFairness

-----------------------------------------------------------------------------
Phases == {"none", "opening", "capturing", "encoding", "writing", "renaming", "syncing",
           "ended"}

\* Every variable has its type; a recording holds no more than it may.
RecorderTypeOK ==
    /\ holder \in {"free", "held", "joining", "persisting", "storing"}
    /\ begun \in 0..MaxRecordings
    /\ thread \in [phase : Phases, cancel : BOOLEAN, stalled : BOOLEAN, failed : BOOLEAN]
    /\ captured \in [Recordings -> 0..MaxSamples]
    /\ DOMAIN dir \subseteq Names /\ Range(dir) \subseteq File
    /\ DOMAIN ondisk \subseteq Names /\ Range(ondisk) \subseteq File
    /\ written \subseteq File /\ synced \subseteq File /\ torn \subseteq File
    /\ finished \subseteq Recordings
    /\ answered \subseteq Recordings /\ dropped \subseteq answered
    /\ crashes \in 0..MaxCrashes

\* A file under a recording's name has the recording's contents: no failure of
\* power or disk leaves part of a recording under the digest of the whole.
NamesAreContents ==
    \A r \in Recordings :
        Final(Audio(r)) \in DOMAIN dir => Audio(r) \in written \ torn

\* A recording that stop returned is on the disk, under its name, through every
\* later power failure, unless the booth itself discarded it.
AnswerIsOnDisk ==
    \A r \in answered \ dropped :
        Final(Audio(r)) \in DOMAIN ondisk /\ Audio(r) \in synced \ torn

\* As long as the booth runs, nothing it has recorded is taken from it: of an
\* answer known to be long enough, the file can be found and read.
KnownIsThere ==
    \A r \in finished : Final(Audio(r)) \in DOMAIN dir /\ r \in answered

\* An input stream that fails ends its recording: the microphone does not stay
\* open until the longest duration has passed.
FailedStreamCloses ==
    (thread.phase = "capturing" /\ thread.stalled) ~> (thread.phase # "capturing")

\* stop always returns, whatever the device and the disk do.
RecorderStopReturns == (holder = "joining") ~> (holder = "free")

\* What file_storage.rs says of its writes, "a crash mid-write cannot leave a
\* corrupt key": no key has lost its value.
KeysAreWhole ==
    \A r \in Recordings : Final(Path(r)) \in DOMAIN dir => Path(r) \notin torn

\* An answer, once finalized, survives a power failure whole and under its own name.
RecorderInv ==
    /\ RecorderTypeOK /\ NamesAreContents /\ AnswerIsOnDisk /\ KnownIsThere
=============================================================================
