----------------------------- MODULE Livestream -----------------------------
(***************************************************************************)
(* The livestream watcher (daemon/livestream_watcher.py) and the recorder  *)
(* it starts for a creator who goes live (download/livestream.py,          *)
(* fileio/livestream.py, pathio/livestream.py), with the crash and the     *)
(* restart that salvages what a recorder left behind.                      *)
(*                                                                         *)
(* One creator in scope, who may broadcast several times.  A segment is    *)
(* <<broadcast, media sequence number>>; a segment directory maps the      *)
(* index in the file's name to the segment written there last; a           *)
(* recording is named <<broadcast, part>>, after channel.stream.startedAt. *)
(* Delays are not modelled: a step that waits may come at any time.        *)
(***************************************************************************)
EXTENDS Integers, Sequences, SequencesExt, FiniteSetsExt

CONSTANTS
    MaxShows,     \* bound: broadcasts of the creator
    MaxSegs,      \* bound: segments of a broadcast
    ListWindow,   \* how many segments a manifest lists (15 on IVS)
    MaxAttempts,  \* _MAX_OPEN_RETRIES
    Faults,       \* which of "open", "segment", "mux" and "crash" may happen
    MaxFailures   \* bound: how often they do, all together

ASSUME StreamAssumption == MaxShows \in Nat /\ MaxFailures \in Nat

Shows == 1..MaxShows
Parts == 1..(MaxFailures + 1)       \* each fault makes a broadcast another one at most
Names == Shows \X Parts
Nothing == [whole |-> FALSE, segs |-> <<>>, bytes |-> FALSE]
NoTask == [at |-> "none", show |-> 0, name |-> <<0, 0>>, attempt |-> 0, of |-> 0,
           got |-> <<>>, last |-> -1, stop |-> FALSE]

VARIABLES
    playlist, \* per broadcast, what its variant URL serves
    edge,     \* per broadcast, segments published so far
    watcher,  \* where the watcher is
    seen,     \* the answer of followingstreams/online a poll is waiting for
    task,     \* the creator's entry in _active_recordings
    stopping, \* the global stop event
    todo,     \* orphan directories the salvage pass has still to look at
    dirs,     \* per recording, its segment directory or none
    outs,     \* per recording, the MP4
    failures  \* faults so far

streamVars == <<playlist, edge, watcher, seen, task, stopping, todo, dirs, outs, failures>>
serviceVars == <<playlist, edge>>
diskVars == <<dirs, outs>>

OnAir(b) == playlist[b] = "open"
Online == Max({b \in Shows : OnAir(b)} \cup {0})
Latest == Max({b \in Shows : playlist[b] # "none"} \cup {0})

NoDir == [here |-> FALSE, files |-> <<>>]

StreamInit ==
    /\ playlist = [b \in Shows |-> "none"] /\ edge = [b \in Shows |-> 0]
    /\ watcher = "down" /\ seen = 0 /\ task = NoTask
    /\ stopping = FALSE /\ todo = {}
    /\ dirs = [n \in Names |-> NoDir] /\ outs = [n \in Names |-> Nothing]
    /\ failures = 0

Hit(kind) == kind \in Faults /\ failures < MaxFailures /\ failures' = failures + 1
NoFault == UNCHANGED failures

-----------------------------------------------------------------------------
(* The creator and IVS. *)

GoLive ==
    /\ Online = 0 /\ Latest < MaxShows
    /\ playlist' = [playlist EXCEPT ![Latest + 1] = "open"]
    /\ UNCHANGED <<edge, watcher, seen, task, stopping, todo, diskVars, failures>>

PublishSegment ==
    /\ Online # 0 /\ edge[Online] < MaxSegs
    /\ edge' = [edge EXCEPT ![Online] = @ + 1]
    /\ UNCHANGED <<playlist, watcher, seen, task, stopping, todo, diskVars, failures>>

\* The playlist ends with EXT-X-ENDLIST and is purged shortly after.
GoesOff(b, from, to) ==
    /\ playlist[b] = from
    /\ playlist' = [playlist EXCEPT ![b] = to]
    /\ UNCHANGED <<edge, watcher, seen, task, stopping, todo, diskVars, failures>>
EndShow == \E b \in Shows : GoesOff(b, "open", "endlist")
Purge == \E b \in Shows : GoesOff(b, "endlist", "gone")

-----------------------------------------------------------------------------
(* The watcher: salvage, then polls until the stop event. *)

\* start_livestream_watcher, and the directories _salvage_orphan_segments
\* finds: every one of ours, whoever left it.
StartWatcher ==
    /\ watcher = "down" /\ ~stopping
    /\ watcher' = "salvage"
    /\ todo' = {n \in Names : dirs[n].here}
    /\ UNCHANGED <<serviceVars, seen, task, stopping, diskVars, failures>>

\* Recordings in the order of their names.
Next1 == CHOOSE n \in todo : \A m \in todo :
             n[1] < m[1] \/ (n[1] = m[1] /\ n[2] <= m[2])

\* The files of a directory, by index.
Sorted(files) == SetToSortSeq(DOMAIN files, <)
InOrder(files) == [i \in 1..Cardinality(DOMAIN files) |-> files[Sorted(files)[i]]]

\* rmtree without a mux: the output has bytes already, or there is no segment.
Spent(n) == outs[n].bytes \/ dirs[n].files = <<>>

SalvageRemoves ==
    /\ watcher = "salvage" /\ todo # {} /\ ~stopping /\ Spent(Next1)
    /\ dirs' = [dirs EXCEPT ![Next1] = NoDir]
    /\ todo' = todo \ {Next1}
    /\ UNCHANGED <<serviceVars, watcher, seen, task, stopping, outs, failures>>

\* av.open(output, "w"): from here to close() the file has bytes, no moov.
Partial == [whole |-> FALSE, segs |-> <<>>, bytes |-> TRUE]

SalvageMuxes ==
    /\ watcher = "salvage" /\ todo # {} /\ ~stopping /\ ~Spent(Next1)
    /\ watcher' = "mux"
    /\ outs' = [outs EXCEPT ![Next1] = Partial]
    /\ UNCHANGED <<serviceVars, seen, task, stopping, todo, dirs, failures>>

Muxed(n, segs) ==
    /\ outs' = [outs EXCEPT ![n] = [whole |-> TRUE, segs |-> segs, bytes |-> TRUE]]
    /\ dirs' = [dirs EXCEPT ![n] = NoDir]
    /\ NoFault

\* A mux that fails or is interrupted closes its file: empty, or a beginning.
Unmuxed(n) ==
    /\ outs' \in {[outs EXCEPT ![n] = Nothing], [outs EXCEPT ![n] = Partial]}
    /\ UNCHANGED dirs

SalvageMuxed ==
    /\ watcher = "mux"
    /\ \/ Muxed(Next1, InOrder(dirs[Next1].files))
       \/ Unmuxed(Next1) /\ (Hit("mux") \/ (stopping /\ NoFault))
    /\ watcher' = "salvage" /\ todo' = todo \ {Next1}
    /\ UNCHANGED <<serviceVars, seen, task, stopping>>

SalvageEnds ==
    /\ watcher = "salvage" /\ (todo = {} \/ stopping)
    /\ watcher' = "idle" /\ todo' = {}
    /\ UNCHANGED <<serviceVars, seen, task, stopping, diskVars, failures>>

Ask ==
    /\ watcher = "idle" /\ ~stopping
    /\ watcher' = "asked" /\ seen' = Online
    /\ UNCHANGED <<serviceVars, task, stopping, todo, diskVars, failures>>

\* Faulty variant: a finished recorder keeps its entry.
DiffedKeepsDone(live) ==
    IF task.at = "none"
    THEN IF live = 0 THEN NoTask ELSE [NoTask EXCEPT !.at = "spawned", !.show = live]
    ELSE [task EXCEPT !.stop = @ \/ live = 0]
\* A creator live and without an entry gets a recorder; one with an entry who
\* is not live any more has its recorder told to stop; a finished recorder
\* gives up its entry, last of all.
Diffed(live) ==
    IF task.at = "none"
    THEN IF live = 0 THEN NoTask ELSE [NoTask EXCEPT !.at = "spawned", !.show = live]
    ELSE IF task.at = "done" THEN NoTask ELSE [task EXCEPT !.stop = @ \/ live = 0]

Diff ==
    /\ watcher = "asked"
    /\ watcher' = "idle" /\ seen' = 0
    /\ task' = Diffed(seen)
    /\ UNCHANGED <<serviceVars, stopping, todo, diskVars, failures>>

\* The end of _watcher_loop, and stop_all_recordings.
WatcherStops ==
    /\ watcher = "idle" /\ stopping
    /\ watcher' = "stopped"
    /\ task' = [task EXCEPT !.stop = @ \/ task.at # "none"]
    /\ UNCHANGED <<serviceVars, seen, stopping, todo, diskVars, failures>>

\* The program ends its run: _watcher_stop.set() and stop_all_recordings.
Shutdown ==
    /\ watcher # "down" /\ ~stopping
    /\ stopping' = TRUE
    /\ task' = [task EXCEPT !.stop = @ \/ task.at # "none"]
    /\ UNCHANGED <<serviceVars, watcher, seen, todo, diskVars, failures>>

\* A recorder that has not ended sixty seconds later is cancelled; a mux in
\* its thread runs on, and nothing is left to clean up after it.
CancelTask ==
    /\ stopping /\ task.at \in {"spawned", "open", "poll", "mux"}
    /\ task' = [task EXCEPT !.at = "done"]
    /\ outs' \in IF task.at # "mux" THEN {outs}
                 ELSE {outs, [outs EXCEPT ![task.name] =
                          [whole |-> TRUE, bytes |-> TRUE,
                           segs |-> [i \in DOMAIN task.got |->
                                        dirs[task.name].files[task.got[i]]]]]}
    /\ UNCHANGED <<serviceVars, watcher, seen, stopping, todo, dirs, failures>>

-----------------------------------------------------------------------------
(* The recorder: _record_stream. *)

\* Faulty variant: only a directory takes a slot.
TakenByDirOnly(n) == dirs[n].here
\* _unique_output_path: the first part whose MP4 and directory are not there.
Taken(n) == outs[n].bytes \/ dirs[n].here
FreePart(b) == Min({k \in Parts : ~Taken(<<b, k>>)})

BeginRecording ==
    /\ task.at = "spawned"
    /\ LET name == <<task.show, FreePart(task.show)>>
       IN /\ task' = [task EXCEPT !.at = "open", !.name = name, !.attempt = 1]
          /\ dirs' = [dirs EXCEPT ![name] = [here |-> TRUE, files |-> <<>>]]
    /\ UNCHANGED <<serviceVars, watcher, seen, stopping, todo, outs, failures>>

Finished(t) == [t EXCEPT !.at = "done"]
Stopped == task.stop \/ stopping
Retried(t) == IF t.attempt < MaxAttempts
              THEN [t EXCEPT !.at = "open", !.attempt = @ + 1, !.got = <<>>, !.last = -1]
              ELSE Finished(t)

\* A fresh master URL of the creator's channel, whatever it carries by now, and
\* the best variant of it; 0 when there is none.
Variant == IF playlist[Latest] \in {"open", "endlist"} THEN Latest ELSE 0

\* One attempt gets as far as the poll loop, or does not.
OpenStream ==
    /\ task.at = "open"
    /\ \/ Stopped /\ task' = Finished(task) /\ NoFault
       \/ ~Stopped /\ Variant # 0 /\ task' = [task EXCEPT !.at = "poll", !.of = Variant] /\ NoFault
       \/ ~Stopped /\ Variant = 0 /\ task' = Retried(task) /\ NoFault
       \/ ~Stopped /\ task' = Retried(task) /\ Hit("open")
    /\ UNCHANGED <<serviceVars, watcher, seen, stopping, todo, diskVars>>

Listed(b) == Max({0, edge[b] - ListWindow})..(edge[b] - 1)
Fresh(t) == SetToSortSeq({s \in Listed(t.of) : s > t.last}, <)

\* What the poll loop adds for the segments `jobs` of one manifest, of which
\* those at `ok` arrive.  The index in a file's name counts what was collected
\* before and every job of this manifest; what failed is passed over for good
\* once a later segment has been collected.
Index(k) == Len(task.got) + k - 1
Written(jobs, ok) ==
    [dirs EXCEPT ![task.name].files =
        [i \in DOMAIN @ \cup {Index(k) : k \in ok} |->
            IF \E k \in ok : i = Index(k)
            THEN <<task.of, jobs[i - Len(task.got) + 1]>> ELSE @[i]]]
Collected(jobs, ok) ==
    [task EXCEPT !.got = @ \o [k \in DOMAIN SetToSortSeq(ok, <) |->
                                  Index(SetToSortSeq(ok, <)[k])],
                 !.last = IF ok = {} THEN @ ELSE jobs[Max(ok)]]

\* What follows the loop: the mux of what there is, or another attempt.
Leave(t) ==
    /\ task' = IF t.got = <<>> THEN Retried(t) ELSE [t EXCEPT !.at = "mux"]
    /\ outs' = IF t.got = <<>> THEN outs ELSE [outs EXCEPT ![t.name] = Partial]

\* A playlist that is gone fails every fetch: the loop waits and asks again.
Poll ==
    /\ task.at = "poll" /\ ~Stopped /\ playlist[task.of] \in {"open", "endlist"}
    /\ LET jobs == Fresh(task)
       IN \E ok \in SUBSET DOMAIN jobs :
           /\ IF ok = DOMAIN jobs THEN NoFault ELSE Hit("segment")
           /\ dirs' = Written(jobs, ok)
           /\ IF playlist[task.of] = "endlist" THEN Leave(Collected(jobs, ok))
              ELSE task' = Collected(jobs, ok) /\ UNCHANGED outs
    /\ UNCHANGED <<serviceVars, watcher, seen, stopping, todo>>

\* Faulty variant: a manifest that fails is fetched again whatever the stop event says.
PollStopsIfServed ==
    /\ task.at = "poll" /\ Stopped /\ playlist[task.of] # "gone"
    /\ Leave(task)
    /\ UNCHANGED <<serviceVars, watcher, seen, stopping, todo, dirs, failures>>
PollStops ==
    /\ task.at = "poll" /\ Stopped
    /\ Leave(task)
    /\ UNCHANGED <<serviceVars, watcher, seen, stopping, todo, dirs, failures>>

Mux ==
    /\ task.at = "mux"
    /\ \/ /\ Muxed(task.name, [i \in DOMAIN task.got |->
                                  dirs[task.name].files[task.got[i]]])
          /\ task' = Finished(task)
       \/ Unmuxed(task.name) /\ Hit("mux") /\ task' = Retried(task)
    /\ UNCHANGED <<serviceVars, watcher, seen, stopping, todo>>

-----------------------------------------------------------------------------
(* The process ends, by itself or not; what was in memory is gone. *)

Gone == /\ watcher' = "down" /\ seen' = 0 /\ task' = NoTask
        /\ stopping' = FALSE /\ todo' = {}
        /\ UNCHANGED <<serviceVars, diskVars>>
Exit == /\ watcher = "stopped" /\ task.at \in {"none", "done"}
        /\ Hit("crash") /\ Gone
Crash == watcher # "down" /\ Hit("crash") /\ Gone

RecorderStep == BeginRecording \/ OpenStream \/ Poll \/ PollStops \/ Mux
Watch == \/ StartWatcher \/ SalvageRemoves \/ SalvageMuxes \/ SalvageMuxed
         \/ SalvageEnds \/ Ask \/ Diff \/ WatcherStops
StreamNext ==
    \/ GoLive \/ PublishSegment \/ EndShow \/ Purge
    \/ Watch \/ RecorderStep \/ Shutdown \/ CancelTask \/ Exit \/ Crash

\* The event loop runs every task that is ready; the timeouts on each request
\* and the bound on each sleep make every wait end.
StreamFairness == WF_streamVars(Watch) /\ WF_streamVars(RecorderStep)
StreamSpec == StreamInit /\ [][StreamNext]_streamVars /\ StreamFairness

-----------------------------------------------------------------------------
\* Properties.

\* A finished MP4 is never written again: not by a recorder of the same
\* broadcast that comes later, not by a salvage, and not after a crash
\* (fileio/livestream.py, _unique_output_path; download/livestream.py,
\* _salvage_orphan_segments).
CompletedKept ==
    [][\A n \in Names : outs[n].whole => outs'[n] = outs[n]]_streamVars

\* A broadcast that is on while the watcher runs is recorded, unless it ends,
\* the program stops, or the recorder of an earlier broadcast still asks for a
\* playlist that was purged before it saw the end of it
\* (daemon/livestream_watcher.py, _poll_and_diff).
Deaf == task.at = "poll" /\ playlist[task.of] = "gone"
Noticed == \A b \in Shows :
    (OnAir(b) /\ watcher # "down") ~>
        (task.show = b \/ task.of = b \/ ~OnAir(b) \/ watcher = "down" \/ stopping \/ Deaf)

\* Once the stop event is set the watcher and the recorder end, wherever they
\* are, a recorder that a poll has just started included
\* (daemon/livestream_watcher.py, stop_all_recordings; _record_stream).
EndsOnStop == stopping ~>
    (~stopping \/ (watcher = "stopped" /\ task.at \in {"none", "done"}))

\* A recording that is complete holds each segment once and in the order of
\* the broadcast (download/livestream.py, _poll_segments_loop).
SegmentsOnce ==
    \A n \in Names : \A i, j \in DOMAIN outs[n].segs :
        (i < j /\ outs[n].segs[i][1] = outs[n].segs[j][1]) =>
            outs[n].segs[i][2] < outs[n].segs[j][2]

\* Segments that a crash left behind are removed only when the MP4 they were
\* recorded for is complete (download/livestream.py, _salvage_orphan_segments;
\* README.md: "temp segment directories left behind by a prior crash are
\* re-muxed at watcher startup").
OrphansSalvaged ==
    [][\A n \in Names : (dirs[n].files # <<>> /\ ~dirs'[n].here) => outs'[n].whole]_streamVars
=============================================================================
