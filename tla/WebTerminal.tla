------------------------------ MODULE WebTerminal ------------------------------
(***************************************************************************)
(* The way of the output to the web terminal, and back into the session's  *)
(* history.                                                                *)
(*                                                                         *)
(* Three parts meet here:                                                  *)
(*   - the history that SshSessionController keeps for a terminal that is  *)
(*     away: the last snapshot, with the sequence number it reaches, and   *)
(*     the delta of the events since                                       *)
(*     (lib/features/terminal/application/ssh_session_controller.dart);    *)
(*   - the state of the widget XtermWebTerminal, which queues events,      *)
(*     sends one write at a time to the page, saves snapshots, and is      *)
(*     suspended and resumed with the app                                  *)
(*     (lib/features/terminal/presentation/widgets/xterm_web_terminal.dart); *)
(*   - the page, whose write chain shows a write slice by slice            *)
(*     (tool/web_terminal/src/terminal.js).                                *)
(*                                                                         *)
(* Output is counted in units, numbered as they come; a display and a      *)
(* snapshot are the sequence of the units they show.  Dart and the page    *)
(* are event loops: a step is the code between two awaits.  A message of   *)
(* the page is handled where it is posted: nothing in the page waits for   *)
(* the handling, and Dart's reaction to it is a step of its own.           *)
(***************************************************************************)
EXTENDS Integers, Sequences, FiniteSets, SequencesExt

CONSTANTS
    DeltaMax,       \* _maximumWebTerminalDeltaBytes
    CheckpointAt,   \* _webTerminalCheckpointBytes
    PendingMax,     \* _maximumPendingBytes
    PauseAt,        \* _pauseOutputAtBytes
    ResumeAt,       \* _resumeOutputAtBytes
    WriteMax,       \* _maximumWriteBytes
    SliceMax,       \* WRITE_SLICE_BYTES
    GatherMax,      \* _maximumBufferedBytes: gathered output is flushed at that size
    EarlySuspend,   \* may the app leave before the page is ready?
    MaxUnits,       \* bound: units of output
    MaxSuspends,    \* bound: calls of suspend()
    MaxMounts       \* bound: times the widget is built

ASSUME ConstantsAssumption ==
    /\ {CheckpointAt, PauseAt, WriteMax, SliceMax, GatherMax} \subseteq Nat \ {0}
    /\ DeltaMax \in Nat /\ GatherMax <= DeltaMax
    /\ PendingMax \in Nat /\ PauseAt <= PendingMax
    /\ ResumeAt \in Nat /\ ResumeAt < PauseAt
    /\ EarlySuspend \in BOOLEAN
    /\ {MaxUnits, MaxSuspends, MaxMounts} \subseteq Nat

VARIABLES
    gathered,      \* _pendingTerminalLength: units received and not yet an event
    units,         \* history: units in events so far
    sequence,      \* _webTerminalSequence
    snapshot,      \* _webTerminalSnapshot
    snapshotSeq,   \* _webTerminalSnapshotSequence
    delta,         \* _webTerminalDelta
    truncated,     \* _webTerminalDeltaTruncated
    dropped,       \* history: units the delta had no room for
    visible,       \* is the app in the foreground?
    mounted,       \* is the widget there (_disposed is its end)?
    ready,         \* _ready
    active,        \* _active
    attached,      \* _listenerAttached
    fatal,         \* _fatalReported
    pending,       \* _pendingOutput: chunks
    lastQueued,    \* _lastQueuedSequence
    lastSent,      \* _lastSentSequence
    paused,        \* _outputBackpressured, and with it the session's subscriptions
    scripts,       \* _pendingScripts
    sending,       \* the script runJavaScript() is under way with: <<>> or a pair <<script>>
    awaited,       \* the write whose acknowledgement the drain awaits, and its sequence
    suspension,    \* where _performSuspend is
    resumeRequested, \* _resumeRequested
    checkpoint,    \* where the checkpoint is: _checkpointTimer and _checkpointFuture
    request,       \* the snapshot each of them asked for, and the answer
    chain,         \* page: writeChain, the tasks that have not ended
    offset,        \* page: how much of the first task's data is written
    frame,         \* page: is the first task waiting for an animation frame?
    display,       \* page: the units the terminal shows
    pageActive,    \* page: active
    suspends,      \* bound counter
    mounts         \* bound counter

sessionVars == <<gathered, units, sequence, snapshot, snapshotSeq, delta, truncated, dropped>>
queueVars == <<pending, lastQueued, paused>>
lifeVars == <<visible, mounted, ready, active, attached, resumeRequested, suspends, mounts>>
drainVars == <<scripts, sending, awaited, lastSent>>
pageVars == <<chain, offset, frame, display, pageActive>>
vars == <<sessionVars, queueVars, lifeVars, drainVars, pageVars, fatal, suspension,
          checkpoint, request>>

None == [id |-> 0, through |-> 0]
Requesters == {"suspend", "checkpoint"}
NoRequest == [id |-> 0, label |-> 0, answered |-> FALSE, data |-> <<>>]

Data == Seq(1..MaxUnits)
Chunk == [data : Data, through : 0..MaxUnits, reset : BOOLEAN]
Script == [kind : {"setActive"}, value : BOOLEAN]
    \cup [kind : {"snapshot"}, for : Requesters, id : Nat, label : 0..MaxUnits]
    \cup [kind : {"write"}, id : Nat, data : Data, reset : BOOLEAN]

TypeOK ==
    /\ gathered \in 0..GatherMax /\ units \in 0..MaxUnits /\ sequence \in 0..MaxUnits
    /\ snapshot \in Data /\ snapshotSeq \in 0..sequence
    /\ delta \in Seq([sequence : 1..MaxUnits, data : Data])
    /\ truncated \in BOOLEAN /\ dropped \subseteq 1..MaxUnits
    /\ {visible, mounted, ready, active, attached, fatal, paused, resumeRequested,
        frame, pageActive} \subseteq BOOLEAN
    /\ pending \in Seq(Chunk)
    /\ lastQueued \in 0..sequence /\ lastSent \in 0..sequence
    /\ scripts \in Seq(Script) /\ chain \in Seq(Script)
    /\ sending \in Seq(Script) /\ Len(sending) <= 1
    /\ awaited \in [id : Nat, through : 0..MaxUnits]
    /\ suspension \in {"no", "drain", "snapshot", "off"}
    /\ checkpoint \in {"no", "timer", "drain", "snapshot"}
    /\ request \in [Requesters -> [id : Nat, label : 0..MaxUnits, answered : BOOLEAN,
                                   data : Data]]
    /\ offset \in Nat /\ display \in Data
    /\ suspends \in 0..MaxSuspends /\ mounts \in 0..MaxMounts

Init ==
    /\ gathered = 0 /\ units = 0 /\ sequence = 0
    /\ snapshot = <<>> /\ snapshotSeq = 0 /\ delta = <<>>
    /\ truncated = FALSE /\ dropped = {}
    /\ visible = TRUE /\ mounted = FALSE /\ ready = FALSE /\ active = FALSE
    /\ attached = FALSE /\ fatal = FALSE
    /\ pending = <<>> /\ lastQueued = 0 /\ lastSent = 0 /\ paused = FALSE
    /\ scripts = <<>> /\ sending = <<>> /\ awaited = None
    /\ suspension = "no" /\ resumeRequested = FALSE /\ checkpoint = "no"
    /\ request = [r \in Requesters |-> NoRequest]
    /\ chain = <<>> /\ offset = 0 /\ frame = FALSE /\ display = <<>> /\ pageActive = TRUE
    /\ suspends = 0 /\ mounts = 0

-----------------------------------------------------------------------------
(* Chunks and their size.                                                  *)

DataOf(chunks) == FlattenSeq([i \in DOMAIN chunks |-> chunks[i].data])

Size(chunks) == Len(DataOf(chunks))

\* Variant: the chunks claim to reach the event after theirs.
Chunks_NextSequence(data, through, reset) ==
    LET n == IF data = <<>> /\ reset THEN 1 ELSE (Len(data) + WriteMax - 1) \div WriteMax
    IN  [i \in 1..n |->
            [data    |-> SubSeq(data, (i - 1) * WriteMax + 1,
                                IF i = n THEN Len(data) ELSE i * WriteMax),
             through |-> IF i = n THEN through + 1 ELSE 0,
             reset   |-> reset /\ i = 1]]

\* _appendOutputChunks: the last chunk carries the sequence number, the first the reset.
Chunks(data, through, reset) ==
    LET n == IF data = <<>> /\ reset THEN 1 ELSE (Len(data) + WriteMax - 1) \div WriteMax
    IN  [i \in 1..n |->
            [data    |-> SubSeq(data, (i - 1) * WriteMax + 1,
                                IF i = n THEN Len(data) ELSE i * WriteMax),
             through |-> IF i = n THEN through ELSE 0,
             reset   |-> reset /\ i = 1]]

-----------------------------------------------------------------------------
(* The history.                                                            *)

\* webTerminalReplay.
Replay == snapshot \o DataOf(delta)

\* webTerminalReplayAfter: must the terminal start over to get past sequence s?
ResetRequired(s) ==
    \/ s < snapshotSeq
    \/ truncated /\ (delta = <<>> \/ s < delta[1].sequence - 1)

\* The events of the delta after the sequence number s.
After(s) ==
    FlattenSeq([i \in DOMAIN delta |-> IF delta[i].sequence > s THEN <<delta[i]>> ELSE <<>>])

\* Variant: the event the terminal has already is replayed too.
ReplayAfter_Inclusive(s) == IF ResetRequired(s) THEN Replay ELSE DataOf(After(s - 1))

\* webTerminalReplayAfter: the data.
ReplayAfter(s) == IF ResetRequired(s) THEN Replay ELSE DataOf(After(s))

CheckpointNeeded == Size(delta) >= CheckpointAt

\* _appendWebTerminalDelta: the oldest events make room for the new one.
AppendDelta(data) ==
    LET all  == Append(delta, [sequence |-> sequence + 1, data |-> data])
        kept == CHOOSE k \in 0..Len(all) :
                    /\ Size(SubSeq(all, k + 1, Len(all))) <= DeltaMax
                    /\ \A j \in 0..k - 1 : Size(SubSeq(all, j + 1, Len(all))) > DeltaMax
    IN  /\ delta' = SubSeq(all, kept + 1, Len(all))
        /\ truncated' = (truncated \/ kept > 0)
        /\ dropped' = dropped \cup ToSet(DataOf(SubSeq(all, 1, kept)))

\* Variant: the event the snapshot reaches stays in the delta.
SaveSnapshot_KeepsLast(data, label) ==
    IF label \in snapshotSeq..sequence
    THEN /\ snapshot' = data
         /\ snapshotSeq' = label
         /\ delta' = After(label - 1)
         /\ truncated' = FALSE
         /\ UNCHANGED <<gathered, units, sequence, dropped>>
    ELSE UNCHANGED sessionVars

\* saveWebTerminalSnapshot(data, label).
SaveSnapshot(data, label) ==
    IF label \in snapshotSeq..sequence
    THEN /\ snapshot' = data
         /\ snapshotSeq' = label
         /\ delta' = After(label)
         /\ truncated' = FALSE
         /\ UNCHANGED <<gathered, units, sequence, dropped>>
    ELSE UNCHANGED sessionVars

-----------------------------------------------------------------------------
(* The widget's queue.                                                     *)

\* _queueOutput of data that reaches the sequence number through; a queue that
\* is too long is replaced by the whole replay.
QueueOutput(data, through, reset, replay) ==
    LET longer == (IF reset THEN <<>> ELSE pending) \o Chunks(data, through, reset)
    IN  /\ pending' = IF Size(longer) > PendingMax
                      THEN Chunks(replay, through, TRUE) ELSE longer
        /\ lastQueued' = through
        /\ paused' = (paused \/ Size(longer) >= PauseAt)

\* _scheduleCheckpoint, of a widget that is up (ready and active) or not.
ScheduleCheckpoint(up, needed) ==
    checkpoint' = IF up /\ needed /\ checkpoint = "no" THEN "timer" ELSE checkpoint

\* Variant: the widget goes on with what comes next.
Synchronize_Skips ==
    /\ UNCHANGED queueVars
    /\ ScheduleCheckpoint(ready, CheckpointNeeded')

\* _synchronizeFromSession of a widget that goes on with what the page shows.
Synchronize ==
    /\ QueueOutput(ReplayAfter(lastSent)', sequence', ResetRequired(lastSent)', Replay')
    /\ ScheduleCheckpoint(ready, CheckpointNeeded')

\* Variant: the next script is sent when the page has the last one.
Draining_WithoutAck == sending # <<>>

\* Is the drain busy, and has it nothing to do (_drainFuture is null)?
Draining == sending # <<>> \/ awaited # None
Drained == ~Draining /\ scripts = <<>> /\ (ready /\ active => pending = <<>>)

\* _writeRequestId and _snapshotRequestId: a number no request under way has.
FreshId ==
    LET scriptIds(q) == {q[i].id : i \in {j \in DOMAIN q : q[j].kind # "setActive"}}
        used == scriptIds(scripts) \cup scriptIds(sending) \cup scriptIds(chain)
                \cup {awaited.id} \cup {request[r].id : r \in Requesters}
    IN  CHOOSE i \in 1..Cardinality(used) + 1 : i \notin used

-----------------------------------------------------------------------------
(* The session: output is gathered, and flushed as one event.              *)

\* _queueTerminalWrite; a paused subscription delivers nothing.
Receive ==
    /\ ~paused /\ gathered < GatherMax /\ units + gathered < MaxUnits
    /\ gathered' = gathered + 1
    /\ UNCHANGED <<units, sequence, snapshot, snapshotSeq, delta, truncated, dropped, queueVars,
                   lifeVars, drainVars, pageVars, fatal, suspension, checkpoint, request>>

\* _flushTerminalWrites, with _handleTerminalData of an attached widget.
Flush ==
    LET data == [i \in 1..gathered |-> units + i]
    IN  /\ gathered > 0
        /\ gathered' = 0
        /\ units' = units + gathered
        /\ sequence' = sequence + 1
        /\ AppendDelta(data)
        /\ IF attached /\ active /\ sequence' > lastQueued
           THEN /\ QueueOutput(data, sequence', FALSE, snapshot \o DataOf(delta'))
                /\ ScheduleCheckpoint(ready /\ active, Size(delta') >= CheckpointAt)
           ELSE UNCHANGED <<queueVars, checkpoint>>
        /\ UNCHANGED <<snapshot, snapshotSeq, lifeVars, drainVars, pageVars, fatal,
                       suspension, request>>

-----------------------------------------------------------------------------
(* The widget comes and goes.                                              *)

\* initState: a new page, and the whole history for it.
Mount ==
    /\ ~mounted /\ visible /\ mounts < MaxMounts
    /\ mounts' = mounts + 1
    /\ mounted' = TRUE /\ ready' = FALSE /\ active' = TRUE /\ attached' = TRUE
    /\ resumeRequested' = FALSE /\ fatal' = FALSE
    /\ QueueOutput(Replay, sequence, TRUE, Replay)
    /\ lastSent' = 0 /\ scripts' = <<>> /\ sending' = <<>> /\ awaited' = None
    /\ chain' = <<>> /\ offset' = 0 /\ frame' = FALSE /\ display' = <<>>
    /\ pageActive' = TRUE
    /\ UNCHANGED <<sessionVars, visible, suspends, suspension, checkpoint, request>>

\* dispose: the page goes with the widget, and every wait of it fails.
Dispose ==
    /\ mounted
    /\ mounted' = FALSE /\ ready' = FALSE /\ active' = FALSE /\ attached' = FALSE
    /\ resumeRequested' = FALSE
    /\ pending' = <<>> /\ paused' = FALSE /\ lastQueued' = 0
    /\ lastSent' = 0 /\ scripts' = <<>> /\ sending' = <<>> /\ awaited' = None
    /\ suspension' = "no" /\ checkpoint' = "no"
    /\ request' = [r \in Requesters |-> NoRequest]
    /\ chain' = <<>> /\ offset' = 0 /\ frame' = FALSE /\ display' = <<>>
    /\ pageActive' = TRUE
    /\ UNCHANGED <<sessionVars, suspends, mounts, fatal>>

\* The screen goes; or, with the app visible, the time of an acknowledgement is up (also
\* right after resume()), or the page reports an error, and the next frame puts the native
\* terminal in the widget's place: that frame is taken with the report.
Unmount == Dispose /\ UNCHANGED visible

\* The message "ready", once the page has its fonts.
Ready ==
    /\ mounted /\ ~ready
    /\ ready' = TRUE
    /\ scripts' = Append(scripts, [kind |-> "setActive", value |-> active])
    /\ ScheduleCheckpoint(active, CheckpointNeeded)
    /\ UNCHANGED <<sessionVars, queueVars, visible, mounted, active, attached, resumeRequested,
                   suspends, mounts, sending, awaited, lastSent, pageVars, fatal,
                   suspension, request>>

\* Variant: the waits for acknowledgements go on.
ReportFatal_KeepsWaiting ==
    /\ fatal' = TRUE
    /\ paused' = (fatal /\ paused)
    /\ UNCHANGED awaited

\* _reportFatal: the wait for the acknowledgement fails; the first report lets the
\* output go on.
ReportFatal ==
    /\ fatal' = TRUE
    /\ awaited' = None
    /\ paused' = (fatal /\ paused)

\* _readyTimer.
ReadyTimeout ==
    /\ mounted /\ ~ready /\ ~fatal
    /\ ReportFatal
    /\ UNCHANGED <<sessionVars, pending, lastQueued, lifeVars, scripts, sending, lastSent, pageVars, suspension, checkpoint, request>>

-----------------------------------------------------------------------------
(* suspend() and resume().                                                 *)

\* The first part of _performSuspend, up to its first await.
Suspend ==
    /\ mounted /\ suspends < MaxSuspends
    /\ ready \/ EarlySuspend
    /\ suspends' = suspends + 1
    /\ resumeRequested' = FALSE
    /\ IF active /\ suspension = "no"
       THEN /\ suspension' = "drain"
            /\ attached' = FALSE
            /\ checkpoint' = IF checkpoint = "timer" THEN "no" ELSE checkpoint
       ELSE UNCHANGED <<suspension, attached, checkpoint>>
    /\ UNCHANGED <<sessionVars, queueVars, mounted, ready, active, mounts, drainVars,
                   pageVars, fatal, request>>

\* The app leaves the foreground, or only the screen of the terminal is left.
Hide == visible /\ visible' = FALSE /\ Suspend
Leave == UNCHANGED visible /\ Suspend

\* Variant: the page is not told.
Reactivate_Silent ==
    /\ active' = TRUE /\ attached' = TRUE
    /\ UNCHANGED scripts
    /\ Synchronize

\* _resumeAfterSuspension of a widget that is not active.
Reactivate ==
    /\ active' = TRUE /\ attached' = TRUE
    /\ scripts' = IF ready THEN Append(scripts, [kind |-> "setActive", value |-> TRUE])
                  ELSE scripts
    /\ Synchronize

\* The app is back: resume().
Show ==
    /\ ~visible /\ ~(mounted /\ fatal)
    /\ visible' = TRUE
    /\ UNCHANGED <<sessionVars, mounted, ready, suspends, mounts, sending, awaited,
                   lastSent, pageVars, fatal, suspension, request>>
    /\ resumeRequested' = mounted
    /\ IF mounted /\ suspension = "no" /\ ~active
       THEN Reactivate
       ELSE /\ attached' = (attached \/ (mounted /\ suspension = "no"))
            /\ UNCHANGED <<active, scripts, queueVars, checkpoint>>

\* The app is back with a widget that has failed: the first frame puts the native
\* terminal in its place (_fallbackToNativeTerminal).
Replace == ~visible /\ fatal /\ visible' = TRUE /\ Dispose

\* The end of _performSuspend, and of a resume() that waited for it.
SuspendEnds ==
    /\ suspension' = "no"
    /\ IF resumeRequested THEN Reactivate
       ELSE active' = FALSE /\ UNCHANGED <<attached, scripts, queueVars, checkpoint>>

\* _requestSnapshot up to its wait for the answer.
RequestSnapshot(r) ==
    /\ request' = [request EXCEPT ![r] = [NoRequest EXCEPT !.id = FreshId,
                                                           !.label = lastSent]]
    /\ scripts' = Append(scripts, [kind |-> "snapshot", for |-> r, id |-> FreshId,
                                   label |-> lastSent])

\* What waits for the page is sent: ask for the snapshot, or end at once.
SuspendDrained ==
    /\ suspension = "drain" /\ Drained
    /\ UNCHANGED <<sessionVars, visible, mounted, ready, resumeRequested, suspends, mounts,
                   sending, awaited, lastSent, pageVars, fatal>>
    /\ IF ready /\ ~fatal
       THEN /\ RequestSnapshot("suspend")
            /\ suspension' = "snapshot"
            /\ UNCHANGED <<queueVars, active, attached, checkpoint>>
       ELSE UNCHANGED request /\ SuspendEnds

\* The snapshot is there, or it took too long or is too large.
SuspendSaves ==
    /\ suspension = "snapshot" /\ Drained
    /\ UNCHANGED <<visible, mounted, ready, active, resumeRequested, suspends, mounts,
                   sending, awaited, lastSent, pageVars, fatal>>
    /\ \/ /\ request["suspend"].answered
          /\ SaveSnapshot(request["suspend"].data, request["suspend"].label)
       \/ UNCHANGED sessionVars
    /\ request' = [request EXCEPT !["suspend"] = NoRequest]
    /\ IF resumeRequested
       THEN /\ Synchronize
            /\ attached' = TRUE
            /\ suspension' = "no"
            /\ UNCHANGED scripts
       ELSE /\ scripts' = Append(scripts, [kind |-> "setActive", value |-> FALSE])
            /\ suspension' = "off"
            /\ UNCHANGED <<queueVars, attached, checkpoint>>

SuspendTurnsOff ==
    /\ suspension = "off" /\ Drained
    /\ UNCHANGED <<sessionVars, visible, mounted, ready, resumeRequested, suspends, mounts,
                   sending, awaited, lastSent, pageVars, fatal, request>>
    /\ SuspendEnds

-----------------------------------------------------------------------------
(* The checkpoint of a widget that stays.                                  *)

\* _startCheckpoint.
CheckpointFires ==
    /\ checkpoint = "timer"
    /\ checkpoint' = IF ready /\ active /\ CheckpointNeeded THEN "drain" ELSE "no"
    /\ UNCHANGED <<sessionVars, queueVars, lifeVars, drainVars, pageVars, fatal, suspension,
                   request>>

\* _checkpointAfterDrain after its first await.
CheckpointDrained ==
    /\ checkpoint = "drain" /\ Drained
    /\ IF ready /\ active /\ CheckpointNeeded
       THEN RequestSnapshot("checkpoint") /\ checkpoint' = "snapshot"
       ELSE checkpoint' = "no" /\ UNCHANGED <<request, scripts>>
    /\ UNCHANGED <<sessionVars, queueVars, lifeVars, sending, awaited, lastSent, pageVars,
                   fatal, suspension>>

\* Its end; a checkpoint that was saved looks whether the next one is due.
CheckpointSaves ==
    /\ checkpoint = "snapshot" /\ Drained
    /\ request' = [request EXCEPT !["checkpoint"] = NoRequest]
    /\ \/ /\ request["checkpoint"].answered
          /\ SaveSnapshot(request["checkpoint"].data, request["checkpoint"].label)
          /\ checkpoint' = IF snapshotSeq' = request["checkpoint"].label
                              /\ ready /\ active /\ CheckpointNeeded'
                           THEN "timer" ELSE "no"
       \/ UNCHANGED sessionVars /\ checkpoint' = "no"
    /\ UNCHANGED <<queueVars, lifeVars, drainVars, pageVars, fatal, suspension>>

-----------------------------------------------------------------------------
(* _drainOperations: scripts first, then output, one at a time.            *)

DrainTakesScript ==
    /\ ~Draining /\ scripts # <<>>
    /\ sending' = <<Head(scripts)>>
    /\ scripts' = Tail(scripts)
    /\ UNCHANGED <<sessionVars, queueVars, lifeVars, awaited, lastSent, pageVars,
                   fatal, suspension, checkpoint, request>>

\* Variant: the session goes on only below the threshold.
DrainTakesOutput_Below ==
    /\ ~Draining /\ scripts = <<>>
    /\ ready /\ active /\ pending # <<>>
    /\ LET chunk == Head(pending)
       IN  /\ sending' = <<[kind |-> "write", id |-> FreshId, data |-> chunk.data,
                            reset |-> chunk.reset]>>
           /\ awaited' = [id |-> FreshId, through |-> chunk.through]
    /\ pending' = Tail(pending)
    /\ paused' = (paused /\ Size(Tail(pending)) >= ResumeAt)
    /\ UNCHANGED <<sessionVars, lastQueued, lifeVars, scripts, lastSent, pageVars, fatal,
                   suspension, checkpoint, request>>

DrainTakesOutput ==
    /\ ~Draining /\ scripts = <<>>
    /\ ready /\ active /\ pending # <<>>
    /\ LET chunk == Head(pending)
       IN  /\ sending' = <<[kind |-> "write", id |-> FreshId, data |-> chunk.data,
                            reset |-> chunk.reset]>>
           /\ awaited' = [id |-> FreshId, through |-> chunk.through]
    /\ pending' = Tail(pending)
    /\ paused' = (paused /\ Size(Tail(pending)) > ResumeAt)
    /\ UNCHANGED <<sessionVars, lastQueued, lifeVars, scripts, lastSent, pageVars, fatal,
                   suspension, checkpoint, request>>

\* The page runs a script: setActive, or a new task of its write chain.
PageRuns ==
    /\ sending # <<>>
    /\ sending' = <<>>
    /\ IF sending[1].kind = "setActive"
       THEN pageActive' = sending[1].value /\ UNCHANGED chain
       ELSE chain' = Append(chain, sending[1]) /\ UNCHANGED pageActive
    /\ UNCHANGED <<sessionVars, queueVars, lifeVars, scripts, awaited, lastSent, offset,
                   frame, display, fatal, suspension, checkpoint, request>>

\* _writeAckTimeout of a widget that stays, because no frame replaces it: the app is away,
\* and the page waits too long for a frame no one draws.  (Seen, it is Unmount.)
AckTimeout ==
    /\ awaited # None /\ sending = <<>>
    /\ frame /\ ~visible
    /\ ReportFatal
    /\ UNCHANGED <<sessionVars, pending, lastQueued, lifeVars, scripts, sending, lastSent, pageVars, suspension, checkpoint, request>>

-----------------------------------------------------------------------------
(* The page's write chain.                                                 *)

\* The message writeAck; the answer to a wait that is over is ignored.
Acknowledge(id) ==
    IF awaited.id = id
    THEN /\ awaited' = None
         /\ lastSent' = IF awaited.through > lastSent THEN awaited.through ELSE lastSent
    ELSE UNCHANGED <<awaited, lastSent>>

\* enqueueWrite: one slice of the first task, and its acknowledgement after the
\* last; between two slices the page may let a frame be drawn.
PageWrites ==
    /\ chain # <<>> /\ chain[1].kind = "write" /\ ~frame
    /\ LET data  == chain[1].data
           end   == IF offset + SliceMax < Len(data) THEN offset + SliceMax ELSE Len(data)
           shown == IF chain[1].reset /\ offset = 0 THEN <<>> ELSE display
       IN  /\ display' = shown \o SubSeq(data, offset + 1, end)
           /\ IF end = Len(data)
              THEN /\ chain' = Tail(chain)
                   /\ offset' = 0
                   /\ Acknowledge(chain[1].id)
                   /\ UNCHANGED frame
              ELSE /\ offset' = end
                   /\ frame' \in BOOLEAN
                   /\ UNCHANGED <<chain, awaited, lastSent>>
    /\ UNCHANGED <<sessionVars, queueVars, lifeVars, scripts, sending, pageActive,
                   fatal, suspension, checkpoint, request>>

\* requestAnimationFrame: there are no frames for a page nobody sees.
Frame ==
    /\ frame /\ visible
    /\ frame' = FALSE
    /\ UNCHANGED <<sessionVars, queueVars, lifeVars, drainVars, chain, offset, display,
                   pageActive, fatal, suspension, checkpoint, request>>

\* requestSnapshot, and _completeSnapshot of the request it answers.
PageSnapshots ==
    /\ chain # <<>> /\ chain[1].kind = "snapshot"
    /\ chain' = Tail(chain)
    /\ LET task == chain[1]
       IN  request' = IF request[task.for].id = task.id
                      THEN [request EXCEPT ![task.for].answered = TRUE,
                                           ![task.for].data = display]
                      ELSE request
    /\ UNCHANGED <<sessionVars, queueVars, lifeVars, drainVars, offset, frame, display,
                   pageActive, fatal, suspension, checkpoint>>

-----------------------------------------------------------------------------

Session == Receive \/ Flush
Screen == Mount \/ Unmount \/ Hide \/ Leave \/ Show \/ Replace
Widget ==
    \/ Ready \/ ReadyTimeout
    \/ SuspendDrained \/ SuspendSaves \/ SuspendTurnsOff
    \/ CheckpointFires \/ CheckpointDrained \/ CheckpointSaves
    \/ DrainTakesScript \/ DrainTakesOutput \/ AckTimeout
Page == PageRuns \/ PageWrites \/ Frame \/ PageSnapshots

Next == Session \/ Screen \/ Widget \/ Page

Spec == Init /\ [][Next]_vars

\* The event loops run, and their timers fire.
Fairness ==
    /\ WF_vars(Ready)
    /\ SF_vars(SuspendDrained) /\ SF_vars(SuspendSaves) /\ SF_vars(SuspendTurnsOff)
    /\ WF_vars(DrainTakesScript) /\ WF_vars(DrainTakesOutput) /\ WF_vars(AckTimeout)
    /\ WF_vars(Page)

FairSpec == Spec /\ Fairness

-----------------------------------------------------------------------------
(* Properties.                                                             *)

\* s shows output in order, nothing twice, and leaves out only what was dropped.
Faithful(s) ==
    /\ \A i, j \in DOMAIN s : i < j => s[i] < s[j]
    /\ s # <<>> => 1..Last(s) \subseteq ToSet(s) \cup dropped

\* The terminal shows the output in order and nothing twice, and it leaves out only
\* what the history had no room for: over replays, suspensions, snapshots and pages
\* that are built anew (_queueOutput, _synchronizeFromSession, enqueueWrite).
DisplayFaithful == Faithful(display)

\* A snapshot and the delta after it are the whole output: a snapshot is saved under
\* the sequence number it really reaches (_requestSnapshot, saveWebTerminalSnapshot).
ReplayFaithful ==
    /\ Faithful(Replay)
    /\ 1..units \subseteq ToSet(Replay) \cup dropped

\* While the page answers in time, it has one write at most (_drainOperations).
OneUnacknowledged ==
    LET sent == sending \o chain
    IN  ~fatal => \A i, j \in DOMAIN sent : sent[i].kind = "write" /\ sent[j].kind = "write" => i = j

\* A widget with nothing to send agrees with its page on whether it is active, and
\* so takes input from it (setActive, _performSuspend, _resumeAfterSuspension).
PageAgrees ==
    mounted /\ ready /\ ~fatal /\ Drained /\ suspension = "no" => pageActive = active

\* The output of a terminal that stays is shown, or was dropped.
OutputShown ==
    \A n \in 1..MaxUnits :
        units >= n /\ mounted ~>
            n \in ToSet(display) \cup dropped \/ ~active \/ fatal

\* suspend() ends, whether or not the page is drawn and answers.
SuspendCompletes == suspension # "no" ~> suspension = "no"

\* The session is not left paused.
PauseEnds == paused ~> ~paused

-----------------------------------------------------------------------------
(* Not kept by the code, and stated without a run.                         *)

\* A history that is not marked as truncated goes on where its snapshot ends.  A
\* delta that overflows while a snapshot of earlier output is under way is marked
\* as whole when that snapshot is saved.
UnmarkedIsWhole ==
    ~truncated /\ delta # <<>> => delta[1].sequence = snapshotSeq + 1

\* A terminal that is away does not hold its session back.  With EarlySuspend, a
\* long replay that waits for the page keeps it paused.
AwayNotPaused == mounted /\ ~active => ~paused
=============================================================================
