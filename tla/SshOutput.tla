------------------------------- MODULE SshOutput -------------------------------
(***************************************************************************)
(* The output path of one SSH connection, from the channel to the streams  *)
(* the terminal listens to, and its close().                               *)
(*                                                                         *)
(* Two Rust tasks share the buffer of the session                          *)
(* (rust/src/api/core.rs): the reader task appends what the channel        *)
(* delivers and waits for space when the buffer is full; ssh_read, called  *)
(* by the pump of RustSshConnection                                        *)
(* (lib/infrastructure/ssh/rust_ssh_gateway.dart), drains it and waits for *)
(* data when it is empty.  Both wait on a tokio Notify, whose              *)
(* notify_waiters() stores nothing: it wakes the Notified futures that     *)
(* exist and no later one.  They run on different threads, so a step is    *)
(* the code between two accesses of shared state.  ssh_close runs beside   *)
(* them.                                                                   *)
(*                                                                         *)
(* The two Dart streams have listeners when the session controller adopted *)
(* the connection; nobody ever listens to a connection that arrived late   *)
(* or that a Mosh attempt opened as its probe.                             *)
(*                                                                         *)
(* The bytes of a stream are counted, not listed.                          *)
(***************************************************************************)
EXTENDS Naturals

CONSTANTS
    Capacity,     \* MAX_BUFFER_BYTES
    Limit,        \* the bytes one read may return: min of maxBytes, MAX_READ_BYTES
    Batch,        \* min of Limit and READ_BATCH_BYTES: a read of that much does not coalesce
    MaxMessage,   \* the largest channel message
    Window,       \* channel messages under way before the remote must wait
    MaxMessages,  \* bound: messages the remote sends
    MaxWrites     \* bound: writes the terminal makes

ASSUME ConstantsAssumption ==
    /\ Capacity \in Nat \ {0} /\ Limit \in Nat \ {0} /\ MaxMessage \in Nat \ {0}
    /\ Batch \in 1..Limit
    /\ Window \in Nat /\ MaxMessages \in Nat /\ MaxWrites \in Nat

VARIABLES
    queued,      \* output.stdout, output.stderr: bytes in the buffer
    closed,      \* closed
    registered,  \* is the session in SSH_SESSIONS?
    space,       \* the reader's Notified of space_ready
    data,        \* ssh_read's Notified of data_ready
    reader,      \* where the reader task is
    msg,         \* the message it is appending: its stream and what is left of it
    pump,        \* where _pump and the ssh_read it awaits are
    reply,       \* bytes of each stream in the result ssh_read is returning
    lastReply,   \* its flag closed
    listener,    \* do the two Dart streams have listeners?
    paused,      \* _stdoutPaused and _stderrPaused, which the terminal sets together
    closer,      \* where RustSshConnection.close and the ssh_close it awaits are
    chain,       \* writes of _writeChain that have not ended
    written,     \* history: writes made
    wire,        \* messages the remote has sent and the reader has not taken
    sent,        \* history: messages the remote has sent
    eof,         \* has the remote closed the channel?
    received,    \* history: bytes of each stream the reader has taken
    delivered    \* history: bytes of each stream added to the Dart streams

bufferVars == <<queued, closed, registered>>
readerVars == <<reader, msg, wire, received>>
pumpVars == <<pump, reply, lastReply, delivered>>
remoteVars == <<sent, eof>>
writeVars == <<chain, written>>
consumerVars == <<listener, paused>>
vars == <<bufferVars, space, data, readerVars, pumpVars, consumerVars, closer, writeVars,
          remoteVars>>

Streams == {"stdout", "stderr"}

\* No future, a future that waits, a future that has been woken.
Notified == {"none", "armed", "woken"}

Total == queued["stdout"] + queued["stderr"]

Closing == closer # "open"

Lesser(m, n) == IF m <= n THEN m ELSE n

Zero == [s \in Streams |-> 0]

TypeOK ==
    /\ queued \in [Streams -> Nat]
    /\ closed \in BOOLEAN /\ registered \in BOOLEAN
    /\ space \in Notified /\ data \in Notified
    /\ reader \in {"wait", "check", "arm", "fill", "parked", "signal",
                   "finish", "announce", "exit"}
    /\ msg \in [stream : Streams, left : Nat]
    /\ pump \in {"loop", "held", "resumed", "call", "look", "due", "waiting", "coalescing",
                 "drained", "flag", "reply", "finishing", "ended"}
    /\ reply \in [Streams -> Nat]
    /\ lastReply \in BOOLEAN
    /\ listener \in {"none", "listening", "cancelled"}
    /\ paused \in BOOLEAN
    /\ closer \in {"open", "writes", "store", "notify", "remove", "disconnect",
                   "await", "closed"}
    /\ chain \in Nat /\ written \in Nat /\ wire \in Nat /\ sent \in Nat
    /\ eof \in BOOLEAN
    /\ received \in [Streams -> Nat]
    /\ delivered \in [Streams -> Nat]

Init ==
    /\ queued = Zero
    /\ closed = FALSE /\ registered = TRUE
    /\ space = "none" /\ data = "none"
    /\ reader = "wait" /\ msg = [stream |-> "stdout", left |-> 0]
    /\ pump = "loop" /\ reply = Zero /\ lastReply = FALSE
    /\ listener \in {"none", "listening"} /\ paused = FALSE
    /\ closer = "open"
    /\ chain = 0 /\ written = 0
    /\ wire = 0 /\ sent = 0 /\ eof = FALSE
    /\ received = Zero /\ delivered = Zero

\* notify_waiters() of the Notify a future in state n belongs to.
Woken(n) == IF n = "armed" THEN "woken" ELSE n

-----------------------------------------------------------------------------
(* The remote, and russh, which holds Window messages before the remote's   *)
(* flow control stops it.  A remote that cannot send does not read either:  *)
(* a shell whose echo is blocked takes no input.                            *)

RemoteSends ==
    /\ ~eof /\ sent < MaxMessages /\ wire < Window
    /\ sent' = sent + 1
    /\ wire' = wire + 1
    /\ UNCHANGED <<bufferVars, space, data, reader, msg, received, pumpVars, consumerVars,
                   closer, writeVars, eof>>

RemoteCloses ==
    /\ ~eof
    /\ eof' = TRUE
    /\ UNCHANGED <<bufferVars, space, data, readerVars, pumpVars, consumerVars, closer,
                   writeVars, sent>>

\* One ssh_write of the chain ends, because the remote took the input or
\* because the channel is gone.
WriteEnds ==
    /\ chain > 0
    /\ wire < Window \/ reader = "exit"
    /\ chain' = chain - 1
    /\ UNCHANGED <<bufferVars, space, data, readerVars, pumpVars, consumerVars, closer, written,
                   remoteVars>>

-----------------------------------------------------------------------------
(* The reader task of finalize_ssh_session and append_output.              *)

ReaderTakes(s, n) ==
    /\ reader = "wait" /\ wire > 0
    /\ wire' = wire - 1
    /\ msg' = [stream |-> s, left |-> n]
    /\ received' = [received EXCEPT ![s] = @ + n]
    /\ reader' = "check"
    /\ UNCHANGED <<bufferVars, space, data, pumpVars, consumerVars, closer, writeVars, remoteVars>>

\* Eof or Close after the last message, or the client was dropped by ssh_close.
ReaderStops ==
    /\ reader = "wait"
    /\ (eof /\ wire = 0) \/ closer \in {"await", "closed"}
    /\ reader' = "finish"
    /\ UNCHANGED <<bufferVars, space, data, msg, wire, received, pumpVars, consumerVars, closer,
                   writeVars, remoteVars>>

\* The head of append_output's loop: a closed session is an error, which ends
\* the task with the rest of the message.
ReaderChecks ==
    /\ reader = "check"
    /\ reader' = IF closed THEN "finish" ELSE "arm"
    /\ UNCHANGED <<bufferVars, space, data, msg, wire, received, pumpVars, consumerVars, closer,
                   writeVars, remoteVars>>

\* The future is created before the buffer is looked at.
ReaderArms ==
    /\ reader = "arm"
    /\ space' = "armed"
    /\ reader' = "fill"
    /\ UNCHANGED <<bufferVars, data, msg, wire, received, pumpVars, consumerVars, closer,
                   writeVars, remoteVars>>

ReaderParks ==
    /\ reader = "fill" /\ Total >= Capacity
    /\ reader' = "parked"
    /\ UNCHANGED <<bufferVars, space, data, msg, wire, received, pumpVars, consumerVars, closer,
                   writeVars, remoteVars>>

\* Mutant: a buffer with any room takes the whole message.
ReaderAppends_WholeMessage ==
    /\ reader = "fill" /\ Total < Capacity
    /\ queued' = [queued EXCEPT ![msg.stream] = @ + msg.left]
    /\ msg' = [msg EXCEPT !.left = 0]
    /\ space' = "none"
    /\ reader' = "signal"
    /\ UNCHANGED <<closed, registered, data, wire, received, pumpVars, consumerVars, closer,
                   writeVars, remoteVars>>

ReaderAppends ==
    /\ reader = "fill" /\ Total < Capacity
    /\ LET n == Lesser(msg.left, Capacity - Total) IN
          /\ queued' = [queued EXCEPT ![msg.stream] = @ + n]
          /\ msg' = [msg EXCEPT !.left = @ - n]
    /\ space' = "none"
    /\ reader' = "signal"
    /\ UNCHANGED <<closed, registered, data, wire, received, pumpVars, consumerVars, closer,
                   writeVars, remoteVars>>

ReaderSignals ==
    /\ reader = "signal"
    /\ data' = Woken(data)
    /\ reader' = IF msg.left > 0 THEN "check" ELSE "wait"
    /\ UNCHANGED <<bufferVars, space, msg, wire, received, pumpVars, consumerVars, closer,
                   writeVars, remoteVars>>

ReaderWakes ==
    /\ reader = "parked" /\ space = "woken"
    /\ space' = "none"
    /\ reader' = "check"
    /\ UNCHANGED <<bufferVars, data, msg, wire, received, pumpVars, consumerVars, closer,
                   writeVars, remoteVars>>

ReaderFinishes ==
    /\ reader = "finish"
    /\ closed' = TRUE
    /\ reader' = "announce"
    /\ UNCHANGED <<queued, registered, space, data, msg, wire, received, pumpVars, consumerVars,
                   closer, writeVars, remoteVars>>

ReaderAnnounces ==
    /\ reader = "announce"
    /\ data' = Woken(data) /\ space' = Woken(space)
    /\ reader' = "exit"
    /\ UNCHANGED <<bufferVars, msg, wire, received, pumpVars, consumerVars, closer, writeVars,
                   remoteVars>>

ReaderStep ==
    \/ \E s \in Streams, n \in 1..MaxMessage : ReaderTakes(s, n)
    \/ ReaderStops \/ ReaderChecks \/ ReaderArms \/ ReaderParks \/ ReaderAppends
    \/ ReaderSignals \/ ReaderWakes \/ ReaderFinishes \/ ReaderAnnounces

-----------------------------------------------------------------------------
(* _pump and ssh_read.                                                     *)

PumpLoops ==
    /\ pump = "loop"
    /\ pump' = IF Closing THEN "finishing" ELSE IF paused THEN "held" ELSE "resumed"
    /\ UNCHANGED <<bufferVars, space, data, readerVars, reply, lastReply, delivered, consumerVars,
                   closer, writeVars, remoteVars>>

\* After _waitForConsumers: only _closing is looked at again.
PumpCalls ==
    /\ pump = "resumed"
    /\ pump' = IF Closing THEN "finishing" ELSE "call"
    /\ UNCHANGED <<bufferVars, space, data, readerVars, reply, lastReply, delivered, consumerVars,
                   closer, writeVars, remoteVars>>

\* A session that is gone from the registry is an error, which ends the pump.
ReadBegins ==
    /\ pump = "call"
    /\ IF registered THEN data' = "armed" /\ pump' = "look"
                     ELSE pump' = "finishing" /\ UNCHANGED data
    /\ UNCHANGED <<bufferVars, space, readerVars, reply, lastReply, delivered, consumerVars,
                   closer, writeVars, remoteVars>>

ReadFindsNothing ==
    /\ pump = "look" /\ Total = 0 /\ ~closed
    /\ pump' = "waiting"
    /\ UNCHANGED <<bufferVars, space, data, readerVars, reply, lastReply, delivered, consumerVars,
                   closer, writeVars, remoteVars>>

\* Less than a batch: wait up to READ_COALESCE_MILLIS for more.
ReadCoalesces ==
    /\ pump = "look" /\ Total \in 1..(Batch - 1) /\ ~closed
    /\ pump' = "coalescing"
    /\ UNCHANGED <<bufferVars, space, data, readerVars, reply, lastReply, delivered, consumerVars,
                   closer, writeVars, remoteVars>>

\* Mutant: a read takes Limit bytes whether or not there are so many.
Drained_WholeLimit ==
    [s \in Streams |-> IF s = "stdout" THEN Limit ELSE 0]

\* What one read takes: stdout first, stderr with what is left of the limit.
Drained ==
    LET n == Lesser(queued["stdout"], Limit)
    IN [s \in Streams |-> IF s = "stdout" THEN n
                          ELSE Lesser(queued["stderr"], Limit - n)]

\* Mutant: the whole buffer is cleared after a bounded read.
ReadTakes_ClearsAll ==
    /\ pump \in {"look", "due"} /\ (Total > 0 \/ closed)
    /\ reply' = Drained
    /\ queued' = Zero
    /\ data' = "none"
    /\ pump' = "drained"
    /\ UNCHANGED <<closed, registered, space, readerVars, lastReply, delivered, consumerVars,
                   closer, writeVars, remoteVars>>

\* A batch, the end of the coalescing time, an answer to input, or the end of
\* the session.
ReadTakes ==
    /\ pump \in {"look", "due"} /\ (Total > 0 \/ closed)
    /\ reply' = Drained
    /\ queued' = [s \in Streams |-> queued[s] - Drained[s]]
    /\ data' = "none"
    /\ pump' = "drained"
    /\ UNCHANGED <<closed, registered, space, readerVars, lastReply, delivered, consumerVars,
                   closer, writeVars, remoteVars>>

\* Mutant: the reader is not told that there is room.
ReadNotifies_Forgets ==
    /\ pump = "drained"
    /\ pump' = "flag"
    /\ UNCHANGED <<bufferVars, space, data, readerVars, reply, lastReply, delivered, consumerVars,
                   closer, writeVars, remoteVars>>

\* After the lock is released, tell the reader.
ReadNotifies ==
    /\ pump = "drained"
    /\ space' = Woken(space)
    /\ pump' = "flag"
    /\ UNCHANGED <<bufferVars, data, readerVars, reply, lastReply, delivered, consumerVars,
                   closer, writeVars, remoteVars>>

\* Mutant: the result never says that the session has ended.
ReadReturns_HidesEnd ==
    /\ pump = "flag"
    /\ lastReply' = FALSE
    /\ pump' = "reply"
    /\ UNCHANGED <<bufferVars, space, data, readerVars, reply, delivered, consumerVars, closer,
                   writeVars, remoteVars>>

\* The flag of the result is read last of all.
ReadReturns ==
    /\ pump = "flag"
    /\ lastReply' = closed
    /\ pump' = "reply"
    /\ UNCHANGED <<bufferVars, space, data, readerVars, reply, delivered, consumerVars, closer,
                   writeVars, remoteVars>>

\* Woken by data or by the end of the session: a new future, and look again.
ReadWakes ==
    /\ pump \in {"waiting", "coalescing"} /\ data = "woken"
    /\ data' = "armed"
    /\ pump' = "look"
    /\ UNCHANGED <<bufferVars, space, readerVars, reply, lastReply, delivered, consumerVars,
                   closer, writeVars, remoteVars>>

CoalescingEnds ==
    /\ pump = "coalescing" /\ data = "armed"
    /\ pump' = "due"
    /\ UNCHANGED <<bufferVars, space, data, readerVars, reply, lastReply, delivered, consumerVars,
                   closer, writeVars, remoteVars>>

\* waitMillis went by: an empty result that says nothing about the end.
ReadTimesOut ==
    /\ pump = "waiting" /\ data = "armed"
    /\ data' = "none"
    /\ reply' = Zero
    /\ lastReply' = FALSE
    /\ pump' = "reply"
    /\ UNCHANGED <<bufferVars, space, readerVars, delivered, consumerVars, closer, writeVars,
                   remoteVars>>

\* Back on the Dart isolate: the bytes are added to the streams.
PumpDelivers ==
    /\ pump = "reply"
    /\ delivered' = [s \in Streams |-> delivered[s] + reply[s]]
    /\ reply' = Zero
    /\ pump' = IF lastReply THEN "finishing" ELSE "loop"
    /\ UNCHANGED <<bufferVars, space, data, readerVars, lastReply, consumerVars, closer,
                   writeVars, remoteVars>>

\* The pump's finally block: it closes both streams, each of which takes until
\* its listener has heard the end or has cancelled, then completes done.  It
\* waits for ever for listeners that are paused for ever, or never were.
PumpEnds ==
    /\ pump = "finishing"
    /\ listener = "cancelled" \/ (listener = "listening" /\ ~paused)
    /\ pump' = "ended"
    /\ UNCHANGED <<bufferVars, space, data, readerVars, reply, lastReply, delivered,
                   consumerVars, closer, writeVars, remoteVars>>

PumpStep ==
    \/ PumpLoops \/ PumpCalls \/ ReadBegins \/ ReadFindsNothing \/ ReadCoalesces
    \/ ReadTakes \/ ReadNotifies \/ ReadReturns \/ ReadWakes \/ CoalescingEnds
    \/ ReadTimesOut \/ PumpDelivers \/ PumpEnds

-----------------------------------------------------------------------------
(* The consumer, the terminal's input, and close().                        *)

\* Mutant: resuming does not complete what the pump awaits.
SetConsumerPaused_Forgets(wanted) == paused' = wanted /\ UNCHANGED pump

\* _setConsumerPaused for both streams: resuming completes what the pump awaits.
SetConsumerPaused(wanted) ==
    /\ paused' = wanted
    /\ pump' = IF ~wanted /\ pump = "held" THEN "resumed" ELSE pump

\* The terminal's backlog crosses its high or low water mark.
ConsumerPauses ==
    /\ listener = "listening" /\ ~paused
    /\ SetConsumerPaused(TRUE)
    /\ UNCHANGED <<bufferVars, space, data, readerVars, reply, lastReply, delivered, listener,
                   closer, writeVars, remoteVars>>

ConsumerResumes ==
    /\ listener = "listening" /\ paused
    /\ SetConsumerPaused(FALSE)
    /\ UNCHANGED <<bufferVars, space, data, readerVars, reply, lastReply, delivered, listener,
                   closer, writeVars, remoteVars>>

\* The controller releases the connection: it cancels both subscriptions, and
\* onCancel takes back what they had paused.
ConsumerCancels ==
    /\ listener = "listening"
    /\ listener' = "cancelled"
    /\ SetConsumerPaused(FALSE)
    /\ UNCHANGED <<bufferVars, space, data, readerVars, reply, lastReply, delivered, closer,
                   writeVars, remoteVars>>

\* Only the controller that holds the connection writes to it.
Write ==
    /\ listener = "listening" /\ ~Closing /\ written < MaxWrites
    /\ written' = written + 1
    /\ chain' = chain + 1
    /\ UNCHANGED <<bufferVars, space, data, readerVars, pumpVars, consumerVars, closer, remoteVars>>

\* close(), which the controller calls when it has cancelled its subscriptions,
\* or at once on a connection it does not adopt: _closing is set (the tunnels
\* are the subject of SshTunnels) and the write chain is awaited.
CloseBegins ==
    /\ closer = "open" /\ listener # "listening"
    /\ closer' = "writes"
    /\ UNCHANGED <<bufferVars, space, data, readerVars, pumpVars, consumerVars, writeVars, remoteVars>>

CloseResumesPump ==
    /\ closer = "writes" /\ chain = 0
    /\ SetConsumerPaused(FALSE)
    /\ closer' = "store"
    /\ UNCHANGED <<bufferVars, space, data, readerVars, reply, lastReply, delivered, listener,
                   writeVars, remoteVars>>

CloseStores ==
    /\ closer = "store"
    /\ closed' = TRUE
    /\ closer' = "notify"
    /\ UNCHANGED <<queued, registered, space, data, readerVars, pumpVars, consumerVars, writeVars,
                   remoteVars>>

\* Mutant: the reading side is not woken.
CloseNotifies_SpaceOnly ==
    /\ closer = "notify"
    /\ space' = Woken(space) /\ UNCHANGED data
    /\ closer' = "remove"
    /\ UNCHANGED <<bufferVars, readerVars, pumpVars, consumerVars, writeVars, remoteVars>>

CloseNotifies ==
    /\ closer = "notify"
    /\ data' = Woken(data) /\ space' = Woken(space)
    /\ closer' = "remove"
    /\ UNCHANGED <<bufferVars, readerVars, pumpVars, consumerVars, writeVars, remoteVars>>

CloseRemoves ==
    /\ closer = "remove"
    /\ registered' = FALSE
    /\ closer' = "disconnect"
    /\ UNCHANGED <<queued, closed, space, data, readerVars, pumpVars, consumerVars, writeVars,
                   remoteVars>>

CloseDisconnects ==
    /\ closer = "disconnect"
    /\ closer' = "await"
    /\ UNCHANGED <<bufferVars, space, data, readerVars, pumpVars, consumerVars, writeVars, remoteVars>>

CloseReturns ==
    /\ closer = "await" /\ pump = "ended"
    /\ closer' = "closed"
    /\ UNCHANGED <<bufferVars, space, data, readerVars, pumpVars, consumerVars, writeVars, remoteVars>>

CloserStep == CloseResumesPump \/ CloseStores \/ CloseNotifies \/ CloseRemoves
              \/ CloseDisconnects \/ CloseReturns

-----------------------------------------------------------------------------
Next ==
    \/ RemoteSends \/ RemoteCloses \/ WriteEnds
    \/ ReaderStep
    \/ PumpStep
    \/ ConsumerPauses \/ ConsumerResumes \/ ConsumerCancels
    \/ Write
    \/ CloseBegins
    \/ CloserStep

Spec == Init /\ [][Next]_vars

\* The tasks run; the renderer works its backlog off and resumes what it
\* paused; a stream that is resumed delivers its end before it can be paused
\* again; a remote that can take input takes it.
Fairness ==
    /\ WF_vars(ReaderStep) /\ WF_vars(PumpStep) /\ WF_vars(CloserStep)
    /\ SF_vars(PumpEnds)
    /\ WF_vars(ConsumerResumes)
    /\ WF_vars(WriteEnds)

FairSpec == Spec /\ Fairness

-----------------------------------------------------------------------------
(* Properties.                                                             *)

\* Until the reader task ends, every byte it took from the channel is in the
\* message it holds, in the buffer, in a read result, or on its Dart stream:
\* once, and on the stream it came on.
NothingLost ==
    reader \notin {"finish", "announce", "exit"} =>
        \A s \in Streams :
            received[s] = delivered[s] + reply[s] + queued[s]
                          + (IF msg.stream = s THEN msg.left ELSE 0)

\* The buffer never holds more than its capacity (ARCHITECTURE.md 14).
BufferBounded == Total <= Capacity

\* A reader task that sleeps while the buffer has room is about to be woken by
\* the read that made the room.
NoLostSpaceWakeup ==
    reader = "parked" /\ space = "armed" /\ Total < Capacity => pump = "drained"

\* A read that sleeps while there is something to return is about to be woken
\* by who put it there.
NoLostDataWakeup ==
    pump = "waiting" /\ data = "armed" /\ (Total > 0 \/ closed) =>
        reader \in {"signal", "announce"} \/ closer = "notify"

\* The backlog is worked off: again and again everything received has been
\* delivered, unless the session ends.  (The remote sends boundedly much.)
OutputArrives == []<>(delivered = received \/ closed)

\* When the remote closes the channel the pump ends, and with it "done"
\* completes, provided somebody listens to the streams or did.
RemoteEndReported == eof /\ listener # "none" ~> pump = "ended"


-----------------------------------------------------------------------------
(* What the documentation promises and the code does not keep.             *)

\* close() completes whatever the remote does with the writes before it.
CloseNeverStuck == Closing ~> closer = "closed"

\* After close() the reader task ends and gives the session back.
ReaderEnds == closer = "closed" ~> reader = "exit"

\* When the remote closed the channel, the pump reports the end only after
\* everything that was received has been delivered.
TailDelivered ==
    pump = "ended" /\ ~Closing => \A s \in Streams : delivered[s] = received[s]
=============================================================================
