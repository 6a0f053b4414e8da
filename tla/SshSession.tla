----------------------------- MODULE SshSession -----------------------------
(***************************************************************************)
(* One SshSessionController: the object that owns the SSH (or Mosh)        *)
(* connection of one terminal tab                                          *)
(* (lib/features/terminal/application/ssh_session_controller.dart).        *)
(*                                                                         *)
(* Everything here runs on one Dart isolate, so a step is the code between *)
(* two awaits.  connect() and disconnect() both begin by releasing the     *)
(* previous connection, which awaits three times (the cancellation of each *)
(* stream, then the close); the gateway call awaits the network and the    *)
(* user.  The interleavings of those awaits with each other, with the      *)
(* callbacks of the gateway, and with the end of an older connection are   *)
(* the subject.                                                            *)
(*                                                                         *)
(* A connection is named by the connect() call that obtained it.           *)
(***************************************************************************)
EXTENDS Naturals, FiniteSets

CONSTANTS
    Connects,     \* the connect() calls the screens make, each made once
    Disconnects,  \* the disconnect() calls the screens make, each made once
    None,         \* Dart's null
    Overlap       \* may connect() be called while an earlier call is running?

ASSUME ConstantsAssumption ==
    /\ None \notin Connects
    /\ Connects \cap Disconnects = {}
    /\ Overlap \in BOOLEAN

VARIABLES
    mosh,          \* is profile.connectionType mosh?  The profile never changes
    status,        \* the SshSessionStatus the screen shows
    closing,       \* _closing
    disposed,      \* _disposed
    connection,    \* _connection
    subs,          \* the connection whose streams _stdoutSubscription, _stderrSubscription are on
    listening,     \* of each stream: connections whose output still reaches the terminal
    renderPaused,  \* _rendererOutputBackpressured
    subsPaused,    \* _outputSubscriptionsPaused
    paused,        \* of each stream: connections whose subscription is really paused
    pc,            \* where each call is
    held,          \* the connection a call's _releaseConnection has taken out
    conn,          \* the life of each connection
    stalled,       \* connections with a write that the remote does not take
    done,          \* has SshConnection.done completed, has its handler run?
    cancelled,     \* history: calls that were running when the user closed the session
    hostKnown      \* has the known_hosts store a key of this host? (Mosh only)

attemptVars == <<mosh, pc, held, conn, stalled, done, cancelled, hostKnown>>
outputVars == <<listening, renderPaused, subsPaused, paused>>
vars == <<status, closing, disposed, connection, subs, outputVars, attemptVars>>

Statuses == {"idle", "connecting", "verifyingHost", "authenticating", "openingPty",
             "connected", "reconnectPrompt", "closing", "closed", "failed"}

\* The statuses in which connect() returns at once.
Busy == {"connecting", "verifyingHost", "authenticating", "openingPty",
         "connected", "closing"}

Calls == Connects \cup Disconnects

Streams == {"stdout", "stderr"}

\* "cancelling" (stdout), "cancellingStderr", "closing": the three awaits of
\* _releaseConnection; "gateway": inside SshGateway.connect; "opening":
\* onOpeningPty has run, the gateway's result is on its way; "probing": a Mosh
\* attempt closing its probe session; "late": connect() closing a connection
\* it does not adopt.  The others are how a call ends.
Pcs == {"ready", "cancelling", "cancellingStderr", "closing", "gateway", "opening",
        "probing", "late", "adopted", "failed", "done"}

\* A call that still touches the session.  (One that closes a late connection
\* does not, however long that takes.)
Running(c) == pc[c] \in {"cancelling", "cancellingStderr", "closing", "gateway",
                         "opening", "probing"}

\* Connections with a stream that reaches the terminal.
Heard == listening["stdout"] \cup listening["stderr"]

TypeOK ==
    /\ mosh \in BOOLEAN
    /\ status \in Statuses
    /\ closing \in BOOLEAN /\ disposed \in BOOLEAN
    /\ connection \in Connects \cup {None}
    /\ subs \in Connects \cup {None}
    /\ listening \in [Streams -> SUBSET Connects]
    /\ paused \in [Streams -> SUBSET Connects]
    /\ renderPaused \in BOOLEAN /\ subsPaused \in BOOLEAN
    /\ pc \in [Calls -> Pcs]
    /\ held \in [Calls -> Connects \cup {None}]
    /\ conn \in [Connects -> {"none", "open", "closing", "released", "closed"}]
    /\ stalled \subseteq Connects
    /\ done \in [Connects -> {"no", "completed", "handled"}]
    /\ cancelled \subseteq Connects
    /\ hostKnown \in BOOLEAN

Init ==
    /\ mosh \in BOOLEAN
    /\ status = "idle"
    /\ closing = FALSE /\ disposed = FALSE
    /\ connection = None /\ subs = None
    /\ listening = [s \in Streams |-> {}] /\ paused = [s \in Streams |-> {}]
    /\ renderPaused = FALSE /\ subsPaused = FALSE
    /\ pc = [o \in Calls |-> "ready"]
    /\ held = [o \in Calls |-> None]
    /\ conn = [c \in Connects |-> "none"]
    /\ stalled = {}
    /\ done = [c \in Connects |-> "no"]
    /\ cancelled = {}
    /\ hostKnown \in (IF mosh THEN BOOLEAN ELSE {FALSE})

-----------------------------------------------------------------------------
(***************************************************************************)
(* _releaseConnection: take the connection out of its field and cancel the *)
(* stdout subscription, then the one on stderr; when both are cancelled    *)
(* forget them and start the close.  Each field is read when its turn      *)
(* comes.  Closing again does not begin anew: SSH returns at once, Mosh    *)
(* awaits the close that runs.                                             *)
(***************************************************************************)
\* Mutant: the connection is dropped from its field without being kept.
ReleaseBegin_Forgets(o) ==
    /\ pc' = [pc EXCEPT ![o] = "cancelling"]
    /\ held' = held
    /\ connection' = None
    /\ listening' = [listening EXCEPT !["stdout"] = @ \ {subs}]
    /\ paused' = [paused EXCEPT !["stdout"] = @ \ {subs}]

\* Mutant: the subscription to stdout is not cancelled.
ReleaseBegin_KeepsListening(o) ==
    /\ pc' = [pc EXCEPT ![o] = "cancelling"]
    /\ held' = [held EXCEPT ![o] = connection]
    /\ connection' = None
    /\ UNCHANGED <<listening, paused>>

ReleaseBegin(o) ==
    /\ pc' = [pc EXCEPT ![o] = "cancelling"]
    /\ held' = [held EXCEPT ![o] = connection]
    /\ connection' = None
    /\ listening' = [listening EXCEPT !["stdout"] = @ \ {subs}]
    /\ paused' = [paused EXCEPT !["stdout"] = @ \ {subs}]

\* Mutant: the subscription to stderr is not cancelled.
ReleaseCancelsStderr_Forgets(o) ==
    /\ pc[o] = "cancelling"
    /\ pc' = [pc EXCEPT ![o] = "cancellingStderr"]
    /\ UNCHANGED <<status, closing, disposed, connection, subs, outputVars, held, conn,
                   stalled, done, cancelled, mosh, hostKnown>>

ReleaseCancelsStderr(o) ==
    /\ pc[o] = "cancelling"
    /\ pc' = [pc EXCEPT ![o] = "cancellingStderr"]
    /\ listening' = [listening EXCEPT !["stderr"] = @ \ {subs}]
    /\ paused' = [paused EXCEPT !["stderr"] = @ \ {subs}]
    /\ UNCHANGED <<status, closing, disposed, connection, subs, renderPaused, subsPaused,
                   held, conn, stalled, done, cancelled, mosh, hostKnown>>

ReleaseClose(o) ==
    /\ pc[o] = "cancellingStderr"
    /\ pc' = [pc EXCEPT ![o] = "closing"]
    /\ subs' = None
    /\ subsPaused' = FALSE
    /\ IF held[o] # None /\ conn[held[o]] = "open"
       THEN conn' = [conn EXCEPT ![held[o]] = "closing"] /\ UNCHANGED held
       ELSE /\ held' = IF mosh THEN held ELSE [held EXCEPT ![o] = None]
            /\ UNCHANGED conn
    /\ UNCHANGED <<status, closing, disposed, connection, listening, renderPaused,
                   paused, stalled, done, cancelled, mosh, hostKnown>>

Released(o) == /\ pc[o] = "closing"
               /\ held[o] # None => conn[held[o]] = "closed"
               /\ held' = [held EXCEPT ![o] = None]

\* connect(): the guard, then the release.  Overlap = FALSE is a screen that
\* calls again only when the calls it made no longer touch the session; the
\* real button is only hidden by the status.
Connect(c) ==
    /\ pc[c] = "ready"
    /\ status \notin Busy
    /\ Overlap \/ \A o \in Calls : ~Running(o)
    /\ closing' = TRUE
    /\ ReleaseBegin(c)
    /\ UNCHANGED <<status, disposed, subs, renderPaused, subsPaused, conn, stalled, done,
                   cancelled, mosh, hostKnown>>

\* ... connect() once the old connection is closed: on to the gateway.
ConnectReleased(c) ==
    /\ Released(c)
    /\ closing' = FALSE
    /\ status' = "connecting"
    /\ pc' = [pc EXCEPT ![c] = "gateway"]
    /\ UNCHANGED <<disposed, connection, subs, outputVars, conn, stalled, done, cancelled,
                   mosh, hostKnown>>

-----------------------------------------------------------------------------
(* The gateway's callbacks, which set the status whatever happened since.  *)

HostKeyPrompt(c) ==
    /\ ~mosh /\ pc[c] = "gateway"
    /\ status' = "verifyingHost"
    /\ UNCHANGED <<closing, disposed, connection, subs, outputVars, attemptVars>>

AuthenticationStarted(c) ==
    /\ ~mosh /\ pc[c] = "gateway"
    /\ status' = "authenticating"
    /\ UNCHANGED <<closing, disposed, connection, subs, outputVars, attemptVars>>

OpeningPty(c) ==
    /\ ~mosh /\ pc[c] = "gateway"
    /\ status' = "openingPty"
    /\ pc' = [pc EXCEPT ![c] = "opening"]
    /\ conn' = [conn EXCEPT ![c] = "open"]
    /\ UNCHANGED <<closing, disposed, connection, subs, outputVars, held, stalled, done,
                   cancelled, mosh, hostKnown>>

\* The catch blocks of connect(): the status becomes failed, again whatever
\* happened since the attempt began.
ConnectFails(c) ==
    /\ pc[c] = "gateway"
    /\ pc' = [pc EXCEPT ![c] = "failed"]
    /\ status' = "failed"
    /\ UNCHANGED <<closing, disposed, connection, subs, outputVars, held, conn,
                   stalled, done, cancelled, mosh, hostKnown>>

\* _connectMosh for a host without a known key: an SSH session is opened only
\* to have the key approved, and closed.  Its streams never get a listener, so
\* StreamController.close() in _pump, and with it probe.close(), never
\* completes: no action leads out of "probing".
MoshProbe(c) ==
    /\ mosh /\ pc[c] = "gateway" /\ ~hostKnown
    /\ hostKnown' = TRUE
    /\ pc' = [pc EXCEPT ![c] = "probing"]
    /\ UNCHANGED <<status, closing, disposed, connection, subs, outputVars, held,
                   conn, stalled, done, cancelled, mosh>>

\* Mutant: the subscription is paused without the null check.
ApplyBackpressure_NoNullCheck(c, wanted) ==
    IF subsPaused = wanted
    THEN UNCHANGED <<subsPaused, paused>>
    ELSE /\ subsPaused' = wanted
         /\ paused' = [s \in Streams |-> IF wanted THEN paused[s] \cup {c}
                                         ELSE paused[s] \ {c}]

\* Mutant: the flag is cleared without resuming the subscription.
ApplyBackpressure_NoResume(c, wanted) ==
    IF subsPaused = wanted
    THEN UNCHANGED <<subsPaused, paused>>
    ELSE /\ subsPaused' = wanted
         /\ paused' = [s \in Streams |-> IF wanted
                                         THEN paused[s] \cup ({c} \cap listening'[s])
                                         ELSE paused[s]]

\* _applyOutputBackpressure, for the subscriptions to c the fields now hold.
\* Pausing a subscription that was cancelled does nothing.
ApplyBackpressure(c, wanted) ==
    IF subsPaused = wanted
    THEN UNCHANGED <<subsPaused, paused>>
    ELSE /\ subsPaused' = wanted
         /\ paused' = [s \in Streams |-> IF wanted
                                         THEN paused[s] \cup ({c} \cap listening'[s])
                                         ELSE paused[s] \ {c}]

\* The gateway returned a connection: adopt it, or close it when the session
\* was closed meanwhile.
GatewayReturned(c) == \/ pc[c] = "opening"
                      \/ (mosh /\ pc[c] = "gateway" /\ hostKnown)

ConnectionArrivesLate(c) ==
    /\ GatewayReturned(c)
    /\ closing \/ disposed
    /\ pc' = [pc EXCEPT ![c] = "late"]
    /\ conn' = [conn EXCEPT ![c] = "closing"]
    /\ UNCHANGED <<status, closing, disposed, connection, subs, outputVars, held,
                   stalled, done, cancelled, mosh, hostKnown>>

\* ... connect() returns once the late connection is closed.
LateReturns(c) ==
    /\ pc[c] = "late" /\ conn[c] = "closed"
    /\ pc' = [pc EXCEPT ![c] = "done"]
    /\ UNCHANGED <<status, closing, disposed, connection, subs, outputVars, held, conn,
                   stalled, done, cancelled, mosh, hostKnown>>

\* Mutant: the check of _closing and _disposed is dropped.
Adopt_Unchecked(c) ==
    /\ GatewayReturned(c)
    /\ pc' = [pc EXCEPT ![c] = "adopted"]
    /\ conn' = [conn EXCEPT ![c] = "open"]
    /\ connection' = c
    /\ subs' = c
    /\ listening' = [s \in Streams |-> listening[s] \cup {c}]
    /\ ApplyBackpressure(c, renderPaused)
    /\ status' = "connected"
    /\ UNCHANGED <<closing, disposed, renderPaused, held, stalled, done, cancelled, mosh,
                   hostKnown>>

Adopt(c) ==
    /\ GatewayReturned(c)
    /\ ~closing /\ ~disposed
    /\ pc' = [pc EXCEPT ![c] = "adopted"]
    /\ conn' = [conn EXCEPT ![c] = "open"]
    /\ connection' = c
    /\ subs' = c
    /\ listening' = [s \in Streams |-> listening[s] \cup {c}]
    /\ ApplyBackpressure(c, renderPaused)
    /\ status' = "connected"
    /\ UNCHANGED <<closing, disposed, renderPaused, held, stalled, done, cancelled, mosh,
                   hostKnown>>

-----------------------------------------------------------------------------
(* The connection's own events.                                            *)

\* A write or resize failed: the error reaches the terminal's subscription and
\* the connection itself stays open.
StreamError(c) ==
    /\ conn[c] = "open" /\ done[c] = "no"
    /\ \E s \in Streams : c \in listening[s] \ paused[s]
    /\ status' = IF closing \/ disposed THEN status ELSE "reconnectPrompt"
    /\ UNCHANGED <<closing, disposed, connection, subs, outputVars, attemptVars>>

\* Input is written and the remote does not take it, for a while or for ever.
\* (A Mosh connection sends datagrams and waits for nobody.)
WriteStalls(c) ==
    /\ ~mosh /\ connection = c /\ status = "connected"
    /\ conn[c] = "open" /\ c \notin stalled
    /\ stalled' = stalled \cup {c}
    /\ UNCHANGED <<status, closing, disposed, connection, subs, outputVars, pc, held, conn,
                   done, cancelled, mosh, hostKnown>>

WriteEnds(c) ==
    /\ c \in stalled
    /\ stalled' = stalled \ {c}
    /\ UNCHANGED <<status, closing, disposed, connection, subs, outputVars, pc, held, conn,
                   done, cancelled, mosh, hostKnown>>

\* Nothing keeps the two StreamControllers of an SSH connection from closing:
\* somebody listened to them, and a subscription that is left is not paused.
\* close() of a Mosh connection does not wait for its streams.
StreamsEnd(c) == \/ mosh
                 \/ pc[c] = "adopted" /\ \A s \in Streams : c \notin paused[s]

\* The pump stops (the remote closed, or reading failed), closes the streams,
\* and done completes.
RemoteEnds(c) ==
    /\ conn[c] = "open" /\ done[c] = "no"
    /\ pc[c] = "adopted" /\ StreamsEnd(c)
    /\ done' = [done EXCEPT ![c] = "completed"]
    /\ UNCHANGED <<status, closing, disposed, connection, subs, outputVars, pc,
                   held, conn, stalled, cancelled, mosh, hostKnown>>

\* close() up to the end of sshClose: it awaits the writes made before it, then
\* gives the session back.
CloseReleases(c) ==
    /\ conn[c] = "closing" /\ c \notin stalled
    /\ conn' = [conn EXCEPT ![c] = "released"]
    /\ UNCHANGED <<status, closing, disposed, connection, subs, outputVars, pc,
                   held, stalled, done, cancelled, mosh, hostKnown>>

\* close() completes with the pump, which closes the streams on its way out: it
\* never does for a late SSH connection, whose streams nobody listened to.  For
\* an adopted connection done completes with it.
CloseDone(c) ==
    /\ conn[c] = "released" /\ StreamsEnd(c)
    /\ conn' = [conn EXCEPT ![c] = "closed"]
    /\ done' = IF pc[c] = "adopted" /\ done[c] = "no"
               THEN [done EXCEPT ![c] = "completed"] ELSE done
    /\ UNCHANGED <<status, closing, disposed, connection, subs, outputVars, pc,
                   held, stalled, cancelled, mosh, hostKnown>>

\* _handleRemoteDone, or _handleStreamError when done completed with an error.
\* It runs in a microtask of its own: nothing orders it before or after the
\* code that awaits the same connection's close().
HandleDone(c) ==
    /\ pc[c] = "adopted" /\ done[c] = "completed"
    /\ done' = [done EXCEPT ![c] = "handled"]
    /\ status' = IF closing \/ disposed THEN status ELSE "reconnectPrompt"
    /\ UNCHANGED <<closing, disposed, connection, subs, outputVars, pc, held, conn,
                   stalled, cancelled, mosh, hostKnown>>

-----------------------------------------------------------------------------
(* What the user and the screens do.                                       *)

\* disconnect() returns at once when a release is under way.  _closing stays
\* set afterwards: only the next connect() clears it.
Disconnect(d) ==
    /\ pc[d] = "ready"
    /\ ~closing /\ status # "closed"
    /\ closing' = TRUE
    /\ status' = "closing"
    /\ cancelled' = cancelled \cup {c \in Connects : Running(c)}
    /\ ReleaseBegin(d)
    /\ UNCHANGED <<disposed, subs, renderPaused, subsPaused, conn, stalled, done, mosh,
                   hostKnown>>

\* Mutant: disconnect() clears _closing when it is done, as connect() does.
DisconnectReleased_Reopens(d) ==
    /\ Released(d)
    /\ pc' = [pc EXCEPT ![d] = "done"]
    /\ status' = "closed"
    /\ closing' = FALSE
    /\ UNCHANGED <<disposed, connection, subs, outputVars, conn, stalled, done,
                   cancelled, mosh, hostKnown>>

DisconnectReleased(d) ==
    /\ Released(d)
    /\ pc' = [pc EXCEPT ![d] = "done"]
    /\ status' = "closed"
    /\ UNCHANGED <<closing, disposed, connection, subs, outputVars, conn, stalled, done,
                   cancelled, mosh, hostKnown>>

\* The screen could not obtain the credentials of an attempt it was preparing.
ReportFailure ==
    /\ Overlap \/ (status \notin Busy /\ \A o \in Calls : ~Running(o))
    /\ status # "failed"
    /\ status' = "failed"
    /\ UNCHANGED <<closing, disposed, connection, subs, outputVars, attemptVars>>


\* The tab is removed from the SessionRegistry.  dispose() cancels and closes
\* what the fields hold and awaits nothing.
Dispose ==
    /\ ~disposed
    /\ disposed' = TRUE /\ closing' = TRUE
    /\ listening' = [s \in Streams |-> listening[s] \ {subs}]
    /\ paused' = [s \in Streams |-> paused[s] \ {subs}]
    /\ conn' = IF connection # None
               THEN [conn EXCEPT ![connection] = IF @ = "open" THEN "closing" ELSE @]
               ELSE conn
    /\ cancelled' = cancelled \cup {c \in Connects : Running(c)}
    /\ UNCHANGED <<status, connection, subs, renderPaused, subsPaused, pc, held, stalled,
                   done, mosh, hostKnown>>

\* The renderer's backlog crosses its high or low water mark.
SetOutputBackpressure(wanted) ==
    /\ ~disposed /\ renderPaused # wanted
    /\ renderPaused' = wanted
    /\ UNCHANGED <<status, closing, disposed, connection, subs, listening, attemptVars>>
    /\ ApplyBackpressure(subs, wanted)

-----------------------------------------------------------------------------
Next ==
    \/ \E c \in Connects :
          \/ Connect(c) \/ ConnectReleased(c)
          \/ HostKeyPrompt(c) \/ AuthenticationStarted(c) \/ OpeningPty(c)
          \/ ConnectFails(c) \/ MoshProbe(c)
          \/ ConnectionArrivesLate(c) \/ LateReturns(c) \/ Adopt(c)
          \/ StreamError(c) \/ WriteStalls(c) \/ WriteEnds(c)
          \/ RemoteEnds(c) \/ CloseReleases(c) \/ CloseDone(c) \/ HandleDone(c)
    \/ \E o \in Calls : ReleaseCancelsStderr(o) \/ ReleaseClose(o)
    \/ \E d \in Disconnects : Disconnect(d) \/ DisconnectReleased(d)
    \/ ReportFailure
    \/ Dispose
    \/ \E wanted \in BOOLEAN : SetOutputBackpressure(wanted)

Spec == Init /\ [][Next]_vars

\* What always goes on without the user: the releases, the closes as far as
\* CloseReleases and CloseDone say, the microtasks, and the gateway, whose every
\* stage has a time limit once the user has answered its dialogs.  That a
\* stalled write ends is not assumed.
Fairness ==
    /\ \A c \in Connects :
          /\ WF_vars(ConnectReleased(c))
          /\ WF_vars(OpeningPty(c) \/ ConnectFails(c) \/ MoshProbe(c)
                     \/ ConnectionArrivesLate(c) \/ Adopt(c))
          /\ WF_vars(CloseReleases(c)) /\ WF_vars(CloseDone(c)) /\ WF_vars(LateReturns(c))
          /\ WF_vars(HandleDone(c))
    /\ \A o \in Calls : WF_vars(ReleaseCancelsStderr(o)) /\ WF_vars(ReleaseClose(o))
    /\ \A d \in Disconnects : WF_vars(DisconnectReleased(d))

FairSpec == Spec /\ Fairness

-----------------------------------------------------------------------------
(* Properties.                                                             *)

\* A session that says "connected" has a connection, that connection is open,
\* its end has not been reported, its output reaches the terminal, and no
\* release is closing it: input typed now goes to a live shell.  This holds
\* whatever the screens do, ...
ConnectedIsOpen ==
    status = "connected" /\ ~disposed =>
        /\ ~closing
        /\ connection # None
        /\ conn[connection] = "open"
        /\ done[connection] # "handled"
        /\ connection \in listening["stdout"]
        /\ \A o \in Calls : held[o] # connection

\* ... and with screens that wait its errors reach the terminal too.  (A release
\* reads the stderr field after its first await: of overlapping calls it may
\* cancel the one another call has just stored there.)
ConnectedIsLive ==
    /\ ConnectedIsOpen
    /\ status = "connected" /\ ~disposed => connection \in listening["stderr"]

\* Every open connection has an owner that will close it: the controller's
\* field, or the release that took it out of the field.
EveryConnectionOwned ==
    \A c \in Connects :
        pc[c] = "adopted" /\ conn[c] = "open" =>
            c = connection \/ \E o \in Calls : held[o] = c

\* Two connections never write to the same terminal.
OneSource == Cardinality(Heard) <= 1

\* An attempt that was under way when the user closed the session never
\* becomes the session's connection.
CancelledNotAdopted == \A c \in cancelled : pc[c] # "adopted"

\* When the renderer does not ask for backpressure the connection is not held
\* back.
NotPausedForever ==
    status = "connected" /\ ~disposed /\ ~renderPaused =>
        \A s \in Streams : connection \notin paused[s]


\* A call returns, except where it awaits a close that does not complete: of
\* streams nobody listened to (a Mosh probe, a late SSH connection), or of a
\* connection with a write the remote does not take.
AttemptSettles ==
    \A o \in Calls :
        Running(o) \/ pc[o] = "late" ~>
            \/ ~Running(o) /\ (pc[o] = "late" => ~mosh)
            \/ pc[o] = "probing"
            \/ held[o] \in stalled

-----------------------------------------------------------------------------
(* What the documentation promises and the code does not keep.             *)

\* At most one connection attempt is inside the gateway (ARCHITECTURE.md 5.1).
OneAttempt ==
    Cardinality({c \in Connects : pc[c] \in {"gateway", "opening", "probing"}}) <= 1

\* The session only asks to reconnect because of the connection it holds now.
NoticeIsCurrent ==
    [][\A c \in Connects :
          done'[c] = "handled" /\ done[c] # "handled" /\ status' # status
              => connection = c]_vars

\* When the user has closed the session and nothing touches it any more, it does
\* not say that it is connecting, connected or closing: connect() returns at once
\* in those statuses, and disconnect() while _closing is set.
ClosedNotBusy ==
    closing /\ ~disposed /\ (\A o \in Calls : ~Running(o)) => status \notin Busy

\* While the renderer asks for backpressure the connection is not read.
BackpressureHonoured ==
    status = "connected" /\ ~disposed /\ renderPaused =>
        \A s \in Streams : connection \in paused[s]
=============================================================================
