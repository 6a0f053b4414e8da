-------------------------- MODULE SshSessionProofs --------------------------
(***************************************************************************)
(* What is proved of SshSession, for any number of calls: its type         *)
(* invariant and ConnectedIsOpen, whatever the screens do, and what        *)
(* holds when a screen waits for the calls it made before the next.        *)
(***************************************************************************)
EXTENDS SshSession, FiniteSetTheorems, TLAPS

(***************************************************************************)
(* ConnectedIsOpen is not inductive: that the connection held is open      *)
(* follows from who may close a connection (the release that took it out   *)
(* of the field, or dispose), hence from the field and the releases never  *)
(* holding the same connection.                                            *)
(***************************************************************************)

\* The field holds an adopted connection; until dispose it is open, and its
\* end has not been reported without the status changing.
FieldInv ==
    connection # None =>
        /\ pc[connection] = "adopted"
        /\ ~disposed => conn[connection] = "open"

\* A release holds an adopted connection nobody else holds, and connect() and
\* disconnect() hold nothing outside a release.
HeldInv ==
    \A o \in Calls : held[o] # None =>
        /\ pc[held[o]] = "adopted"
        /\ held[o] # connection
        /\ pc[o] \in {"cancelling", "cancellingStderr", "closing"}

\* Connected: nothing is being closed and the current streams are listened to.
StatusInv ==
    status = "connected" /\ ~disposed =>
        /\ ~closing
        /\ connection # None
        /\ connection \in listening["stdout"]
        /\ done[connection] # "handled"

\* A call that has not got its connection yet has heard nothing of its end.
FreshInv ==
    \A c \in Connects : pc[c] # "adopted" => done[c] = "no"

------------------------------------------------------------------

\* The inductive invariant is TypeOK and these four.
Inv == FieldInv /\ HeldInv /\ StatusInv /\ FreshInv

-----------------------------------------------------------------------------
\* No step takes a variable out of its type.
LEMMA TypeStep ==
  ASSUME TypeOK, [Next]_vars
  PROVE  TypeOK'
<1> USE ConstantsAssumption DEF TypeOK, Calls, Statuses, Pcs, Streams, Running, outputVars, attemptVars
<1>1. ASSUME NEW c \in Connects, Connect(c)
      PROVE  TypeOK'
  BY <1>1 DEF Connect, ReleaseBegin
<1>2. ASSUME NEW c \in Connects, ConnectReleased(c)
      PROVE  TypeOK'
  BY <1>2 DEF ConnectReleased, Released
<1>3. ASSUME NEW c \in Connects, HostKeyPrompt(c)
      PROVE  TypeOK'
  BY <1>3 DEF HostKeyPrompt
<1>4. ASSUME NEW c \in Connects, AuthenticationStarted(c)
      PROVE  TypeOK'
  BY <1>4 DEF AuthenticationStarted
<1>5. ASSUME NEW c \in Connects, OpeningPty(c)
      PROVE  TypeOK'
  BY <1>5 DEF OpeningPty
<1>6. ASSUME NEW c \in Connects, ConnectFails(c)
      PROVE  TypeOK'
  BY <1>6 DEF ConnectFails
<1>7. ASSUME NEW c \in Connects, MoshProbe(c)
      PROVE  TypeOK'
  BY <1>7 DEF MoshProbe
<1>8. ASSUME NEW c \in Connects, ConnectionArrivesLate(c)
      PROVE  TypeOK'
  BY <1>8 DEF ConnectionArrivesLate, GatewayReturned
<1>9. ASSUME NEW c \in Connects, Adopt(c)
      PROVE  TypeOK'
  BY <1>9 DEF Adopt, GatewayReturned, ApplyBackpressure
<1>10. ASSUME NEW c \in Connects, StreamError(c)
      PROVE  TypeOK'
  BY <1>10 DEF StreamError
<1>11. ASSUME NEW c \in Connects, RemoteEnds(c)
      PROVE  TypeOK'
  BY <1>11 DEF RemoteEnds, StreamsEnd
<1>12. ASSUME NEW c \in Connects, CloseDone(c)
      PROVE  TypeOK'
  BY <1>12 DEF CloseDone, StreamsEnd
<1>13. ASSUME NEW c \in Connects, HandleDone(c)
      PROVE  TypeOK'
  BY <1>13 DEF HandleDone
<1>14. ASSUME NEW c \in Connects, LateReturns(c)
      PROVE  TypeOK'
  BY <1>14 DEF LateReturns
<1>15. ASSUME NEW c \in Connects, WriteStalls(c) \/ WriteEnds(c)
      PROVE  TypeOK'
  BY <1>15 DEF WriteStalls, WriteEnds
<1>16. ASSUME NEW c \in Connects, CloseReleases(c)
      PROVE  TypeOK'
  BY <1>16 DEF CloseReleases
<1>17. ASSUME NEW o \in Calls, ReleaseCancelsStderr(o)
      PROVE  TypeOK'
  BY <1>17 DEF ReleaseCancelsStderr
<1>18. ASSUME NEW o \in Calls, ReleaseClose(o)
      PROVE  TypeOK'
  <2>1. held' \in [Calls -> Connects \cup {None}]
    BY <1>18 DEF ReleaseClose
  <2>2. conn' \in [Connects -> {"none", "open", "closing", "released", "closed"}]
    BY <1>18 DEF ReleaseClose
  <2>3. pc' \in [Calls -> Pcs] /\ subs' = None /\ subsPaused' = FALSE
    BY <1>18 DEF ReleaseClose
  <2>4. QED
    BY <1>18, <2>1, <2>2, <2>3 DEF ReleaseClose
<1>19. ASSUME NEW d \in Disconnects, Disconnect(d)
      PROVE  TypeOK'
  BY <1>19 DEF Disconnect, ReleaseBegin
<1>20. ASSUME NEW d \in Disconnects, DisconnectReleased(d)
      PROVE  TypeOK'
  BY <1>20 DEF DisconnectReleased, Released
<1>21. ASSUME ReportFailure
      PROVE  TypeOK'
  BY <1>21 DEF ReportFailure
<1>22. ASSUME Dispose
      PROVE  TypeOK'
  BY <1>22 DEF Dispose
<1>23. ASSUME NEW wanted \in BOOLEAN, SetOutputBackpressure(wanted)
      PROVE  TypeOK'
  BY <1>23 DEF SetOutputBackpressure, ApplyBackpressure
<1>24. ASSUME UNCHANGED vars
      PROVE  TypeOK'
  BY <1>24 DEF vars
<1>25. QED
  BY <1>1, <1>2, <1>3, <1>4, <1>5, <1>6, <1>7, <1>8, <1>9, <1>10, <1>11, <1>12,
     <1>13, <1>14, <1>15, <1>16, <1>17, <1>18, <1>19, <1>20, <1>21, <1>22,
     <1>23, <1>24 DEF Next

\* Type correctness: whatever the screens do, and however many calls they make,
\* every field of the controller keeps its type.
THEOREM TypeCorrect == Spec => []TypeOK
<1>1. Init => TypeOK
  BY ZenonT(30) DEF Init, TypeOK, Calls, Statuses, Pcs, Streams
<1>2. QED
  BY <1>1, TypeStep, PTL DEF Spec

-----------------------------------------------------------------------------
\* The inductive step of the invariant behind ConnectedIsOpen.
LEMMA InvStep ==
  ASSUME TypeOK, Inv, [Next]_vars
  PROVE  Inv'
<1> USE ConstantsAssumption
    DEF Inv, FieldInv, HeldInv, StatusInv, FreshInv, TypeOK, Calls, Busy, Running, Streams,
        outputVars, attemptVars
<1>1. ASSUME NEW c \in Connects, Connect(c)
      PROVE  Inv'
  BY <1>1 DEF Connect, ReleaseBegin
<1>2. ASSUME NEW c \in Connects, ConnectReleased(c)
      PROVE  Inv'
  BY <1>2 DEF ConnectReleased, Released
<1>3. ASSUME NEW c \in Connects, HostKeyPrompt(c)
      PROVE  Inv'
  BY <1>3 DEF HostKeyPrompt
<1>4. ASSUME NEW c \in Connects, AuthenticationStarted(c)
      PROVE  Inv'
  BY <1>4 DEF AuthenticationStarted
<1>5. ASSUME NEW c \in Connects, OpeningPty(c)
      PROVE  Inv'
  BY <1>5 DEF OpeningPty
<1>6. ASSUME NEW c \in Connects, ConnectFails(c)
      PROVE  Inv'
  BY <1>6 DEF ConnectFails
<1>7. ASSUME NEW c \in Connects, MoshProbe(c)
      PROVE  Inv'
  BY <1>7 DEF MoshProbe
<1>8. ASSUME NEW c \in Connects, ConnectionArrivesLate(c)
      PROVE  Inv'
  BY <1>8 DEF ConnectionArrivesLate, GatewayReturned
<1>9. ASSUME NEW c \in Connects, Adopt(c)
      PROVE  Inv'
  BY <1>9 DEF Adopt, GatewayReturned, ApplyBackpressure
<1>10. ASSUME NEW c \in Connects, StreamError(c)
      PROVE  Inv'
  BY <1>10 DEF StreamError
<1>11. ASSUME NEW c \in Connects, RemoteEnds(c)
      PROVE  Inv'
  BY <1>11 DEF RemoteEnds, StreamsEnd
<1>12. ASSUME NEW c \in Connects, CloseDone(c)
      PROVE  Inv'
  BY <1>12 DEF CloseDone, StreamsEnd
<1>13. ASSUME NEW c \in Connects, HandleDone(c)
      PROVE  Inv'
  BY <1>13 DEF HandleDone
<1>14. ASSUME NEW c \in Connects, LateReturns(c)
      PROVE  Inv'
  BY <1>14 DEF LateReturns
<1>15. ASSUME NEW c \in Connects, WriteStalls(c) \/ WriteEnds(c)
      PROVE  Inv'
  BY <1>15 DEF WriteStalls, WriteEnds
<1>16. ASSUME NEW c \in Connects, CloseReleases(c)
      PROVE  Inv'
  BY <1>16 DEF CloseReleases
<1>17. ASSUME NEW o \in Calls, ReleaseCancelsStderr(o)
      PROVE  Inv'
  BY <1>17 DEF ReleaseCancelsStderr
<1>18. ASSUME NEW o \in Calls, ReleaseClose(o)
      PROVE  Inv'
  BY <1>18 DEF ReleaseClose
<1>19. ASSUME NEW d \in Disconnects, Disconnect(d)
      PROVE  Inv'
  BY <1>19 DEF Disconnect, ReleaseBegin
<1>20. ASSUME NEW d \in Disconnects, DisconnectReleased(d)
      PROVE  Inv'
  BY <1>20 DEF DisconnectReleased, Released
<1>21. ASSUME ReportFailure
      PROVE  Inv'
  BY <1>21 DEF ReportFailure
<1>22. ASSUME Dispose
      PROVE  Inv'
  BY <1>22 DEF Dispose
<1>23. ASSUME NEW wanted \in BOOLEAN, SetOutputBackpressure(wanted)
      PROVE  Inv'
  BY <1>23 DEF SetOutputBackpressure, ApplyBackpressure
<1>24. ASSUME UNCHANGED vars
      PROVE  Inv'
  BY <1>24 DEF vars
<1>25. QED
  BY SMTT(30), <1>1, <1>2, <1>3, <1>4, <1>5, <1>6, <1>7, <1>8, <1>9, <1>10,
     <1>11, <1>12, <1>13, <1>14, <1>15, <1>16, <1>17, <1>18, <1>19, <1>20,
     <1>21, <1>22, <1>23, <1>24 DEF Next

\* The four parts hold in every reachable state.
LEMMA InvHolds == Spec => []Inv
<1>1. Init => Inv
  BY DEF Init, Inv, FieldInv, HeldInv, StatusInv, FreshInv, Calls
<1>2. QED
  BY <1>1, InvStep, TypeCorrect, PTL DEF Spec

\* The session only says "connected" while it holds an open connection that no
\* release is closing, whose end has not been reported, and whose output
\* reaches the terminal - with overlapping connect() calls too.
THEOREM ConnectedOpen == Spec => []ConnectedIsOpen
<1>1. TypeOK /\ Inv => ConnectedIsOpen
  BY DEF TypeOK, Inv, FieldInv, HeldInv, StatusInv, ConnectedIsOpen
<1>2. QED
  BY <1>1, InvHolds, TypeCorrect, PTL
-----------------------------------------------------------------------------
(***************************************************************************)
(* What holds of screens that wait for the calls they made (Overlap =      *)
(* FALSE).  When connect() calls overlap TLC breaks each of the six        *)
(* properties.  Without overlap they follow from one attempt at a time,    *)
(* and from what an attempt finds: an empty field, and no listeners.       *)
(***************************************************************************)

\* The call is in one of the three awaits of _releaseConnection.
Releasing(o) == pc[o] \in {"cancelling", "cancellingStderr", "closing"}

\* One connect() at a time.  The user may close the session while one runs,
\* but never during a release.
OneCallInv ==
    /\ \A b, c \in Connects : Running(b) /\ Running(c) => b = c
    /\ \A o, p \in Calls : Releasing(o) /\ Releasing(p) => o = p
    /\ \A o \in Calls : Releasing(o) => closing
    /\ \A d \in Disconnects : Running(d) => Releasing(d)

\* While a call runs the field is empty and nothing writes to the terminal,
\* except stderr until a release has cancelled it too.
EmptyInv ==
    \A o \in Calls : Running(o) =>
        /\ connection = None
        /\ listening["stdout"] = {}
        /\ pc[o] # "cancelling" => listening["stderr"] = {}

\* Only the streams of the subscription fields are listened to or paused, and
\* they are paused only when both flags say so.
StreamsInv ==
    /\ \A s \in Streams :
          /\ listening[s] \subseteq {subs} /\ paused[s] \subseteq listening[s]
          /\ paused[s] # {} => subsPaused
    /\ subsPaused => renderPaused

\* A session that says "connected" listens to stderr.
StderrInv ==
    status = "connected" /\ ~disposed => connection \in listening["stderr"]

\* The user closed the session while this call was running, and no later
\* connect() has reopened it.
CancelledInv ==
    \A c \in cancelled :
        /\ pc[c] \notin {"ready", "adopted"}
        /\ pc[c] \in {"gateway", "opening", "probing"} => closing \/ disposed
        /\ Releasing(c) => disposed

-----------------------------------------------------------------------------

\* The inductive invariant is TypeOK, Inv, EveryConnectionOwned and these.
AloneInv == /\ OneCallInv /\ EmptyInv /\ StreamsInv /\ StderrInv /\ CancelledInv
            /\ EveryConnectionOwned

\* The inductive step of AloneInv.
LEMMA AloneStep ==
  ASSUME ~Overlap, TypeOK, Inv, AloneInv, [Next]_vars
  PROVE  AloneInv'
<1> USE ConstantsAssumption
    DEF Inv, FieldInv, HeldInv, StatusInv, AloneInv, OneCallInv, EmptyInv, StreamsInv,
        StderrInv, CancelledInv, EveryConnectionOwned, Releasing, TypeOK, Calls, Busy, Running, Streams,
        outputVars, attemptVars
<1>1. ASSUME NEW c \in Connects, Connect(c)
      PROVE  AloneInv'
  BY <1>1 DEF Connect, ReleaseBegin
<1>2. ASSUME NEW c \in Connects, ConnectReleased(c)
      PROVE  AloneInv'
  BY <1>2 DEF ConnectReleased, Released
<1>3. ASSUME NEW c \in Connects, HostKeyPrompt(c)
      PROVE  AloneInv'
  BY <1>3 DEF HostKeyPrompt
<1>4. ASSUME NEW c \in Connects, AuthenticationStarted(c)
      PROVE  AloneInv'
  BY <1>4 DEF AuthenticationStarted
<1>5. ASSUME NEW c \in Connects, OpeningPty(c)
      PROVE  AloneInv'
  BY <1>5 DEF OpeningPty
<1>6. ASSUME NEW c \in Connects, ConnectFails(c)
      PROVE  AloneInv'
  BY <1>6 DEF ConnectFails
<1>7. ASSUME NEW c \in Connects, MoshProbe(c)
      PROVE  AloneInv'
  BY <1>7 DEF MoshProbe
<1>8. ASSUME NEW c \in Connects, ConnectionArrivesLate(c)
      PROVE  AloneInv'
  BY <1>8 DEF ConnectionArrivesLate, GatewayReturned
<1>9. ASSUME NEW c \in Connects, Adopt(c)
      PROVE  AloneInv'
  <2>1. Running(c) /\ pc' = [pc EXCEPT ![c] = "adopted"] /\ connection' = c
        /\ subs' = c /\ listening' = [s \in Streams |-> listening[s] \cup {c}]
        /\ UNCHANGED <<closing, disposed, renderPaused, held, cancelled>>
    BY <1>9 DEF Adopt, GatewayReturned
  <2>2. connection = None /\ \A s \in Streams : listening[s] = {} /\ paused[s] = {}
    BY <2>1, <1>9 DEF Adopt, GatewayReturned
  <2>3. OneCallInv'
    BY <2>1
  <2>4. EmptyInv'
    <3>1. ASSUME NEW o \in Calls, Running(o)'
          PROVE  FALSE
      <4>1. Running(o) /\ o # c
        BY <2>1, <3>1
      <4>2. ~Releasing(o)
        BY <1>9 DEF Adopt
      <4>3. o \in Connects
        BY <4>1, <4>2
      <4>4. QED
        BY <2>1, <4>1, <4>3
    <3>2. QED
      BY <3>1
  <2>5. StreamsInv'
    BY <1>9, <2>1, <2>2 DEF Adopt, ApplyBackpressure
  <2>6. CancelledInv'
    BY <1>9, <2>1 DEF Adopt, GatewayReturned
  <2>7. conn' = [conn EXCEPT ![c] = "open"]
    BY <1>9 DEF Adopt
  <2>8. EveryConnectionOwned'
    BY <2>1, <2>2, <2>7
  <2>9. StderrInv'
    BY <2>1
  <2>10. QED
    BY <2>3, <2>4, <2>5, <2>6, <2>8, <2>9
<1>10. ASSUME NEW c \in Connects, StreamError(c)
      PROVE  AloneInv'
  BY <1>10 DEF StreamError
<1>11. ASSUME NEW c \in Connects, RemoteEnds(c)
      PROVE  AloneInv'
  BY <1>11 DEF RemoteEnds, StreamsEnd
<1>12. ASSUME NEW c \in Connects, CloseDone(c)
      PROVE  AloneInv'
  BY <1>12 DEF CloseDone, StreamsEnd
<1>13. ASSUME NEW c \in Connects, HandleDone(c)
      PROVE  AloneInv'
  BY <1>13 DEF HandleDone
<1>14. ASSUME NEW c \in Connects, LateReturns(c)
      PROVE  AloneInv'
  BY <1>14 DEF LateReturns
<1>15. ASSUME NEW c \in Connects, WriteStalls(c) \/ WriteEnds(c)
      PROVE  AloneInv'
  BY <1>15 DEF WriteStalls, WriteEnds
<1>16. ASSUME NEW c \in Connects, CloseReleases(c)
      PROVE  AloneInv'
  BY <1>16 DEF CloseReleases
<1>17. ASSUME NEW o \in Calls, ReleaseCancelsStderr(o)
      PROVE  AloneInv'
  BY <1>17 DEF ReleaseCancelsStderr
<1>18. ASSUME NEW o \in Calls, ReleaseClose(o)
      PROVE  AloneInv'
  BY <1>18 DEF ReleaseClose
<1>19. ASSUME NEW d \in Disconnects, Disconnect(d)
      PROVE  AloneInv'
  BY <1>19 DEF Disconnect, ReleaseBegin
<1>20. ASSUME NEW d \in Disconnects, DisconnectReleased(d)
      PROVE  AloneInv'
  BY <1>20 DEF DisconnectReleased, Released
<1>21. ASSUME ReportFailure
      PROVE  AloneInv'
  BY <1>21 DEF ReportFailure
<1>22. ASSUME Dispose
      PROVE  AloneInv'
  BY <1>22 DEF Dispose
<1>23. ASSUME NEW wanted \in BOOLEAN, SetOutputBackpressure(wanted)
      PROVE  AloneInv'
  BY <1>23 DEF SetOutputBackpressure, ApplyBackpressure
<1>24. ASSUME UNCHANGED vars
      PROVE  AloneInv'
  BY <1>24 DEF vars
<1> HIDE DEF Inv, FieldInv, HeldInv, StatusInv, AloneInv, OneCallInv, EmptyInv, StreamsInv,
         StderrInv, CancelledInv, EveryConnectionOwned, Releasing, TypeOK, Busy, Running,
         Streams, outputVars, attemptVars
<1>25. QED
  BY SMTT(30), <1>1, <1>2, <1>3, <1>4, <1>5, <1>6, <1>7, <1>8, <1>9, <1>10, <1>11, <1>12,
     <1>13, <1>14, <1>15, <1>16, <1>17, <1>18, <1>19, <1>20, <1>21, <1>22,
     <1>23, <1>24 DEF Next

\* The parts hold in every reachable state when the screens wait for their calls.
LEMMA AloneHolds ==
  ASSUME ~Overlap
  PROVE  Spec => []AloneInv
<1>1. Init => AloneInv
  BY DEF Init, AloneInv, OneCallInv, EmptyInv, StreamsInv, StderrInv, CancelledInv,
         EveryConnectionOwned, Releasing, Running, Calls, Streams
<1>2. TypeOK /\ Inv /\ AloneInv /\ [Next]_vars => AloneInv'
  BY AloneStep
<1>3. QED
  BY <1>1, <1>2, TypeCorrect, InvHolds, PTL DEF Spec

\* With screens that wait, a session that says "connected" also hears the errors
\* of the connection it holds.
THEOREM ConnectedSafe ==
  ASSUME ~Overlap
  PROVE  Spec => []ConnectedIsLive
<1>1. AloneInv /\ ConnectedIsOpen => ConnectedIsLive
  BY DEF AloneInv, StderrInv, ConnectedIsLive
<1>2. QED
  BY <1>1, AloneHolds, ConnectedOpen, PTL

\* Screens that wait leak no connection: what is open is in the field, or in
\* the hands of the release that took it out and will close it.
THEOREM ConnectionsOwned ==
  ASSUME ~Overlap
  PROVE  Spec => []EveryConnectionOwned
<1>1. AloneInv => EveryConnectionOwned
  BY DEF AloneInv
<1>2. QED
  BY <1>1, AloneHolds, PTL

\* Screens that wait never have two connections write to one terminal.
THEOREM SingleSource ==
  ASSUME ~Overlap
  PROVE  Spec => []OneSource
<1>1. ASSUME AloneInv
      PROVE  OneSource
  <2>1. IsFiniteSet({subs}) /\ Cardinality({subs}) = 1
    BY FS_Singleton
  <2>2. Heard \subseteq {subs}
    BY <1>1 DEF AloneInv, StreamsInv, Heard, Streams
  <2>3. Cardinality(Heard) <= Cardinality({subs})
    BY <2>1, <2>2, FS_Subset
  <2>4. QED
    BY <2>1, <2>3 DEF OneSource
<1>2. QED
  BY <1>1, AloneHolds, PTL

\* Screens that wait have at most one connection attempt in the gateway, which
\* is what the architecture document says of every screen.
THEOREM SingleAttempt ==
  ASSUME ~Overlap
  PROVE  Spec => []OneAttempt
<1>1. ASSUME AloneInv
      PROVE  OneAttempt
  <2> DEFINE inside == {c \in Connects : pc[c] \in {"gateway", "opening", "probing"}}
  <2>1. CASE inside = {}
    BY <2>1, FS_EmptySet DEF OneAttempt
  <2>2. CASE inside # {}
    <3>1. PICK c \in inside : TRUE
      BY <2>2
    <3>2. inside = {c}
      BY <1>1, <3>1 DEF AloneInv, OneCallInv, Running
    <3>3. Cardinality({c}) = 1
      BY FS_Singleton
    <3>4. QED
      BY <3>2, <3>3 DEF OneAttempt
  <2>3. QED
    BY <2>1, <2>2
<1>2. QED
  BY <1>1, AloneHolds, PTL

\* With screens that wait, an attempt the user has closed is never adopted.
THEOREM CancelledStaysOut ==
  ASSUME ~Overlap
  PROVE  Spec => []CancelledNotAdopted
<1>1. AloneInv => CancelledNotAdopted
  BY DEF AloneInv, CancelledInv, CancelledNotAdopted
<1>2. QED
  BY <1>1, AloneHolds, PTL

\* With screens that wait, a connection is only held back while the renderer
\* asks for it.
THEOREM NeverHeldBack ==
  ASSUME ~Overlap
  PROVE  Spec => []NotPausedForever
<1>1. AloneInv => NotPausedForever
  BY DEF AloneInv, StreamsInv, NotPausedForever
<1>2. QED
  BY <1>1, AloneHolds, PTL
=============================================================================
