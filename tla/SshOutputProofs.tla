--------------------------- MODULE SshOutputProofs ---------------------------
(***************************************************************************)
(* What is proved of SshOutput, for every capacity, read limit, message    *)
(* size and number of messages: the buffer is bounded, no byte is lost,    *)
(* duplicated or moved to the other stream on its way to Dart, and neither *)
(* task sleeps through the notification it waits for.                      *)
(***************************************************************************)
EXTENDS SshOutput, TLAPS

(***************************************************************************)
(* NothingLost is not inductive: that a read may overwrite reply and the   *)
(* reader may overwrite msg follows from both being empty then.            *)
(***************************************************************************)

\* A read result exists only between the draining and the delivery.
ReplyInv == pump \notin {"drained", "flag", "reply"} => reply = Zero

\* The reader goes for the next message when the last one is all appended.
MsgInv == reader = "wait" => msg.left = 0

------------------------------------------------------------------
\* The inductive invariant.
Inv ==
    /\ TypeOK
    /\ BufferBounded
    /\ ReplyInv
    /\ MsgInv
    /\ NothingLost
    /\ NoLostSpaceWakeup
    /\ NoLostDataWakeup

-----------------------------------------------------------------------------
\* No bytes on any stream.
LEMMA ZeroType == Zero \in [Streams -> Nat]
BY DEF Zero

\* A read takes from each stream what is there, and no more than its limit.
LEMMA DrainedFacts ==
  ASSUME queued \in [Streams -> Nat]
  PROVE  /\ Drained \in [Streams -> Nat]
         /\ \A s \in Streams : Drained[s] <= queued[s]
         /\ Drained["stdout"] + Drained["stderr"] <= Limit
<1> DEFINE n == Lesser(queued["stdout"], Limit)
           m == Lesser(queued["stderr"], Limit - n)
<1>1. /\ n \in Nat /\ n <= queued["stdout"] /\ n <= Limit
      /\ queued["stdout"] \in Nat /\ queued["stderr"] \in Nat
  BY ConstantsAssumption DEF Lesser, Streams
<1>2. m \in Nat /\ m <= queued["stderr"] /\ m <= Limit - n
  BY <1>1, ConstantsAssumption DEF Lesser
<1>3. Drained = [s \in Streams |-> IF s = "stdout" THEN n ELSE m]
  BY DEF Drained
<1> HIDE DEF n, m
<1>4. Drained["stdout"] = n /\ Drained["stderr"] = m
  BY <1>3 DEF Streams
<1>5. \A s \in Streams : Drained[s] <= queued[s]
  BY <1>1, <1>2, <1>4 DEF Streams
<1>6. Drained \in [Streams -> Nat]
  BY <1>1, <1>2, <1>3
<1>7. n + m <= Limit
  BY <1>1, <1>2, ConstantsAssumption
<1>8. QED
  BY <1>4, <1>5, <1>6, <1>7

\* What a read leaves in the buffer.
LEMMA ReadTakesFacts ==
  ASSUME TypeOK, ReadTakes
  PROVE  /\ reply' \in [Streams -> Nat] /\ queued' \in [Streams -> Nat]
         /\ \A s \in Streams : reply'[s] + queued'[s] = queued[s]
<1> DEFINE D == Drained
<1>1. D \in [Streams -> Nat] /\ \A s \in Streams : D[s] <= queued[s]
  BY DrainedFacts DEF TypeOK
<1>2. reply' = D /\ queued' = [s \in Streams |-> queued[s] - D[s]]
  BY DEF ReadTakes
<1>3. \A s \in Streams : queued[s] \in Nat
  BY DEF TypeOK
<1> HIDE DEF D
<1>4. QED
  BY <1>1, <1>2, <1>3

\* No step takes a variable out of its type.
LEMMA TypeStep ==
  ASSUME TypeOK, [Next]_vars
  PROVE  TypeOK'
<1> USE ConstantsAssumption, ZeroType DEF TypeOK, Notified, Woken, bufferVars, readerVars, pumpVars, consumerVars, remoteVars, writeVars
<1>1. RemoteSends => TypeOK'
  BY DEF RemoteSends
<1>2. RemoteCloses => TypeOK'
  BY DEF RemoteCloses
<1>3. WriteEnds => TypeOK'
  BY DEF WriteEnds
<1>4. (\E s \in Streams, n \in 1..MaxMessage : ReaderTakes(s, n)) => TypeOK'
  BY DEF ReaderTakes
<1>5. ReaderStops => TypeOK'
  BY DEF ReaderStops
<1>6. ReaderChecks => TypeOK'
  BY DEF ReaderChecks
<1>7. ReaderArms => TypeOK'
  BY DEF ReaderArms
<1>8. ReaderParks => TypeOK'
  BY DEF ReaderParks
<1>9. ASSUME ReaderAppends
      PROVE  TypeOK'
  <2> DEFINE n == Lesser(msg.left, Capacity - Total)
  <2>1. n \in Nat /\ n <= msg.left
    BY <1>9 DEF ReaderAppends, Lesser, Total, Streams
  <2>2. /\ queued' = [queued EXCEPT ![msg.stream] = @ + n]
        /\ msg' = [msg EXCEPT !.left = @ - n]
    BY <1>9 DEF ReaderAppends
  <2> HIDE DEF n
  <2>3. queued' \in [Streams -> Nat] /\ msg' \in [stream : Streams, left : Nat]
    BY <2>1, <2>2
  <2>4. QED
    BY <1>9, <2>3 DEF ReaderAppends
<1>10. ReaderSignals => TypeOK'
  BY DEF ReaderSignals
<1>11. ReaderWakes => TypeOK'
  BY DEF ReaderWakes
<1>12. ReaderFinishes => TypeOK'
  BY DEF ReaderFinishes
<1>13. ReaderAnnounces => TypeOK'
  BY DEF ReaderAnnounces
<1>14. PumpLoops => TypeOK'
  BY DEF PumpLoops
<1>15. PumpCalls => TypeOK'
  BY DEF PumpCalls
<1>16. ReadBegins => TypeOK'
  BY DEF ReadBegins
<1>17. ReadFindsNothing => TypeOK'
  BY DEF ReadFindsNothing
<1>18. ReadCoalesces => TypeOK'
  BY DEF ReadCoalesces
<1>19. ASSUME ReadTakes
      PROVE  TypeOK'
  <2>1. reply' \in [Streams -> Nat] /\ queued' \in [Streams -> Nat]
    BY <1>19, ReadTakesFacts
  <2>2. QED
    BY <1>19, <2>1 DEF ReadTakes
<1>20. ReadNotifies => TypeOK'
  BY DEF ReadNotifies
<1>21. ReadReturns => TypeOK'
  BY DEF ReadReturns
<1>22. ReadWakes => TypeOK'
  BY DEF ReadWakes
<1>23. CoalescingEnds => TypeOK'
  BY DEF CoalescingEnds
<1>24. ReadTimesOut => TypeOK'
  BY DEF ReadTimesOut
<1>25. PumpDelivers => TypeOK'
  BY DEF PumpDelivers
<1>26. PumpEnds => TypeOK'
  BY DEF PumpEnds
<1>27. ConsumerPauses => TypeOK'
  BY DEF ConsumerPauses, SetConsumerPaused
<1>28. ConsumerResumes => TypeOK'
  BY DEF ConsumerResumes, SetConsumerPaused
<1>29. ConsumerCancels => TypeOK'
  BY DEF ConsumerCancels, SetConsumerPaused
<1>30. Write => TypeOK'
  BY DEF Write
<1>31. CloseBegins => TypeOK'
  BY DEF CloseBegins
<1>32. CloseResumesPump => TypeOK'
  BY DEF CloseResumesPump, SetConsumerPaused
<1>33. CloseStores => TypeOK'
  BY DEF CloseStores
<1>34. CloseNotifies => TypeOK'
  BY DEF CloseNotifies
<1>35. CloseRemoves => TypeOK'
  BY DEF CloseRemoves
<1>36. CloseDisconnects => TypeOK'
  BY DEF CloseDisconnects
<1>37. CloseReturns => TypeOK'
  BY DEF CloseReturns
<1>38. UNCHANGED vars => TypeOK'
  BY DEF vars
<1>39. QED
  BY <1>1, <1>2, <1>3, <1>4, <1>5, <1>6, <1>7, <1>8, <1>9, <1>10, <1>11,
     <1>12, <1>13, <1>14, <1>15, <1>16, <1>17, <1>18, <1>19, <1>20, <1>21,
     <1>22, <1>23, <1>24, <1>25, <1>26, <1>27, <1>28, <1>29, <1>30, <1>31,
     <1>32, <1>33, <1>34, <1>35, <1>36, <1>37, <1>38 DEF Next, ReaderStep,
     PumpStep, CloserStep

\* No step overfills the buffer.
LEMMA BoundStep ==
  ASSUME TypeOK, BufferBounded, [Next]_vars
  PROVE  BufferBounded'
<1> USE ConstantsAssumption DEF TypeOK, BufferBounded, Total, Streams, bufferVars, readerVars, pumpVars, consumerVars, remoteVars, writeVars
<1>1. RemoteSends => BufferBounded'
  BY DEF RemoteSends
<1>2. RemoteCloses => BufferBounded'
  BY DEF RemoteCloses
<1>3. WriteEnds => BufferBounded'
  BY DEF WriteEnds
<1>4. (\E s \in Streams, n \in 1..MaxMessage : ReaderTakes(s, n)) => BufferBounded'
  BY DEF ReaderTakes
<1>5. ReaderStops => BufferBounded'
  BY DEF ReaderStops
<1>6. ReaderChecks => BufferBounded'
  BY DEF ReaderChecks
<1>7. ReaderArms => BufferBounded'
  BY DEF ReaderArms
<1>8. ReaderParks => BufferBounded'
  BY DEF ReaderParks
<1>9. ASSUME ReaderAppends
      PROVE  BufferBounded'
  BY <1>9 DEF ReaderAppends, Lesser
<1>10. ReaderSignals => BufferBounded'
  BY DEF ReaderSignals
<1>11. ReaderWakes => BufferBounded'
  BY DEF ReaderWakes
<1>12. ReaderFinishes => BufferBounded'
  BY DEF ReaderFinishes
<1>13. ReaderAnnounces => BufferBounded'
  BY DEF ReaderAnnounces
<1>14. PumpLoops => BufferBounded'
  BY DEF PumpLoops
<1>15. PumpCalls => BufferBounded'
  BY DEF PumpCalls
<1>16. ReadBegins => BufferBounded'
  BY DEF ReadBegins
<1>17. ReadFindsNothing => BufferBounded'
  BY DEF ReadFindsNothing
<1>18. ReadCoalesces => BufferBounded'
  BY DEF ReadCoalesces
<1>19. ASSUME ReadTakes
      PROVE  BufferBounded'
  BY <1>19, ReadTakesFacts
<1>20. ReadNotifies => BufferBounded'
  BY DEF ReadNotifies
<1>21. ReadReturns => BufferBounded'
  BY DEF ReadReturns
<1>22. ReadWakes => BufferBounded'
  BY DEF ReadWakes
<1>23. CoalescingEnds => BufferBounded'
  BY DEF CoalescingEnds
<1>24. ReadTimesOut => BufferBounded'
  BY DEF ReadTimesOut
<1>25. PumpDelivers => BufferBounded'
  BY DEF PumpDelivers
<1>26. PumpEnds => BufferBounded'
  BY DEF PumpEnds
<1>27. ConsumerPauses => BufferBounded'
  BY DEF ConsumerPauses, SetConsumerPaused
<1>28. ConsumerResumes => BufferBounded'
  BY DEF ConsumerResumes, SetConsumerPaused
<1>29. ConsumerCancels => BufferBounded'
  BY DEF ConsumerCancels, SetConsumerPaused
<1>30. Write => BufferBounded'
  BY DEF Write
<1>31. CloseBegins => BufferBounded'
  BY DEF CloseBegins
<1>32. CloseResumesPump => BufferBounded'
  BY DEF CloseResumesPump, SetConsumerPaused
<1>33. CloseStores => BufferBounded'
  BY DEF CloseStores
<1>34. CloseNotifies => BufferBounded'
  BY DEF CloseNotifies
<1>35. CloseRemoves => BufferBounded'
  BY DEF CloseRemoves
<1>36. CloseDisconnects => BufferBounded'
  BY DEF CloseDisconnects
<1>37. CloseReturns => BufferBounded'
  BY DEF CloseReturns
<1>38. UNCHANGED vars => BufferBounded'
  BY DEF vars
<1>39. QED
  BY <1>1, <1>2, <1>3, <1>4, <1>5, <1>6, <1>7, <1>8, <1>9, <1>10, <1>11,
     <1>12, <1>13, <1>14, <1>15, <1>16, <1>17, <1>18, <1>19, <1>20, <1>21,
     <1>22, <1>23, <1>24, <1>25, <1>26, <1>27, <1>28, <1>29, <1>30, <1>31,
     <1>32, <1>33, <1>34, <1>35, <1>36, <1>37, <1>38 DEF Next, ReaderStep,
     PumpStep, CloserStep

\* ReplyInv is inductive.
LEMMA ReplyStep ==
  ASSUME TypeOK, ReplyInv, [Next]_vars
  PROVE  ReplyInv'
<1> USE DEF TypeOK, ReplyInv, bufferVars, readerVars, pumpVars, consumerVars, remoteVars, writeVars
<1>1. RemoteSends => ReplyInv'
  BY DEF RemoteSends
<1>2. RemoteCloses => ReplyInv'
  BY DEF RemoteCloses
<1>3. WriteEnds => ReplyInv'
  BY DEF WriteEnds
<1>4. (\E s \in Streams, n \in 1..MaxMessage : ReaderTakes(s, n)) => ReplyInv'
  BY DEF ReaderTakes
<1>5. ReaderStops => ReplyInv'
  BY DEF ReaderStops
<1>6. ReaderChecks => ReplyInv'
  BY DEF ReaderChecks
<1>7. ReaderArms => ReplyInv'
  BY DEF ReaderArms
<1>8. ReaderParks => ReplyInv'
  BY DEF ReaderParks
<1>9. ReaderAppends => ReplyInv'
  BY DEF ReaderAppends
<1>10. ReaderSignals => ReplyInv'
  BY DEF ReaderSignals
<1>11. ReaderWakes => ReplyInv'
  BY DEF ReaderWakes
<1>12. ReaderFinishes => ReplyInv'
  BY DEF ReaderFinishes
<1>13. ReaderAnnounces => ReplyInv'
  BY DEF ReaderAnnounces
<1>14. PumpLoops => ReplyInv'
  BY DEF PumpLoops
<1>15. PumpCalls => ReplyInv'
  BY DEF PumpCalls
<1>16. ReadBegins => ReplyInv'
  BY DEF ReadBegins
<1>17. ReadFindsNothing => ReplyInv'
  BY DEF ReadFindsNothing
<1>18. ReadCoalesces => ReplyInv'
  BY DEF ReadCoalesces
<1>19. ReadTakes => ReplyInv'
  BY DEF ReadTakes
<1>20. ReadNotifies => ReplyInv'
  BY DEF ReadNotifies
<1>21. ReadReturns => ReplyInv'
  BY DEF ReadReturns
<1>22. ReadWakes => ReplyInv'
  BY DEF ReadWakes
<1>23. CoalescingEnds => ReplyInv'
  BY DEF CoalescingEnds
<1>24. ReadTimesOut => ReplyInv'
  BY DEF ReadTimesOut
<1>25. PumpDelivers => ReplyInv'
  BY DEF PumpDelivers
<1>26. PumpEnds => ReplyInv'
  BY DEF PumpEnds
<1>27. ConsumerPauses => ReplyInv'
  BY DEF ConsumerPauses, SetConsumerPaused
<1>28. ConsumerResumes => ReplyInv'
  BY DEF ConsumerResumes, SetConsumerPaused
<1>29. ConsumerCancels => ReplyInv'
  BY DEF ConsumerCancels, SetConsumerPaused
<1>30. Write => ReplyInv'
  BY DEF Write
<1>31. CloseBegins => ReplyInv'
  BY DEF CloseBegins
<1>32. CloseResumesPump => ReplyInv'
  BY DEF CloseResumesPump, SetConsumerPaused
<1>33. CloseStores => ReplyInv'
  BY DEF CloseStores
<1>34. CloseNotifies => ReplyInv'
  BY DEF CloseNotifies
<1>35. CloseRemoves => ReplyInv'
  BY DEF CloseRemoves
<1>36. CloseDisconnects => ReplyInv'
  BY DEF CloseDisconnects
<1>37. CloseReturns => ReplyInv'
  BY DEF CloseReturns
<1>38. UNCHANGED vars => ReplyInv'
  BY DEF vars
<1>39. QED
  BY <1>1, <1>2, <1>3, <1>4, <1>5, <1>6, <1>7, <1>8, <1>9, <1>10, <1>11,
     <1>12, <1>13, <1>14, <1>15, <1>16, <1>17, <1>18, <1>19, <1>20, <1>21,
     <1>22, <1>23, <1>24, <1>25, <1>26, <1>27, <1>28, <1>29, <1>30, <1>31,
     <1>32, <1>33, <1>34, <1>35, <1>36, <1>37, <1>38 DEF Next, ReaderStep,
     PumpStep, CloserStep

\* MsgInv is inductive.
LEMMA MsgStep ==
  ASSUME TypeOK, MsgInv, [Next]_vars
  PROVE  MsgInv'
<1> USE DEF TypeOK, MsgInv, bufferVars, readerVars, pumpVars, consumerVars, remoteVars, writeVars
<1>1. RemoteSends => MsgInv'
  BY DEF RemoteSends
<1>2. RemoteCloses => MsgInv'
  BY DEF RemoteCloses
<1>3. WriteEnds => MsgInv'
  BY DEF WriteEnds
<1>4. (\E s \in Streams, n \in 1..MaxMessage : ReaderTakes(s, n)) => MsgInv'
  BY DEF ReaderTakes
<1>5. ReaderStops => MsgInv'
  BY DEF ReaderStops
<1>6. ReaderChecks => MsgInv'
  BY DEF ReaderChecks
<1>7. ReaderArms => MsgInv'
  BY DEF ReaderArms
<1>8. ReaderParks => MsgInv'
  BY DEF ReaderParks
<1>9. ReaderAppends => MsgInv'
  BY DEF ReaderAppends
<1>10. ReaderSignals => MsgInv'
  BY DEF ReaderSignals
<1>11. ReaderWakes => MsgInv'
  BY DEF ReaderWakes
<1>12. ReaderFinishes => MsgInv'
  BY DEF ReaderFinishes
<1>13. ReaderAnnounces => MsgInv'
  BY DEF ReaderAnnounces
<1>14. PumpLoops => MsgInv'
  BY DEF PumpLoops
<1>15. PumpCalls => MsgInv'
  BY DEF PumpCalls
<1>16. ReadBegins => MsgInv'
  BY DEF ReadBegins
<1>17. ReadFindsNothing => MsgInv'
  BY DEF ReadFindsNothing
<1>18. ReadCoalesces => MsgInv'
  BY DEF ReadCoalesces
<1>19. ReadTakes => MsgInv'
  BY DEF ReadTakes
<1>20. ReadNotifies => MsgInv'
  BY DEF ReadNotifies
<1>21. ReadReturns => MsgInv'
  BY DEF ReadReturns
<1>22. ReadWakes => MsgInv'
  BY DEF ReadWakes
<1>23. CoalescingEnds => MsgInv'
  BY DEF CoalescingEnds
<1>24. ReadTimesOut => MsgInv'
  BY DEF ReadTimesOut
<1>25. PumpDelivers => MsgInv'
  BY DEF PumpDelivers
<1>26. PumpEnds => MsgInv'
  BY DEF PumpEnds
<1>27. ConsumerPauses => MsgInv'
  BY DEF ConsumerPauses, SetConsumerPaused
<1>28. ConsumerResumes => MsgInv'
  BY DEF ConsumerResumes, SetConsumerPaused
<1>29. ConsumerCancels => MsgInv'
  BY DEF ConsumerCancels, SetConsumerPaused
<1>30. Write => MsgInv'
  BY DEF Write
<1>31. CloseBegins => MsgInv'
  BY DEF CloseBegins
<1>32. CloseResumesPump => MsgInv'
  BY DEF CloseResumesPump, SetConsumerPaused
<1>33. CloseStores => MsgInv'
  BY DEF CloseStores
<1>34. CloseNotifies => MsgInv'
  BY DEF CloseNotifies
<1>35. CloseRemoves => MsgInv'
  BY DEF CloseRemoves
<1>36. CloseDisconnects => MsgInv'
  BY DEF CloseDisconnects
<1>37. CloseReturns => MsgInv'
  BY DEF CloseReturns
<1>38. UNCHANGED vars => MsgInv'
  BY DEF vars
<1>39. QED
  BY <1>1, <1>2, <1>3, <1>4, <1>5, <1>6, <1>7, <1>8, <1>9, <1>10, <1>11,
     <1>12, <1>13, <1>14, <1>15, <1>16, <1>17, <1>18, <1>19, <1>20, <1>21,
     <1>22, <1>23, <1>24, <1>25, <1>26, <1>27, <1>28, <1>29, <1>30, <1>31,
     <1>32, <1>33, <1>34, <1>35, <1>36, <1>37, <1>38 DEF Next, ReaderStep,
     PumpStep, CloserStep

\* No step loses a byte.
LEMMA LossStep ==
  ASSUME TypeOK, ReplyInv, MsgInv, NothingLost, [Next]_vars
  PROVE  NothingLost'
<1> USE ConstantsAssumption DEF TypeOK, ReplyInv, MsgInv, NothingLost, Zero, bufferVars, readerVars, pumpVars, consumerVars, remoteVars, writeVars
<1>1. RemoteSends => NothingLost'
  BY DEF RemoteSends
<1>2. RemoteCloses => NothingLost'
  BY DEF RemoteCloses
<1>3. WriteEnds => NothingLost'
  BY DEF WriteEnds
<1>4. (\E s \in Streams, n \in 1..MaxMessage : ReaderTakes(s, n)) => NothingLost'
  BY DEF ReaderTakes
<1>5. ReaderStops => NothingLost'
  BY DEF ReaderStops
<1>6. ReaderChecks => NothingLost'
  BY DEF ReaderChecks
<1>7. ReaderArms => NothingLost'
  BY DEF ReaderArms
<1>8. ReaderParks => NothingLost'
  BY DEF ReaderParks
<1>9. ASSUME ReaderAppends
      PROVE  NothingLost'
  <2> DEFINE n == Lesser(msg.left, Capacity - Total)
  <2>1. n \in Nat /\ n <= msg.left
    BY <1>9 DEF ReaderAppends, Lesser, Total, Streams
  <2>2. /\ queued' = [queued EXCEPT ![msg.stream] = @ + n]
        /\ msg' = [msg EXCEPT !.left = @ - n]
    BY <1>9 DEF ReaderAppends
  <2> HIDE DEF n
  <2>3. QED
    BY <1>9, <2>1, <2>2 DEF ReaderAppends
<1>10. ReaderSignals => NothingLost'
  BY DEF ReaderSignals
<1>11. ReaderWakes => NothingLost'
  BY DEF ReaderWakes
<1>12. ReaderFinishes => NothingLost'
  BY DEF ReaderFinishes
<1>13. ReaderAnnounces => NothingLost'
  BY DEF ReaderAnnounces
<1>14. PumpLoops => NothingLost'
  BY DEF PumpLoops
<1>15. PumpCalls => NothingLost'
  BY DEF PumpCalls
<1>16. ReadBegins => NothingLost'
  BY DEF ReadBegins
<1>17. ReadFindsNothing => NothingLost'
  BY DEF ReadFindsNothing
<1>18. ReadCoalesces => NothingLost'
  BY DEF ReadCoalesces
<1>19. ASSUME ReadTakes
      PROVE  NothingLost'
  BY <1>19, ReadTakesFacts DEF ReadTakes
<1>20. ReadNotifies => NothingLost'
  BY DEF ReadNotifies
<1>21. ReadReturns => NothingLost'
  BY DEF ReadReturns
<1>22. ReadWakes => NothingLost'
  BY DEF ReadWakes
<1>23. CoalescingEnds => NothingLost'
  BY DEF CoalescingEnds
<1>24. ReadTimesOut => NothingLost'
  BY DEF ReadTimesOut
<1>25. PumpDelivers => NothingLost'
  BY DEF PumpDelivers
<1>26. PumpEnds => NothingLost'
  BY DEF PumpEnds
<1>27. ConsumerPauses => NothingLost'
  BY DEF ConsumerPauses, SetConsumerPaused
<1>28. ConsumerResumes => NothingLost'
  BY DEF ConsumerResumes, SetConsumerPaused
<1>29. ConsumerCancels => NothingLost'
  BY DEF ConsumerCancels, SetConsumerPaused
<1>30. Write => NothingLost'
  BY DEF Write
<1>31. CloseBegins => NothingLost'
  BY DEF CloseBegins
<1>32. CloseResumesPump => NothingLost'
  BY DEF CloseResumesPump, SetConsumerPaused
<1>33. CloseStores => NothingLost'
  BY DEF CloseStores
<1>34. CloseNotifies => NothingLost'
  BY DEF CloseNotifies
<1>35. CloseRemoves => NothingLost'
  BY DEF CloseRemoves
<1>36. CloseDisconnects => NothingLost'
  BY DEF CloseDisconnects
<1>37. CloseReturns => NothingLost'
  BY DEF CloseReturns
<1>38. UNCHANGED vars => NothingLost'
  BY DEF vars
<1>39. QED
  BY <1>1, <1>2, <1>3, <1>4, <1>5, <1>6, <1>7, <1>8, <1>9, <1>10, <1>11,
     <1>12, <1>13, <1>14, <1>15, <1>16, <1>17, <1>18, <1>19, <1>20, <1>21,
     <1>22, <1>23, <1>24, <1>25, <1>26, <1>27, <1>28, <1>29, <1>30, <1>31,
     <1>32, <1>33, <1>34, <1>35, <1>36, <1>37, <1>38 DEF Next, ReaderStep,
     PumpStep, CloserStep

\* No step lets the reader sleep through a notification.
LEMMA SpaceStep ==
  ASSUME TypeOK, NoLostSpaceWakeup, [Next]_vars
  PROVE  NoLostSpaceWakeup'
<1> USE ConstantsAssumption DEF TypeOK, NoLostSpaceWakeup, Total, Woken, Streams, bufferVars, readerVars, pumpVars, consumerVars, remoteVars, writeVars
<1>1. RemoteSends => NoLostSpaceWakeup'
  BY DEF RemoteSends
<1>2. RemoteCloses => NoLostSpaceWakeup'
  BY DEF RemoteCloses
<1>3. WriteEnds => NoLostSpaceWakeup'
  BY DEF WriteEnds
<1>4. (\E s \in Streams, n \in 1..MaxMessage : ReaderTakes(s, n)) => NoLostSpaceWakeup'
  BY DEF ReaderTakes
<1>5. ReaderStops => NoLostSpaceWakeup'
  BY DEF ReaderStops
<1>6. ReaderChecks => NoLostSpaceWakeup'
  BY DEF ReaderChecks
<1>7. ReaderArms => NoLostSpaceWakeup'
  BY DEF ReaderArms
<1>8. ReaderParks => NoLostSpaceWakeup'
  BY DEF ReaderParks
<1>9. ReaderAppends => NoLostSpaceWakeup'
  BY DEF ReaderAppends
<1>10. ReaderSignals => NoLostSpaceWakeup'
  BY DEF ReaderSignals
<1>11. ReaderWakes => NoLostSpaceWakeup'
  BY DEF ReaderWakes
<1>12. ReaderFinishes => NoLostSpaceWakeup'
  BY DEF ReaderFinishes
<1>13. ReaderAnnounces => NoLostSpaceWakeup'
  BY DEF ReaderAnnounces
<1>14. PumpLoops => NoLostSpaceWakeup'
  BY DEF PumpLoops
<1>15. PumpCalls => NoLostSpaceWakeup'
  BY DEF PumpCalls
<1>16. ReadBegins => NoLostSpaceWakeup'
  BY DEF ReadBegins
<1>17. ReadFindsNothing => NoLostSpaceWakeup'
  BY DEF ReadFindsNothing
<1>18. ReadCoalesces => NoLostSpaceWakeup'
  BY DEF ReadCoalesces
<1>19. ReadTakes => NoLostSpaceWakeup'
  BY DEF ReadTakes
<1>20. ReadNotifies => NoLostSpaceWakeup'
  BY DEF ReadNotifies
<1>21. ReadReturns => NoLostSpaceWakeup'
  BY DEF ReadReturns
<1>22. ReadWakes => NoLostSpaceWakeup'
  BY DEF ReadWakes
<1>23. CoalescingEnds => NoLostSpaceWakeup'
  BY DEF CoalescingEnds
<1>24. ReadTimesOut => NoLostSpaceWakeup'
  BY DEF ReadTimesOut
<1>25. PumpDelivers => NoLostSpaceWakeup'
  BY DEF PumpDelivers
<1>26. PumpEnds => NoLostSpaceWakeup'
  BY DEF PumpEnds
<1>27. ConsumerPauses => NoLostSpaceWakeup'
  BY DEF ConsumerPauses, SetConsumerPaused
<1>28. ConsumerResumes => NoLostSpaceWakeup'
  BY DEF ConsumerResumes, SetConsumerPaused
<1>29. ConsumerCancels => NoLostSpaceWakeup'
  BY DEF ConsumerCancels, SetConsumerPaused
<1>30. Write => NoLostSpaceWakeup'
  BY DEF Write
<1>31. CloseBegins => NoLostSpaceWakeup'
  BY DEF CloseBegins
<1>32. CloseResumesPump => NoLostSpaceWakeup'
  BY DEF CloseResumesPump, SetConsumerPaused
<1>33. CloseStores => NoLostSpaceWakeup'
  BY DEF CloseStores
<1>34. CloseNotifies => NoLostSpaceWakeup'
  BY DEF CloseNotifies
<1>35. CloseRemoves => NoLostSpaceWakeup'
  BY DEF CloseRemoves
<1>36. CloseDisconnects => NoLostSpaceWakeup'
  BY DEF CloseDisconnects
<1>37. CloseReturns => NoLostSpaceWakeup'
  BY DEF CloseReturns
<1>38. UNCHANGED vars => NoLostSpaceWakeup'
  BY DEF vars
<1>39. QED
  BY <1>1, <1>2, <1>3, <1>4, <1>5, <1>6, <1>7, <1>8, <1>9, <1>10, <1>11,
     <1>12, <1>13, <1>14, <1>15, <1>16, <1>17, <1>18, <1>19, <1>20, <1>21,
     <1>22, <1>23, <1>24, <1>25, <1>26, <1>27, <1>28, <1>29, <1>30, <1>31,
     <1>32, <1>33, <1>34, <1>35, <1>36, <1>37, <1>38 DEF Next, ReaderStep,
     PumpStep, CloserStep

\* No step lets a read sleep through a notification.
LEMMA DataStep ==
  ASSUME TypeOK, NoLostDataWakeup, [Next]_vars
  PROVE  NoLostDataWakeup'
<1> USE ConstantsAssumption DEF TypeOK, NoLostDataWakeup, Total, Woken, Streams, bufferVars, readerVars, pumpVars, consumerVars, remoteVars, writeVars
<1>1. RemoteSends => NoLostDataWakeup'
  BY DEF RemoteSends
<1>2. RemoteCloses => NoLostDataWakeup'
  BY DEF RemoteCloses
<1>3. WriteEnds => NoLostDataWakeup'
  BY DEF WriteEnds
<1>4. (\E s \in Streams, n \in 1..MaxMessage : ReaderTakes(s, n)) => NoLostDataWakeup'
  BY DEF ReaderTakes
<1>5. ReaderStops => NoLostDataWakeup'
  BY DEF ReaderStops
<1>6. ReaderChecks => NoLostDataWakeup'
  BY DEF ReaderChecks
<1>7. ReaderArms => NoLostDataWakeup'
  BY DEF ReaderArms
<1>8. ReaderParks => NoLostDataWakeup'
  BY DEF ReaderParks
<1>9. ASSUME ReaderAppends
      PROVE  NoLostDataWakeup'
  BY <1>9 DEF ReaderAppends
<1>10. ReaderSignals => NoLostDataWakeup'
  BY DEF ReaderSignals
<1>11. ReaderWakes => NoLostDataWakeup'
  BY DEF ReaderWakes
<1>12. ReaderFinishes => NoLostDataWakeup'
  BY DEF ReaderFinishes
<1>13. ReaderAnnounces => NoLostDataWakeup'
  BY DEF ReaderAnnounces
<1>14. PumpLoops => NoLostDataWakeup'
  BY DEF PumpLoops
<1>15. PumpCalls => NoLostDataWakeup'
  BY DEF PumpCalls
<1>16. ReadBegins => NoLostDataWakeup'
  BY DEF ReadBegins
<1>17. ReadFindsNothing => NoLostDataWakeup'
  BY DEF ReadFindsNothing
<1>18. ReadCoalesces => NoLostDataWakeup'
  BY DEF ReadCoalesces
<1>19. ReadTakes => NoLostDataWakeup'
  BY DEF ReadTakes
<1>20. ReadNotifies => NoLostDataWakeup'
  BY DEF ReadNotifies
<1>21. ReadReturns => NoLostDataWakeup'
  BY DEF ReadReturns
<1>22. ReadWakes => NoLostDataWakeup'
  BY DEF ReadWakes
<1>23. CoalescingEnds => NoLostDataWakeup'
  BY DEF CoalescingEnds
<1>24. ReadTimesOut => NoLostDataWakeup'
  BY DEF ReadTimesOut
<1>25. PumpDelivers => NoLostDataWakeup'
  BY DEF PumpDelivers
<1>26. PumpEnds => NoLostDataWakeup'
  BY DEF PumpEnds
<1>27. ConsumerPauses => NoLostDataWakeup'
  BY DEF ConsumerPauses, SetConsumerPaused
<1>28. ConsumerResumes => NoLostDataWakeup'
  BY DEF ConsumerResumes, SetConsumerPaused
<1>29. ConsumerCancels => NoLostDataWakeup'
  BY DEF ConsumerCancels, SetConsumerPaused
<1>30. Write => NoLostDataWakeup'
  BY DEF Write
<1>31. CloseBegins => NoLostDataWakeup'
  BY DEF CloseBegins
<1>32. CloseResumesPump => NoLostDataWakeup'
  BY DEF CloseResumesPump, SetConsumerPaused
<1>33. CloseStores => NoLostDataWakeup'
  BY DEF CloseStores
<1>34. CloseNotifies => NoLostDataWakeup'
  BY DEF CloseNotifies
<1>35. CloseRemoves => NoLostDataWakeup'
  BY DEF CloseRemoves
<1>36. CloseDisconnects => NoLostDataWakeup'
  BY DEF CloseDisconnects
<1>37. CloseReturns => NoLostDataWakeup'
  BY DEF CloseReturns
<1>38. UNCHANGED vars => NoLostDataWakeup'
  BY DEF vars
<1>39. QED
  BY <1>1, <1>2, <1>3, <1>4, <1>5, <1>6, <1>7, <1>8, <1>9, <1>10, <1>11,
     <1>12, <1>13, <1>14, <1>15, <1>16, <1>17, <1>18, <1>19, <1>20, <1>21,
     <1>22, <1>23, <1>24, <1>25, <1>26, <1>27, <1>28, <1>29, <1>30, <1>31,
     <1>32, <1>33, <1>34, <1>35, <1>36, <1>37, <1>38 DEF Next, ReaderStep,
     PumpStep, CloserStep

-----------------------------------------------------------------------------
\* All of it together.
LEMMA InvHolds == Spec => []Inv
<1>1. Init => TypeOK /\ ReplyInv /\ MsgInv
  <2>1. "stdout" \in Streams /\ FALSE \in BOOLEAN /\ "none" \in Notified
    BY DEF Streams, Notified
  <2>2. Init => ReplyInv /\ MsgInv
    BY DEF Init, ReplyInv, MsgInv
  <2>3. Init => msg \in [stream : Streams, left : Nat]
    BY <2>1 DEF Init
  <2>4. Init => /\ queued \in [Streams -> Nat] /\ reply \in [Streams -> Nat]
                /\ received \in [Streams -> Nat] /\ delivered \in [Streams -> Nat]
    BY ZeroType DEF Init
  <2>5. Init => /\ closed \in BOOLEAN /\ registered \in BOOLEAN /\ lastReply \in BOOLEAN
                /\ paused \in BOOLEAN /\ eof \in BOOLEAN
    BY DEF Init
  <2>6. Init => chain \in Nat /\ written \in Nat /\ wire \in Nat /\ sent \in Nat
    BY DEF Init
  <2>7. Init => TypeOK
    BY <2>1, <2>3, <2>4, <2>5, <2>6 DEF Init, TypeOK
  <2>8. QED
    BY <2>2, <2>7
<1>2. Init => BufferBounded /\ NothingLost
  BY ConstantsAssumption DEF Init, BufferBounded, NothingLost, Total, Zero, Streams
<1>3. Init => NoLostSpaceWakeup /\ NoLostDataWakeup
  BY DEF Init, NoLostSpaceWakeup, NoLostDataWakeup
<1>4. Inv /\ [Next]_vars => Inv'
  BY TypeStep, BoundStep, ReplyStep, MsgStep, LossStep, SpaceStep, DataStep DEF Inv
<1>5. Init => Inv
  BY <1>1, <1>2, <1>3 DEF Inv
<1>6. QED
  BY <1>4, <1>5, PTL DEF Spec

\* The buffer of a session never holds more than MAX_BUFFER_BYTES
\* (append_output, ssh_read).
THEOREM BufferIsBounded == Spec => []BufferBounded
<1>1. Inv => BufferBounded
  BY DEF Inv
<1>2. QED
  BY <1>1, InvHolds, PTL

\* While the reader task runs, every byte it took from the channel is
\* accounted for exactly once, on its own stream (append_output, drain_queue,
\* ssh_read, _pump).
THEOREM NoByteLost == Spec => []NothingLost
<1>1. Inv => NothingLost
  BY DEF Inv
<1>2. QED
  BY <1>1, InvHolds, PTL

\* Every variable keeps the values its code gives it.
THEOREM TypeCorrect == Spec => []TypeOK
<1>1. Inv => TypeOK
  BY DEF Inv
<1>2. QED
  BY <1>1, InvHolds, PTL

\* A reader that waits for room that exists has its notification on the way
\* (space_ready).
THEOREM ReaderIsWoken == Spec => []NoLostSpaceWakeup
<1>1. Inv => NoLostSpaceWakeup
  BY DEF Inv
<1>2. QED
  BY <1>1, InvHolds, PTL

\* A read that waits for data that exists, or for an end that has come, has its
\* notification on the way (data_ready).
THEOREM ReadIsWoken == Spec => []NoLostDataWakeup
<1>1. Inv => NoLostDataWakeup
  BY DEF Inv
<1>2. QED
  BY <1>1, InvHolds, PTL
=============================================================================
