------------------------ MODULE ImapSession_proofs ------------------------
(***************************************************************************)
(* Proofs about ImapSession, for any set of coroutines, any bounds and any *)
(* operations the user may ask for.                                        *)
(***************************************************************************)
EXTENDS ImapSession, ImapCommandQueue_proofs

LEMMA PopType ==
  ASSUME NEW q \in Seq(ImapOpType), ~QueueEmpty(q)
  PROVE  Head(q) \in ImapOpType /\ Tail(q) \in Seq(ImapOpType)
BY DEF QueueEmpty

LEMMA FlagsStep ==
  ASSUME FlagsType, [Next]_vars
  PROVE  FlagsType'
<1> USE DEF atomics, ioVars, qtVars, bounds, IdleGoto, PumpGoto, FlagsType
<1>1. CASE UserEnqueue
  BY <1>1 DEF UserEnqueue, BeginEnqueue
<1>2. CASE HandleNotification
  BY <1>2 DEF HandleNotification, BeginEnqueue
<1>3. CASE EnqueueCancel
  BY <1>3 DEF EnqueueCancel
<1>4. CASE EnqueuePush
  BY <1>4 DEF EnqueuePush
<1>5. CASE EnqueuePost
  BY <1>5 DEF EnqueuePost
<1>6. CASE StopPolling
  BY <1>6 DEF StopPolling
<1>7. CASE StopFlag
  BY <1>7 DEF StopFlag
<1>8. CASE StopTest
  BY <1>8 DEF StopTest
<1>9. CASE DeliverStopped
  BY <1>9 DEF DeliverStopped
<1>10. CASE StopTimeout
  BY <1>10 DEF StopTimeout
<1>11. CASE Teardown
  BY <1>11 DEF Teardown
<1>12. CASE CancelIdleWait
  BY <1>12 DEF CancelIdleWait
<1>13. CASE SchedulePump
  BY <1>13 DEF SchedulePump
<1>14. ASSUME NEW c \in Coro, IdleWhile(c) PROVE FlagsType'
  BY <1>14 DEF IdleWhile
<1>15. ASSUME NEW c \in Coro, IdleYield(c) PROVE FlagsType'
  BY <1>15 DEF IdleYield
<1>16. ASSUME NEW c \in Coro, IdleArm(c) PROVE FlagsType'
  BY <1>16 DEF IdleArm
<1>17. ASSUME NEW c \in Coro, IdleRecheck(c) PROVE FlagsType'
  BY <1>17 DEF IdleRecheck
<1>18. ASSUME NEW c \in Coro, IdleStarted(c) PROVE FlagsType'
  BY <1>18 DEF IdleStarted
<1>19. ASSUME NEW c \in Coro, IdleDoneEarly(c) PROVE FlagsType'
  BY <1>19 DEF IdleDoneEarly
<1>20. ASSUME NEW c \in Coro, IdlePush(c) PROVE FlagsType'
  BY <1>20 DEF IdlePush
<1>21. ASSUME NEW c \in Coro, IdleTimeout(c) PROVE FlagsType'
  BY <1>21 DEF IdleTimeout
<1>22. ASSUME NEW c \in Coro, IdleDone(c) PROVE FlagsType'
  BY <1>22 DEF IdleDone
<1>23. ASSUME NEW c \in Coro, IdleLeave(c) PROVE FlagsType'
  BY <1>23 DEF IdleLeave
<1>24. ASSUME NEW c \in Coro, PumpStart(c) PROVE FlagsType'
  BY <1>24 DEF PumpStart
<1>25. ASSUME NEW c \in Coro, PumpWait(c) PROVE FlagsType'
  BY <1>25 DEF PumpWait
<1>26. ASSUME NEW c \in Coro, PumpPoll(c) PROVE FlagsType'
  BY <1>26 DEF PumpPoll
<1>27. ASSUME NEW c \in Coro, PumpDeadline(c) PROVE FlagsType'
  BY <1>27 DEF PumpDeadline
<1>28. ASSUME NEW c \in Coro, PumpDrained(c) PROVE FlagsType'
  BY <1>28 DEF PumpDrained
<1>29. ASSUME NEW c \in Coro, PumpGiveUp(c) PROVE FlagsType'
  BY <1>29 DEF PumpGiveUp
<1>30. ASSUME NEW c \in Coro, PumpPop(c) PROVE FlagsType'
  BY <1>30 DEF PumpPop
<1>31. ASSUME NEW c \in Coro, PumpResume(c) PROVE FlagsType'
  BY <1>31 DEF PumpResume
<1>32. ASSUME NEW c \in Coro, PumpReturn(c) PROVE FlagsType'
  BY <1>32 DEF PumpReturn
<1>33. ASSUME NEW c \in Coro, DispatchPlain(c) PROVE FlagsType'
  BY <1>33 DEF DispatchPlain, DispatchDone
<1>34. ASSUME NEW c \in Coro, DispatchStartsPolling(c) PROVE FlagsType'
  BY <1>34 DEF DispatchStartsPolling, DispatchDone
<1>35. ASSUME NEW c \in Coro, DispatchThrows(c) PROVE FlagsType'
  BY <1>35 DEF DispatchThrows
<1>36. CASE UNCHANGED vars
  BY <1>36 DEF vars
<1> QED
  BY <1>1, <1>2, <1>3, <1>4, <1>5, <1>6, <1>7, <1>8, <1>9, <1>10, <1>11,
     <1>12, <1>13, <1>14, <1>15, <1>16, <1>17, <1>18, <1>19, <1>20, <1>21,
     <1>22, <1>23, <1>24, <1>25, <1>26, <1>27, <1>28, <1>29, <1>30, <1>31,
     <1>32, <1>33, <1>34, <1>35, <1>36
  DEF Next, QtNext, IdleNext, PumpNext

LEMMA PlacesStep ==
  ASSUME PlacesType, [Next]_vars
  PROVE  PlacesType'
<1> USE DEF atomics, ioVars, qtVars, bounds, IdleGoto, PumpGoto,
        PlacesType, Phases, IdlePc, PumpPc, QtPc
<1>1. CASE UserEnqueue
  BY <1>1 DEF UserEnqueue, BeginEnqueue
<1>2. CASE HandleNotification
  BY <1>2 DEF HandleNotification, BeginEnqueue
<1>3. CASE EnqueueCancel
  BY <1>3 DEF EnqueueCancel
<1>4. CASE EnqueuePush
  BY <1>4 DEF EnqueuePush
<1>5. CASE EnqueuePost
  BY <1>5 DEF EnqueuePost
<1>6. CASE StopPolling
  BY <1>6 DEF StopPolling
<1>7. CASE StopFlag
  BY <1>7 DEF StopFlag
<1>8. CASE StopTest
  BY <1>8 DEF StopTest
<1>9. CASE DeliverStopped
  BY <1>9 DEF DeliverStopped
<1>10. CASE StopTimeout
  BY <1>10 DEF StopTimeout
<1>11. CASE Teardown
  BY <1>11 DEF Teardown
<1>12. CASE CancelIdleWait
  BY <1>12 DEF CancelIdleWait
<1>13. CASE SchedulePump
  BY <1>13 DEF SchedulePump
<1>14. ASSUME NEW c \in Coro, IdleWhile(c) PROVE PlacesType'
  BY <1>14 DEF IdleWhile
<1>15. ASSUME NEW c \in Coro, IdleYield(c) PROVE PlacesType'
  BY <1>15 DEF IdleYield
<1>16. ASSUME NEW c \in Coro, IdleArm(c) PROVE PlacesType'
  BY <1>16 DEF IdleArm
<1>17. ASSUME NEW c \in Coro, IdleRecheck(c) PROVE PlacesType'
  BY <1>17 DEF IdleRecheck
<1>18. ASSUME NEW c \in Coro, IdleStarted(c) PROVE PlacesType'
  BY <1>18 DEF IdleStarted
<1>19. ASSUME NEW c \in Coro, IdleDoneEarly(c) PROVE PlacesType'
  BY <1>19 DEF IdleDoneEarly
<1>20. ASSUME NEW c \in Coro, IdlePush(c) PROVE PlacesType'
  BY <1>20 DEF IdlePush
<1>21. ASSUME NEW c \in Coro, IdleTimeout(c) PROVE PlacesType'
  BY <1>21 DEF IdleTimeout
<1>22. ASSUME NEW c \in Coro, IdleDone(c) PROVE PlacesType'
  BY <1>22 DEF IdleDone
<1>23. ASSUME NEW c \in Coro, IdleLeave(c) PROVE PlacesType'
  BY <1>23 DEF IdleLeave
<1>24. ASSUME NEW c \in Coro, PumpStart(c) PROVE PlacesType'
  BY <1>24 DEF PumpStart
<1>25. ASSUME NEW c \in Coro, PumpWait(c) PROVE PlacesType'
  BY <1>25 DEF PumpWait
<1>26. ASSUME NEW c \in Coro, PumpPoll(c) PROVE PlacesType'
  BY <1>26 DEF PumpPoll
<1>27. ASSUME NEW c \in Coro, PumpDeadline(c) PROVE PlacesType'
  BY <1>27 DEF PumpDeadline
<1>28. ASSUME NEW c \in Coro, PumpDrained(c) PROVE PlacesType'
  BY <1>28 DEF PumpDrained
<1>29. ASSUME NEW c \in Coro, PumpGiveUp(c) PROVE PlacesType'
  BY <1>29 DEF PumpGiveUp
<1>30. ASSUME NEW c \in Coro, PumpPop(c) PROVE PlacesType'
  BY <1>30 DEF PumpPop
<1>31. ASSUME NEW c \in Coro, PumpResume(c) PROVE PlacesType'
  BY <1>31 DEF PumpResume
<1>32. ASSUME NEW c \in Coro, PumpReturn(c) PROVE PlacesType'
  BY <1>32 DEF PumpReturn
<1>33. ASSUME NEW c \in Coro, DispatchPlain(c) PROVE PlacesType'
  BY <1>33 DEF DispatchPlain, DispatchDone
<1>34. ASSUME NEW c \in Coro, DispatchStartsPolling(c) PROVE PlacesType'
  BY <1>34 DEF DispatchStartsPolling, DispatchDone
<1>35. ASSUME NEW c \in Coro, DispatchThrows(c) PROVE PlacesType'
  BY <1>35 DEF DispatchThrows
<1>36. CASE UNCHANGED vars
  BY <1>36 DEF vars
<1> QED
  BY <1>1, <1>2, <1>3, <1>4, <1>5, <1>6, <1>7, <1>8, <1>9, <1>10, <1>11,
     <1>12, <1>13, <1>14, <1>15, <1>16, <1>17, <1>18, <1>19, <1>20, <1>21,
     <1>22, <1>23, <1>24, <1>25, <1>26, <1>27, <1>28, <1>29, <1>30, <1>31,
     <1>32, <1>33, <1>34, <1>35, <1>36
  DEF Next, QtNext, IdleNext, PumpNext

LEMMA OperationsStep ==
  ASSUME OperationsType, [Next]_vars
  PROVE  OperationsType'
<1> USE ClicksAssumption
    DEF atomics, ioVars, qtVars, bounds, IdleGoto, PumpGoto, OperationsType
<1>1. CASE UserEnqueue
  BY <1>1 DEF UserEnqueue, BeginEnqueue
<1>2. CASE HandleNotification
  BY <1>2 DEF HandleNotification, BeginEnqueue, ImapOpType
<1>3. CASE EnqueueCancel
  BY <1>3 DEF EnqueueCancel
<1>4. CASE EnqueuePush
  BY EnqueueType, <1>4 DEF EnqueuePush
<1>5. CASE EnqueuePost
  BY <1>5 DEF EnqueuePost
<1>6. CASE StopPolling
  BY <1>6 DEF StopPolling
<1>7. CASE StopFlag
  BY <1>7 DEF StopFlag
<1>8. CASE StopTest
  BY <1>8 DEF StopTest
<1>9. CASE DeliverStopped
  BY <1>9 DEF DeliverStopped
<1>10. CASE StopTimeout
  BY <1>10 DEF StopTimeout
<1>11. CASE Teardown
  BY <1>11 DEF Teardown
<1>12. CASE CancelIdleWait
  BY <1>12 DEF CancelIdleWait
<1>13. CASE SchedulePump
  BY <1>13 DEF SchedulePump
<1>14. ASSUME NEW c \in Coro, IdleWhile(c) PROVE OperationsType'
  BY <1>14 DEF IdleWhile
<1>15. ASSUME NEW c \in Coro, IdleYield(c) PROVE OperationsType'
  BY <1>15 DEF IdleYield
<1>16. ASSUME NEW c \in Coro, IdleArm(c) PROVE OperationsType'
  BY <1>16 DEF IdleArm
<1>17. ASSUME NEW c \in Coro, IdleRecheck(c) PROVE OperationsType'
  BY <1>17 DEF IdleRecheck
<1>18. ASSUME NEW c \in Coro, IdleStarted(c) PROVE OperationsType'
  BY <1>18 DEF IdleStarted
<1>19. ASSUME NEW c \in Coro, IdleDoneEarly(c) PROVE OperationsType'
  BY <1>19 DEF IdleDoneEarly
<1>20. ASSUME NEW c \in Coro, IdlePush(c) PROVE OperationsType'
  BY <1>20 DEF IdlePush
<1>21. ASSUME NEW c \in Coro, IdleTimeout(c) PROVE OperationsType'
  BY <1>21 DEF IdleTimeout
<1>22. ASSUME NEW c \in Coro, IdleDone(c) PROVE OperationsType'
  BY <1>22 DEF IdleDone
<1>23. ASSUME NEW c \in Coro, IdleLeave(c) PROVE OperationsType'
  BY <1>23 DEF IdleLeave
<1>24. ASSUME NEW c \in Coro, PumpStart(c) PROVE OperationsType'
  BY <1>24 DEF PumpStart
<1>25. ASSUME NEW c \in Coro, PumpWait(c) PROVE OperationsType'
  BY <1>25 DEF PumpWait
<1>26. ASSUME NEW c \in Coro, PumpPoll(c) PROVE OperationsType'
  BY <1>26 DEF PumpPoll
<1>27. ASSUME NEW c \in Coro, PumpDeadline(c) PROVE OperationsType'
  BY <1>27 DEF PumpDeadline
<1>28. ASSUME NEW c \in Coro, PumpDrained(c) PROVE OperationsType'
  BY <1>28 DEF PumpDrained
<1>29. ASSUME NEW c \in Coro, PumpGiveUp(c) PROVE OperationsType'
  BY <1>29 DEF PumpGiveUp
<1>30. ASSUME NEW c \in Coro, PumpPop(c) PROVE OperationsType'
  BY PopType, <1>30 DEF PumpPop
<1>31. ASSUME NEW c \in Coro, PumpResume(c) PROVE OperationsType'
  BY <1>31 DEF PumpResume
<1>32. ASSUME NEW c \in Coro, PumpReturn(c) PROVE OperationsType'
  BY <1>32 DEF PumpReturn
<1>33. ASSUME NEW c \in Coro, DispatchPlain(c) PROVE OperationsType'
  BY <1>33 DEF DispatchPlain, DispatchDone
<1>34. ASSUME NEW c \in Coro, DispatchStartsPolling(c) PROVE OperationsType'
  BY <1>34 DEF DispatchStartsPolling, DispatchDone
<1>35. ASSUME NEW c \in Coro, DispatchThrows(c) PROVE OperationsType'
  BY <1>35 DEF DispatchThrows
<1>36. CASE UNCHANGED vars
  BY <1>36 DEF vars
<1> QED
  BY <1>1, <1>2, <1>3, <1>4, <1>5, <1>6, <1>7, <1>8, <1>9, <1>10, <1>11,
     <1>12, <1>13, <1>14, <1>15, <1>16, <1>17, <1>18, <1>19, <1>20, <1>21,
     <1>22, <1>23, <1>24, <1>25, <1>26, <1>27, <1>28, <1>29, <1>30, <1>31,
     <1>32, <1>33, <1>34, <1>35, <1>36
  DEF Next, QtNext, IdleNext, PumpNext

LEMMA CountersStep ==
  ASSUME CountersType, [Next]_vars
  PROVE  CountersType'
<1> USE BoundsAssumption
    DEF atomics, ioVars, qtVars, bounds, IdleGoto, PumpGoto, CountersType
<1>1. CASE UserEnqueue
  BY <1>1 DEF UserEnqueue, BeginEnqueue
<1>2. CASE HandleNotification
  BY <1>2 DEF HandleNotification, BeginEnqueue
<1>3. CASE EnqueueCancel
  BY <1>3 DEF EnqueueCancel
<1>4. CASE EnqueuePush
  BY <1>4 DEF EnqueuePush
<1>5. CASE EnqueuePost
  BY <1>5 DEF EnqueuePost
<1>6. CASE StopPolling
  BY <1>6 DEF StopPolling
<1>7. CASE StopFlag
  BY <1>7 DEF StopFlag
<1>8. CASE StopTest
  BY <1>8 DEF StopTest
<1>9. CASE DeliverStopped
  BY <1>9 DEF DeliverStopped
<1>10. CASE StopTimeout
  BY <1>10 DEF StopTimeout
<1>11. CASE Teardown
  BY <1>11 DEF Teardown
<1>12. CASE CancelIdleWait
  BY <1>12 DEF CancelIdleWait
<1>13. CASE SchedulePump
  BY <1>13 DEF SchedulePump
<1>14. ASSUME NEW c \in Coro, IdleWhile(c) PROVE CountersType'
  BY <1>14 DEF IdleWhile
<1>15. ASSUME NEW c \in Coro, IdleYield(c) PROVE CountersType'
  BY <1>15 DEF IdleYield
<1>16. ASSUME NEW c \in Coro, IdleArm(c) PROVE CountersType'
  BY <1>16 DEF IdleArm
<1>17. ASSUME NEW c \in Coro, IdleRecheck(c) PROVE CountersType'
  BY <1>17 DEF IdleRecheck
<1>18. ASSUME NEW c \in Coro, IdleStarted(c) PROVE CountersType'
  BY <1>18 DEF IdleStarted
<1>19. ASSUME NEW c \in Coro, IdleDoneEarly(c) PROVE CountersType'
  BY <1>19 DEF IdleDoneEarly
<1>20. ASSUME NEW c \in Coro, IdlePush(c) PROVE CountersType'
  BY <1>20 DEF IdlePush
<1>21. ASSUME NEW c \in Coro, IdleTimeout(c) PROVE CountersType'
  BY <1>21 DEF IdleTimeout
<1>22. ASSUME NEW c \in Coro, IdleDone(c) PROVE CountersType'
  BY <1>22 DEF IdleDone
<1>23. ASSUME NEW c \in Coro, IdleLeave(c) PROVE CountersType'
  BY <1>23 DEF IdleLeave
<1>24. ASSUME NEW c \in Coro, PumpStart(c) PROVE CountersType'
  BY <1>24 DEF PumpStart
<1>25. ASSUME NEW c \in Coro, PumpWait(c) PROVE CountersType'
  BY <1>25 DEF PumpWait
<1>26. ASSUME NEW c \in Coro, PumpPoll(c) PROVE CountersType'
  BY <1>26 DEF PumpPoll
<1>27. ASSUME NEW c \in Coro, PumpDeadline(c) PROVE CountersType'
  BY <1>27 DEF PumpDeadline
<1>28. ASSUME NEW c \in Coro, PumpDrained(c) PROVE CountersType'
  BY <1>28 DEF PumpDrained
<1>29. ASSUME NEW c \in Coro, PumpGiveUp(c) PROVE CountersType'
  BY <1>29 DEF PumpGiveUp
<1>30. ASSUME NEW c \in Coro, PumpPop(c) PROVE CountersType'
  BY <1>30 DEF PumpPop
<1>31. ASSUME NEW c \in Coro, PumpResume(c) PROVE CountersType'
  BY <1>31 DEF PumpResume
<1>32. ASSUME NEW c \in Coro, PumpReturn(c) PROVE CountersType'
  BY <1>32 DEF PumpReturn
<1>33. ASSUME NEW c \in Coro, DispatchPlain(c) PROVE CountersType'
  BY <1>33 DEF DispatchPlain, DispatchDone
<1>34. ASSUME NEW c \in Coro, DispatchStartsPolling(c) PROVE CountersType'
  BY <1>34 DEF DispatchStartsPolling, DispatchDone
<1>35. ASSUME NEW c \in Coro, DispatchThrows(c) PROVE CountersType'
  BY <1>35 DEF DispatchThrows
<1>36. CASE UNCHANGED vars
  BY <1>36 DEF vars
<1> QED
  BY <1>1, <1>2, <1>3, <1>4, <1>5, <1>6, <1>7, <1>8, <1>9, <1>10, <1>11,
     <1>12, <1>13, <1>14, <1>15, <1>16, <1>17, <1>18, <1>19, <1>20, <1>21,
     <1>22, <1>23, <1>24, <1>25, <1>26, <1>27, <1>28, <1>29, <1>30, <1>31,
     <1>32, <1>33, <1>34, <1>35, <1>36
  DEF Next, QtNext, IdleNext, PumpNext

LEMMA TypeInit == Init => TypeOK
<1> SUFFICES ASSUME Init PROVE TypeOK
  OBVIOUS
<1>1. FlagsType
  BY DEF Init, FlagsType
<1>2. PlacesType
  BY DEF Init, PlacesType, Phases, IdlePc, PumpPc, QtPc
<1>3. OperationsType
  BY DEF Init, OperationsType
<1>4. CountersType
  BY BoundsAssumption DEF Init, CountersType
<1> QED
  BY <1>1, <1>2, <1>3, <1>4 DEF TypeOK

\* Type correctness of the controller, its coroutines and the Qt thread.
THEOREM TypeCorrect == Spec => []TypeOK
<1>1. Init => TypeOK
  BY TypeInit
<1>2. TypeOK /\ [Next]_vars => TypeOK'
  BY FlagsStep, PlacesStep, OperationsStep, CountersStep DEF TypeOK
<1> QED  BY <1>1, <1>2, PTL DEF Spec

-----------------------------------------------------------------------------
(* The inductive invariant.                                                *)

\* One IDLE loop at most, which m_idleRunning announces; from the moment it
\* tests the pending flag for the last time until DONE is answered,
\* m_idleExited is false.
IdleInv ==
  /\ \A c, d \in Coro : idle[c] # "none" /\ idle[d] # "none" => c = d
  /\ \A c \in Coro : idle[c] # "none" => idleRunning
  /\ \A c \in Coro : idle[c] \in IdleOnWire \cup {"recheck"} => ~idleExited

\* One pump at most, which m_imapPumpSessionActive announces.
PumpInv ==
  /\ \A c, d \in Coro : pump[c] # "none" /\ pump[d] # "none" => c = d
  /\ pumpActive <=> \E c \in Coro : pump[c] # "none"
  /\ imapBusy <=> \E c \in Coro : pump[c] = "dispatch"

\* A pump whose wait has succeeded still has the stream for itself.
CheckInv ==
  \A c, d \in Coro : pump[c] = "check" => idle[d] \notin IdleOnWire

LEMMA IdleStep ==
  ASSUME FlagsType, PlacesType, IdleInv, [Next]_vars
  PROVE  IdleInv'
<1> USE DEF atomics, ioVars, qtVars, bounds, IdleGoto, PumpGoto,
        PlacesType, IdlePc, PumpPc, IdleInv, IdleOnWire
<1>1. CASE UserEnqueue
  BY <1>1 DEF UserEnqueue, BeginEnqueue
<1>2. CASE HandleNotification
  BY <1>2 DEF HandleNotification, BeginEnqueue
<1>3. CASE EnqueueCancel
  BY <1>3 DEF EnqueueCancel
<1>4. CASE EnqueuePush
  BY <1>4 DEF EnqueuePush
<1>5. CASE EnqueuePost
  BY <1>5 DEF EnqueuePost
<1>6. CASE StopPolling
  BY <1>6 DEF StopPolling
<1>7. CASE StopFlag
  BY <1>7 DEF StopFlag
<1>8. CASE StopTest
  BY <1>8 DEF StopTest
<1>9. CASE DeliverStopped
  BY <1>9 DEF DeliverStopped
<1>10. CASE StopTimeout
  BY <1>10 DEF StopTimeout
<1>11. CASE Teardown
  BY <1>11 DEF Teardown
<1>12. CASE CancelIdleWait
  BY <1>12 DEF CancelIdleWait
<1>13. CASE SchedulePump
  BY <1>13 DEF SchedulePump
<1>14. ASSUME NEW c \in Coro, IdleWhile(c) PROVE IdleInv'
  BY <1>14 DEF IdleWhile
<1>15. ASSUME NEW c \in Coro, IdleYield(c) PROVE IdleInv'
  BY <1>15 DEF IdleYield
<1>16. ASSUME NEW c \in Coro, IdleArm(c) PROVE IdleInv'
  BY <1>16 DEF IdleArm
<1>17. ASSUME NEW c \in Coro, IdleRecheck(c) PROVE IdleInv'
  BY <1>17 DEF IdleRecheck
<1>18. ASSUME NEW c \in Coro, IdleStarted(c) PROVE IdleInv'
  BY <1>18 DEF IdleStarted
<1>19. ASSUME NEW c \in Coro, IdleDoneEarly(c) PROVE IdleInv'
  BY <1>19 DEF IdleDoneEarly
<1>20. ASSUME NEW c \in Coro, IdlePush(c) PROVE IdleInv'
  BY <1>20 DEF IdlePush
<1>21. ASSUME NEW c \in Coro, IdleTimeout(c) PROVE IdleInv'
  BY <1>21 DEF IdleTimeout
<1>22. ASSUME NEW c \in Coro, IdleDone(c) PROVE IdleInv'
  BY <1>22 DEF IdleDone
<1>23. ASSUME NEW c \in Coro, IdleLeave(c) PROVE IdleInv'
  BY <1>23 DEF IdleLeave
<1>24. ASSUME NEW c \in Coro, PumpStart(c) PROVE IdleInv'
  BY <1>24 DEF PumpStart
<1>25. ASSUME NEW c \in Coro, PumpWait(c) PROVE IdleInv'
  BY <1>25 DEF PumpWait
<1>26. ASSUME NEW c \in Coro, PumpPoll(c) PROVE IdleInv'
  BY <1>26 DEF PumpPoll
<1>27. ASSUME NEW c \in Coro, PumpDeadline(c) PROVE IdleInv'
  BY <1>27 DEF PumpDeadline
<1>28. ASSUME NEW c \in Coro, PumpDrained(c) PROVE IdleInv'
  BY <1>28 DEF PumpDrained
<1>29. ASSUME NEW c \in Coro, PumpGiveUp(c) PROVE IdleInv'
  BY <1>29 DEF PumpGiveUp
<1>30. ASSUME NEW c \in Coro, PumpPop(c) PROVE IdleInv'
  BY <1>30 DEF PumpPop
<1>31. ASSUME NEW c \in Coro, PumpResume(c) PROVE IdleInv'
  BY <1>31 DEF PumpResume
<1>32. ASSUME NEW c \in Coro, PumpReturn(c) PROVE IdleInv'
  BY <1>32 DEF PumpReturn
<1>33. ASSUME NEW c \in Coro, DispatchPlain(c) PROVE IdleInv'
  BY <1>33 DEF DispatchPlain, DispatchDone
<1>34. ASSUME NEW c \in Coro, DispatchStartsPolling(c) PROVE IdleInv'
  BY <1>34 DEF DispatchStartsPolling, DispatchDone
<1>35. ASSUME NEW c \in Coro, DispatchThrows(c) PROVE IdleInv'
  BY <1>35 DEF DispatchThrows
<1>36. CASE UNCHANGED vars
  BY <1>36 DEF vars
<1> QED
  BY <1>1, <1>2, <1>3, <1>4, <1>5, <1>6, <1>7, <1>8, <1>9, <1>10, <1>11,
     <1>12, <1>13, <1>14, <1>15, <1>16, <1>17, <1>18, <1>19, <1>20, <1>21,
     <1>22, <1>23, <1>24, <1>25, <1>26, <1>27, <1>28, <1>29, <1>30, <1>31,
     <1>32, <1>33, <1>34, <1>35, <1>36
  DEF Next, QtNext, IdleNext, PumpNext

LEMMA PumpStep ==
  ASSUME ~MayThrow, FlagsType, PlacesType, PumpInv, [Next]_vars
  PROVE  PumpInv'
<1> USE DEF atomics, ioVars, qtVars, bounds, IdleGoto, PumpGoto,
        PlacesType, IdlePc, PumpPc, PumpInv
<1>1. CASE UserEnqueue
  BY <1>1 DEF UserEnqueue, BeginEnqueue
<1>2. CASE HandleNotification
  BY <1>2 DEF HandleNotification, BeginEnqueue
<1>3. CASE EnqueueCancel
  BY <1>3 DEF EnqueueCancel
<1>4. CASE EnqueuePush
  BY <1>4 DEF EnqueuePush
<1>5. CASE EnqueuePost
  BY <1>5 DEF EnqueuePost
<1>6. CASE StopPolling
  BY <1>6 DEF StopPolling
<1>7. CASE StopFlag
  BY <1>7 DEF StopFlag
<1>8. CASE StopTest
  BY <1>8 DEF StopTest
<1>9. CASE DeliverStopped
  BY <1>9 DEF DeliverStopped
<1>10. CASE StopTimeout
  BY <1>10 DEF StopTimeout
<1>11. CASE Teardown
  BY <1>11 DEF Teardown
<1>12. CASE CancelIdleWait
  BY <1>12 DEF CancelIdleWait
<1>13. CASE SchedulePump
  BY <1>13 DEF SchedulePump
<1>14. ASSUME NEW c \in Coro, IdleWhile(c) PROVE PumpInv'
  BY <1>14 DEF IdleWhile
<1>15. ASSUME NEW c \in Coro, IdleYield(c) PROVE PumpInv'
  BY <1>15 DEF IdleYield
<1>16. ASSUME NEW c \in Coro, IdleArm(c) PROVE PumpInv'
  BY <1>16 DEF IdleArm
<1>17. ASSUME NEW c \in Coro, IdleRecheck(c) PROVE PumpInv'
  BY <1>17 DEF IdleRecheck
<1>18. ASSUME NEW c \in Coro, IdleStarted(c) PROVE PumpInv'
  BY <1>18 DEF IdleStarted
<1>19. ASSUME NEW c \in Coro, IdleDoneEarly(c) PROVE PumpInv'
  BY <1>19 DEF IdleDoneEarly
<1>20. ASSUME NEW c \in Coro, IdlePush(c) PROVE PumpInv'
  BY <1>20 DEF IdlePush
<1>21. ASSUME NEW c \in Coro, IdleTimeout(c) PROVE PumpInv'
  BY <1>21 DEF IdleTimeout
<1>22. ASSUME NEW c \in Coro, IdleDone(c) PROVE PumpInv'
  BY <1>22 DEF IdleDone
<1>23. ASSUME NEW c \in Coro, IdleLeave(c) PROVE PumpInv'
  BY <1>23 DEF IdleLeave
<1>24. ASSUME NEW c \in Coro, PumpStart(c) PROVE PumpInv'
  BY <1>24 DEF PumpStart
<1>25. ASSUME NEW c \in Coro, PumpWait(c) PROVE PumpInv'
  BY <1>25 DEF PumpWait
<1>26. ASSUME NEW c \in Coro, PumpPoll(c) PROVE PumpInv'
  BY <1>26 DEF PumpPoll
<1>27. ASSUME NEW c \in Coro, PumpDeadline(c) PROVE PumpInv'
  BY <1>27 DEF PumpDeadline
<1>28. ASSUME NEW c \in Coro, PumpDrained(c) PROVE PumpInv'
  BY <1>28 DEF PumpDrained
<1>29. ASSUME NEW c \in Coro, PumpGiveUp(c) PROVE PumpInv'
  BY <1>29 DEF PumpGiveUp
<1>30. ASSUME NEW c \in Coro, PumpPop(c) PROVE PumpInv'
  BY <1>30 DEF PumpPop
<1>31. ASSUME NEW c \in Coro, PumpResume(c) PROVE PumpInv'
  BY <1>31 DEF PumpResume
<1>32. ASSUME NEW c \in Coro, PumpReturn(c) PROVE PumpInv'
  BY <1>32 DEF PumpReturn
<1>33. ASSUME NEW c \in Coro, DispatchPlain(c) PROVE PumpInv'
  BY <1>33 DEF DispatchPlain, DispatchDone
<1>34. ASSUME NEW c \in Coro, DispatchStartsPolling(c) PROVE PumpInv'
  BY <1>34 DEF DispatchStartsPolling, DispatchDone
<1>35. ASSUME NEW c \in Coro, DispatchThrows(c) PROVE PumpInv'
  BY <1>35 DEF DispatchThrows
<1>36. CASE UNCHANGED vars
  BY <1>36 DEF vars
<1> QED
  BY <1>1, <1>2, <1>3, <1>4, <1>5, <1>6, <1>7, <1>8, <1>9, <1>10, <1>11,
     <1>12, <1>13, <1>14, <1>15, <1>16, <1>17, <1>18, <1>19, <1>20, <1>21,
     <1>22, <1>23, <1>24, <1>25, <1>26, <1>27, <1>28, <1>29, <1>30, <1>31,
     <1>32, <1>33, <1>34, <1>35, <1>36
  DEF Next, QtNext, IdleNext, PumpNext

LEMMA CheckStep ==
  ASSUME FlagsType, PlacesType, IdleInv, CheckInv, [Next]_vars
  PROVE  CheckInv'
<1> USE DEF atomics, ioVars, qtVars, bounds, IdleGoto, PumpGoto,
        PlacesType, IdlePc, PumpPc, IdleInv, CheckInv, IdleOnWire,
        IdleTurn, PumpTurn, IoFree, IdleMid, PumpMid
<1>1. CASE UserEnqueue
  BY <1>1 DEF UserEnqueue, BeginEnqueue
<1>2. CASE HandleNotification
  BY <1>2 DEF HandleNotification, BeginEnqueue
<1>3. CASE EnqueueCancel
  BY <1>3 DEF EnqueueCancel
<1>4. CASE EnqueuePush
  BY <1>4 DEF EnqueuePush
<1>5. CASE EnqueuePost
  BY <1>5 DEF EnqueuePost
<1>6. CASE StopPolling
  BY <1>6 DEF StopPolling
<1>7. CASE StopFlag
  BY <1>7 DEF StopFlag
<1>8. CASE StopTest
  BY <1>8 DEF StopTest
<1>9. CASE DeliverStopped
  BY <1>9 DEF DeliverStopped
<1>10. CASE StopTimeout
  BY <1>10 DEF StopTimeout
<1>11. CASE Teardown
  BY <1>11 DEF Teardown
<1>12. CASE CancelIdleWait
  BY <1>12 DEF CancelIdleWait
<1>13. CASE SchedulePump
  BY <1>13 DEF SchedulePump
<1>14. ASSUME NEW c \in Coro, IdleWhile(c) PROVE CheckInv'
  BY <1>14 DEF IdleWhile
<1>15. ASSUME NEW c \in Coro, IdleYield(c) PROVE CheckInv'
  BY <1>15 DEF IdleYield
<1>16. ASSUME NEW c \in Coro, IdleArm(c) PROVE CheckInv'
  BY <1>16 DEF IdleArm
<1>17. ASSUME NEW c \in Coro, IdleRecheck(c) PROVE CheckInv'
  BY <1>17 DEF IdleRecheck
<1>18. ASSUME NEW c \in Coro, IdleStarted(c) PROVE CheckInv'
  BY <1>18 DEF IdleStarted
<1>19. ASSUME NEW c \in Coro, IdleDoneEarly(c) PROVE CheckInv'
  BY <1>19 DEF IdleDoneEarly
<1>20. ASSUME NEW c \in Coro, IdlePush(c) PROVE CheckInv'
  BY <1>20 DEF IdlePush
<1>21. ASSUME NEW c \in Coro, IdleTimeout(c) PROVE CheckInv'
  BY <1>21 DEF IdleTimeout
<1>22. ASSUME NEW c \in Coro, IdleDone(c) PROVE CheckInv'
  BY <1>22 DEF IdleDone
<1>23. ASSUME NEW c \in Coro, IdleLeave(c) PROVE CheckInv'
  BY <1>23 DEF IdleLeave
<1>24. ASSUME NEW c \in Coro, PumpStart(c) PROVE CheckInv'
  BY <1>24 DEF PumpStart
<1>25. ASSUME NEW c \in Coro, PumpWait(c) PROVE CheckInv'
  BY <1>25 DEF PumpWait
<1>26. ASSUME NEW c \in Coro, PumpPoll(c) PROVE CheckInv'
  BY <1>26 DEF PumpPoll
<1>27. ASSUME NEW c \in Coro, PumpDeadline(c) PROVE CheckInv'
  BY <1>27 DEF PumpDeadline
<1>28. ASSUME NEW c \in Coro, PumpDrained(c) PROVE CheckInv'
  BY <1>28 DEF PumpDrained
<1>29. ASSUME NEW c \in Coro, PumpGiveUp(c) PROVE CheckInv'
  BY <1>29 DEF PumpGiveUp
<1>30. ASSUME NEW c \in Coro, PumpPop(c) PROVE CheckInv'
  BY <1>30 DEF PumpPop
<1>31. ASSUME NEW c \in Coro, PumpResume(c) PROVE CheckInv'
  BY <1>31 DEF PumpResume
<1>32. ASSUME NEW c \in Coro, PumpReturn(c) PROVE CheckInv'
  BY <1>32 DEF PumpReturn
<1>33. ASSUME NEW c \in Coro, DispatchPlain(c) PROVE CheckInv'
  BY <1>33 DEF DispatchPlain, DispatchDone
<1>34. ASSUME NEW c \in Coro, DispatchStartsPolling(c) PROVE CheckInv'
  BY <1>34 DEF DispatchStartsPolling, DispatchDone
<1>35. ASSUME NEW c \in Coro, DispatchThrows(c) PROVE CheckInv'
  BY <1>35 DEF DispatchThrows
<1>36. CASE UNCHANGED vars
  BY <1>36 DEF vars
<1> QED
  BY <1>1, <1>2, <1>3, <1>4, <1>5, <1>6, <1>7, <1>8, <1>9, <1>10, <1>11,
     <1>12, <1>13, <1>14, <1>15, <1>16, <1>17, <1>18, <1>19, <1>20, <1>21,
     <1>22, <1>23, <1>24, <1>25, <1>26, <1>27, <1>28, <1>29, <1>30, <1>31,
     <1>32, <1>33, <1>34, <1>35, <1>36
  DEF Next, QtNext, IdleNext, PumpNext

LEMMA QueueStep ==
  ASSUME ~MayThrow, PlacesType, CountersType, PumpInv, QueueHasConsumer, [Next]_vars
  PROVE  QueueHasConsumer'
<1> USE DEF atomics, ioVars, qtVars, bounds, IdleGoto, PumpGoto,
        PlacesType, IdlePc, PumpPc, PumpInv, QueueHasConsumer, PumpComing, QueueEmpty
<1>1. CASE UserEnqueue
  BY <1>1 DEF UserEnqueue, BeginEnqueue
<1>2. CASE HandleNotification
  BY <1>2 DEF HandleNotification, BeginEnqueue
<1>3. CASE EnqueueCancel
  BY <1>3 DEF EnqueueCancel
<1>4. CASE EnqueuePush
  BY <1>4 DEF EnqueuePush
<1>5. CASE EnqueuePost
  BY <1>5, BoundsAssumption DEF EnqueuePost, CountersType
<1>6. CASE StopPolling
  BY <1>6 DEF StopPolling
<1>7. CASE StopFlag
  BY <1>7 DEF StopFlag
<1>8. CASE StopTest
  BY <1>8 DEF StopTest
<1>9. CASE DeliverStopped
  BY <1>9 DEF DeliverStopped
<1>10. CASE StopTimeout
  BY <1>10 DEF StopTimeout
<1>11. CASE Teardown
  BY <1>11 DEF Teardown
<1>12. CASE CancelIdleWait
  BY <1>12 DEF CancelIdleWait
<1>13. CASE SchedulePump
  BY <1>13 DEF SchedulePump
<1>14. ASSUME NEW c \in Coro, IdleWhile(c) PROVE QueueHasConsumer'
  BY <1>14 DEF IdleWhile
<1>15. ASSUME NEW c \in Coro, IdleYield(c) PROVE QueueHasConsumer'
  BY <1>15 DEF IdleYield
<1>16. ASSUME NEW c \in Coro, IdleArm(c) PROVE QueueHasConsumer'
  BY <1>16 DEF IdleArm
<1>17. ASSUME NEW c \in Coro, IdleRecheck(c) PROVE QueueHasConsumer'
  BY <1>17 DEF IdleRecheck
<1>18. ASSUME NEW c \in Coro, IdleStarted(c) PROVE QueueHasConsumer'
  BY <1>18 DEF IdleStarted
<1>19. ASSUME NEW c \in Coro, IdleDoneEarly(c) PROVE QueueHasConsumer'
  BY <1>19 DEF IdleDoneEarly
<1>20. ASSUME NEW c \in Coro, IdlePush(c) PROVE QueueHasConsumer'
  BY <1>20 DEF IdlePush
<1>21. ASSUME NEW c \in Coro, IdleTimeout(c) PROVE QueueHasConsumer'
  BY <1>21 DEF IdleTimeout
<1>22. ASSUME NEW c \in Coro, IdleDone(c) PROVE QueueHasConsumer'
  BY <1>22, BoundsAssumption DEF IdleDone, CountersType
<1>23. ASSUME NEW c \in Coro, IdleLeave(c) PROVE QueueHasConsumer'
  BY <1>23 DEF IdleLeave
<1>24. ASSUME NEW c \in Coro, PumpStart(c) PROVE QueueHasConsumer'
  BY <1>24 DEF PumpStart
<1>25. ASSUME NEW c \in Coro, PumpWait(c) PROVE QueueHasConsumer'
  BY <1>25 DEF PumpWait
<1>26. ASSUME NEW c \in Coro, PumpPoll(c) PROVE QueueHasConsumer'
  BY <1>26 DEF PumpPoll
<1>27. ASSUME NEW c \in Coro, PumpDeadline(c) PROVE QueueHasConsumer'
  BY <1>27 DEF PumpDeadline
<1>28. ASSUME NEW c \in Coro, PumpDrained(c) PROVE QueueHasConsumer'
  BY <1>28 DEF PumpDrained
<1>29. ASSUME NEW c \in Coro, PumpGiveUp(c) PROVE QueueHasConsumer'
  BY <1>29 DEF PumpGiveUp
<1>30. ASSUME NEW c \in Coro, PumpPop(c) PROVE QueueHasConsumer'
  BY <1>30 DEF PumpPop
<1>31. ASSUME NEW c \in Coro, PumpResume(c) PROVE QueueHasConsumer'
  BY <1>31 DEF PumpResume
<1>32. ASSUME NEW c \in Coro, PumpReturn(c) PROVE QueueHasConsumer'
  BY <1>32 DEF PumpReturn
<1>33. ASSUME NEW c \in Coro, DispatchPlain(c) PROVE QueueHasConsumer'
  BY <1>33 DEF DispatchPlain, DispatchDone
<1>34. ASSUME NEW c \in Coro, DispatchStartsPolling(c) PROVE QueueHasConsumer'
  BY <1>34 DEF DispatchStartsPolling, DispatchDone
<1>35. ASSUME NEW c \in Coro, DispatchThrows(c) PROVE QueueHasConsumer'
  BY <1>35 DEF DispatchThrows
<1>36. CASE UNCHANGED vars
  BY <1>36 DEF vars
<1> QED
  BY <1>1, <1>2, <1>3, <1>4, <1>5, <1>6, <1>7, <1>8, <1>9, <1>10, <1>11,
     <1>12, <1>13, <1>14, <1>15, <1>16, <1>17, <1>18, <1>19, <1>20, <1>21,
     <1>22, <1>23, <1>24, <1>25, <1>26, <1>27, <1>28, <1>29, <1>30, <1>31,
     <1>32, <1>33, <1>34, <1>35, <1>36
  DEF Next, QtNext, IdleNext, PumpNext

\* The half of PumpInv that survives an exception, and what it keeps true of
\* the phase.
PhaseInv ==
  /\ \A c, d \in Coro : pump[c] # "none" /\ pump[d] # "none" => c = d
  /\ \A c \in Coro : pump[c] # "none" => pumpActive
  /\ PhaseIsCurrent

LEMMA PhaseStep ==
  ASSUME FlagsType, PlacesType, PhaseInv, [Next]_vars
  PROVE  PhaseInv'
<1> USE DEF atomics, ioVars, qtVars, bounds, IdleGoto, PumpGoto,
        PlacesType, IdlePc, PumpPc, PhaseInv, PhaseIsCurrent, PumpDied
<1>1. CASE UserEnqueue
  BY <1>1 DEF UserEnqueue, BeginEnqueue
<1>2. CASE HandleNotification
  BY <1>2 DEF HandleNotification, BeginEnqueue
<1>3. CASE EnqueueCancel
  BY <1>3 DEF EnqueueCancel
<1>4. CASE EnqueuePush
  BY <1>4 DEF EnqueuePush
<1>5. CASE EnqueuePost
  BY <1>5 DEF EnqueuePost
<1>6. CASE StopPolling
  BY <1>6 DEF StopPolling
<1>7. CASE StopFlag
  BY <1>7 DEF StopFlag
<1>8. CASE StopTest
  BY <1>8 DEF StopTest
<1>9. CASE DeliverStopped
  BY <1>9 DEF DeliverStopped
<1>10. CASE StopTimeout
  BY <1>10 DEF StopTimeout
<1>11. CASE Teardown
  BY <1>11 DEF Teardown
<1>12. CASE CancelIdleWait
  BY <1>12 DEF CancelIdleWait
<1>13. CASE SchedulePump
  BY <1>13 DEF SchedulePump
<1>14. ASSUME NEW c \in Coro, IdleWhile(c) PROVE PhaseInv'
  BY <1>14 DEF IdleWhile
<1>15. ASSUME NEW c \in Coro, IdleYield(c) PROVE PhaseInv'
  BY <1>15 DEF IdleYield
<1>16. ASSUME NEW c \in Coro, IdleArm(c) PROVE PhaseInv'
  BY <1>16 DEF IdleArm
<1>17. ASSUME NEW c \in Coro, IdleRecheck(c) PROVE PhaseInv'
  BY <1>17 DEF IdleRecheck
<1>18. ASSUME NEW c \in Coro, IdleStarted(c) PROVE PhaseInv'
  BY <1>18 DEF IdleStarted
<1>19. ASSUME NEW c \in Coro, IdleDoneEarly(c) PROVE PhaseInv'
  BY <1>19 DEF IdleDoneEarly
<1>20. ASSUME NEW c \in Coro, IdlePush(c) PROVE PhaseInv'
  BY <1>20 DEF IdlePush
<1>21. ASSUME NEW c \in Coro, IdleTimeout(c) PROVE PhaseInv'
  BY <1>21 DEF IdleTimeout
<1>22. ASSUME NEW c \in Coro, IdleDone(c) PROVE PhaseInv'
  BY <1>22 DEF IdleDone
<1>23. ASSUME NEW c \in Coro, IdleLeave(c) PROVE PhaseInv'
  BY <1>23 DEF IdleLeave
<1>24. ASSUME NEW c \in Coro, PumpStart(c) PROVE PhaseInv'
  BY <1>24 DEF PumpStart
<1>25. ASSUME NEW c \in Coro, PumpWait(c) PROVE PhaseInv'
  BY <1>25 DEF PumpWait
<1>26. ASSUME NEW c \in Coro, PumpPoll(c) PROVE PhaseInv'
  BY <1>26 DEF PumpPoll
<1>27. ASSUME NEW c \in Coro, PumpDeadline(c) PROVE PhaseInv'
  BY <1>27 DEF PumpDeadline
<1>28. ASSUME NEW c \in Coro, PumpDrained(c) PROVE PhaseInv'
  BY <1>28 DEF PumpDrained
<1>29. ASSUME NEW c \in Coro, PumpGiveUp(c) PROVE PhaseInv'
  BY <1>29 DEF PumpGiveUp
<1>30. ASSUME NEW c \in Coro, PumpPop(c) PROVE PhaseInv'
  BY <1>30 DEF PumpPop
<1>31. ASSUME NEW c \in Coro, PumpResume(c) PROVE PhaseInv'
  BY <1>31 DEF PumpResume
<1>32. ASSUME NEW c \in Coro, PumpReturn(c) PROVE PhaseInv'
  BY <1>32 DEF PumpReturn
<1>33. ASSUME NEW c \in Coro, DispatchPlain(c) PROVE PhaseInv'
  BY <1>33 DEF DispatchPlain, DispatchDone
<1>34. ASSUME NEW c \in Coro, DispatchStartsPolling(c) PROVE PhaseInv'
  BY <1>34 DEF DispatchStartsPolling, DispatchDone
<1>35. ASSUME NEW c \in Coro, DispatchThrows(c) PROVE PhaseInv'
  BY <1>35 DEF DispatchThrows
<1>36. CASE UNCHANGED vars
  BY <1>36 DEF vars
<1> QED
  BY <1>1, <1>2, <1>3, <1>4, <1>5, <1>6, <1>7, <1>8, <1>9, <1>10, <1>11,
     <1>12, <1>13, <1>14, <1>15, <1>16, <1>17, <1>18, <1>19, <1>20, <1>21,
     <1>22, <1>23, <1>24, <1>25, <1>26, <1>27, <1>28, <1>29, <1>30, <1>31,
     <1>32, <1>33, <1>34, <1>35, <1>36
  DEF Next, QtNext, IdleNext, PumpNext

LEMMA CoalescedStep ==
  ASSUME OperationsType, LatestClickWaits, [Next]_vars
  PROVE  LatestClickWaits'
<1> USE DEF atomics, ioVars, qtVars, bounds, IdleGoto, PumpGoto, OperationsType, LatestClickWaits
<1>1. CASE UserEnqueue
  BY <1>1 DEF UserEnqueue, BeginEnqueue
<1>2. CASE HandleNotification
  BY <1>2 DEF HandleNotification, BeginEnqueue
<1>3. CASE EnqueueCancel
  BY <1>3 DEF EnqueueCancel
<1>4. CASE EnqueuePush
  BY EnqueueCoalesces, <1>4 DEF EnqueuePush
<1>5. CASE EnqueuePost
  BY <1>5 DEF EnqueuePost
<1>6. CASE StopPolling
  BY <1>6 DEF StopPolling
<1>7. CASE StopFlag
  BY <1>7 DEF StopFlag
<1>8. CASE StopTest
  BY <1>8 DEF StopTest
<1>9. CASE DeliverStopped
  BY <1>9 DEF DeliverStopped
<1>10. CASE StopTimeout
  BY <1>10 DEF StopTimeout
<1>11. CASE Teardown
  BY <1>11 DEF Teardown
<1>12. CASE CancelIdleWait
  BY <1>12 DEF CancelIdleWait
<1>13. CASE SchedulePump
  BY <1>13 DEF SchedulePump
<1>14. ASSUME NEW c \in Coro, IdleWhile(c) PROVE LatestClickWaits'
  BY <1>14 DEF IdleWhile
<1>15. ASSUME NEW c \in Coro, IdleYield(c) PROVE LatestClickWaits'
  BY <1>15 DEF IdleYield
<1>16. ASSUME NEW c \in Coro, IdleArm(c) PROVE LatestClickWaits'
  BY <1>16 DEF IdleArm
<1>17. ASSUME NEW c \in Coro, IdleRecheck(c) PROVE LatestClickWaits'
  BY <1>17 DEF IdleRecheck
<1>18. ASSUME NEW c \in Coro, IdleStarted(c) PROVE LatestClickWaits'
  BY <1>18 DEF IdleStarted
<1>19. ASSUME NEW c \in Coro, IdleDoneEarly(c) PROVE LatestClickWaits'
  BY <1>19 DEF IdleDoneEarly
<1>20. ASSUME NEW c \in Coro, IdlePush(c) PROVE LatestClickWaits'
  BY <1>20 DEF IdlePush
<1>21. ASSUME NEW c \in Coro, IdleTimeout(c) PROVE LatestClickWaits'
  BY <1>21 DEF IdleTimeout
<1>22. ASSUME NEW c \in Coro, IdleDone(c) PROVE LatestClickWaits'
  BY <1>22 DEF IdleDone
<1>23. ASSUME NEW c \in Coro, IdleLeave(c) PROVE LatestClickWaits'
  BY <1>23 DEF IdleLeave
<1>24. ASSUME NEW c \in Coro, PumpStart(c) PROVE LatestClickWaits'
  BY <1>24 DEF PumpStart
<1>25. ASSUME NEW c \in Coro, PumpWait(c) PROVE LatestClickWaits'
  BY <1>25 DEF PumpWait
<1>26. ASSUME NEW c \in Coro, PumpPoll(c) PROVE LatestClickWaits'
  BY <1>26 DEF PumpPoll
<1>27. ASSUME NEW c \in Coro, PumpDeadline(c) PROVE LatestClickWaits'
  BY <1>27 DEF PumpDeadline
<1>28. ASSUME NEW c \in Coro, PumpDrained(c) PROVE LatestClickWaits'
  BY <1>28 DEF PumpDrained
<1>29. ASSUME NEW c \in Coro, PumpGiveUp(c) PROVE LatestClickWaits'
  BY <1>29 DEF PumpGiveUp
<1>30. ASSUME NEW c \in Coro, PumpPop(c) PROVE LatestClickWaits'
  BY TailCoalesced, <1>30 DEF PumpPop, QueueEmpty
<1>31. ASSUME NEW c \in Coro, PumpResume(c) PROVE LatestClickWaits'
  BY <1>31 DEF PumpResume
<1>32. ASSUME NEW c \in Coro, PumpReturn(c) PROVE LatestClickWaits'
  BY <1>32 DEF PumpReturn
<1>33. ASSUME NEW c \in Coro, DispatchPlain(c) PROVE LatestClickWaits'
  BY <1>33 DEF DispatchPlain, DispatchDone
<1>34. ASSUME NEW c \in Coro, DispatchStartsPolling(c) PROVE LatestClickWaits'
  BY <1>34 DEF DispatchStartsPolling, DispatchDone
<1>35. ASSUME NEW c \in Coro, DispatchThrows(c) PROVE LatestClickWaits'
  BY <1>35 DEF DispatchThrows
<1>36. CASE UNCHANGED vars
  BY <1>36 DEF vars
<1> QED
  BY <1>1, <1>2, <1>3, <1>4, <1>5, <1>6, <1>7, <1>8, <1>9, <1>10, <1>11,
     <1>12, <1>13, <1>14, <1>15, <1>16, <1>17, <1>18, <1>19, <1>20, <1>21,
     <1>22, <1>23, <1>24, <1>25, <1>26, <1>27, <1>28, <1>29, <1>30, <1>31,
     <1>32, <1>33, <1>34, <1>35, <1>36
  DEF Next, QtNext, IdleNext, PumpNext

\* The inductive invariant.  QueueHasConsumer rests on PumpInv, which an
\* exception escaping a dispatch breaks.
IInv ==
  /\ TypeOK
  /\ IdleInv /\ PumpInv /\ CheckInv
  /\ QueueHasConsumer

LEMMA IInvInit == Init => IInv
<1> SUFFICES ASSUME Init PROVE IInv
  OBVIOUS
<1>1. TypeOK
  BY TypeInit
<1>2. IdleInv
  BY DEF Init, IdleInv, IdleOnWire
<1>3. PumpInv
  BY DEF Init, PumpInv
<1>4. CheckInv
  BY DEF Init, CheckInv
<1>5. QueueHasConsumer
  BY DEF Init, QueueHasConsumer, QueueEmpty
<1> QED
  BY <1>1, <1>2, <1>3, <1>4, <1>5 DEF IInv

LEMMA IInvStep ==
  ASSUME ~MayThrow, IInv, [Next]_vars
  PROVE  IInv'
<1>1. TypeOK'
  BY FlagsStep, PlacesStep, OperationsStep, CountersStep DEF IInv, TypeOK
<1>2. IdleInv' /\ PumpInv' /\ CheckInv'
  BY IdleStep, PumpStep, CheckStep DEF IInv, TypeOK
<1>3. QueueHasConsumer'
  BY QueueStep DEF IInv, TypeOK
<1> QED
  BY <1>1, <1>2, <1>3 DEF IInv

\* Without exceptions escaping a dispatch there is, in every reachable state,
\* at most one IDLE loop and one pump, the flags that enqueueOperation and
\* waitIdleReleasedAsync read describe the stream, and a queued operation has
\* a pump coming for it or was given up on.
THEOREM SessionCorrect ==
  ASSUME ~MayThrow
  PROVE  Spec => [](OneCoroutineEach /\ FlagsTellTheWire /\ QueueHasConsumer)
<1>1. IInv /\ [Next]_vars => IInv'
  BY IInvStep
<1>2. IInv => OneCoroutineEach
  BY DEF IInv, IdleInv, PumpInv, OneCoroutineEach
<1>3. IInv => FlagsTellTheWire
  BY DEF IInv, IdleInv, PumpInv, FlagsTellTheWire, IdleOnWire
<1>4. IInv => QueueHasConsumer
  BY DEF IInv
<1> QED
  BY IInvInit, <1>1, <1>2, <1>3, <1>4, PTL DEF Spec

\* startPolling and stopPolling may interleave with the coroutines they start
\* and stop: there is one IDLE loop and one pump at most.
COROLLARY OneCoroutineTheorem ==
  ASSUME ~MayThrow
  PROVE  Spec => []OneCoroutineEach
BY SessionCorrect, PTL

\* idleRunning, idleExited and imapBusy, which the pump and enqueueOperation
\* act on, tell what is on the stream.
COROLLARY FlagsTheorem ==
  ASSUME ~MayThrow
  PROVE  Spec => []FlagsTellTheWire
BY SessionCorrect, PTL

\* ImapCommandQueue keeps one LoadEmail and one FetchMailboxPage at most and
\* nothing in front of a SelectMailbox, however enqueueOperation on the Qt
\* thread and tryPop in the pump interleave.
THEOREM LatestClickTheorem == Spec => []LatestClickWaits
<1>1. Init => LatestClickWaits
  BY DEF Init, LatestClickWaits, QueueCoalesced
<1>2. TypeOK /\ LatestClickWaits /\ [Next]_vars => LatestClickWaits'
  BY CoalescedStep DEF TypeOK
<1> QED
  BY TypeCorrect, <1>1, <1>2, PTL DEF Spec

\* The diagnostic phase claims an IDLE wait only while one is under way, and a
\* command only while the pump dispatches it or after an exception has ended
\* the pump, whether or not exceptions escape.
THEOREM PhaseTheorem == Spec => []PhaseIsCurrent
<1>1. Init => PhaseInv
  BY DEF Init, PhaseInv, PhaseIsCurrent
<1>2. TypeOK /\ PhaseInv /\ [Next]_vars => PhaseInv'
  BY PhaseStep DEF TypeOK
<1>3. PhaseInv => PhaseIsCurrent
  BY DEF PhaseInv
<1> QED
  BY TypeCorrect, <1>1, <1>2, <1>3, PTL DEF Spec

\* Without exceptions the exception of PhaseIsCurrent does not occur: the
\* phase says "ExecutingCommand" only while a pump dispatches an operation.
THEOREM PhaseExactTheorem ==
  ASSUME ~MayThrow
  PROVE  Spec => [](phase = "ExecutingCommand" =>
                      \E c \in Coro : pump[c] = "dispatch")
<1>1. IInv /\ [Next]_vars => IInv'
  BY IInvStep
<1>2. IInv /\ PhaseIsCurrent =>
        (phase = "ExecutingCommand" => \E c \in Coro : pump[c] = "dispatch")
  BY DEF IInv, PumpInv, PhaseIsCurrent, PumpDied
<1> QED
  BY IInvInit, PhaseTheorem, <1>1, <1>2, PTL DEF Spec

\* Only tryPop leads to a dispatch.
LEMMA EnterDispatch ==
  ASSUME PlacesType, [Next]_vars, NEW c \in Coro,
         pump[c] # "dispatch", pump'[c] = "dispatch"
  PROVE  pump[c] = "check"
<1> USE DEF PlacesType, ioVars, PumpGoto
<1>1. CASE QtNext
  BY <1>1 DEF QtNext, UserEnqueue, HandleNotification, EnqueueCancel,
    EnqueuePush, EnqueuePost, StopPolling, StopFlag, StopTest, DeliverStopped,
    StopTimeout, Teardown
<1>2. CASE CancelIdleWait
  BY <1>2 DEF CancelIdleWait
<1>3. CASE SchedulePump
  BY <1>3 DEF SchedulePump
<1>4. ASSUME NEW d \in Coro, IdleNext(d) PROVE FALSE
  BY <1>4 DEF IdleNext, IdleWhile, IdleYield, IdleArm, IdleRecheck,
    IdleStarted, IdleDoneEarly, IdlePush, IdleTimeout, IdleDone, IdleLeave
<1>5. ASSUME NEW d \in Coro, PumpNext(d) PROVE pump[c] = "check"
  <2>1. CASE PumpPop(d)
    BY <2>1 DEF PumpPop
  <2>2. CASE \/ PumpStart(d) \/ PumpWait(d) \/ PumpPoll(d) \/ PumpDeadline(d)
             \/ PumpDrained(d) \/ PumpGiveUp(d) \/ PumpResume(d) \/ PumpReturn(d)
    BY <2>2 DEF PumpStart, PumpWait, PumpPoll, PumpDeadline, PumpDrained,
      PumpGiveUp, PumpResume, PumpReturn
  <2>3. CASE DispatchPlain(d) \/ DispatchStartsPolling(d) \/ DispatchThrows(d)
    BY <2>3 DEF DispatchPlain, DispatchStartsPolling, DispatchThrows, DispatchDone
  <2> QED
    BY <1>5, <2>1, <2>2, <2>3 DEF PumpNext
<1>6. CASE UNCHANGED vars
  BY <1>6 DEF vars
<1> QED
  BY <1>1, <1>2, <1>3, <1>4, <1>5, <1>6 DEF Next

\* runImapPumpSession dispatches an operation only at a moment when IDLE has no
\* exchange on the stream: the wait for m_idleExited and tryPop are one segment
\* of the strand.  Holds whether or not exceptions escape.
THEOREM StartsOffIdleTheorem == Spec => OperationStartsOffIdle
<1> DEFINE Inv == FlagsType /\ PlacesType /\ IdleInv /\ CheckInv
<1>1. Init => Inv
  BY IInvInit DEF IInv, TypeOK
<1>2. Inv /\ [Next]_vars => Inv'
  BY FlagsStep, PlacesStep, IdleStep, CheckStep
<1>3. ASSUME Inv, [Next]_vars
      PROVE  [\A c \in Coro : (pump[c] # "dispatch" /\ pump'[c] = "dispatch")
                => \A d \in Coro : idle[d] \notin IdleOnWire]_vars
  <2>1. ASSUME NEW c \in Coro, pump[c] # "dispatch", pump'[c] = "dispatch"
        PROVE  \A d \in Coro : idle[d] \notin IdleOnWire
    BY <1>3, <2>1, EnterDispatch DEF CheckInv
  <2> QED
    BY <2>1
<1> QED
  BY <1>1, <1>2, <1>3, PTL DEF Spec, OperationStartsOffIdle

=============================================================================
