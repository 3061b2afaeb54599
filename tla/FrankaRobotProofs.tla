------------------------ MODULE FrankaRobotProofs --------------------------
(***************************************************************************)
(* Theorems about FrankaRobot, for every set of control modes.              *)
(***************************************************************************)
EXTENDS FrankaRobot, TLAPS

(* Every step keeps every variable in its range.                            *)
LEMMA InitTypeOK == Init => TypeOK
<1> SUFFICES ASSUME Init PROVE TypeOK
  OBVIOUS
<1>1. /\ pc["rt"] = "update" /\ pc["ctl"] = "none" /\ pc["rec"] = "idle" /\ pc["par"] = "idle"
      /\ pc \in [Threads -> Labels]
  BY DEF Init, Threads, Callers, Labels, RtLabels, CtlLabels, RecLabels, ParLabels
<1>2. /\ finish \in BOOLEAN /\ stopped \in BOOLEAN /\ hasError \in BOOLEAN
      /\ initParams \in BOOLEAN /\ active \in BOOLEAN /\ alive \in BOOLEAN
  BY Zenon DEF Init
<1>3. want \in [Callers -> Modes]
  BY DEF Init, Modes
<1>4. QED
  BY <1>1, <1>2, <1>3 DEF Init, TypeOK, RtLabels, RecLabels, CtlLabels, ParLabels, Modes, Calls, Free

LEMMA TypeStep == TypeOK /\ [Next]_vars => TypeOK'
<1>1. TypeOK /\ [Next]_vars => TypeOK'
  <2> SUFFICES ASSUME TypeOK, [Next]_vars PROVE TypeOK'
    OBVIOUS
  <2> USE ModesAssumption DEF TypeOK, Labels, RtLabels, RecLabels, CtlLabels, ParLabels, Ends, StopLabels,
          InitLabels, InCallback, Threads, Callers, Modes, Calls, Free, Goto, At, locks, flags, view, arm
  <2>1. ASSUME NEW t \in Callers, StopCheck(t) PROVE TypeOK'
    BY <2>1 DEF StopCheck, StopReturn, CallOf
  <2>2. ASSUME NEW t \in Callers, StopSignal(t) PROVE TypeOK'
    BY <2>2 DEF StopSignal
  <2>3. ASSUME NEW t \in Callers, StopJoin(t) PROVE TypeOK'
    BY <2>3 DEF StopJoin
  <2>4. ASSUME NEW t \in Callers, StopJoinTwice(t) PROVE TypeOK'
    <3>1. alive' \in BOOLEAN
      BY <2>4 DEF StopJoinTwice, Terminate
    <3>2. QED
      BY <2>4, <3>1 DEF StopJoinTwice, Terminate
  <2>5. ASSUME NEW t \in Callers, StopHalt(t) PROVE TypeOK'
    BY <2>5 DEF StopHalt
  <2>6. ASSUME NEW t \in Callers, StopReset(t) PROVE TypeOK'
    <3>1. finish' \in BOOLEAN /\ stopped' \in BOOLEAN
      BY <2>6, Zenon DEF StopReset
    <3>2. QED
      BY <2>6, <3>1 DEF StopReset, StopReturn, CallOf
  <2>7. ASSUME NEW t \in Callers, InitializeBegin(t) PROVE TypeOK'
    <3>1. stopped' \in BOOLEAN
      BY <2>7 DEF InitializeBegin
    <3>2. QED
      BY <2>7, <3>1 DEF InitializeBegin
  <2>8. ASSUME NEW t \in Callers, InitializeSpawn(t) PROVE TypeOK'
    BY <2>8 DEF InitializeSpawn, InitReturn, CallOf
  <2>9. ASSUME NEW t \in Callers, InitializeOverLoop(t) PROVE TypeOK'
    <3>1. alive' \in BOOLEAN
      BY <2>9 DEF InitializeOverLoop, Terminate
    <3>2. QED
      BY <2>9, <3>1 DEF InitializeOverLoop, Terminate
  <2>10. CASE LoopEnter
    BY <2>10 DEF LoopEnter
  <2>11. CASE ReadingRefused
    BY <2>11 DEF ReadingRefused
  <2>12. CASE ControlRefused
    <3>1. alive' \in BOOLEAN
      BY <2>12 DEF ControlRefused, Terminate
    <3>2. QED
      BY <2>12, <3>1 DEF ControlRefused, Terminate
  <2>13. CASE LoopTick
    BY <2>13 DEF LoopTick
  <2>14. CASE LoopReflex
    BY <2>14 DEF LoopReflex
  <2>15. CASE CallbackRead
    BY <2>15 DEF CallbackRead
  <2>16. CASE CallbackWrite
    BY <2>16 DEF CallbackWrite
  <2>17. CASE CallbackCheck
    BY <2>17 DEF CallbackCheck
  <2>18. CASE LoopRaise
    BY <2>18 DEF LoopRaise
  <2>19. CASE ReadBegin
    BY <2>19 DEF ReadBegin
  <2>20. CASE ReadOnceBegin
    BY <2>20 DEF ReadOnceBegin
  <2>21. CASE ReadOnceRefused
    BY <2>21 DEF ReadOnceRefused
  <2>22. CASE ReadOnceEnd
    BY <2>22 DEF ReadOnceEnd
  <2>23. CASE ReadAssign
    BY <2>23 DEF ReadAssign
  <2>24. CASE ReadEnd
    BY <2>24 DEF ReadEnd
  <2>25. CASE Write
    BY <2>25 DEF Write
  <2>26. CASE KeepMode
    BY <2>26 DEF KeepMode
  <2>27. CASE OnActivate
    BY <2>27 DEF OnActivate
  <2>28. CASE OnDeactivate
    <3>1. active' \in BOOLEAN
      BY <2>28 DEF OnDeactivate
    <3>2. QED
      BY <2>28, <3>1 DEF OnDeactivate
  <2>29. CASE RecoveryCall
    BY <2>29 DEF RecoveryCall
  <2>30. CASE AutomaticRecovery
    BY <2>30 DEF AutomaticRecovery
  <2>31. CASE ClearError
    <3>1. hasError' \in BOOLEAN
      BY <2>31 DEF ClearError
    <3>2. QED
      BY <2>31, <3>1 DEF ClearError
  <2>32. CASE RestoreParams
    BY <2>32 DEF RestoreParams
  <2>33. CASE Restart
    BY <2>33 DEF Restart
  <2>34. CASE RecoveryAnswer
    BY <2>34 DEF RecoveryAnswer
  <2>35. CASE RecoveryCaught
    BY <2>35 DEF RecoveryCaught
  <2>36. CASE RecoveryUncaught
    <3>1. alive' \in BOOLEAN
      BY <2>36 DEF RecoveryUncaught, Lose
    <3>2. QED
      BY <2>36, <3>1 DEF RecoveryUncaught, Lose
  <2>37. CASE ParamCall
    BY <2>37 DEF ParamCall
  <2>38. CASE ParamReturn
    BY <2>38 DEF ParamReturn
  <2>39. CASE Reflex
    BY <2>39 DEF Reflex
  <2>40. ASSUME NEW m \in Modes, Perform(m) PROVE TypeOK'
    BY <2>40 DEF Perform
  <2>41. CASE Lost
    <3>1. alive' \in BOOLEAN
      BY <2>41 DEF Lost, LoopLost, ReadOnceLost, StopHaltLost, Lose
    <3>2. QED
      BY <2>41, <3>1 DEF Lost, LoopLost, ReadOnceLost, StopHaltLost, Lose
  <2>42. CASE UNCHANGED vars
    BY <2>42 DEF vars
  <2>43. QED
    BY <2>1, <2>2, <2>3, <2>4, <2>5, <2>6, <2>7, <2>8, <2>9, <2>10, <2>11, <2>12, <2>13, <2>14,
       <2>15, <2>16, <2>17, <2>18, <2>19, <2>20, <2>21, <2>22, <2>23, <2>24, <2>25, <2>26,
       <2>27, <2>28, <2>29, <2>30, <2>31, <2>32, <2>33, <2>34, <2>35, <2>36, <2>37, <2>38,
       <2>39, <2>40, <2>41, <2>42 DEF Next, RtCall, RtChoice, Read, Ctl, Rec, StopRobot, Initialize
<1>2. QED
  BY <1>1

THEOREM TypeCorrect == Spec => []TypeOK
  BY InitTypeOK, TypeStep, PTL DEF Spec

(***************************************************************************)
(* The state the reading callback tests is not overwritten under it.        *)
(*                                                                          *)
(* LockInv says who holds which mutex where.  Its last conjunct is the      *)
(* property: read() reaches its assignment from a readOnce() that held      *)
(* libfranka's lock, when the loop was in no callback; from then on it      *)
(* holds read_mutex_, so the loop cannot get past the first block of one.   *)
(***************************************************************************)
Reading == {"readOnce", "reading", "assign", "unlock"}

LockInv ==
  /\ pc["ctl"] \in {"tick"} \cup InCallback => libMutex = "ctl"
  /\ pc["rt"] = "reading" => libMutex = "rt"
  /\ pc["rt"] \in Reading => readMutex = "rt"
  /\ pc["rt"] \in StopLabels /\ call = "read" => readMutex = "rt"
  /\ pc["rec"] \in InitLabels \cup {"answer"} => readMutex = "rec"
  /\ CheckedStateIsStable

LEMMA LockStep == TypeOK /\ LockInv /\ [Next]_vars => LockInv'
<1> SUFFICES ASSUME TypeOK, LockInv, [Next]_vars PROVE LockInv'
  OBVIOUS
<1> USE DEF TypeOK, Labels, RtLabels, RecLabels, CtlLabels, ParLabels, Ends, StopLabels, InitLabels, InCallback,
        Threads, Callers, Calls, Free, Goto, At, locks, flags, view, arm, LockInv, Reading, CheckedStateIsStable
<1>1. ASSUME NEW t \in Callers, StopCheck(t) PROVE LockInv'
  BY <1>1 DEF StopCheck, StopReturn, CallOf
<1>2. ASSUME NEW t \in Callers, StopSignal(t) PROVE LockInv'
  BY <1>2 DEF StopSignal
<1>3. ASSUME NEW t \in Callers, StopJoin(t) PROVE LockInv'
  BY <1>3 DEF StopJoin
<1>4. ASSUME NEW t \in Callers, StopJoinTwice(t) PROVE LockInv'
  BY <1>4 DEF StopJoinTwice, Terminate
<1>5. ASSUME NEW t \in Callers, StopHalt(t) PROVE LockInv'
  BY <1>5 DEF StopHalt
<1>6. ASSUME NEW t \in Callers, StopReset(t) PROVE LockInv'
  BY <1>6 DEF StopReset, StopReturn, CallOf
<1>7. ASSUME NEW t \in Callers, InitializeBegin(t) PROVE LockInv'
  BY <1>7 DEF InitializeBegin
<1>8. ASSUME NEW t \in Callers, InitializeSpawn(t) PROVE LockInv'
  BY <1>8 DEF InitializeSpawn, InitReturn, CallOf
<1>9. ASSUME NEW t \in Callers, InitializeOverLoop(t) PROVE LockInv'
  BY <1>9 DEF InitializeOverLoop, Terminate
<1>10. CASE LoopEnter
  BY <1>10 DEF LoopEnter
<1>11. CASE ReadingRefused
  BY <1>11 DEF ReadingRefused
<1>12. CASE ControlRefused
  BY <1>12 DEF ControlRefused, Terminate
<1>13. CASE LoopTick
  BY <1>13 DEF LoopTick
<1>14. CASE LoopReflex
  BY <1>14 DEF LoopReflex
<1>15. CASE CallbackRead
  BY <1>15 DEF CallbackRead
<1>16. CASE CallbackWrite
  BY <1>16 DEF CallbackWrite
<1>17. CASE CallbackCheck
  BY <1>17 DEF CallbackCheck
<1>18. CASE LoopRaise
  BY <1>18 DEF LoopRaise
<1>19. CASE ReadBegin
  BY <1>19 DEF ReadBegin
<1>20. CASE ReadOnceBegin
  BY <1>20 DEF ReadOnceBegin
<1>21. CASE ReadOnceRefused
  BY <1>21 DEF ReadOnceRefused
<1>22. CASE ReadOnceEnd
  BY <1>22 DEF ReadOnceEnd
<1>23. CASE ReadAssign
  BY <1>23 DEF ReadAssign
<1>24. CASE ReadEnd
  BY <1>24 DEF ReadEnd
<1>25. CASE Write
  BY <1>25 DEF Write
<1>26. CASE KeepMode
  BY <1>26 DEF KeepMode
<1>27. CASE OnActivate
  BY <1>27 DEF OnActivate
<1>28. CASE OnDeactivate
  BY <1>28 DEF OnDeactivate
<1>29. CASE RecoveryCall
  BY <1>29 DEF RecoveryCall
<1>30. CASE AutomaticRecovery
  BY <1>30 DEF AutomaticRecovery
<1>31. CASE ClearError
  BY <1>31 DEF ClearError
<1>32. CASE RestoreParams
  BY <1>32 DEF RestoreParams
<1>33. CASE Restart
  BY <1>33 DEF Restart
<1>34. CASE RecoveryAnswer
  BY <1>34 DEF RecoveryAnswer
<1>35. CASE RecoveryCaught
  BY <1>35 DEF RecoveryCaught, RecoveryCallSite
<1>36. CASE RecoveryUncaught
  BY <1>36 DEF RecoveryUncaught, Lose, RecoveryCallSite
<1>37. CASE ParamCall
  BY <1>37 DEF ParamCall
<1>38. CASE ParamReturn
  BY <1>38 DEF ParamReturn
<1>39. CASE Reflex
  BY <1>39 DEF Reflex
<1>40. ASSUME NEW m \in Modes, Perform(m) PROVE LockInv'
  BY <1>40 DEF Perform
<1>41. CASE Lost
  BY <1>41 DEF Lost, LoopLost, ReadOnceLost, StopHaltLost, Lose
<1>42. CASE UNCHANGED vars
  BY <1>42 DEF vars
<1>43. QED
  BY <1>1, <1>2, <1>3, <1>4, <1>5, <1>6, <1>7, <1>8, <1>9, <1>10, <1>11, <1>12, <1>13, <1>14,
     <1>15, <1>16, <1>17, <1>18, <1>19, <1>20, <1>21, <1>22, <1>23, <1>24, <1>25, <1>26, <1>27,
     <1>28, <1>29, <1>30, <1>31, <1>32, <1>33, <1>34, <1>35, <1>36, <1>37, <1>38, <1>39, <1>40,
     <1>41, <1>42
  DEF Next, RtCall, RtChoice, Read, Ctl, Rec, StopRobot, Initialize

LEMMA LockInvariant == Spec => []LockInv
<1>1. Init => LockInv
  BY DEF Init, LockInv, Reading, CheckedStateIsStable, Threads, Callers, StopLabels, InitLabels, InCallback
<1>2. QED
  BY <1>1, LockStep, TypeCorrect, PTL DEF Spec

(* No other thread writes current_state_ between a callback's write of it   *)
(* and its test, whatever recoveries, switches and failing calls do.        *)
THEOREM CallbackStateStable == Spec => []CheckedStateIsStable
<1>1. LockInv => CheckedStateIsStable
  BY DEF LockInv
<1>2. QED
  BY <1>1, LockInvariant, PTL

(***************************************************************************)
(* Nothing waits in a circle but the loop that read() stops.                *)
(*                                                                          *)
(* OwnInv is the other side of LockInv: where the owner of a mutex is.  It  *)
(* is in no place where it waits, except for a stop called by read().       *)
(***************************************************************************)
OwnInv ==
  alive =>
    /\ readMutex = "rec" => pc["rec"] \in InitLabels \cup {"answer"}
    /\ readMutex = "rt" => \/ pc["rt"] \in Reading
                           \/ pc["rt"] \in StopLabels /\ call = "read"
    /\ writeMutex = "par" => pc["par"] = "calling"

LEMMA OwnStep ==
  ASSUME TypeOK, LockInv, OwnInv, [Next]_vars
  PROVE  OwnInv'
<1> SUFFICES ASSUME alive'
             PROVE  OwnInv'
  BY DEF OwnInv
<1> USE DEF TypeOK, Labels, RtLabels, RecLabels, CtlLabels, ParLabels, Ends, StopLabels, InitLabels, InCallback,
        Threads, Callers, Free, Goto, At, locks, flags, view, arm, LockInv, OwnInv, Reading, Calls
<1>1. ASSUME NEW t \in Callers, StopRobot(t) PROVE OwnInv'
  <2>1. CASE StopCheck(t)
    BY <2>1 DEF StopCheck, StopReturn, CallOf
  <2>2. CASE StopSignal(t) \/ StopJoin(t) \/ StopHalt(t)
    BY <2>2 DEF StopSignal, StopJoin, StopHalt
  <2>3. CASE StopReset(t)
    BY <2>3 DEF StopReset, StopReturn, CallOf
  <2>4. QED
    BY <1>1, <2>1, <2>2, <2>3 DEF StopRobot, StopJoinTwice, Terminate
<1>2. ASSUME NEW t \in Callers, Initialize(t) PROVE OwnInv'
  BY <1>2 DEF Initialize, InitializeBegin, InitializeSpawn, InitializeOverLoop, Terminate, InitReturn,
     CallOf
<1>3. CASE Ctl
  <2>1. UNCHANGED <<readMutex, writeMutex, call, alive>>
    BY <1>3 DEF Ctl, LoopEnter, ReadingRefused, ControlRefused, Terminate, LoopTick, LoopReflex,
       CallbackRead, CallbackWrite, CallbackCheck, LoopRaise
  <2>2. \E label : pc' = [pc EXCEPT !["ctl"] = label]
    BY <1>3, Zenon DEF Ctl, LoopEnter, ReadingRefused, ControlRefused, Terminate, LoopTick, LoopReflex,
       CallbackRead, CallbackWrite, CallbackCheck, LoopRaise
  <2>3. QED
    BY <2>1, <2>2
<1>4. CASE Read
  BY <1>4 DEF Read, ReadBegin, ReadOnceBegin, ReadOnceRefused, ReadOnceEnd, ReadAssign, ReadEnd
<1>5. CASE Write \/ RtChoice
  BY <1>5 DEF Write, RtChoice, KeepMode, OnActivate, OnDeactivate, Perform
<1>6. CASE RecoveryCall \/ AutomaticRecovery \/ ClearError \/ RestoreParams \/ Restart \/ RecoveryAnswer
  BY <1>6 DEF RecoveryCall, AutomaticRecovery, ClearError, RestoreParams, Restart, RecoveryAnswer
<1>7. CASE RecoveryCaught \/ RecoveryUncaught
  BY <1>7 DEF RecoveryCaught, RecoveryUncaught, RecoveryCallSite, Lose
<1>8. CASE Lost
  BY <1>8 DEF Lost, LoopLost, ReadOnceLost, StopHaltLost, Lose
<1>9. CASE ParamCall \/ ParamReturn \/ Reflex \/ UNCHANGED vars
  BY <1>9 DEF ParamCall, ParamReturn, Reflex, vars
<1>10. QED
  BY <1>1, <1>2, <1>3, <1>4, <1>5, <1>6, <1>7, <1>8, <1>9 DEF Next, RtCall, Rec

(* The parameter service waits for nobody who waits, a recovery and the     *)
(* loop wait only for a loop or for whoever has read_mutex_.                *)
LEMMA OwnersGetOn ==
  ASSUME TypeOK, OwnInv, alive, ~StuckInRead
  PROVE  ~\E S \in (SUBSET Threads) \ {{}} : \A t \in S : \E u \in S : Waits(t, u)
<1> SUFFICES ASSUME NEW S \in SUBSET Threads, S # {}, \A t \in S : \E u \in S : Waits(t, u)
             PROVE  FALSE
  OBVIOUS
<1> USE DEF Waits, WaitsForRead, WaitsForWrite, Joins
<1>1. /\ S \subseteq {"rt", "rec", "ctl", "par"} /\ Free \notin S
      /\ readMutex \in {"rt", "rec", Free} /\ writeMutex \in {"par", Free}
      /\ pc["par"] \in ParLabels /\ pc["ctl"] \in CtlLabels \cup Ends
  BY DEF TypeOK, Threads, Callers, Free
<1>2. "par" \notin S
  <2> SUFFICES ASSUME "par" \in S
               PROVE  FALSE
    OBVIOUS
  <2>1. PICK u \in S : Waits("par", u)
    OBVIOUS
  <2>2. pc["par"] = "idle" /\ writeMutex = "par"
    BY <1>1, <2>1 DEF ParLabels
  <2>3. QED
    BY <2>2 DEF OwnInv
<1>3. \A t \in S : ~(WaitsForWrite(t) /\ writeMutex \in S)
  BY <1>1, <1>2
<1>4. \A t \in S : \/ WaitsForRead(t) /\ readMutex \in S
                   \/ Joins(t) /\ "ctl" \in S
  BY <1>3
<1>5. readMutex \notin S
  <2>1. ASSUME "rec" \in S, readMutex = "rec"
        PROVE  FALSE
    <3>1. pc["rec"] \in InitLabels \cup {"answer"}
      BY <2>1 DEF OwnInv
    <3>2. QED
      BY <1>4, <2>1, <3>1 DEF InitLabels
  <2>2. ASSUME "rt" \in S, readMutex = "rt"
        PROVE  FALSE
    <3>1. pc["rt"] \in Reading \cup StopLabels
      BY <2>2 DEF OwnInv
    <3>2. Joins("rt") /\ "ctl" \in S
      BY <1>4, <2>2, <3>1 DEF Reading, StopLabels
    <3>3. pc["ctl"] = "cbRead"
      BY <1>1, <1>4, <3>2 DEF CtlLabels, InCallback, Ends
    <3>4. QED
      BY <2>2, <3>2, <3>3 DEF StuckInRead
  <2>3. QED
    BY <1>1, <2>1, <2>2
<1>6. \A t \in S : Joins(t) /\ "ctl" \in S
  BY <1>4, <1>5
<1>7. QED
  BY <1>1, <1>6 DEF CtlLabels, InCallback, Ends

(* Whatever is recovered, switched, set or refused, the threads of an arm   *)
(* never wait for each other in a circle, except for the stop in read().    *)
THEOREM WaitsEnd == Spec => []NoOtherDeadlock
<1>1. Init => LockInv /\ OwnInv
  BY DEF Init, LockInv, OwnInv, Reading, CheckedStateIsStable, Threads, Callers, StopLabels, InitLabels,
     InCallback, Free
<1>2. TypeOK /\ OwnInv => NoOtherDeadlock
  BY OwnersGetOn DEF NoOtherDeadlock
<1>3. QED
  BY <1>1, <1>2, LockStep, OwnStep, TypeCorrect, PTL DEF Spec

(***************************************************************************)
(* stopRobot() and initialize*() pair up, as long as recoveries do not cut  *)
(* into the calls of the cycle.                                             *)
(*                                                                          *)
(* Serial is what one more mutex would do, held by a recovery from its      *)
(* stopRobot() to its restart, by every other stop and start, and around    *)
(* readOnce(), if recoveries came to an active component only.  A recovery  *)
(* whose robot_->stop() throws has joined the loop and says it runs.        *)
(*                                                                          *)
(* stopped_ alone is not inductive: it lags behind control_thread_ inside   *)
(* both calls.  PairInv says what stopped_ and control_thread_ are at each  *)
(* point of the callers, that they agree outside the calls (stopped_ is     *)
(* TRUE exactly when no thread is joinable), and that only an error takes   *)
(* rt into readOnce() while a loop may start.                               *)
(***************************************************************************)
Restarting == Recovering \/ pc["rec"] \in {"params", "lock"}
Serial == Restarting => active /\ ~Switching /\ pc["rt"] # "reading"
RecoveryBreaks == RecoveryCaught /\ pc["rec"] = "halt"

Deactivating == pc["rt"] \in StopLabels /\ call = "deactivate"

PairInv ==
  /\ pc["rt"] # "dead" /\ pc["rec"] # "dead"
  /\ alive =>
       /\ pc["rt"] \in StopLabels => call \in {"read", "perform", "deactivate"} /\ (call = "perform" => active)
       /\ pc["rt"] \in InitLabels => call \in {"perform", "activate"} /\ active
       /\ \A t \in Callers :
            /\ pc[t] \in {"signal", "join"} => ~stopped /\ handle = "joinable"
            /\ pc[t] \in {"halt", "reset"} => ~stopped /\ handle = "joined"
            /\ pc[t] = "init" => stopped
            /\ pc[t] = "spawn" => ~stopped /\ handle # "joinable"
       /\ pc["rec"] \in {"params", "lock"} => stopped
       /\ (\A t \in Callers : pc[t] \notin {"halt", "reset", "spawn"}) => (stopped <=> handle # "joinable")
       /\ handle # "joinable" => pc["ctl"] \in {"none", "exited"}
       /\ ~active /\ ~Deactivating => stopped
       /\ pc["rt"] = "readOnce" => hasError \/ stopped \/ Restarting
       /\ pc["rt"] = "reading" => hasError \/ stopped
       /\ libMutex = "rt" => pc["rt"] = "reading"

LEMMA PairStep ==
  ASSUME TypeOK, LockInv, PairInv, Serial, Serial', [Next]_vars, ~RecoveryBreaks
  PROVE  PairInv'
<1> USE DEF TypeOK, Labels, RtLabels, RecLabels, CtlLabels, ParLabels, Ends, StopLabels, InitLabels, InCallback,
        Threads, Callers, Calls, Free, Goto, At, locks, flags, view, arm, PairInv, Deactivating,
        Serial, Restarting, Recovering, Switching
<1>1. ASSUME NEW t \in Callers, StopCheck(t) PROVE PairInv'
  BY <1>1 DEF StopCheck, StopReturn, CallOf
<1>2. ASSUME NEW t \in Callers, StopSignal(t) PROVE PairInv'
  BY <1>2 DEF StopSignal
<1>3. ASSUME NEW t \in Callers, StopJoin(t) PROVE PairInv'
  BY <1>3 DEF StopJoin
<1>4. ASSUME NEW t \in Callers, StopJoinTwice(t) PROVE PairInv'
  BY <1>4 DEF StopJoinTwice, Terminate
<1>5. ASSUME NEW t \in Callers, StopHalt(t) PROVE PairInv'
  BY <1>5 DEF StopHalt
<1>6. ASSUME NEW t \in Callers, StopReset(t) PROVE PairInv'
  BY <1>6 DEF StopReset, StopReturn, CallOf
<1>7. ASSUME NEW t \in Callers, InitializeBegin(t) PROVE PairInv'
  BY <1>7 DEF InitializeBegin
<1>8. ASSUME NEW t \in Callers, InitializeSpawn(t) PROVE PairInv'
  <2>1. ~stopped /\ pc' = [pc EXCEPT !["ctl"] = "spawned", ![t] = InitReturn(CallOf(t, call))]
    BY <1>8 DEF InitializeSpawn
  <2>2. CASE t = "rt"
    BY <1>8, <2>1, <2>2 DEF InitializeSpawn, InitReturn, CallOf
  <2>3. CASE t = "rec"
    <3>1. pc["rt"] # "readOnce"
      BY <1>8, <2>3 DEF InitializeSpawn, LockInv, Reading
    <3>2. QED
      BY <1>8, <2>1, <2>3, <3>1 DEF InitializeSpawn, InitReturn, CallOf
  <2>4. QED
    BY <2>2, <2>3
<1>9. ASSUME NEW t \in Callers, InitializeOverLoop(t) PROVE PairInv'
  BY <1>9 DEF InitializeOverLoop, Terminate
<1>10. CASE LoopEnter
  BY <1>10 DEF LoopEnter
<1>11. CASE ReadingRefused
  BY <1>11 DEF ReadingRefused
<1>12. CASE ControlRefused
  BY <1>12 DEF ControlRefused, Terminate
<1>13. CASE LoopTick
  BY <1>13 DEF LoopTick
<1>14. CASE LoopReflex
  BY <1>14 DEF LoopReflex
<1>15. CASE CallbackRead
  BY <1>15 DEF CallbackRead
<1>16. CASE CallbackWrite
  BY <1>16 DEF CallbackWrite
<1>17. CASE CallbackCheck
  BY <1>17 DEF CallbackCheck
<1>18. CASE LoopRaise
  BY <1>18 DEF LoopRaise
<1>19. CASE ReadBegin
  BY <1>19 DEF ReadBegin
<1>20. CASE ReadOnceBegin
  BY <1>20 DEF ReadOnceBegin
<1>21. CASE ReadOnceRefused
  BY <1>21 DEF ReadOnceRefused
<1>22. CASE ReadOnceEnd
  BY <1>22 DEF ReadOnceEnd
<1>23. CASE ReadAssign
  BY <1>23 DEF ReadAssign
<1>24. CASE ReadEnd
  BY <1>24 DEF ReadEnd
<1>25. CASE Write
  BY <1>25 DEF Write
<1>26. CASE KeepMode
  BY <1>26 DEF KeepMode
<1>27. CASE OnActivate
  BY <1>27 DEF OnActivate
<1>28. CASE OnDeactivate
  BY <1>28 DEF OnDeactivate
<1>29. CASE RecoveryCall
  BY <1>29 DEF RecoveryCall
<1>30. CASE AutomaticRecovery
  BY <1>30 DEF AutomaticRecovery
<1>31. CASE ClearError
  BY <1>31 DEF ClearError
<1>32. CASE RestoreParams
  BY <1>32 DEF RestoreParams
<1>33. CASE Restart
  BY <1>33 DEF Restart
<1>34. CASE RecoveryAnswer
  BY <1>34 DEF RecoveryAnswer
<1>35. CASE RecoveryCaught
  BY <1>35 DEF RecoveryBreaks, RecoveryCaught, RecoveryCallSite
<1>36. CASE RecoveryUncaught
  BY <1>36 DEF RecoveryUncaught, Lose
<1>37. CASE ParamCall
  BY <1>37 DEF ParamCall
<1>38. CASE ParamReturn
  BY <1>38 DEF ParamReturn
<1>39. CASE Reflex
  BY <1>39 DEF Reflex
<1>40. ASSUME NEW m \in Modes, Perform(m) PROVE PairInv'
  BY <1>40 DEF Perform
<1>41. CASE Lost
  BY <1>41 DEF Lost, LoopLost, ReadOnceLost, StopHaltLost, Lose
<1>42. CASE UNCHANGED vars
  BY <1>42 DEF vars
<1>43. QED
  BY <1>1, <1>2, <1>3, <1>4, <1>5, <1>6, <1>7, <1>8, <1>9, <1>10, <1>11, <1>12, <1>13, <1>14,
     <1>15, <1>16, <1>17, <1>18, <1>19, <1>20, <1>21, <1>22, <1>23, <1>24, <1>25, <1>26, <1>27,
     <1>28, <1>29, <1>30, <1>31, <1>32, <1>33, <1>34, <1>35, <1>36, <1>37, <1>38, <1>39, <1>40,
     <1>41, <1>42
  DEF Next, RtCall, RtChoice, Read, Ctl, Rec, StopRobot, Initialize

Orderly == []Serial /\ [][~RecoveryBreaks]_vars

LEMMA PairInvariant == Spec /\ Orderly => []PairInv
<1>1. Init => PairInv
  BY DEF Init, PairInv, Deactivating, Threads, Callers, StopLabels, InitLabels, Free
<1>2. TypeOK /\ LockInv /\ PairInv /\ Serial /\ Serial' /\ [Next]_vars /\ [~RecoveryBreaks]_vars => PairInv'
  <2>1. CASE UNCHANGED vars
    BY <2>1 DEF PairInv, Deactivating, Restarting, Recovering, vars, flags, locks, view
  <2>2. QED
    BY <2>1, PairStep
<1>3. QED
  BY <1>1, <1>2, LockInvariant, TypeCorrect, PTL DEF Spec, Orderly

(* In order, the assertion at the head of every initialize*() would hold,   *)
(* had the build kept it: also for a recovery's.                            *)
THEOREM AssertionHolds == Spec /\ Orderly => []InitializeFindsStopped
<1>1. PairInv => InitializeFindsStopped
  BY DEF PairInv, InitializeFindsStopped, At, Callers
<1>2. QED
  BY <1>1, PairInvariant, PTL

(* In order, the ros2_control thread never joins a joined thread and never  *)
(* drops a joinable one.                                                    *)
THEOREM RtThreadSurvives == Spec /\ Orderly => []RtNeverDies
<1>1. PairInv => RtNeverDies
  BY DEF PairInv, RtNeverDies
<1>2. QED
  BY <1>1, PairInvariant, PTL

(* In order, a new loop meets readOnce() in libfranka only on an arm that   *)
(* has failed.                                                              *)
THEOREM CollisionNeedsError == Spec /\ Orderly => []CollisionOnlyInError
<1>1. TypeOK /\ PairInv => CollisionOnlyInError
  BY DEF TypeOK, PairInv, CollisionOnlyInError, Callers, StopLabels, InitLabels
<1>2. QED
  BY <1>1, PairInvariant, TypeCorrect, PTL

(***************************************************************************)
(* In order, Robot implements ControlLoop.                                  *)
(*                                                                          *)
(* AskedInv adds where finish_ is set, and that the loop gives libfranka's  *)
(* lock back whenever it ends: so whoever refuses a new loop is read(), on  *)
(* an arm in error.                                                         *)
(***************************************************************************)
AskedInv ==
  alive =>
    /\ finish <=> \E t \in Callers : pc[t] \in {"join", "halt", "reset"}
    /\ libMutex = "ctl" => pc["ctl"] \in {"tick"} \cup InCallback

LEMMA AskedStep ==
  ASSUME TypeOK, PairInv, AskedInv, Serial, [Next]_vars, ~RecoveryBreaks
  PROVE  AskedInv'
<1> USE DEF TypeOK, Labels, RtLabels, RecLabels, CtlLabels, Ends, StopLabels, InitLabels, InCallback,
        Threads, Callers, Free, Goto, At, locks, flags, view, arm, AskedInv, Calls
<1> USE DEF Serial, Restarting, Recovering, Switching
<1>1. alive => \A t \in Callers : pc[t] = "join" => handle = "joinable"
  BY DEF PairInv
<1>2. ASSUME NEW t \in Callers, StopRobot(t) PROVE AskedInv'
  <2>1. CASE StopCheck(t)
    BY <2>1 DEF StopCheck, StopReturn, CallOf
  <2>2. CASE StopSignal(t)
    BY <2>2 DEF StopSignal
  <2>3. CASE StopReset(t)
    BY <2>3 DEF StopReset, StopReturn, CallOf
  <2>4. CASE StopJoin(t) \/ StopHalt(t)
    BY <2>4 DEF StopJoin, StopHalt
  <2>5. QED
    BY <1>1, <1>2, <2>1, <2>2, <2>3, <2>4 DEF StopRobot, StopJoinTwice
<1>3. ASSUME NEW t \in Callers, Initialize(t) PROVE AskedInv'
  <2>1. CASE InitializeSpawn(t)
    BY <2>1 DEF InitializeSpawn, InitReturn, CallOf, PairInv
  <2>2. CASE InitializeBegin(t) \/ InitializeOverLoop(t)
    BY <2>2 DEF InitializeBegin, InitializeOverLoop, Terminate, PairInv
  <2>3. QED
    BY <1>3, <2>1, <2>2 DEF Initialize
<1>4. CASE Ctl
  BY <1>4 DEF Ctl, LoopEnter, ReadingRefused, ControlRefused, Terminate, LoopTick, LoopReflex, CallbackRead,
     CallbackWrite, CallbackCheck, LoopRaise
<1>5. CASE Read
  <2>1. CASE ReadBegin \/ ReadOnceBegin \/ ReadOnceRefused
    BY <2>1 DEF ReadBegin, ReadOnceBegin, ReadOnceRefused
  <2>2. CASE ReadOnceEnd \/ ReadAssign \/ ReadEnd
    BY <2>2 DEF ReadOnceEnd, ReadAssign, ReadEnd
  <2>3. QED
    BY <1>5, <2>1, <2>2 DEF Read
<1>6. CASE Write \/ RtChoice
  <2>1. CASE Write
    BY <2>1 DEF Write
  <2>2. CASE KeepMode \/ OnActivate \/ OnDeactivate
    BY <2>2 DEF KeepMode, OnActivate, OnDeactivate
  <2>3. ASSUME NEW m \in Modes, Perform(m) PROVE AskedInv'
    BY <2>3 DEF Perform
  <2>4. QED
    BY <1>6, <2>1, <2>2, <2>3 DEF RtChoice
<1>7. CASE RecoveryCall \/ AutomaticRecovery \/ ClearError \/ RestoreParams \/ Restart \/ RecoveryAnswer
  <2>1. CASE RecoveryCall \/ AutomaticRecovery \/ ClearError
    BY <2>1 DEF RecoveryCall, AutomaticRecovery, ClearError
  <2>2. CASE RestoreParams \/ Restart \/ RecoveryAnswer
    BY <2>2 DEF RestoreParams, Restart, RecoveryAnswer
  <2>3. QED
    BY <1>7, <2>1, <2>2
<1>8. CASE RecoveryCaught \/ RecoveryUncaught
  BY <1>8 DEF RecoveryBreaks, RecoveryCaught, RecoveryUncaught, RecoveryCallSite, Lose
<1>9. CASE Lost
  BY <1>9 DEF Lost, LoopLost, ReadOnceLost, StopHaltLost, Lose
<1>10. CASE ParamCall \/ ParamReturn \/ Reflex \/ UNCHANGED vars
  BY <1>10 DEF ParamCall, ParamReturn, Reflex, vars
<1>11. QED
  BY <1>2, <1>3, <1>4, <1>5, <1>6, <1>7, <1>8, <1>9, <1>10 DEF Next, RtCall, Rec

(* Each step of a thread is one step of the loop's lifecycle, or none.      *)
LEMMA LoopStep ==
  ASSUME TypeOK, PairInv, AskedInv, Serial, [Next]_vars, ~RecoveryBreaks
  PROVE  [Loop!Next]_(Loop!loopVars)
<1> SUFFICES Loop!Next \/ UNCHANGED Loop!loopVars
  OBVIOUS
<1> USE DEF TypeOK, Labels, RtLabels, RecLabels, CtlLabels, Ends, StopLabels, InitLabels, InCallback, Threads,
        Callers, Free, Goto, At, locks, flags, view, arm, Calls, LoopRuns, Loop!loopVars
<1> USE DEF Serial, Restarting, Recovering, Switching
<1> DEFINE due == \E t \in Callers : pc[t] = "spawn"
<1> DEFINE lost == \E t \in Threads : pc[t] = "lost"
<1>1. alive => \A t \in Callers :
        (pc[t] = "join" => handle = "joinable") /\ (pc[t] = "spawn" => handle # "joinable")
  BY DEF PairInv
<1>2. ASSUME NEW t \in Callers, StopRobot(t) PROVE Loop!Next \/ UNCHANGED Loop!loopVars
  <2>1. CASE StopSignal(t)
    <3>1. ~due /\ ~due'
      BY <2>1 DEF StopSignal
    <3>2. Loop!AskToEnd
      BY <2>1, <3>1 DEF StopSignal, PairInv, Loop!AskToEnd
    <3>3. QED
      BY <2>1, <3>2 DEF StopSignal, Loop!Next
  <2>2. CASE StopReset(t)
    <3>1. ~due /\ ~due'
      BY <2>2 DEF StopReset, StopReturn, CallOf
    <3>2. Loop!Stop
      BY <2>2, <3>1 DEF StopReset, StopReturn, CallOf, PairInv, AskedInv, Loop!Stop
    <3>3. QED
      BY <2>2, <3>2 DEF StopReset, Loop!Next
  <2>3. CASE StopCheck(t) \/ StopJoin(t) \/ StopHalt(t)
    <3>1. ~due /\ ~due'
      BY <2>3 DEF StopCheck, StopReturn, CallOf, StopJoin, StopHalt
    <3>2. QED
      BY <2>3, <3>1 DEF StopCheck, StopReturn, CallOf, StopJoin, StopHalt
  <2>4. QED
    BY <1>1, <1>2, <2>1, <2>2, <2>3 DEF StopRobot, StopJoinTwice
<1>3. ASSUME NEW t \in Callers, Initialize(t) PROVE Loop!Next \/ UNCHANGED Loop!loopVars
  <2>1. CASE InitializeBegin(t)
    <3>1. ~due /\ due'
      BY <2>1 DEF InitializeBegin
    <3>2. Loop!Announce
      BY <2>1, <3>1 DEF InitializeBegin, PairInv, Loop!Announce
    <3>3. QED
      BY <2>1, <3>2 DEF InitializeBegin, Loop!Next
  <2>2. CASE InitializeSpawn(t)
    <3>1. due /\ ~due'
      BY <2>2 DEF InitializeSpawn, InitReturn, CallOf
    <3>2. Loop!Start
      BY <2>2, <3>1 DEF InitializeSpawn, InitReturn, CallOf, PairInv, Loop!Start
    <3>3. QED
      BY <2>2, <3>2 DEF InitializeSpawn, Loop!Next
  <2>3. QED
    BY <1>1, <1>3, <2>1, <2>2 DEF Initialize, InitializeOverLoop
<1>4. CASE Ctl
  <2>1. due' = due
    BY <1>4 DEF Ctl, LoopEnter, ReadingRefused, ControlRefused, Terminate, LoopTick, LoopReflex, CallbackRead,
       CallbackWrite, CallbackCheck, LoopRaise
  <2>2. CASE LoopEnter \/ ReadingRefused \/ LoopTick \/ LoopReflex \/ CallbackRead
    BY <2>1, <2>2 DEF LoopEnter, ReadingRefused, LoopTick, LoopReflex, CallbackRead
  <2>3. CASE ControlRefused
    <3>1. hasError
      BY <2>3 DEF ControlRefused, PairInv, AskedInv
    <3>2. Loop!Die
      BY <2>1, <2>3, <3>1 DEF ControlRefused, Terminate, Loop!Die
    <3>3. QED
      BY <2>3, <3>2 DEF ControlRefused, Loop!Next
  <2>4. CASE CallbackWrite
    <3>1. Loop!End \/ UNCHANGED Loop!loopVars
      BY <2>1, <2>4 DEF CallbackWrite, Loop!End
    <3>2. QED
      BY <2>4, <3>1 DEF CallbackWrite, Loop!Next
  <2>5. CASE CallbackCheck /\ currentMode = "reflex"
    <3>1. hasError' /\ pc' = [pc EXCEPT !["ctl"] = "raise"]
      BY <2>5 DEF CallbackCheck
    <3>2. hasError' = TRUE
      BY <2>5, <3>1, Zenon DEF CallbackCheck
    <3>3. Loop!Flag
      BY <2>1, <2>5, <3>1, <3>2 DEF CallbackCheck, Loop!Flag
    <3>4. QED
      BY <2>5, <3>3 DEF CallbackCheck, Loop!Next
  <2>6. CASE CallbackCheck /\ currentMode # "reflex" /\ finish
    <3>1. Loop!End
      BY <2>1, <2>6 DEF CallbackCheck, Loop!End
    <3>2. QED
      BY <2>6, <3>1 DEF CallbackCheck, Loop!Next
  <2>7. CASE CallbackCheck /\ currentMode # "reflex" /\ ~finish
    BY <2>1, <2>7 DEF CallbackCheck
  <2>8. CASE LoopRaise
    <3>1. Loop!Fail
      BY <2>1, <2>8 DEF LoopRaise, Loop!Fail
    <3>2. QED
      BY <2>8, <3>1 DEF LoopRaise, Loop!Next
  <2>9. QED
    BY <1>4, <2>2, <2>3, <2>4, <2>5, <2>6, <2>7, <2>8 DEF Ctl
<1>5. CASE Read
  BY <1>5 DEF Read, ReadBegin, ReadOnceBegin, ReadOnceRefused, ReadOnceEnd, ReadAssign, ReadEnd
<1>6. CASE Write \/ RtChoice
  BY <1>6 DEF Write, RtChoice, KeepMode, OnActivate, OnDeactivate, Perform
<1>7. CASE ClearError
  <2>1. due' = due /\ LoopRuns' = LoopRuns
    BY <1>7 DEF ClearError
  <2>2. Loop!Clear
    BY <1>7, <2>1 DEF ClearError, Loop!Clear
  <2>3. QED
    BY <1>7, <2>2 DEF ClearError, Loop!Next
<1>8. CASE RecoveryCall \/ AutomaticRecovery \/ RestoreParams \/ Restart \/ RecoveryAnswer
  BY <1>8 DEF RecoveryCall, AutomaticRecovery, RestoreParams, Restart, RecoveryAnswer
<1>9. CASE RecoveryCaught
  BY <1>9 DEF RecoveryBreaks, RecoveryCaught, RecoveryCallSite
<1>10. CASE Lost \/ RecoveryUncaught
  <2>1. due' = due
    BY <1>10 DEF Lost, LoopLost, ReadOnceLost, StopHaltLost, RecoveryUncaught, RecoveryCallSite, Lose
  <2>2. lost'
    BY <1>10 DEF Lost, LoopLost, ReadOnceLost, StopHaltLost, RecoveryUncaught, Lose
  <2>3. LoopRuns' = LoopRuns \/ LoopRuns' = FALSE
    BY <1>10 DEF Lost, LoopLost, ReadOnceLost, StopHaltLost, RecoveryUncaught, Lose
  <2>4. alive /\ alive' = FALSE /\ UNCHANGED <<stopped, loopMode, finish, hasError>>
    BY <1>10, Zenon DEF Lost, LoopLost, ReadOnceLost, StopHaltLost, RecoveryUncaught, Lose
  <2>5. Loop!Lose
    BY <2>1, <2>2, <2>3, <2>4 DEF Loop!Lose
  <2>6. QED
    BY <2>4, <2>5 DEF Loop!Next
<1>11. CASE ParamCall \/ ParamReturn \/ Reflex \/ UNCHANGED vars
  BY <1>11 DEF ParamCall, ParamReturn, Reflex, vars
<1>12. QED
  BY <1>2, <1>3, <1>4, <1>5, <1>6, <1>7, <1>8, <1>9, <1>10, <1>11 DEF Next, RtCall, Rec

(* In order, the hardware interface gets from Robot what ControlLoop        *)
(* promises: no loop starts unannounced or over another, none ends unasked  *)
(* without the error flag, and the process dies of nothing but a loop that  *)
(* an arm in error refuses or an uncaught exception of libfranka.           *)
THEOREM ImplementsControlLoop == Spec /\ Orderly => KeepsControlLoop
<1>1. Init => AskedInv
  BY DEF Init, AskedInv, Threads, Callers, Free
<1>2. ASSUME Init PROVE Loop!Init
  <2>1. pc["rt"] = "update" /\ pc["rec"] = "idle" /\ pc["ctl"] = "none"
    BY <1>2 DEF Init, Threads, Callers
  <2>2. ~LoopRuns /\ (\E t \in Callers : pc[t] = "spawn") = FALSE
    BY <2>1 DEF LoopRuns, InCallback, Callers
  <2>3. QED
    BY <1>2, <2>2 DEF Init, Loop!Init, Modes
<1>3. TypeOK /\ PairInv /\ AskedInv /\ Serial /\ [Next]_vars /\ [~RecoveryBreaks]_vars =>
        AskedInv' /\ [Loop!Next]_(Loop!loopVars)
  <2>1. CASE UNCHANGED vars
    BY <2>1 DEF AskedInv, Loop!loopVars, LoopRuns, vars, flags, locks, view
  <2>2. QED
    BY <2>1, AskedStep, LoopStep
<1>4. QED
  BY <1>1, <1>2, <1>3, PairInvariant, TypeCorrect, PTL DEF Spec, Orderly, KeepsControlLoop, Loop!Spec

(***************************************************************************)
(* With the recovery service: the race is the only way to a wrong           *)
(* isStopped().  As long as stopRobot() and initialize*() of the two        *)
(* callers never overlap (each alone: a switch may still come between the   *)
(* stop and the restart of a recovery), no call fails them, half-way or     *)
(* not.                                                                     *)
(***************************************************************************)
Apart == ~(Switching /\ Recovering)

ApartInv ==
  /\ \A t \in Callers : pc[t] \in {"halt", "reset"} => ~LoopRuns
  /\ \A t \in Callers : pc[t] = "spawn" => ~stopped
  /\ stopped => ~LoopRuns

LEMMA ApartStep ==
  ASSUME TypeOK, Apart, ApartInv, [Next]_vars
  PROVE  ApartInv'
<1> USE DEF TypeOK, Labels, RtLabels, RecLabels, CtlLabels, ParLabels, Ends, StopLabels, InitLabels, InCallback,
        Threads, Callers, Goto, At, locks, flags, view, arm, Apart, Switching, Recovering, ApartInv, LoopRuns
<1>1. ASSUME NEW t \in Callers, StopRobot(t) PROVE ApartInv'
  <2>1. CASE StopReset(t)
    BY <2>1 DEF StopReset, StopReturn, CallOf, Calls
  <2>2. CASE StopJoin(t)
    BY <2>2 DEF StopJoin
  <2>3. CASE StopCheck(t)
    BY <2>3 DEF StopCheck, StopReturn, CallOf, Calls
  <2>4. CASE StopSignal(t) \/ StopHalt(t) \/ StopJoinTwice(t)
    BY <2>4 DEF StopSignal, StopHalt, StopJoinTwice, Terminate
  <2>5. QED
    BY <1>1, <2>1, <2>2, <2>3, <2>4 DEF StopRobot
<1>2. ASSUME NEW t \in Callers, Initialize(t) PROVE ApartInv'
  <2>1. CASE InitializeBegin(t)
    BY <2>1 DEF InitializeBegin
  <2>2. CASE InitializeSpawn(t)
    BY <2>2 DEF InitializeSpawn, InitReturn, CallOf, Calls
  <2>3. CASE InitializeOverLoop(t)
    BY <2>3 DEF InitializeOverLoop, Terminate
  <2>4. QED
    BY <1>2, <2>1, <2>2, <2>3 DEF Initialize
<1>3. CASE Ctl
  BY <1>3 DEF Ctl, LoopEnter, ReadingRefused, ControlRefused, Terminate, LoopTick, LoopReflex, CallbackRead,
     CallbackWrite, CallbackCheck, LoopRaise
<1>4. CASE Read \/ Write \/ RtChoice
  BY <1>4 DEF Read, ReadBegin, ReadOnceBegin, ReadOnceRefused, ReadOnceEnd, ReadAssign, ReadEnd, Write,
     RtChoice, KeepMode, OnActivate, OnDeactivate, Perform
<1>5. CASE RecoveryCall \/ AutomaticRecovery \/ ClearError \/ RestoreParams \/ Restart \/ RecoveryAnswer
  BY <1>5 DEF RecoveryCall, AutomaticRecovery, ClearError, RestoreParams, Restart, RecoveryAnswer
<1>6. CASE RecoveryCaught \/ RecoveryUncaught
  BY <1>6 DEF RecoveryCaught, RecoveryUncaught, RecoveryCallSite, Lose
<1>7. CASE Lost
  BY <1>7 DEF Lost, LoopLost, ReadOnceLost, StopHaltLost, Lose
<1>8. CASE ParamCall \/ ParamReturn \/ Reflex \/ UNCHANGED vars
  BY <1>8 DEF ParamCall, ParamReturn, Reflex, vars
<1>9. QED
  BY <1>1, <1>2, <1>3, <1>4, <1>5, <1>6, <1>7, <1>8 DEF Next, RtCall, Rec

(* With recoveries and failing calls, isStopped() means what robot.hpp says *)
(* of it as long as the stops and starts of the two callers do not overlap. *)
THEOREM OnlyOverlapsDeceive == Spec /\ []Apart => []StoppedMeansNoLoop
<1>1. Init => ApartInv
  BY DEF Init, ApartInv, LoopRuns, InCallback, Threads, Callers
<1>2. ApartInv => StoppedMeansNoLoop
  BY DEF ApartInv, StoppedMeansNoLoop
<1>3. QED
  BY <1>1, <1>2, ApartStep, TypeCorrect, PTL DEF Spec

(***************************************************************************)
(* Without recoveries (none is called, or error_recovery is never asked     *)
(* for) there is nothing to keep in order, and control_mode_ of the         *)
(* hardware interface is the mode of the loop: what rt is about to start is *)
(* what it has just been told.                                              *)
(***************************************************************************)
Idle == pc["rec"] = "idle"

LEMMA IdleStep ==
  ASSUME Recovery = FALSE, TypeOK, Idle, [Next]_vars
  PROVE  Idle'
<1> USE DEF TypeOK, Idle, Goto, At, Threads, Callers
<1>1. CASE RtCall
  BY <1>1 DEF RtCall, Read, ReadBegin, ReadOnceBegin, ReadOnceRefused, ReadOnceEnd, ReadAssign, ReadEnd,
     Write, StopRobot, StopCheck, StopSignal, StopJoin, StopJoinTwice, StopHalt, StopReset, Initialize,
     InitializeBegin, InitializeSpawn, InitializeOverLoop, Terminate
<1>2. CASE RtChoice
  BY <1>2 DEF RtChoice, KeepMode, OnActivate, OnDeactivate, Perform
<1>3. CASE Ctl
  BY <1>3 DEF Ctl, LoopEnter, ReadingRefused, ControlRefused, Terminate, LoopTick, LoopReflex, CallbackRead,
     CallbackWrite, CallbackCheck, LoopRaise
<1>4. CASE RecoveryCall \/ Rec \/ RecoveryCaught \/ RecoveryUncaught
  BY <1>4 DEF RecoveryCall, Rec, AutomaticRecovery, ClearError, RestoreParams, Restart, RecoveryAnswer,
     RecoveryCaught, RecoveryUncaught, RecoveryCallSite, StopRobot, StopCheck, StopSignal, StopJoin,
     StopJoinTwice, StopHalt, StopReset, Initialize, InitializeBegin, InitializeSpawn, InitializeOverLoop
<1>5. CASE Lost
  BY <1>5 DEF Lost, LoopLost, ReadOnceLost, StopHaltLost, Lose
<1>6. CASE ParamCall \/ ParamReturn \/ Reflex \/ UNCHANGED vars
  BY <1>6 DEF ParamCall, ParamReturn, Reflex, vars
<1>7. QED
  BY <1>1, <1>2, <1>3, <1>4, <1>5, <1>6 DEF Next

ModeInv ==
  /\ pc["rt"] \in InitLabels => want["rt"] = hwMode
  /\ pc["rt"] \in StopLabels /\ call = "perform" => want["rt"] = hwMode
  /\ CommandedLoop

LEMMA ModeStep ==
  ASSUME Recovery = FALSE, TypeOK, Idle, PairInv, ModeInv, [Next]_vars
  PROVE  ModeInv'
<1> USE DEF TypeOK, Labels, RtLabels, RecLabels, CtlLabels, ParLabels, Ends, StopLabels, InitLabels, Threads,
        Callers, Calls, Goto, At, locks, flags, view, arm, Idle, ModeInv, CommandedLoop, Switching
<1>1. ASSUME NEW t \in Callers, StopRobot(t) PROVE ModeInv'
  <2>1. t = "rt"
    BY <1>1 DEF StopRobot, StopCheck, StopSignal, StopJoin, StopJoinTwice, StopHalt, StopReset
  <2>2. CASE StopCheck("rt")
    BY <2>2 DEF StopCheck, StopReturn, CallOf
  <2>3. CASE StopReset("rt")
    BY <2>3 DEF StopReset, StopReturn, CallOf
  <2>4. CASE StopSignal("rt") \/ StopJoin("rt") \/ StopHalt("rt")
    BY <2>4 DEF StopSignal, StopJoin, StopHalt
  <2>5. QED
    BY <1>1, <2>1, <2>2, <2>3, <2>4 DEF StopRobot, StopJoinTwice, PairInv
<1>2. ASSUME NEW t \in Callers, Initialize(t) PROVE ModeInv'
  <2>1. t = "rt"
    BY <1>2 DEF Initialize, InitializeBegin, InitializeSpawn, InitializeOverLoop
  <2>2. CASE InitializeBegin("rt")
    BY <2>2 DEF InitializeBegin
  <2>3. CASE InitializeSpawn("rt")
    BY <2>3 DEF InitializeSpawn, InitReturn, CallOf
  <2>4. QED
    BY <1>2, <2>1, <2>2, <2>3 DEF Initialize, InitializeOverLoop, PairInv
<1>3. CASE Ctl
  BY <1>3 DEF Ctl, LoopEnter, ReadingRefused, ControlRefused, Terminate, LoopTick, LoopReflex, CallbackRead,
     CallbackWrite, CallbackCheck, LoopRaise
<1>4. CASE Read
  BY <1>4 DEF Read, ReadBegin, ReadOnceBegin, ReadOnceRefused, ReadOnceEnd, ReadAssign, ReadEnd
<1>5. CASE Write \/ RtChoice
  BY <1>5 DEF Write, RtChoice, KeepMode, OnActivate, OnDeactivate, Perform, PairInv
<1>6. CASE RecoveryCall \/ Rec \/ RecoveryCaught \/ RecoveryUncaught
  BY <1>1, <1>2, <1>6 DEF RecoveryCall, Rec, AutomaticRecovery, ClearError, RestoreParams, Restart,
     RecoveryAnswer, RecoveryCaught, RecoveryUncaught, RecoveryCallSite
<1>7. CASE Lost
  BY <1>7 DEF Lost, LoopLost, ReadOnceLost, StopHaltLost, Lose
<1>8. CASE ParamCall \/ ParamReturn \/ Reflex \/ UNCHANGED vars
  BY <1>8 DEF ParamCall, ParamReturn, Reflex, vars
<1>9. QED
  BY <1>1, <1>2, <1>3, <1>4, <1>5, <1>6, <1>7, <1>8 DEF Next, RtCall

(* With no recovery every promise above holds outright, and between two     *)
(* switches the loop is the one that was commanded.                         *)
THEOREM LoopWithoutRecovery ==
  ASSUME Recovery = FALSE
  PROVE  Spec => /\ KeepsControlLoop /\ []StoppedMeansNoLoop /\ []CommandedLoop
                 /\ []InitializeFindsStopped /\ []RtNeverDies
<1>1. Init => Idle /\ ModeInv
  BY DEF Init, Idle, ModeInv, CommandedLoop, Switching, Threads, Callers, StopLabels, InitLabels
<1>2. TypeOK /\ Idle /\ [Next]_vars => Idle'
  BY IdleStep
<1>3. Idle => Serial /\ Apart /\ ~RecoveryBreaks
  BY DEF Idle, Serial, Apart, Restarting, Recovering, RecoveryBreaks, RecoveryCaught, RecoveryUncaught,
     RecoveryCallSite, StopLabels, InitLabels
<1>4. TypeOK /\ Idle /\ PairInv /\ ModeInv /\ [Next]_vars => ModeInv'
  BY ModeStep
<1>5. ModeInv => CommandedLoop
  BY DEF ModeInv
<1>6. Spec => []Idle
  BY <1>1, <1>2, TypeCorrect, PTL DEF Spec
<1>7. Spec => Orderly /\ []Apart
  BY <1>3, <1>6, PTL DEF Orderly
<1>8. Spec => []CommandedLoop
  BY <1>1, <1>4, <1>5, <1>6, <1>7, TypeCorrect, PairInvariant, PTL DEF Spec
<1>9. QED
  BY <1>7, <1>8, AssertionHolds, RtThreadSurvives, ImplementsControlLoop, OnlyOverlapsDeceive, PTL
=============================================================================
