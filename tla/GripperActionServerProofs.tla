--------------------- MODULE GripperActionServerProofs ---------------------
(***************************************************************************)
(* Theorems about GripperActionServer, for every set of goals.              *)
(***************************************************************************)
EXTENDS GripperActionServer, TLAPS

(* Every variable stays in its range, and the mutex is only ever kept by    *)
(* the timer.                                                               *)
LEMMA InitTypeOK == Init => TypeOK
<1> SUFFICES ASSUME Init PROVE TypeOK
  OBVIOUS
<1>1. ok \in BOOLEAN /\ alive \in BOOLEAN
  BY Zenon DEF Init
<1>2. /\ mutex = IF exec = "reading" THEN Executor ELSE Nobody
      /\ exec \in {"idle", "reading", "stopping"}
  BY DEF Init
<1>3. QED
  BY <1>1, <1>2 DEF Init, TypeOK

LEMMA TypeStep == TypeOK /\ [Next]_vars => TypeOK'
<1> SUFFICES ASSUME TypeOK, [Next]_vars PROVE TypeOK'
  OBVIOUS
<1> USE DEF TypeOK, Active, Terminal, Returned, At, Goto, Settle, Free
<1>1. CASE StopService \/ StopServiceEnd \/ PublishBegin \/ PublishEnd
  BY <1>1 DEF StopService, StopServiceEnd, PublishBegin, PublishEnd
<1>2. CASE Shutdown
  <2>1. ok' \in BOOLEAN
    BY <1>2, Zenon DEF Shutdown
  <2>2. QED
    BY <1>2, <2>1 DEF Shutdown
<1>3. ASSUME NEW g \in Goals, AcceptGoal(g) \/ AcceptCancel(g) PROVE TypeOK'
  BY <1>3 DEF AcceptGoal, AcceptCancel
<1>4. ASSUME NEW g \in Goals, CheckWidth(g) \/ Launch(g) PROVE TypeOK'
  BY <1>4 DEF CheckWidth, Launch
<1>5. ASSUME NEW g \in Goals, PollTimeout(g) \/ AskCanceling(g) \/ Feedback(g) PROVE TypeOK'
  BY <1>5 DEF PollTimeout, AskCanceling, Feedback
<1>6. ASSUME NEW g \in Goals, CancelStop(g) \/ CancelEnd(g) PROVE TypeOK'
  BY <1>6 DEF CancelStop, CancelEnd
<1>7. ASSUME NEW g \in Goals, CancelStopThrows(g) PROVE TypeOK'
  <2>1. alive' \in BOOLEAN
    BY <1>7, Zenon DEF CancelStopThrows
  <2>2. QED
    BY <1>7, <2>1 DEF CancelStopThrows
<1>8. ASSUME NEW g \in Goals, PollEnd(g) \/ Drop(g) \/ Result(g) PROVE TypeOK'
  BY <1>8 DEF PollEnd, Drop, Result
<1>9. ASSUME NEW g \in Goals, Send(g) \/ CommandReturn(g) PROVE TypeOK'
  BY <1>9 DEF Send, CommandReturn
<1>10. CASE UNCHANGED vars
  BY <1>10 DEF vars
<1>11. QED
  BY <1>1, <1>2, <1>3, <1>4, <1>5, <1>6, <1>7, <1>8, <1>9, <1>10 DEF Next, GoalThread

THEOREM TypeCorrect == Spec => []TypeOK
  BY InitTypeOK, TypeStep, PTL DEF Spec

(***************************************************************************)
(* Where a goal's thread is bounds what its future and its goal handle can  *)
(* be, though an async thread moves the one and the executor the other: the *)
(* future is handed over once, at "launch", and every way to a result waits *)
(* for it; only a goal that was asked to cancel reaches "stop".             *)
(***************************************************************************)
GoalInv ==
  /\ \A g \in Goals :
       /\ pc[g] = "none" <=> status[g] = "new"
       /\ pc[g] \in {"none", "check", "launch"} => future[g] = "none"
       /\ pc[g] \in {"poll", "ask", "feedback", "stop", "canceled", "drop"} => future[g] # "none"
       /\ pc[g] = "result" => future[g] \in Returned
       /\ pc[g] \in {"stop", "canceled"} => status[g] = "canceling"
       /\ pc[g] = "done" => future[g] \in {"none"} \cup Returned
       /\ status[g] \in Terminal => pc[g] = "done"
  /\ \A g \in Goals : motion = g => future[g] = "sent"

LEMMA GoalStep == TypeOK /\ GoalInv /\ [Next]_vars => GoalInv'
<1> SUFFICES ASSUME TypeOK, GoalInv, [Next]_vars PROVE GoalInv'
  OBVIOUS
<1> USE GoalsAssumption DEF TypeOK, GoalInv, Active, Terminal, Returned, At, Goto, Settle, Free
<1>1. CASE StopService \/ StopServiceEnd \/ PublishBegin \/ PublishEnd \/ Shutdown
  BY <1>1 DEF StopService, StopServiceEnd, PublishBegin, PublishEnd, Shutdown
<1>2. ASSUME NEW g \in Goals, AcceptGoal(g) \/ AcceptCancel(g) PROVE GoalInv'
  BY <1>2 DEF AcceptGoal, AcceptCancel
<1>3. ASSUME NEW g \in Goals, CheckWidth(g) \/ Launch(g) PROVE GoalInv'
  BY <1>3 DEF CheckWidth, Launch
<1>4. ASSUME NEW g \in Goals, PollTimeout(g) \/ AskCanceling(g) \/ Feedback(g) PROVE GoalInv'
  BY <1>4 DEF PollTimeout, AskCanceling, Feedback
<1>5. ASSUME NEW g \in Goals, CancelStop(g) \/ CancelStopThrows(g) \/ CancelEnd(g) PROVE GoalInv'
  BY <1>5 DEF CancelStop, CancelStopThrows, CancelEnd
<1>6. ASSUME NEW g \in Goals, PollEnd(g) \/ Drop(g) \/ Result(g) PROVE GoalInv'
  BY <1>6 DEF PollEnd, Drop, Result
<1>7. ASSUME NEW g \in Goals, Send(g) PROVE GoalInv'
  BY <1>7 DEF Send
<1>8. ASSUME NEW g \in Goals, CommandReturn(g) PROVE GoalInv'
  BY <1>8 DEF CommandReturn
<1>9. CASE UNCHANGED vars
  BY <1>9 DEF vars
<1>10. QED
  BY <1>1, <1>2, <1>3, <1>4, <1>5, <1>6, <1>7, <1>8, <1>9 DEF Next, GoalThread

LEMMA GoalInvariant == Spec => []GoalInv
<1>1. Init => GoalInv
  BY GoalsAssumption DEF Init, GoalInv, Terminal, Returned
<1>2. QED
  BY <1>1, GoalStep, TypeCorrect, PTL DEF Spec

(* The gripper carries out nothing for a goal that has its result.          *)
THEOREM RestAfterResult == Spec => []ResultMeansRest
<1>1. GoalInv => ResultMeansRest
  BY DEF GoalInv, ResultMeansRest, Terminal, Returned
<1>2. QED
  BY <1>1, GoalInvariant, PTL

(* Every step of the node is a step of the lifecycle of one goal, or none.  *)
THEOREM ImplementsLifecycle == Spec => KeepsLifecycle
<1>1. Init => Lifecycle!Init
  BY DEF Init, Lifecycle!Init
<1>2. TypeOK /\ GoalInv /\ [Next]_vars => [Lifecycle!Next]_(Lifecycle!goalVars)
  <2> SUFFICES ASSUME TypeOK, GoalInv, [Next]_vars
               PROVE  Lifecycle!Next \/ UNCHANGED Lifecycle!goalVars
    OBVIOUS
  <2> USE DEF TypeOK, GoalInv, Active, Terminal, Returned, At, Goto, Settle, Free,
          Lifecycle!Active, Lifecycle!Terminal, Lifecycle!goalVars
  <2>1. CASE StopService \/ StopServiceEnd \/ PublishBegin \/ PublishEnd \/ Shutdown
    BY <2>1 DEF StopService, StopServiceEnd, PublishBegin, PublishEnd, Shutdown
  <2>2. ASSUME NEW g \in Goals, AcceptGoal(g) PROVE Lifecycle!Accept(g)
    BY <2>2 DEF AcceptGoal, Lifecycle!Accept
  <2>3. ASSUME NEW g \in Goals, AcceptCancel(g) PROVE Lifecycle!AskToCancel(g)
    BY <2>3 DEF AcceptCancel, Lifecycle!AskToCancel
  <2>4. ASSUME NEW g \in Goals, CheckWidth(g)
        PROVE  Lifecycle!Finish(g) \/ UNCHANGED Lifecycle!goalVars
    BY <2>4 DEF CheckWidth, Lifecycle!Finish
  <2>5. ASSUME NEW g \in Goals, Launch(g) PROVE Lifecycle!HandOver(g)
    BY <2>5 DEF Launch, Lifecycle!HandOver
  <2>6. ASSUME NEW g \in Goals, PollTimeout(g) \/ AskCanceling(g) \/ Feedback(g) \/ CancelStop(g)
                                  \/ CancelStopThrows(g) \/ PollEnd(g) \/ Drop(g)
        PROVE  UNCHANGED Lifecycle!goalVars
    BY <2>6 DEF PollTimeout, AskCanceling, Feedback, CancelStop, CancelStopThrows, PollEnd, Drop
  <2>7. ASSUME NEW g \in Goals, CancelEnd(g) \/ Result(g) PROVE Lifecycle!Finish(g)
    BY <2>7 DEF CancelEnd, Result, Lifecycle!Finish
  <2>8. ASSUME NEW g \in Goals, Send(g) PROVE UNCHANGED Lifecycle!goalVars
    BY <2>8 DEF Send
  <2>9. ASSUME NEW g \in Goals, CommandReturn(g) PROVE Lifecycle!Return(g)
    BY <2>9 DEF CommandReturn, Lifecycle!Return
  <2>10. CASE UNCHANGED vars
    BY <2>10 DEF vars
  <2>11. QED
    BY <2>1, <2>2, <2>3, <2>4, <2>5, <2>6, <2>7, <2>8, <2>9, <2>10
    DEF Next, GoalThread, Lifecycle!Next
<1>3. QED
  BY <1>1, <1>2, TypeCorrect, GoalInvariant, PTL DEF Spec, KeepsLifecycle, Lifecycle!Spec
=============================================================================
