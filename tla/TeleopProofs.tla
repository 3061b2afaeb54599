---------------------------- MODULE TeleopProofs ----------------------------
(***************************************************************************)
(* The adapter and the buttons, proved for every set of threads of the      *)
(* executor and every set of objects.                                       *)
(***************************************************************************)
EXTENDS Teleop, TLAPS

(* rights and since: a message of the right button is handled in the tick   *)
(* in which the button is pressed, by one thread.                           *)
PressIsFresh ==
  /\ rights > 0 => since = 0
  /\ \A t \in Threads : pc[t] = "right" => rights = 0 /\ since = 0
  /\ \A t, u \in Threads : pc[t] = "right" /\ pc[u] = "right" => t = u

(* Without a clash, goal, close_state and the goals in hand go together.    *)
NoOddsWithoutClash ==
  ~clash =>
    /\ \A t, u \in Threads : InHand(t) /\ InHand(u) => job[t] = job[u]
    /\ \A t \in Threads : pc[t] = "set" => goal = job[t]
    /\ (\A t \in Threads : pc[t] # "set") => ~AtOdds

(* A thread that is past its message holds a goal.                          *)
HoldsGoal ==
  \A t \in Threads : pc[t] \in {"status", "test", "send", "set"} => job[t] \in Ways

(* While quiet runs, the threads know only what the teleoperator streams.   *)
OnlyCmd ==
  quiet > 0 =>
    \A t \in Threads : /\ pc[t] # "right"
                       /\ pc[t] # "idle" => job[t] = cmd
                       /\ pc[t] = "set" => goal = cmd

(* How far the fingers have come towards a goal that is not the command.    *)
OnTheirWay ==
  quiet > 0 /\ goal # cmd =>
    IF goal = "open" THEN /\ pos >= quiet \/ pos = OpenWidth
                          /\ width + 1 >= quiet \/ width = OpenWidth
                     ELSE /\ pos <= OpenThreshold \/ Wide
                          /\ quiet > 1 => width <= OpenThreshold \/ Wide

(* When the fingers have had their time, a command that was heard is being  *)
(* handled, or was obeyed, or met a close_state that is wrong, or was to    *)
(* let go of a wide object.                                                 *)
HeardIsObeyed ==
  quiet >= OpenWidth + 1 /\ heard =>
    \/ goal = cmd \/ AtOdds \/ (cmd = "open" /\ Wide)
    \/ \E t \in Threads : pc[t] \in {"status", "test", "send"}

(* The fingers after a press that closed them.                              *)
ClosingByPress ==
  lastPress = "close" =>
    /\ \/ goal = "close"
       \/ /\ since = 0 /\ rights = 0
          /\ \E t \in Threads : pc[t] = "send"
          /\ \A t \in Threads : pc[t] # "right"
    /\ since > 0 => pos <= OpenThreshold \/ Wide
    /\ since > 1 => width <= OpenThreshold \/ Wide
    /\ rights > 0 \/ (\E t \in Threads : pc[t] = "right") =>
         (pos <= OpenThreshold /\ width <= OpenThreshold) \/ Wide

(* As long as a press is the last word, every goal in hand is its goal.     *)
PressInHand == lastPress # "none" => \A t \in Threads : InHand(t) => job[t] = lastPress

CommandInv == OnlyCmd /\ OnTheirWay /\ HeardIsObeyed /\ HeldCommandObeyed
PressInv == PressIsFresh /\ ClosingByPress /\ PressInHand

IInv == TypeOK /\ HoldsGoal /\ NoOddsWithoutClash /\ CommandInv /\ PressInv
-----------------------------------------------------------------------------
LEMMA InitHolds ==
  ASSUME Init
  PROVE  IInv
<1>1. TypeOK
  <2>1. object \in Objects /\ pos \in 0 .. OpenWidth /\ width \in 0 .. OpenWidth
    BY ObjectsAssumption DEF Init, AdapterInit, OpenWidth, OpenThreshold
  <2>2. closeState \in BOOLEAN /\ heard \in BOOLEAN /\ ok \in BOOLEAN /\ clash \in BOOLEAN
    BY DEF Init, AdapterInit, ButtonsInit
  <2>3. quiet \in 0 .. Settled /\ rights \in 0 .. 1 /\ since \in 0 .. CoolDown
    BY DEF Init, AdapterInit, ButtonsInit, Settled, OpenWidth, CoolDown
  <2>4. /\ pc \in [Threads -> {"idle", "status", "test", "right", "send", "set"}]
        /\ job \in [Threads -> Ways \cup {"none"}]
    BY DEF Init, AdapterInit
  <2>5. QED
    BY <2>1, <2>2, <2>3, <2>4 DEF Init, AdapterInit, ButtonsInit, TypeOK, Ways
<1>2. \A t \in Threads : pc[t] = "idle"
  BY DEF Init, AdapterInit
<1>3. HoldsGoal
  BY <1>2 DEF HoldsGoal
<1>4. NoOddsWithoutClash
  BY <1>2 DEF NoOddsWithoutClash, InHand, AtOdds, Init, AdapterInit
<1>5. CommandInv
  BY DEF CommandInv, OnlyCmd, OnTheirWay, HeardIsObeyed, HeldCommandObeyed, Init,
     AdapterInit, Settled, OpenWidth
<1>6. PressInv
  BY <1>2 DEF PressInv, PressIsFresh, ClosingByPress, PressInHand, Init, AdapterInit
<1>7. QED
  BY <1>1, <1>3, <1>4, <1>5, <1>6 DEF IInv

(* What the steps of the buttons leave alone is all the invariant is about. *)
LEMMA ButtonsKeep ==
  ASSUME IInv, UNCHANGED adapterVars, NodeStep \/ PressOther \/ UNCHANGED buttonVars
  PROVE  IInv'
<1> USE DEF adapterVars, hand, history, Wide
<1>1. since' = since \/ since' = 0
  BY DEF NodeStep, Login, Close, Break, LastEvent, SpinReturn, End, Terminate, Interrupt,
     PressOther, Accepted, buttonVars
<1>2. TypeOK'
  <2>1. TypeOK
    BY DEF IInv
  <2>2. CASE NodeStep
    BY <2>1, <2>2 DEF TypeOK, NodeStep, Login, Close, Break, LastEvent, SpinReturn, End,
       Terminate, Interrupt
  <2>3. CASE PressOther
    BY <2>1, <2>3 DEF TypeOK, PressOther, Accepted, node, CoolDown
  <2>4. CASE UNCHANGED buttonVars
    BY <2>1, <2>4 DEF TypeOK, buttonVars, node
  <2>5. QED
    BY <2>2, <2>3, <2>4
<1>3. HoldsGoal' /\ NoOddsWithoutClash' /\ CommandInv'
  BY DEF IInv, HoldsGoal, NoOddsWithoutClash, InHand, AtOdds, CommandInv, OnlyCmd,
     OnTheirWay, HeardIsObeyed, HeldCommandObeyed
<1>4. PressInv'
  BY <1>1 DEF IInv, TypeOK, PressInv, PressIsFresh, ClosingByPress, PressInHand, InHand
<1>5. QED
  BY <1>2, <1>3, <1>4 DEF IInv

(* A press is accepted only when the last one is CoolDown ticks old.        *)
LEMMA RightKeeps ==
  ASSUME IInv, Right
  PROVE  IInv'
<1> USE DEF Right, PressRight, Accepted, node, hand, history, CoolDown, Wide
<1>1. TypeOK'
  BY DEF IInv, TypeOK, PressInv, PressIsFresh
<1>2. PressInv'
  BY DEF IInv, TypeOK, PressInv, PressIsFresh, ClosingByPress, PressInHand, InHand
<1>3. HoldsGoal' /\ NoOddsWithoutClash' /\ CommandInv'
  BY DEF IInv, HoldsGoal, NoOddsWithoutClash, InHand, AtOdds, CommandInv, OnlyCmd,
     OnTheirWay, HeardIsObeyed, HeldCommandObeyed
<1>4. QED
  BY <1>1, <1>2, <1>3 DEF IInv

(* Opening fingers keep up with the ticks, and the measure is one behind.   *)
LEMMA OneTickFurther ==
  ASSUME NEW p \in 0 .. 8, NEW q \in 0 .. 10, p >= q \/ p = 8,
         NEW p1, p1 = IF p < 8 THEN p + 1 ELSE p,
         NEW w1 \in {p, p1}, NEW q1 \in {q, q + 1}
  PROVE  (p1 >= q1 \/ p1 = 8) /\ (w1 + 1 >= q1 \/ w1 = 8)
OBVIOUS

(* Time passes between callbacks, and the fingers move.                     *)
LEMMA TickKeeps ==
  ASSUME IInv, Tick
  PROVE  IInv'
<1> USE DEF OpenWidth, OpenThreshold, Settled, CoolDown
<1>1. /\ TypeOK /\ pc' = pc /\ job' = job /\ rights = 0 /\ rights' = 0
      /\ goal' = goal /\ cmd' = cmd /\ closeState' = closeState /\ heard' = FALSE
      /\ lastPress' = lastPress /\ clash' = (clash /\ AtOdds)
  BY DEF IInv, Tick, AdapterTick
<1>2. \A t \in Threads : pc[t] = "idle"
  BY DEF Tick, AdapterTick, Idle
<1>3. object \in 0 .. 8 /\ Wide' = Wide /\ (Wide <=> object > 7)
  BY <1>1, ObjectsAssumption DEF Tick, AdapterTick, TypeOK, Wide
<1>4. pos' \in 0 .. 8 /\ width' \in {pos, pos'}
  BY <1>1, <1>3 DEF Tick, AdapterTick, Moved, TypeOK
<1>5. TypeOK'
  <2>1. quiet' \in 0 .. Settled
    BY <1>1 DEF Tick, AdapterTick, TypeOK
  <2>2. since' \in 0 .. CoolDown
    BY <1>1 DEF Tick, ButtonsTick, TypeOK
  <2>3. clash' \in BOOLEAN
    BY <1>1
  <2>4. QED
    BY <1>1, <1>4, <2>1, <2>2, <2>3 DEF Tick, AdapterTick, ButtonsTick, node, TypeOK
<1>6. OnTheirWay'
  <2> SUFFICES ASSUME quiet' > 0, goal # cmd
               PROVE  IF goal = "open" THEN /\ pos' >= quiet' \/ pos' = 8
                                            /\ width' + 1 >= quiet' \/ width' = 8
                      ELSE (pos' <= 7 \/ Wide) /\ (quiet' > 1 => width' <= 7 \/ Wide)
    BY <1>1, <1>3 DEF OnTheirWay
  <2>1. quiet' \in {quiet, quiet + 1} /\ quiet \in 0 .. 10 /\ quiet' \in 0 .. 10
    BY <1>1, <1>5 DEF Tick, AdapterTick, TypeOK
  <2>2. CASE goal = "open"
    <3>1. pos' = IF pos < 8 THEN pos + 1 ELSE pos
      BY <2>2 DEF Tick, AdapterTick, Moved
    <3>2. pos \in 0 .. 8 /\ (pos >= quiet \/ pos = 8)
      BY <1>1, <2>1, <2>2 DEF IInv, CommandInv, OnTheirWay, TypeOK
    <3>3. QED
      BY <1>4, <2>1, <2>2, <3>1, <3>2, OneTickFurther
  <2>3. CASE goal # "open"
    <3>1. pos' = IF pos > object THEN pos - 1 ELSE pos
      BY <2>3 DEF Tick, AdapterTick, Moved
    <3>2. pos \in 0 .. 8 /\ (quiet > 0 => pos <= 7 \/ Wide)
      BY <2>3 DEF IInv, CommandInv, OnTheirWay, TypeOK
    <3>3. QED
      BY <1>3, <1>4, <2>1, <2>3, <3>1, <3>2
  <2>4. QED
    BY <2>2, <2>3
<1>7. HeldCommandObeyed'
  <2> SUFFICES ASSUME quiet' = 10
               PROVE  goal = cmd \/ AtOdds \/ (cmd = "open" /\ Wide)
    BY <1>1, <1>3 DEF HeldCommandObeyed, AtOdds
  <2>1. quiet = 10 \/ (quiet = 9 /\ heard)
    BY <1>1 DEF Tick, AdapterTick, TypeOK
  <2>2. CASE quiet = 10
    BY <2>2 DEF IInv, CommandInv, HeldCommandObeyed
  <2>3. CASE quiet = 9 /\ heard
    BY <1>2, <2>3 DEF IInv, CommandInv, HeardIsObeyed
  <2>4. QED
    BY <2>1, <2>2, <2>3
<1>8. CommandInv'
  <2>1. OnlyCmd' /\ HeardIsObeyed'
    BY <1>1, <1>2 DEF OnlyCmd, HeardIsObeyed
  <2>2. QED
    BY <1>6, <1>7, <2>1 DEF CommandInv
<1>9. ClosingByPress'
  <2> SUFFICES ASSUME lastPress = "close"
               PROVE  /\ goal = "close"
                      /\ since' > 0 => pos' <= 7 \/ Wide
                      /\ since' > 1 => width' <= 7 \/ Wide
    BY <1>1, <1>2, <1>3 DEF ClosingByPress
  <2>1. goal = "close"
    BY <1>2 DEF IInv, PressInv, ClosingByPress
  <2>2. pos' = IF pos > object THEN pos - 1 ELSE pos
    BY <2>1 DEF Tick, AdapterTick, Moved
  <2>3. since' > 1 => since > 0
    BY <1>1 DEF Tick, ButtonsTick, TypeOK
  <2>4. pos \in 0 .. 8 /\ (since > 0 => pos <= 7 \/ Wide)
    BY DEF IInv, PressInv, ClosingByPress, TypeOK
  <2>5. QED
    BY <1>3, <1>4, <2>1, <2>2, <2>3, <2>4
<1>10. PressInv'
  BY <1>1, <1>2, <1>9 DEF PressInv, PressIsFresh, PressInHand, InHand
<1>11. HoldsGoal' /\ NoOddsWithoutClash'
  BY <1>1, <1>2 DEF IInv, HoldsGoal, NoOddsWithoutClash, InHand, AtOdds
<1>12. QED
  BY <1>5, <1>8, <1>10, <1>11 DEF IInv

(* A callback is taken up.                                                  *)
LEMMA TakeStatusKeeps ==
  ASSUME IInv, UNCHANGED buttonVars, NEW t \in Threads, TakeStatus(t)
  PROVE  IInv'
<1> USE DEF buttonVars, node, hand, Wide
<1>1. TypeOK /\ pc[t] = "idle" /\ cmd \in Ways
  BY DEF IInv, TypeOK, TakeStatus
<1>2. /\ \A u \in Threads : pc'[u] = IF u = t THEN "status" ELSE pc[u]
      /\ \A u \in Threads : job'[u] = IF u = t THEN cmd ELSE job[u]
  BY <1>1 DEF TakeStatus, Goto, TypeOK
<1>3. TypeOK'
  BY <1>1 DEF TakeStatus, Goto, TypeOK
<1>4. HoldsGoal'
  BY <1>1, <1>2 DEF IInv, HoldsGoal
<1>5. NoOddsWithoutClash'
  BY <1>1, <1>2 DEF TakeStatus, IInv, NoOddsWithoutClash, InHand, AtOdds
<1>6. CommandInv'
  <2>1. OnlyCmd'
    BY <1>1, <1>2 DEF TakeStatus, IInv, CommandInv, OnlyCmd
  <2>2. OnTheirWay' /\ HeldCommandObeyed'
    BY DEF TakeStatus, IInv, CommandInv, OnTheirWay, HeldCommandObeyed, AtOdds
  <2>3. HeardIsObeyed'
    BY <1>2 DEF HeardIsObeyed
  <2>4. QED
    BY <2>1, <2>2, <2>3 DEF CommandInv
<1>7. PressInv'
  BY <1>1, <1>2 DEF TakeStatus, IInv, PressInv, PressIsFresh, ClosingByPress, PressInHand,
     InHand
<1>8. QED
  BY <1>3, <1>4, <1>5, <1>6, <1>7 DEF IInv

LEMMA TakeRightKeeps ==
  ASSUME IInv, UNCHANGED buttonVars, NEW t \in Threads, TakeRight(t)
  PROVE  IInv'
<1> USE DEF buttonVars, node, hand, Wide
<1>1. /\ TypeOK /\ pc[t] = "idle" /\ quiet' = 0 /\ job' = job
      /\ rights = 1 /\ rights' = 0 /\ since = 0
      /\ \A u \in Threads : pc[u] # "right"
  BY DEF IInv, TypeOK, PressInv, PressIsFresh, TakeRight
<1>2. \A u \in Threads : pc'[u] = IF u = t THEN "right" ELSE pc[u]
  BY <1>1 DEF TakeRight, Goto, TypeOK
<1>3. TypeOK'
  <2>1. quiet' \in 0 .. Settled /\ rights' \in 0 .. 1
    BY <1>1 DEF Settled, OpenWidth
  <2>2. pc' \in [Threads -> {"idle", "status", "test", "right", "send", "set"}]
    BY <1>1 DEF TakeRight, Goto, TypeOK
  <2>3. heard' \in BOOLEAN
    BY DEF TakeRight
  <2>4. QED
    BY <1>1, <2>1, <2>2, <2>3 DEF TakeRight, TypeOK
<1>4. HoldsGoal' /\ NoOddsWithoutClash'
  BY <1>1, <1>2 DEF TakeRight, IInv, HoldsGoal, NoOddsWithoutClash, InHand, AtOdds
<1>5. CommandInv'
  BY <1>1 DEF CommandInv, OnlyCmd, OnTheirWay, HeardIsObeyed, HeldCommandObeyed, Settled,
     OpenWidth
<1>6. PressInv'
  BY <1>1, <1>2 DEF TakeRight, IInv, PressInv, PressIsFresh, ClosingByPress, PressInHand,
     InHand
<1>7. QED
  BY <1>3, <1>4, <1>5, <1>6 DEF IInv

(* The measured width of fingers that have had their time to follow a goal  *)
(* that is not the command, around an object that lets them.                *)
LEMMA WidthFitsInTime ==
  ASSUME IInv, quiet >= OpenWidth + 1, goal # cmd, ~(cmd = "open" /\ Wide)
  PROVE  WidthFits(cmd)
<1> USE DEF OpenWidth, OpenThreshold, Settled
<1>1. quiet \in 9 .. 10 /\ width \in 0 .. 8 /\ cmd \in Ways /\ goal \in Ways
  BY DEF IInv, TypeOK
<1>2. CASE goal = "open"
  <2>1. width = 8 /\ cmd = "close"
    BY <1>1, <1>2 DEF IInv, CommandInv, OnTheirWay, Ways
  <2>2. QED
    BY <2>1 DEF WidthFits, IsOpen
<1>3. CASE goal = "close"
  <2>1. width <= 7 /\ cmd = "open"
    BY <1>1, <1>3 DEF IInv, CommandInv, OnTheirWay, Ways
  <2>2. QED
    BY <1>1, <2>1 DEF WidthFits, IsOpen
<1>4. QED
  BY <1>1, <1>2, <1>3 DEF Ways

(* A callback that neither sends nor notes anything has returned, and the   *)
(* command was met: what CommandInv says of heard is what has to be shown.  *)
LEMMA ReturnKeeps ==
  ASSUME IInv, UNCHANGED buttonVars, NEW t \in Threads, pc[t] \in {"status", "test"},
         Return(t), UNCHANGED <<hand, goal, width, closeState, rights, cmd, history>>,
         quiet >= OpenWidth + 1 => goal = cmd \/ AtOdds \/ (cmd = "open" /\ Wide)
  PROVE  IInv'
<1> USE DEF buttonVars, node, hand, history, Wide
<1>1. TypeOK
  BY DEF IInv
<1>2. /\ \A u \in Threads : pc'[u] = IF u = t THEN "idle" ELSE pc[u]
      /\ \A u \in Threads : job'[u] = IF u = t THEN "none" ELSE job[u]
  BY <1>1 DEF Return, Goto, TypeOK
<1>3. TypeOK'
  BY <1>1 DEF Return, Goto, TypeOK
<1>4. HoldsGoal' /\ NoOddsWithoutClash'
  BY <1>2 DEF IInv, HoldsGoal, NoOddsWithoutClash, InHand, AtOdds
<1>5. CommandInv'
  BY <1>2 DEF IInv, CommandInv, OnlyCmd, OnTheirWay, HeardIsObeyed, HeldCommandObeyed, AtOdds
<1>6. PressInv'
  BY <1>2 DEF IInv, PressInv, PressIsFresh, ClosingByPress, PressInHand, InHand
<1>7. QED
  BY <1>3, <1>4, <1>5, <1>6 DEF IInv

(* The width is looked at.                                                  *)
LEMMA TestWidthKeeps ==
  ASSUME IInv, UNCHANGED buttonVars, NEW t \in Threads, TestWidth(t)
  PROVE  IInv'
<1> USE DEF buttonVars, node, hand, history, Wide
<1>1. TypeOK /\ pc[t] = "status" /\ (quiet > 0 => job[t] = cmd)
  BY DEF IInv, TestWidth, CommandInv, OnlyCmd
<1>2. CASE WidthFits(job[t])
  <2>1. \A u \in Threads : pc'[u] = IF u = t THEN "test" ELSE pc[u]
    BY <1>1, <1>2 DEF TestWidth, Goto, TypeOK
  <2>2. TypeOK'
    BY <1>1, <1>2 DEF TestWidth, Goto, TypeOK
  <2>3. HoldsGoal' /\ NoOddsWithoutClash'
    BY <1>1, <1>2, <2>1 DEF TestWidth, IInv, HoldsGoal, NoOddsWithoutClash, InHand, AtOdds
  <2>4. CommandInv'
    BY <1>1, <1>2, <2>1 DEF TestWidth, IInv, CommandInv, OnlyCmd, OnTheirWay, HeardIsObeyed,
       HeldCommandObeyed, AtOdds
  <2>5. PressInv'
    BY <1>1, <1>2, <2>1 DEF TestWidth, IInv, PressInv, PressIsFresh, ClosingByPress,
       PressInHand, InHand
  <2>6. QED
    BY <2>2, <2>3, <2>4, <2>5 DEF IInv
<1>3. CASE ~WidthFits(job[t])
  <2>1. ASSUME quiet >= OpenWidth + 1
        PROVE  goal = cmd \/ (cmd = "open" /\ Wide)
    BY <1>1, <1>3, <2>1, WidthFitsInTime DEF TypeOK, OpenWidth, Settled
  <2>2. QED
    BY <1>1, <1>3, <2>1, ReturnKeeps DEF TestWidth
<1>4. QED
  BY <1>2, <1>3

(* Then close_state, which another thread may have set in between.          *)
LEMMA DecideStatusKeeps ==
  ASSUME IInv, UNCHANGED buttonVars, NEW t \in Threads, DecideStatus(t)
  PROVE  IInv'
<1> USE DEF buttonVars, node, hand, Wide
<1>1. TypeOK /\ pc[t] = "test" /\ (quiet > 0 => job[t] = cmd) /\ job[t] \in Ways
  BY DEF IInv, DecideStatus, CommandInv, OnlyCmd, HoldsGoal
<1>2. CASE closeState = (job[t] = "open")
  <2>1. /\ \A u \in Threads : pc'[u] = IF u = t THEN "send" ELSE pc[u]
        /\ job' = job /\ lastPress' = "none" /\ clash' = (clash \/ Opposed(job[t]))
        /\ clash' \in BOOLEAN
    BY <1>1, <1>2 DEF DecideStatus, Goto, TypeOK
  <2>2. TypeOK'
    BY <1>1, <1>2, <2>1 DEF DecideStatus, Goto, TypeOK
  <2>3. HoldsGoal'
    BY <1>1, <2>1 DEF IInv, HoldsGoal
  <2>4. NoOddsWithoutClash'
    <3>1. ~clash' => ~clash /\ \A u \in Threads : InHand(u) => job[u] = job[t]
      BY <2>1 DEF Opposed
    <3>2. QED
      BY <1>1, <2>1, <3>1 DEF DecideStatus, IInv, NoOddsWithoutClash, InHand, AtOdds
  <2>5. CommandInv'
    BY <1>1, <2>1 DEF DecideStatus, IInv, CommandInv, OnlyCmd, OnTheirWay, HeardIsObeyed,
       HeldCommandObeyed, AtOdds
  <2>6. PressInv'
    BY <1>1, <2>1 DEF DecideStatus, IInv, PressInv, PressIsFresh, ClosingByPress, PressInHand
  <2>7. QED
    BY <2>2, <2>3, <2>4, <2>5, <2>6 DEF IInv
<1>3. CASE closeState # (job[t] = "open")
  <2>1. ASSUME quiet >= OpenWidth + 1
        PROVE  goal = cmd \/ AtOdds
    <3>1. job[t] = cmd /\ cmd \in Ways /\ goal \in Ways /\ closeState \in BOOLEAN
      BY <1>1, <2>1 DEF TypeOK, OpenWidth, Settled
    <3>2. QED
      BY <1>3, <3>1 DEF AtOdds, Ways
  <2>2. QED
    BY <1>1, <1>3, <2>1, ReturnKeeps DEF DecideStatus, history
<1>4. QED
  BY <1>2, <1>3

(* A press after a press that closed the fingers finds them closed.         *)
LEMMA RightFindsClosed ==
  ASSUME IInv, NEW t \in Threads, DecideRight(t), lastPress = "close", ~Wide
  PROVE  job'[t] = "open"
<1>1. width \in 0 .. OpenWidth /\ width <= OpenThreshold
  BY DEF IInv, TypeOK, PressInv, ClosingByPress, DecideRight
<1>2. ~IsOpen
  BY <1>1 DEF IsOpen, OpenWidth, OpenThreshold
<1>3. QED
  BY <1>2 DEF DecideRight, IInv, TypeOK

LEMMA DecideRightKeeps ==
  ASSUME IInv, UNCHANGED buttonVars, NEW t \in Threads, DecideRight(t)
  PROVE  IInv'
<1> USE DEF buttonVars, node, hand, Wide
<1>1. TypeOK /\ pc[t] = "right" /\ rights = 0 /\ since = 0
  BY DEF IInv, DecideRight, PressInv, PressIsFresh
<1>2. PICK way \in Ways : /\ job' = [job EXCEPT ![t] = way]
                          /\ lastPress' = IF Opposed(way) THEN "none" ELSE way
                          /\ clash' = (clash \/ Opposed(way))
  BY DEF DecideRight
<1>3. /\ \A u \in Threads : pc'[u] = IF u = t THEN "send" ELSE pc[u]
      /\ \A u \in Threads : job'[u] = IF u = t THEN way ELSE job[u]
      /\ clash' \in BOOLEAN /\ quiet = 0 /\ quiet' = 0
      /\ \A u \in Threads : pc'[u] # "right"
  <2>1. \A u \in Threads : pc'[u] = IF u = t THEN "send" ELSE pc[u]
    BY <1>1 DEF DecideRight, Goto, TypeOK
  <2>2. \A u \in Threads : job'[u] = IF u = t THEN way ELSE job[u]
    BY <1>1, <1>2 DEF TypeOK
  <2>3. clash' \in BOOLEAN
    BY <1>1, <1>2 DEF TypeOK
  <2>4. quiet = 0 /\ quiet' = 0
    <3>1. quiet \in 0 .. Settled /\ ~(quiet > 0)
      BY <1>1 DEF IInv, TypeOK, CommandInv, OnlyCmd
    <3>2. QED
      BY <3>1 DEF DecideRight, Settled, OpenWidth
  <2>5. \A u \in Threads : pc'[u] # "right"
    BY <1>1, <2>1 DEF IInv, PressInv, PressIsFresh
  <2>6. QED
    BY <2>1, <2>2, <2>3, <2>4, <2>5
<1>4. TypeOK'
  <2>1. lastPress' \in Ways \cup {"none"}
    BY <1>2
  <2>2. job' \in [Threads -> Ways \cup {"none"}]
    BY <1>1, <1>2 DEF TypeOK
  <2>3. pc' \in [Threads -> {"idle", "status", "test", "right", "send", "set"}]
    BY <1>1 DEF DecideRight, Goto, TypeOK
  <2>4. QED
    BY <1>1, <1>3, <2>1, <2>2, <2>3 DEF DecideRight, TypeOK
<1>5. HoldsGoal'
  BY <1>3 DEF IInv, HoldsGoal
<1>6. NoOddsWithoutClash'
  <2>1. ~clash' => ~clash /\ \A u \in Threads : InHand(u) => job[u] = way
    BY <1>2 DEF Opposed
  <2>2. QED
    BY <1>1, <1>3, <2>1 DEF DecideRight, IInv, NoOddsWithoutClash, InHand, AtOdds
<1>7. CommandInv'
  BY <1>3 DEF CommandInv, OnlyCmd, OnTheirWay, HeardIsObeyed, HeldCommandObeyed, Settled,
     OpenWidth
<1>8. PressInv'
  <2>1. PressIsFresh'
    BY <1>1, <1>3 DEF DecideRight, PressIsFresh
  <2>2. ClosingByPress'
    BY <1>1, <1>3 DEF DecideRight, ClosingByPress
  <2>3. PressInHand'
    BY <1>2, <1>3 DEF PressInHand, InHand, Opposed
  <2>4. QED
    BY <2>1, <2>2, <2>3 DEF PressInv
<1>9. QED
  BY <1>4, <1>5, <1>6, <1>7, <1>8 DEF IInv

(* The goal goes out.                                                       *)
LEMMA SendKeeps ==
  ASSUME IInv, UNCHANGED buttonVars, NEW t \in Threads, Send(t)
  PROVE  IInv'
<1> USE DEF buttonVars, node, hand, history, Wide
<1>1. /\ TypeOK /\ pc[t] = "send" /\ job[t] \in Ways /\ goal' = job[t] /\ job' = job
      /\ quiet > 0 => job[t] = cmd
  BY DEF IInv, Send, CommandInv, OnlyCmd, HoldsGoal
<1>2. \A u \in Threads : pc'[u] = IF u = t THEN "set" ELSE pc[u]
  BY <1>1 DEF Send, Goto, TypeOK
<1>3. TypeOK'
  BY <1>1 DEF Send, Goto, TypeOK
<1>4. HoldsGoal'
  BY <1>1, <1>2 DEF IInv, HoldsGoal
<1>5. NoOddsWithoutClash'
  BY <1>1, <1>2 DEF Send, IInv, NoOddsWithoutClash, InHand
<1>6. CommandInv'
  <2>1. OnlyCmd'
    BY <1>1, <1>2 DEF Send, IInv, CommandInv, OnlyCmd
  <2>2. quiet' > 0 => goal' = cmd'
    BY <1>1 DEF Send
  <2>3. (OnTheirWay /\ HeardIsObeyed /\ HeldCommandObeyed)'
    BY <1>1, <2>2 DEF Send, TypeOK, OnTheirWay, HeardIsObeyed, HeldCommandObeyed, Settled,
       OpenWidth
  <2>4. QED
    BY <2>1, <2>3 DEF CommandInv
<1>7. PressInv'
  <2>1. PressIsFresh' /\ PressInHand'
    BY <1>1, <1>2 DEF Send, IInv, PressInv, PressIsFresh, PressInHand, InHand
  <2>2. lastPress = "close" => goal' = "close"
    BY <1>1 DEF IInv, PressInv, PressInHand, InHand
  <2>3. ClosingByPress'
    BY <1>1, <1>2, <2>2 DEF Send, IInv, PressInv, ClosingByPress
  <2>4. QED
    BY <2>1, <2>3 DEF PressInv
<1>8. QED
  BY <1>3, <1>4, <1>5, <1>6, <1>7 DEF IInv

(* Then close_state is set, and the callback returns.                       *)
LEMMA SetKeeps ==
  ASSUME IInv, UNCHANGED buttonVars, NEW t \in Threads, Set(t)
  PROVE  IInv'
<1> USE DEF buttonVars, node, hand, history, Wide
<1>1. /\ TypeOK /\ pc[t] = "set" /\ job[t] \in Ways /\ closeState' = (job[t] = "close")
      /\ quiet > 0 => goal = cmd
  BY DEF IInv, Set, CommandInv, OnlyCmd, HoldsGoal
<1>2. /\ \A u \in Threads : pc'[u] = IF u = t THEN "idle" ELSE pc[u]
      /\ \A u \in Threads : job'[u] = IF u = t THEN "none" ELSE job[u]
  BY <1>1 DEF Set, Return, Goto, TypeOK
<1>3. TypeOK'
  BY <1>1 DEF Set, Return, Goto, TypeOK
<1>4. HoldsGoal'
  BY <1>1, <1>2 DEF IInv, HoldsGoal
<1>5. NoOddsWithoutClash'
  BY <1>1, <1>2 DEF Set, IInv, NoOddsWithoutClash, InHand, AtOdds
<1>6. CommandInv'
  <2>1. OnlyCmd'
    BY <1>1, <1>2 DEF Set, IInv, CommandInv, OnlyCmd
  <2>2. (OnTheirWay /\ HeardIsObeyed /\ HeldCommandObeyed)'
    BY <1>1 DEF Set, TypeOK, OnTheirWay, HeardIsObeyed, HeldCommandObeyed, Settled, OpenWidth
  <2>3. QED
    BY <2>1, <2>2 DEF CommandInv
<1>7. PressInv'
  BY <1>1, <1>2 DEF Set, IInv, PressInv, PressIsFresh, ClosingByPress, PressInHand, InHand
<1>8. QED
  BY <1>3, <1>4, <1>5, <1>6, <1>7 DEF IInv

(* A joint state arrives, the teleoperator changes its mind, or what is     *)
(* between the fingers is exchanged or taken away.                          *)
LEMMA WorldKeeps ==
  ASSUME IInv, UNCHANGED buttonVars, Measure \/ Command \/ Place
  PROVE  IInv'
<1> USE DEF buttonVars, node, hand, history, OpenWidth, OpenThreshold, Settled, CoolDown,
    Wide
<1>1. TypeOK /\ pc' = pc /\ job' = job /\ clash' = clash /\ goal' = goal
        /\ closeState' = closeState /\ rights' = rights /\ since' = since
        /\ lastPress' \in {lastPress, "none"}
  BY DEF IInv, Measure, Command, Place
<1>2. HoldsGoal' /\ NoOddsWithoutClash' /\ PressIsFresh' /\ PressInHand'
  BY <1>1 DEF IInv, HoldsGoal, NoOddsWithoutClash, InHand, AtOdds, PressInv, PressIsFresh,
     PressInHand
<1>3. CASE Measure
  <2>1. TypeOK'
    BY <1>1, <1>3 DEF Measure, TypeOK
  <2>2. OnTheirWay'
    BY <1>1, <1>3 DEF Measure, IInv, CommandInv, OnTheirWay, TypeOK
  <2>3. (OnlyCmd /\ HeardIsObeyed /\ HeldCommandObeyed)'
    BY <1>1, <1>3 DEF Measure, IInv, CommandInv, OnlyCmd, HeardIsObeyed, HeldCommandObeyed,
       AtOdds
  <2>4. ClosingByPress'
    BY <1>1, <1>3 DEF Measure, IInv, PressInv, ClosingByPress, TypeOK
  <2>5. QED
    BY <1>2, <2>1, <2>2, <2>3, <2>4 DEF IInv, CommandInv, PressInv
<1>4. CASE Command
  <2>1. TypeOK'
    <3>1. heard' \in BOOLEAN
      BY <1>4 DEF Command
    <3>2. quiet' \in 0 .. Settled /\ cmd' \in Ways
      BY <1>4 DEF Command
    <3>3. QED
      BY <1>1, <1>4, <3>1, <3>2 DEF Command, TypeOK
  <2>2. CommandInv'
    BY <1>4 DEF Command, CommandInv, OnlyCmd, OnTheirWay, HeardIsObeyed, HeldCommandObeyed
  <2>3. ClosingByPress'
    BY <1>1, <1>4 DEF Command, IInv, PressInv, ClosingByPress
  <2>4. QED
    BY <1>2, <2>1, <2>2, <2>3 DEF IInv, PressInv
<1>5. CASE Place
  <2>1. TypeOK'
    <3>1. CASE goal = "close" /\ Wide
      <4>1. heard' = FALSE /\ quiet' = 0 /\ lastPress' = "none"
        BY <1>5, <3>1 DEF Place
      <4>2. heard' \in BOOLEAN /\ lastPress' \in Ways \cup {"none"}
        BY <4>1
      <4>3. quiet' \in 0 .. 10
        BY <4>1
      <4>4. QED
        BY <1>1, <1>5, <4>2, <4>3 DEF Place, TypeOK
    <3>2. CASE ~(goal = "close" /\ Wide)
      BY <1>1, <1>5, <3>2 DEF Place, TypeOK
    <3>3. QED
      BY <3>1, <3>2
  <2>2. CommandInv'
    <3>1. CASE goal = "close" /\ Wide
      BY <1>5, <3>1 DEF Place, CommandInv, OnlyCmd, OnTheirWay, HeardIsObeyed,
         HeldCommandObeyed
    <3>2. CASE ~(goal = "close" /\ Wide)
      <4>1. /\ pos' = pos /\ width' = width /\ cmd' = cmd
            /\ heard' = heard /\ quiet' = quiet
            /\ goal \in Ways /\ cmd \in Ways /\ object \in 0 .. 8
        BY <1>1, <1>5, <3>2, ObjectsAssumption DEF Place, TypeOK
      <4>2. OnlyCmd' /\ OnTheirWay'
        BY <1>1, <3>2, <4>1 DEF IInv, CommandInv, OnlyCmd, OnTheirWay, Ways
      <4>3. HeardIsObeyed' /\ HeldCommandObeyed'
        BY <1>1, <3>2, <4>1 DEF IInv, CommandInv, HeardIsObeyed, HeldCommandObeyed, AtOdds,
           Ways
      <4>4. QED
        BY <4>2, <4>3 DEF CommandInv
    <3>3. QED
      BY <3>1, <3>2
  <2>3. ClosingByPress'
    BY <1>1, <1>5 DEF Place, IInv, PressInv, ClosingByPress
  <2>4. QED
    BY <1>2, <2>1, <2>2, <2>3 DEF IInv, PressInv
<1>6. QED
  BY <1>3, <1>4, <1>5

-----------------------------------------------------------------------------
LEMMA StepKeeps ==
  ASSUME IInv, [Next]_vars
  PROVE  IInv'
<1>1. CASE AdapterStep /\ UNCHANGED buttonVars
  BY <1>1, TakeStatusKeeps, TakeRightKeeps, TestWidthKeeps, DecideStatusKeeps,
     DecideRightKeeps, SendKeeps, SetKeeps, WorldKeeps DEF AdapterStep, Callback
<1>2. CASE (NodeStep \/ PressOther) /\ UNCHANGED adapterVars
  BY <1>2, ButtonsKeep
<1>3. CASE Right
  BY <1>3, RightKeeps
<1>4. CASE Tick
  BY <1>4, TickKeeps
<1>5. CASE UNCHANGED vars
  BY <1>5, ButtonsKeep DEF vars
<1>6. QED
  BY <1>1, <1>2, <1>3, <1>4, <1>5 DEF Next

LEMMA Invariance == Spec => []IInv
<1>1. Init => IInv
  BY InitHolds
<1>2. IInv /\ [Next]_vars => IInv'
  BY StepKeeps
<1>3. QED
  BY <1>1, <1>2, PTL DEF Spec

(* On any number of threads, every variable of the adapter and of the       *)
(* buttons is of its kind, and at most one press waits for a callback.      *)
THEOREM TypeCorrect == Spec => []TypeOK
<1>1. IInv => TypeOK
  BY DEF IInv
<1>2. QED
  BY <1>1, Invariance, PTL

(* On any number of threads without a lock, close_state is what was last    *)
(* asked of the gripper, unless two of them had opposite goals in hand.     *)
THEOREM StateIsWhatWasAsked == Spec => []StateFollowsGoals
<1>1. IInv => StateFollowsGoals
  BY DEF IInv, NoOddsWithoutClash, StateFollowsGoals, Idle
<1>2. QED
  BY <1>1, Invariance, PTL

(* On any number of threads and for every set of objects, a command that is *)
(* kept for as long as the fingers may need is obeyed, unless close_state   *)
(* is at odds with the gripper or the command is to let go of an object so  *)
(* wide that the fingers around it count as open.                           *)
THEOREM KeptCommandsAreObeyed == Spec => []HeldCommandObeyed
<1>1. IInv => HeldCommandObeyed
  BY DEF IInv, CommandInv
<1>2. QED
  BY <1>1, Invariance, PTL

(* On any number of threads, the cool-down of the recorder node is long     *)
(* enough for the adapter: of two presses in a row the second never closes  *)
(* again, unless a wide object keeps the fingers counted as open.           *)
THEOREM PressesAlternate == Spec => PressReopens
<1>1. IInv /\ [Next]_vars =>
        [\A u \in Threads : DecideRight(u) /\ lastPress = "close" /\ ~Wide => job'[u] = "open"]_vars
  BY RightFindsClosed
<1>2. QED
  BY <1>1, Invariance, PTL DEF Spec, PressReopens
=============================================================================
