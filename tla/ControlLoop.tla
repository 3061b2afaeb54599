---------------------------- MODULE ControlLoop ----------------------------
(***************************************************************************)
(* What a Robot promises of its control or reading loop to the hardware     *)
(* interface that drives it, as long as one caller at a time does so:       *)
(* isStopped() is true only without a loop, a new loop is announced before  *)
(* it starts and only after the one before was stopped, a loop ends when it *)
(* was asked to or with the error flag set, and the process dies of a loop  *)
(* that an arm in error refuses or of an exception of libfranka's that      *)
(* nobody catches (a lost connection), and of nothing else.                 *)
(***************************************************************************)
CONSTANT Modes

VARIABLES
  stopped,   \* isStopped()
  due,       \* a loop has been announced and not started yet
  runs,      \* a loop runs
  mode,      \* of the running or last loop
  asked,     \* it has been asked to end
  error,     \* hasError()
  lost,      \* an exception of libfranka's was not caught
  alive      \* the process lives

loopVars == <<stopped, due, runs, mode, asked, error, lost, alive>>

Init ==
  /\ stopped = TRUE /\ due = FALSE /\ runs = FALSE /\ asked = FALSE
  /\ mode \in Modes /\ error \in BOOLEAN /\ lost = FALSE /\ alive = TRUE

Announce ==
  /\ stopped
  /\ stopped' = FALSE /\ due' = TRUE
  /\ UNCHANGED <<runs, mode, asked, error, lost, alive>>

Start ==
  /\ due
  /\ due' = FALSE /\ runs' = TRUE /\ mode' \in Modes
  /\ UNCHANGED <<stopped, asked, error, lost, alive>>

AskToEnd ==
  /\ ~stopped /\ ~due
  /\ asked' = TRUE
  /\ UNCHANGED <<stopped, due, runs, mode, error, lost, alive>>

End ==
  /\ runs /\ asked
  /\ runs' = FALSE
  /\ UNCHANGED <<stopped, due, mode, asked, error, lost, alive>>

(* The error is noticed, and the loop ends.                                 *)
Flag ==
  /\ runs
  /\ error' = TRUE
  /\ UNCHANGED <<stopped, due, runs, mode, asked, lost, alive>>

Fail ==
  /\ runs
  /\ runs' = FALSE /\ error' = TRUE
  /\ UNCHANGED <<stopped, due, mode, asked, lost, alive>>

Stop ==
  /\ asked /\ ~runs
  /\ asked' = FALSE /\ stopped' = TRUE
  /\ UNCHANGED <<due, runs, mode, error, lost, alive>>

(* A recovery.                                                              *)
Clear ==
  /\ error' = FALSE
  /\ UNCHANGED <<stopped, due, runs, mode, asked, lost, alive>>

(* libfranka refuses a new loop on an arm that is being read.               *)
Die ==
  /\ runs /\ error
  /\ runs' = FALSE /\ alive' = FALSE
  /\ UNCHANGED <<stopped, due, mode, asked, error, lost>>

(* A call to the arm, of the loop's thread or of its caller's, throws what  *)
(* nobody catches.                                                          *)
Lose ==
  /\ lost' = TRUE /\ alive' = FALSE
  /\ runs' \in {runs, FALSE}
  /\ UNCHANGED <<stopped, due, mode, asked, error>>

Next ==
  /\ alive
  /\ Announce \/ Start \/ AskToEnd \/ End \/ Flag \/ Fail \/ Stop \/ Clear \/ Die \/ Lose

Spec == Init /\ [][Next]_loopVars

=============================================================================
