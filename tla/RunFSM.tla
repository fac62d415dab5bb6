------------------------------- MODULE RunFSM -------------------------------
(***************************************************************************)
(* What an experiment run promises: the run state machine documented with  *)
(* model.ExperimentRun,                                                    *)
(*     pending -> running -> completed, running -> paused -> running,      *)
(*     running -> failed,                                                  *)
(* with the phases of a running run entered one after the other.  As in    *)
(* the code, StopRun also ends a run that is pending or paused.            *)
(*                                                                         *)
(* The code keeps to it as long as nothing goes out of order.  lapses says *)
(* what has: once a driver has acted "early", before its launch registered *)
(* it, an ended run may come back to life (Revive); once a cancelled       *)
(* watcher has taken the place of the run's present one ("takeover"), the  *)
(* phase may be entered out of turn.  Until then both are impossible, and  *)
(* neither lapse allows what only the other one does.                      *)
(***************************************************************************)
EXTENDS Integers

CONSTANT NumPhases

VARIABLES status, phase, lapses

Terminal == {"completed", "failed"}

Init == status = "pending" /\ phase = 0 /\ lapses = {}

Begin ==
  /\ status \in {"pending", "paused"}
  /\ status' = "running"
  /\ UNCHANGED <<phase, lapses>>

Pause ==
  /\ status = "running"
  /\ status' = "paused"
  /\ UNCHANGED <<phase, lapses>>

(* The next phase; after a takeover the watcher that goes on may be behind *)
(* the row, or ahead of it.                                                *)
EnterPhase ==
  \/ phase' = phase + 1 /\ phase' < NumPhases
  \/ "takeover" \in lapses /\ phase' \in 1 .. NumPhases - 1

NextPhase ==
  /\ status = "running"
  /\ EnterPhase
  /\ UNCHANGED <<status, lapses>>

End ==
  /\ status \notin Terminal
  /\ status' \in Terminal
  /\ UNCHANGED <<phase, lapses>>

(* An early driver has ended the run, and what was still under way writes  *)
(* over that: PauseRun, or a watcher entering the next phase.              *)
Revive ==
  /\ "early" \in lapses
  /\ status \in Terminal
  /\ \/ status' = "paused" /\ UNCHANGED phase
     \/ status' = "running" /\ EnterPhase
  /\ UNCHANGED lapses

(* Something goes out of order: that step alone changes nothing else.      *)
Lapse ==
  /\ lapses \subseteq lapses'
  /\ UNCHANGED <<status, phase>>

Next == Begin \/ Pause \/ NextPhase \/ End \/ Revive \/ Lapse

Spec == Init /\ [][Next]_<<status, phase, lapses>>
=============================================================================
