--------------------------- MODULE MCRunLifecycle ---------------------------
(* TLC instances of RunLifecycle: the calls are interchangeable.           *)
EXTENDS RunLifecycle, TLC

CallSymmetry == Permutations(Calls)

(* Bounds on RunSerial, whose three calls and crash multiply what may go   *)
(* wrong: once a driver has been early, an old Zeus has made up an ID or a *)
(* client hangs up, no crash and no third call; and of the executions with *)
(* a crash and all three calls, only those in which a cancelled driver     *)
(* does not outlive its pause into the next launch.                        *)
Crashed   == \E b \in Boots : ~At(<<b, "call">>, "idle")
AllMade   == \A c \in Calls : ~At(<<c, "call">>, "idle")
Ticked    == "early" \in lapses
MadeUp    == \E l \in Launch : zeus[<<l, "zeus">>] # "none"
Hung      == \E c \in Calls : Cancelled(<<c, "call">>)
Launching == {"load", "push", "setRunning", "append", "zeusStart", "saveIDs", "spawn", "register"}
Outlived  == \E g \in Drivers, c \in Calls :
               Live(g) /\ Cancelled(g) /\ pc[<<c, "call">>] \in Launching

FewAtOnce == /\ Ticked \/ MadeUp \/ Hung => ~Crashed /\ ~AllMade
             /\ Crashed /\ AllMade => ~Outlived
=============================================================================
