----------------------------- MODULE MCServices -----------------------------
(* TLC instance of the four components of Services, which are small enough *)
(* to share a run: the first state says whose behaviour it begins, and the *)
(* others stay as they are.                                                *)
EXTENDS Services

CONSTANTS c1, c2, w1, w2, high, low, s1, s2, r1, r2

VARIABLE part

-----------------------------------------------------------------------------
(* A policy with a short cooldown whose rules may fail to load, and a      *)
(* healthy one that outlasts the grace.                                    *)
ShortAndLong == [p \in Policies |-> IF p = high THEN 3 ELSE 5]
PushAndClear == [p \in Policies |-> IF p = high THEN "push_rules" ELSE "clear_rules"]

ASSUME ServicesAssumption ==
  Policy!ConstantsOK /\ Watch!ConstantsOK /\ Process!ConstantsOK

-----------------------------------------------------------------------------
all == <<vars, part, policyVars, watchVars, processVars>>

(* The parts that stay as they are do so in one of their initial states,   *)
(* one that is no counterexample to what they promise.                     *)
ServicesInit ==
  /\ part \in {"broker", "policy", "watch", "process"}
  /\ Init
  /\ Policy!Init /\ (part # "policy" => stored = {} /\ met = {})
  /\ Watch!Init /\ (part # "watch" => ~metric)
  /\ Process!Init /\ (part # "process" => applied = {})

(* Step A of part p.                                                       *)
Of(p, A) ==
  /\ part = p /\ A /\ UNCHANGED part
  /\ IF p = "broker" THEN TRUE ELSE UNCHANGED vars
  /\ IF p = "policy" THEN TRUE ELSE UNCHANGED policyVars
  /\ IF p = "watch" THEN TRUE ELSE UNCHANGED watchVars
  /\ IF p = "process" THEN TRUE ELSE UNCHANGED processVars

ServicesNext ==
  \/ Of("broker", Next)
  \/ Of("policy", Policy!Next)
  \/ Of("watch", Watch!Next)
  \/ Of("process", Process!Next)

(* The fairness each part states in its LiveSpec.  Since only the steps of *)
(* one part can be enabled, being fair to a step of each is being fair to  *)
(* their union; the steps that need it are lined up for that.              *)
Weakly1 ==
  \/ Of("broker", Broadcasting(w1))
  \/ Of("policy", Policy!Elapse)
  \/ Of("watch", Watch!Elapse)
  \/ Of("process", Process!Advance(s1))

Weakly2 ==
  \/ Of("broker", Broadcasting(w2))
  \/ Of("policy", Policy!TakeTick)
  \/ Of("watch", Watch!Loop)
  \/ Of("process", Process!Advance(s2))

Weakly3 ==
  \/ Of("policy", Policy!TickDone)
  \/ Of("process", Process!Answer(r1))

Strongly1 ==
  \/ Of("broker", Unsubscribe(c1))
  \/ Of("policy", Policy!ListEnabled /\ pPc' = "evaluate")
  \/ Of("watch", Watch!TakeDone)

Strongly2 == Of("broker", Unsubscribe(c2))

ServicesSpec ==
  /\ ServicesInit /\ [][ServicesNext]_all
  /\ WF_all(Weakly1) /\ WF_all(Weakly2) /\ WF_all(Weakly3)
  /\ WF_all(Of("policy", Policy!Handle(high))) /\ WF_all(Of("policy", Policy!Handle(low)))
  /\ SF_all(Strongly1) /\ SF_all(Strongly2)

-----------------------------------------------------------------------------
(* A process comes up or stops (main.go).                                  *)
ComesUpOrStops ==
  \A s \in {s1, s2} : <>[](part = "process" => sPc[s] \in {"serve", "stopped"})
=============================================================================
