--------------------------- MODULE RulePushProofs ---------------------------
(* Proofs about RulePush, for any instances, operations and concurrency.   *)
EXTENDS RulePush, FiniteSetTheorems, TLAPS

(* TypeOK, and that the calls of a fan-out can be counted.                 *)
TypeInv ==
  /\ TypeOK
  /\ \A o \in Ops : /\ IsFiniteSet(inflight[o])
                    /\ pc[o] # "fanout" => todo[o] = {} /\ inflight[o] = {}

LEMMA TypeInit == Init => TypeInv
BY NoOpAssumption, PushAssumption, FS_EmptySet DEF Init, TypeInv, TypeOK, Ages

(* A call is made only below the limit, and of an instance once.           *)
LEMMA SpawnType ==
  ASSUME TypeInv, NEW o \in Ops, NEW i \in Instances, Spawn(o, i)
  PROVE  TypeInv'
<1>1. /\ pc[o] = "fanout" /\ i \in todo[o] /\ Cardinality(inflight[o]) < Concurrency
      /\ todo' = [todo EXCEPT ![o] = @ \ {i}]
      /\ inflight' = [inflight EXCEPT ![o] = @ \cup {i}]
      /\ UNCHANGED <<intent, row, age, proc, told, left, pc, seen>>
  BY DEF Spawn, store, inst
<1>2. IsFiniteSet(inflight[o]) /\ Cardinality(inflight[o]) \in Nat /\ i \notin inflight[o]
  BY <1>1, FS_CardinalityType DEF TypeInv, TypeOK
<1>3. /\ IsFiniteSet(inflight[o] \cup {i})
      /\ Cardinality(inflight[o] \cup {i}) = Cardinality(inflight[o]) + 1
  BY <1>2, FS_AddElement
<1>4. /\ Cardinality(inflight'[o]) <= Concurrency /\ IsFiniteSet(inflight'[o])
      /\ todo'[o] \cap inflight'[o] = {}
  BY <1>1, <1>2, <1>3, PushAssumption DEF TypeInv, TypeOK
<1> QED BY <1>1, <1>4 DEF TypeInv, TypeOK

LEMMA CallEndsType ==
  ASSUME TypeInv, NEW o \in Ops, NEW i \in Instances, CallEnds(o, i)
  PROVE  TypeInv'
<1>1. /\ i \in inflight[o] /\ inflight' = [inflight EXCEPT ![o] = @ \ {i}]
      /\ UNCHANGED <<intent, row, age, proc, told, left, pc, todo, seen>>
  BY DEF CallEnds, store, inst
<1>2. IsFiniteSet(inflight[o]) /\ Cardinality(inflight[o]) \in Nat
  BY FS_CardinalityType DEF TypeInv
<1>3. /\ IsFiniteSet(inflight[o] \ {i})
      /\ Cardinality(inflight[o] \ {i}) = Cardinality(inflight[o]) - 1
  BY <1>1, <1>2, FS_RemoveElement
<1>4. pc[o] = "fanout"
  BY <1>1 DEF TypeInv, TypeOK
<1>5. Cardinality(inflight'[o]) <= Concurrency /\ IsFiniteSet(inflight'[o])
  BY <1>1, <1>2, <1>3, PushAssumption DEF TypeInv, TypeOK
<1> QED BY <1>1, <1>4, <1>5 DEF TypeInv, TypeOK

LEMMA OperationTypes ==
  ASSUME TypeInv, NEW o \in Ops, PushRules(o) \/ Resolve(o) \/ Return(o)
  PROVE  TypeInv'
<1> USE DEF TypeInv, TypeOK
<1>1. CASE PushRules(o)
  BY <1>1 DEF PushRules, store, inst
<1>2. CASE Resolve(o)
  <2>1. Targets \in SUBSET Instances
    BY DEF Targets
  <2>2. /\ pc[o] = "resolve" /\ inflight[o] = {} /\ UNCHANGED <<intent, store, inst, inflight>>
        /\ seen' \subseteq Instances
    BY <1>2 DEF Resolve
  <2>3. CASE todo' = [todo EXCEPT ![o] = Targets] /\ pc' = [pc EXCEPT ![o] = "fanout"]
    BY <2>1, <2>2, <2>3 DEF store, inst
  <2>4. CASE todo' = todo /\ pc' = [pc EXCEPT ![o] = "failed"]
    BY <2>2, <2>4 DEF store, inst
  <2> QED BY <1>2, <2>3, <2>4 DEF Resolve
<1>3. CASE Return(o)
  BY <1>3 DEF Return, store, inst
<1> QED BY <1>1, <1>2, <1>3

LEMMA InstanceTypes ==
  ASSUME TypeInv, NEW i \in Instances, Instance(i)
  PROVE  TypeInv'
<1> USE DEF TypeInv, TypeOK, store, inst, calls, Ages
<1>1. CASE Start(i)
  <2>1. left[i] - 1 \in 0 .. Starts
    BY <1>1, PushAssumption DEF Start
  <2>2. /\ proc' = [proc EXCEPT ![i] = "request"] /\ left' = [left EXCEPT ![i] = left[i] - 1]
        /\ told' = [told EXCEPT ![i] = NoOp] /\ UNCHANGED <<intent, store, calls, seen>>
    BY <1>1 DEF Start
  <2> QED BY <2>1, <2>2
<1>2. CASE RegisterRow(i) \/ RegisterIntent(i) \/ LoseReply(i)
  BY <1>2 DEF RegisterRow, RegisterIntent, LoseReply
<1>3. CASE Die(i) \/ Deregister(i)
  BY <1>3 DEF Die, Deregister
<1>4. CASE TouchPoll(i) \/ Ageing(i)
  BY <1>4 DEF TouchPoll, Ageing
<1> QED BY <1>1, <1>2, <1>3, <1>4 DEF Instance

LEMMA TypeStep == TypeInv /\ [Next]_vars => TypeInv'
<1> SUFFICES ASSUME TypeInv, [Next]_vars PROVE TypeInv'
  OBVIOUS
<1>1. CASE UNCHANGED vars
  BY <1>1 DEF vars, TypeInv, TypeOK
<1>2. CASE \E o \in Ops : PushRules(o) \/ Proceed(o)
  BY <1>2, OperationTypes, SpawnType, CallEndsType DEF Proceed
<1>3. CASE \E i \in Instances : Instance(i)
  BY <1>3, InstanceTypes
<1>4. CASE PurgeDead
  BY <1>4 DEF PurgeDead, inst, calls, TypeInv, TypeOK
<1>5. CASE Crash
  BY <1>5, FS_EmptySet, PushAssumption DEF Crash, store, TypeInv, TypeOK
<1> QED BY <1>1, <1>2, <1>3, <1>4, <1>5 DEF Next

(* The types, and that no fan-out, however many run at once, ever has more *)
(* than Concurrency calls in flight.                                       *)
THEOREM TypeCorrect == Spec => []TypeOK
<1>1. TypeInv => TypeOK
  BY DEF TypeInv
<1> QED BY TypeInit, TypeStep, <1>1, PTL DEF Spec

-----------------------------------------------------------------------------

(* What NobodyMissed rests on: types, and the obligation itself, which is  *)
(* inductive because an instance leaves seen only to read the intent.      *)
Types ==
  /\ pc \in [Ops -> {"idle", "resolve", "fanout", "failed", "done"}]
  /\ proc \in [Instances -> {"down", "request", "row", "up"}]
  /\ told \in [Instances -> Ops \cup {NoOp}]
  /\ intent \in Ops \cup {NoOp}
  /\ row \subseteq Instances
  /\ seen \subseteq Instances

IInv == Types /\ NobodyMissed

LEMMA InitInv == Init => IInv
BY NoOpAssumption DEF Init, IInv, Types, NobodyMissed

(* Steps that leave the intent, the operations and the histories alone.    *)
LEMMA CallSteps ==
  ASSUME IInv, NEW o \in Ops, NEW i \in Instances, Spawn(o, i) \/ CallEnds(o, i)
  PROVE  IInv'
BY DEF IInv, Types, NobodyMissed, Spawn, CallEnds, store, inst

LEMMA OperationSteps ==
  ASSUME IInv, NEW o \in Ops, PushRules(o) \/ Resolve(o) \/ Return(o)
  PROVE  IInv'
<1> USE DEF IInv
<1>1. CASE PushRules(o)
  <2>1. Types'
    BY <1>1 DEF PushRules, Types, store, inst
  <2>2. intent' = o /\ pc'[o] = "resolve"
    BY <1>1 DEF PushRules, Types
  <2>3. NobodyMissed'
    BY <2>2 DEF NobodyMissed
  <2> QED BY <2>1, <2>3
<1>2. CASE Resolve(o)
  <2>1. Types'
    BY <1>2 DEF Resolve, Types, store, inst
  <2>2. UNCHANGED <<intent, row, told, proc>> /\ \A p \in Ops \ {o} : pc'[p] = pc[p]
    BY <1>2 DEF Resolve, Types, store, inst
  <2>3. CASE pc'[o] = "failed" /\ UNCHANGED seen
    BY <2>1, <2>2, <2>3 DEF NobodyMissed, Types
  <2>4. CASE pc'[o] = "fanout" /\ seen' = IF intent = o THEN row ELSE seen
    BY <2>1, <2>2, <2>4 DEF NobodyMissed, Types
  <2>5. \/ pc'[o] = "failed" /\ UNCHANGED seen
        \/ pc'[o] = "fanout" /\ seen' = IF intent = o THEN row ELSE seen
    BY <1>2 DEF Resolve, Types
  <2> QED BY <2>3, <2>4, <2>5
<1>3. CASE Return(o)
  <2>1. Types'
    BY <1>3 DEF Return, Types, store, inst
  <2>2. /\ UNCHANGED <<intent, row, told, proc, seen>> /\ pc[o] = "fanout"
        /\ \A p \in Ops \ {o} : pc'[p] = pc[p]
    BY <1>3 DEF Return, Types, store, inst
  <2> QED BY <2>1, <2>2 DEF NobodyMissed
<1> QED BY <1>1, <1>2, <1>3

LEMMA InstanceSteps ==
  ASSUME IInv, NEW i \in Instances, Instance(i)
  PROVE  IInv'
<1> USE DEF IInv
<1>1. UNCHANGED <<intent, pc>>
  BY DEF Instance, Start, RegisterRow, RegisterIntent, LoseReply, Die, Deregister,
         TouchPoll, Ageing, calls
<1>2. CASE Start(i) \/ LoseReply(i) \/ Die(i)
  <2>1. /\ UNCHANGED <<row, seen>> /\ proc'[i] # "up" /\ Types'
        /\ \A j \in Instances \ {i} : proc'[j] = proc[j] /\ told'[j] = told[j]
    BY <1>1, <1>2 DEF Start, LoseReply, Die, Types, store, calls
  <2> QED BY <1>1, <2>1 DEF NobodyMissed, Types
<1>3. CASE RegisterRow(i)
  <2>1. /\ row' = row \cup {i} /\ seen' = seen \ {i} /\ proc'[i] = "row"
        /\ UNCHANGED told /\ Types' /\ \A j \in Instances \ {i} : proc'[j] = proc[j]
    BY <1>1, <1>3 DEF RegisterRow, Types
  <2> QED BY <1>1, <2>1 DEF NobodyMissed, Types
<1>4. CASE RegisterIntent(i)
  <2>1. /\ UNCHANGED <<row, seen>> /\ told'[i] = intent /\ Types'
        /\ \A j \in Instances \ {i} : proc'[j] = proc[j] /\ told'[j] = told[j]
    BY <1>1, <1>4 DEF RegisterIntent, Types, store, calls
  <2> QED BY <1>1, <2>1 DEF NobodyMissed, Types
<1>5. CASE Deregister(i) \/ TouchPoll(i) \/ Ageing(i)
  <2>1. /\ row' \subseteq row \ (IF proc' = proc THEN {} ELSE {i})
        /\ UNCHANGED <<seen, told>> /\ Types'
        /\ \A j \in Instances \ {i} : proc'[j] = proc[j]
    BY <1>1, <1>5 DEF Deregister, TouchPoll, Ageing, Types, inst, calls
  <2> QED BY <1>1, <2>1 DEF NobodyMissed, Types
<1> QED BY <1>2, <1>3, <1>4, <1>5 DEF Instance

LEMMA ServerSteps == IInv /\ (PurgeDead \/ Crash) => IInv'
<1> SUFFICES ASSUME IInv, PurgeDead \/ Crash PROVE IInv'
  OBVIOUS
<1> USE DEF IInv
<1>1. CASE PurgeDead
  BY <1>1 DEF PurgeDead, Types, NobodyMissed, inst, calls
<1>2. CASE Crash
  <2>1. Types'
    BY <1>2 DEF Crash, Types, store
  <2>2. intent' = NoOp
    BY <1>2 DEF Crash
  <2> QED BY <2>1, <2>2, NoOpAssumption DEF NobodyMissed
<1> QED BY <1>1, <1>2

LEMMA Step == IInv /\ [Next]_vars => IInv'
<1> SUFFICES ASSUME IInv, [Next]_vars PROVE IInv'
  OBVIOUS
<1>1. CASE UNCHANGED vars
  BY <1>1 DEF vars, IInv, Types, NobodyMissed
<1>2. CASE \E o \in Ops : PushRules(o) \/ Proceed(o)
  BY <1>2, OperationSteps, CallSteps DEF Proceed
<1>3. CASE \E i \in Instances : Instance(i)
  BY <1>3, InstanceSteps
<1>4. CASE PurgeDead \/ Crash
  BY <1>4, ServerSteps
<1> QED BY <1>1, <1>2, <1>3, <1>4 DEF Next

(* No instance with a row is missed by an operation whose intent stands:   *)
(* it was listed, or its registration told it; for any number of           *)
(* instances and of overlapping operations, crashes and restarts.          *)
THEOREM NobodyMissedHolds == Spec => []NobodyMissed
<1>1. IInv => NobodyMissed
  BY DEF IInv
<1> QED BY InitInv, Step, <1>1, PTL DEF Spec
=============================================================================
