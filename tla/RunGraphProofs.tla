--------------------------- MODULE RunGraphProofs ---------------------------
(* ValidateRunGraph lets only runnable graphs through: for every set of    *)
(* runs, every graph over them and every order of the search.              *)
EXTENDS RunGraph, SequenceTheorems, TLAPS

Same(r, d) == d \in elsewhere <=> r \in elsewhere

(* A visited run is done with: what it names is visited and of the same    *)
(* experiment, and the visited runs have no cycle among them.              *)
VisitedClosed ==
  \A r \in visited : deps[r] \subseteq visited /\ \A d \in deps[r] : Same(r, d)

(* What a call in progress has done with is visited, but for the run it is *)
(* waiting for, the next on the stack.                                     *)
FrameDone(i) ==
  \A d \in deps[stack[i].run] \ stack[i].todo :
    /\ d \in visited \/ (i < Len(stack) /\ d = stack[i + 1].run)
    /\ Same(stack[i].run, d)

StackDone == \A i \in 1..Len(stack) : FrameDone(i)

(* The calls in progress are of different runs, those of onPath.           *)
PathIsStack ==
  /\ onPath \cap visited = {}
  /\ \A i \in 1..Len(stack) : stack[i].run \in onPath
  /\ \A i, j \in 1..Len(stack) : stack[i].run = stack[j].run => i = j

SearchInv ==
  /\ TypeOK /\ VisitedClosed /\ Grounded(visited) /\ StackDone /\ PathIsStack
  /\ verdict = "ok" => visited = Runs

LEMMA FrameFacts ==
  ASSUME NEW r \in Runs, NEW S \in SUBSET (Runs \cup Others)
  PROVE  /\ [run |-> r, todo |-> S] \in Frames
         /\ [run |-> r, todo |-> S].run = r /\ [run |-> r, todo |-> S].todo = S
BY DEF Frames

(* The stack after its top was popped, or its todo cut.                    *)
LEMMA StackFacts ==
  ASSUME TypeOK, stack # <<>>
  PROVE  /\ Len(stack) \in Nat \ {0} /\ Top \in Frames /\ Top.run \in Runs
         /\ Top.todo \subseteq Runs \cup Others /\ Top = stack[Len(stack)]
         /\ Rest \in Seq(Frames) /\ Len(Rest) = Len(stack) - 1
         /\ \A i \in 1..Len(Rest) : Rest[i] = stack[i]
         /\ \A i \in 1..Len(stack) : stack[i] \in Frames
<1>1. stack \in Seq(Frames) /\ Len(stack) \in Nat /\ Len(stack) # 0
  BY DEF TypeOK
<1>2. \A i \in 1..Len(stack) : stack[i] \in Frames
  BY <1>1
<1>3. Top \in Frames
  BY <1>1, <1>2 DEF Top
<1>4. Rest \in Seq(Frames) /\ Len(Rest) = Len(stack) - 1 /\ \A i \in 1..Len(Rest) : Rest[i] = stack[i]
  <2>1. \A i \in 1..(Len(stack) - 1) : stack[i] \in Frames
    BY <1>1, <1>2
  <2> DEFINE m == Len(stack) - 1
  <2>2. m \in Nat /\ m \in Int /\ 1 \in Int /\ \A i \in 1..m : stack[i] \in Frames
    BY <1>1, <2>1
  <2> HIDE DEF m
  <2>3. /\ SubSeq(stack, 1, m) \in Seq(Frames)
        /\ Len(SubSeq(stack, 1, m)) = IF 1 <= m THEN m - 1 + 1 ELSE 0
        /\ \A i \in 1..(m - 1 + 1) : SubSeq(stack, 1, m)[i] = stack[1 + i - 1]
    BY <2>2, SubSeqProperties
  <2>4. Len(SubSeq(stack, 1, m)) = m
    BY <2>2, <2>3
  <2>5. \A i \in 1..m : i \in 1..(m - 1 + 1) /\ 1 + i - 1 = i
    BY <2>2
  <2>6. \A i \in 1..m : SubSeq(stack, 1, m)[i] = stack[i]
    BY <2>3, <2>5, Zenon
  <2> QED BY <2>3, <2>4, <2>6, Zenon DEF Rest, m
<1> QED BY <1>1, <1>2, <1>3, <1>4 DEF Frames, Top

LEMMA CallerFacts ==
  ASSUME TypeOK, stack # <<>>, NEW d
  PROVE  /\ Caller(d) \in Seq(Frames) /\ Len(Caller(d)) = Len(stack)
         /\ \A i \in 1..(Len(stack) - 1) : Caller(d)[i] = stack[i]
         /\ Caller(d)[Len(stack)].run = Top.run
         /\ Caller(d)[Len(stack)].todo = Top.todo \ {d}
<1> DEFINE f == [run |-> Top.run, todo |-> Top.todo \ {d}]
<1>1. f \in Frames /\ f.run = Top.run /\ f.todo = Top.todo \ {d}
  BY StackFacts, FrameFacts
<1> HIDE DEF f
<1>2. Caller(d) = Append(Rest, f)
  BY DEF Caller, f
<1>3. /\ Append(Rest, f) \in Seq(Frames) /\ Len(Append(Rest, f)) = Len(stack)
      /\ \A i \in 1..(Len(stack) - 1) : Append(Rest, f)[i] = stack[i]
      /\ Append(Rest, f)[Len(stack)] = f
  BY <1>1, StackFacts
<1> QED BY <1>1, <1>2, <1>3

LEMMA PushFacts ==
  ASSUME TypeOK, NEW s \in Seq(Frames), NEW r \in Runs
  PROVE  /\ Append(s, Frame(r)) \in Seq(Frames) /\ Len(Append(s, Frame(r))) = Len(s) + 1
         /\ \A i \in 1..Len(s) : Append(s, Frame(r))[i] = s[i]
         /\ Append(s, Frame(r))[Len(s) + 1].run = r
         /\ Append(s, Frame(r))[Len(s) + 1].todo = deps[r]
<1>1. Frame(r) \in Frames /\ Frame(r).run = r /\ Frame(r).todo = deps[r]
  BY FrameFacts DEF Frame, TypeOK
<1> QED BY <1>1

(* What each step of the search makes of the stack.                        *)
LEMMA RootStack ==
  ASSUME TypeOK, NEW r \in Runs, Root(r)
  PROVE  /\ stack' \in Seq(Frames) /\ Len(stack') = 1
         /\ stack'[1].run = r /\ stack'[1].todo = deps[r]
<1> DEFINE f == Frame(r)
<1>1. stack' = <<f>>
  BY DEF Root
<1>2. f \in Frames /\ f.run = r /\ f.todo = deps[r]
  BY FrameFacts DEF Frame, TypeOK
<1> HIDE DEF f
<1>3. <<f>> \in Seq(Frames) /\ Len(<<f>>) = 1 /\ <<f>>[1] = f
  BY <1>2
<1> QED BY <1>1, <1>2, <1>3

LEMMA SkipStack ==
  ASSUME TypeOK, NEW d, Skip(d)
  PROVE  LET n == Len(stack) IN
         /\ n \in Nat \ {0} /\ stack' \in Seq(Frames) /\ Len(stack') = n
         /\ \A i \in 1..(n - 1) : stack'[i] = stack[i]
         /\ stack'[n].run = stack[n].run /\ stack'[n].todo = stack[n].todo \ {d}
<1>1. stack' = Caller(d) /\ stack # <<>>
  BY DEF Skip, Upcoming
<1> QED BY <1>1, CallerFacts, StackFacts

LEMMA DescendStack ==
  ASSUME TypeOK, NEW d, Descend(d)
  PROVE  LET n == Len(stack) IN
         /\ n \in Nat \ {0} /\ stack' \in Seq(Frames) /\ Len(stack') = n + 1
         /\ \A i \in 1..(n - 1) : stack'[i] = stack[i]
         /\ stack'[n].run = stack[n].run /\ stack'[n].todo = stack[n].todo \ {d}
         /\ stack'[n + 1].run = d /\ stack'[n + 1].todo = deps[d]
<1> DEFINE n == Len(stack)
           c == Caller(d)
<1>1. stack' = Append(c, Frame(d)) /\ stack # <<>> /\ d \in Runs
  BY DEF Descend, Upcoming
<1>2. /\ c \in Seq(Frames) /\ Len(c) = n /\ n \in Nat \ {0}
      /\ \A i \in 1..(n - 1) : c[i] = stack[i]
      /\ c[n].run = stack[n].run /\ c[n].todo = stack[n].todo \ {d}
  BY <1>1, CallerFacts, StackFacts
<1> HIDE DEF c
<1>3. /\ Append(c, Frame(d)) \in Seq(Frames) /\ Len(Append(c, Frame(d))) = Len(c) + 1
      /\ \A i \in 1..Len(c) : Append(c, Frame(d))[i] = c[i]
      /\ Append(c, Frame(d))[Len(c) + 1].run = d
      /\ Append(c, Frame(d))[Len(c) + 1].todo = deps[d]
  BY <1>1, <1>2, PushFacts
<1>4. /\ stack' \in Seq(Frames) /\ Len(stack') = n + 1
      /\ \A i \in 1..n : stack'[i] = c[i]
      /\ stack'[n + 1].run = d /\ stack'[n + 1].todo = deps[d]
  BY <1>1, <1>2, <1>3
<1> QED BY <1>2, <1>4

LEMMA LeaveStack ==
  ASSUME TypeOK, Leave
  PROVE  LET n == Len(stack) IN
         /\ n \in Nat \ {0} /\ stack[n].run \in Runs
         /\ stack' \in Seq(Frames) /\ Len(stack') = n - 1
         /\ \A i \in 1..(n - 1) : stack'[i] = stack[i]
<1>1. stack' = Rest /\ stack # <<>>
  BY DEF Leave
<1> QED BY <1>1, StackFacts

(* Adding a run to runs that have no cycle makes none, if it depends only  *)
(* on them and none of them on it.                                         *)
LEMMA GroundedExtends ==
  ASSUME TypeOK, NEW S \in SUBSET Runs, Grounded(S), \A q \in S : deps[q] \subseteq S,
         NEW r \in Runs \ S, deps[r] \subseteq S
  PROVE  Grounded(S \cup {r})
<1> SUFFICES ASSUME NEW T \in SUBSET (S \cup {r}), T # {}
             PROVE  \E q \in T : deps[q] \cap T = {}
  BY DEF Grounded
<1>1. CASE T \subseteq {r}
  <2>1. deps[r] \cap T = {} /\ r \in T
    BY <1>1
  <2> QED BY <2>1
<1>2. CASE ~(T \subseteq {r})
  <2>1. PICK q \in T \ {r} : deps[q] \cap (T \ {r}) = {}
    <3>1. T \ {r} \in SUBSET S /\ T \ {r} # {}
      BY <1>2
    <3> QED BY <3>1 DEF Grounded
  <2>2. r \notin deps[q]
    BY <2>1
  <2> QED BY <2>1, <2>2
<1> QED BY <1>1, <1>2

-----------------------------------------------------------------------------
LEMMA SearchInit == Init => SearchInv
<1> SUFFICES ASSUME Init PROVE SearchInv
  OBVIOUS
<1>1. stack \in Seq(Frames) /\ Len(stack) = 0
  <2>1. stack = <<>>
    BY DEF Init
  <2> QED BY <2>1, EmptySeq
<1>2. TypeOK
  BY <1>1 DEF Init, TypeOK, Verdicts
<1>3. StackDone /\ PathIsStack
  <2>1. 1..Len(stack) = {}
    BY <1>1
  <2>2. onPath = {}
    BY DEF Init
  <2> QED BY <2>1, <2>2 DEF StackDone, PathIsStack
<1>4. VisitedClosed /\ Grounded(visited) /\ verdict # "ok"
  BY DEF Init, VisitedClosed, Grounded
<1> QED BY <1>2, <1>3, <1>4 DEF SearchInv

LEMMA SearchStep == SearchInv /\ [Next]_vars => SearchInv'
<1> SUFFICES ASSUME SearchInv, [Next]_vars PROVE SearchInv'
  OBVIOUS
<1>0. TypeOK
  BY DEF SearchInv
<1>1. ASSUME UNCHANGED <<graph, search>>, unchecked' \subseteq Runs, walking' \subseteq Runs,
             seen' \subseteq Runs, verdict' \in Verdicts, verdict' = "ok" => visited = Runs
      PROVE  SearchInv'
  BY <1>0, <1>1 DEF SearchInv, graph, search, TypeOK, VisitedClosed, Grounded, StackDone,
                    FrameDone, PathIsStack, Same
<1>2. CASE UNCHANGED vars
  BY <1>0, <1>1, <1>2 DEF vars, graph, search, SearchInv, TypeOK
<1>3. ASSUME NEW r \in Runs, Root(r) PROVE SearchInv'
  <2>2. /\ stack' \in Seq(Frames) /\ Len(stack') = 1
        /\ stack'[1].run = r /\ stack'[1].todo = deps[r]
    BY <1>0, <1>3, RootStack
  <2>3. UNCHANGED <<graph, visited, walk, verdict>> /\ onPath' = onPath \cup {r} /\ r \notin visited
    BY <1>3 DEF Root
  <2>4. TypeOK'
    BY <1>0, <2>2, <2>3 DEF TypeOK, graph, walk
  <2>5. StackDone'
    BY <2>2, <2>3 DEF StackDone, FrameDone, graph
  <2>6. PathIsStack'
    BY <2>2, <2>3 DEF PathIsStack, SearchInv
  <2> QED BY <2>3, <2>4, <2>5, <2>6, <1>3
          DEF SearchInv, VisitedClosed, Grounded, Same, graph, Root
<1>4. ASSUME NEW d \in Runs \cup Others, Reject(d) PROVE SearchInv'
  BY <1>0, <1>1, <1>4 DEF Reject, SearchInv, TypeOK, walk, Verdicts, Upcoming
<1>5. ASSUME NEW d \in Runs \cup Others, Skip(d) PROVE SearchInv'
  <2> DEFINE n == Len(stack)
  <2>1. /\ UNCHANGED <<graph, visited, onPath, walk, verdict>> /\ stack' = Caller(d)
        /\ stack # <<>> /\ d \in visited /\ SameAs(d) /\ verdict = ""
    BY <1>5 DEF Skip, Upcoming
  <2>2. /\ n \in Nat \ {0} /\ stack' \in Seq(Frames) /\ Len(stack') = n
        /\ \A i \in 1..(n - 1) : stack'[i] = stack[i]
        /\ stack'[n].run = stack[n].run /\ stack'[n].todo = stack[n].todo \ {d}
    BY <1>0, <1>5, SkipStack
  <2>3. TypeOK'
    BY <1>0, <2>1, <2>2 DEF TypeOK, graph, walk
  <2>4. StackDone'
    <3> SUFFICES ASSUME NEW i \in 1..n PROVE FrameDone(i)'
      BY <2>2 DEF StackDone
    <3>1. FrameDone(i)
      BY DEF SearchInv, StackDone
    <3>2. CASE i = n
      <4>1. \A x \in deps[stack[n].run] \ stack[n].todo : x \in visited /\ Same(stack[n].run, x)
        BY <2>2, <3>1, <3>2 DEF FrameDone
      <4>2. Same(stack[n].run, d)
        BY <2>1, <1>0, StackFacts DEF SameAs, Same
      <4>3. \A x \in deps[stack[n].run] \ (stack[n].todo \ {d}) :
              x \in visited /\ Same(stack[n].run, x)
        BY <2>1, <4>1, <4>2
      <4> QED BY <2>1, <2>2, <3>2, <4>3 DEF FrameDone, Same, graph
    <3>3. CASE i # n
      <4>1. i \in 1..(n - 1) /\ i + 1 \in 1..n /\ stack'[i + 1].run = stack[i + 1].run
        BY <2>2, <3>3
      <4> QED BY <2>1, <2>2, <3>1, <4>1 DEF FrameDone, Same, graph
    <3> QED BY <3>2, <3>3
  <2>5. \A i \in 1..n : stack'[i].run = stack[i].run
    BY <2>2
  <2>6. PathIsStack'
    <3>1. \A i, j \in 1..n : stack[i].run = stack[j].run => i = j
      BY DEF PathIsStack, SearchInv
    <3>2. \A i \in 1..n : stack[i].run \in onPath
      BY DEF PathIsStack, SearchInv
    <3>3. onPath' = onPath /\ visited' = visited /\ onPath \cap visited = {}
      BY <2>1 DEF PathIsStack, SearchInv
    <3>4. \A i, j \in 1..n : stack'[i].run = stack'[j].run => i = j
      BY <2>5, <3>1
    <3> QED BY <2>2, <2>5, <3>2, <3>3, <3>4 DEF PathIsStack
  <2> QED BY <2>1, <2>3, <2>4, <2>6 DEF SearchInv, VisitedClosed, Grounded, Same, graph
<1>6. ASSUME NEW d \in Runs \cup Others, Descend(d) PROVE SearchInv'
  <2> DEFINE n == Len(stack)
  <2>1. /\ UNCHANGED <<graph, visited, walk, verdict>> /\ stack' = Append(Caller(d), Frame(d))
        /\ stack # <<>> /\ d \in Runs \ (visited \cup onPath) /\ SameAs(d) /\ verdict = ""
        /\ onPath' = onPath \cup {d}
    BY <1>6 DEF Descend, Upcoming
  <2>2. /\ n \in Nat \ {0} /\ stack' \in Seq(Frames) /\ Len(stack') = n + 1
        /\ \A i \in 1..(n - 1) : stack'[i] = stack[i]
        /\ stack'[n].run = stack[n].run /\ stack'[n].todo = stack[n].todo \ {d}
        /\ stack'[n + 1].run = d /\ stack'[n + 1].todo = deps[d]
    BY <1>0, <1>6, DescendStack
  <2>3. TypeOK'
    BY <1>0, <2>1, <2>2 DEF TypeOK, graph, walk
  <2>4. StackDone'
    <3> SUFFICES ASSUME NEW i \in 1..(n + 1) PROVE FrameDone(i)'
      BY <2>2 DEF StackDone
    <3>1. CASE i = n + 1
      BY <2>1, <2>2, <3>1 DEF FrameDone, graph
    <3>2. CASE i = n
      <4>1. FrameDone(n)
        BY <2>2 DEF SearchInv, StackDone
      <4>2. Same(stack[n].run, d)
        BY <2>1, <1>0, StackFacts DEF SameAs, Same
      <4>3. \A x \in deps[stack[n].run] \ stack[n].todo : x \in visited /\ Same(stack[n].run, x)
        BY <2>2, <4>1 DEF FrameDone
      <4>4. \A x \in deps[stack[n].run] \ (stack[n].todo \ {d}) :
              (x \in visited \/ x = d) /\ Same(stack[n].run, x)
        BY <4>2, <4>3
      <4>5. n < Len(stack')
        BY <2>2
      <4> QED BY <2>1, <2>2, <3>2, <4>4, <4>5 DEF FrameDone, Same, graph
    <3>3. CASE i \in 1..(n - 1)
      <4>1. FrameDone(i) /\ i + 1 \in 1..n
        BY <2>2, <3>3 DEF SearchInv, StackDone
      <4>2. stack'[i + 1].run = stack[i + 1].run
        BY <2>2, <3>3, <4>1
      <4>3. i < Len(stack') /\ stack'[i] = stack[i]
        BY <2>2, <3>3
      <4>4. \A x \in deps[stack[i].run] \ stack[i].todo :
              (x \in visited \/ x = stack[i + 1].run) /\ Same(stack[i].run, x)
        BY <4>1 DEF FrameDone
      <4> QED BY <2>1, <4>2, <4>3, <4>4 DEF FrameDone, Same, graph
    <3> QED BY <2>2, <3>1, <3>2, <3>3
  <2>5. \A i \in 1..n : stack'[i].run = stack[i].run
    BY <2>2
  <2>6. PathIsStack'
    <3>1. onPath' \cap visited' = {}
      BY <2>1 DEF SearchInv, PathIsStack
    <3>2. \A i \in 1..(n + 1) : stack'[i].run \in onPath'
      <4>1. \A i \in 1..n : stack[i].run \in onPath
        BY DEF SearchInv, PathIsStack
      <4>2. \A i \in 1..(n + 1) : i \in 1..n \/ i = n + 1
        BY <2>2
      <4> QED BY <2>1, <2>2, <2>5, <4>1, <4>2
    <3>3. \A i \in 1..n : stack'[i].run # d
      BY <2>1, <2>5 DEF SearchInv, PathIsStack
    <3>4. \A i, j \in 1..(n + 1) : stack'[i].run = stack'[j].run => i = j
      <4>1. \A i, j \in 1..n : stack'[i].run = stack'[j].run => i = j
        BY <2>5 DEF SearchInv, PathIsStack
      <4>2. \A i \in 1..(n + 1) : i \in 1..n \/ i = n + 1
        BY <2>2
      <4> QED BY <2>2, <3>3, <4>1, <4>2
    <3> QED BY <2>2, <3>1, <3>2, <3>4 DEF PathIsStack
  <2> QED BY <2>1, <2>3, <2>4, <2>6 DEF SearchInv, VisitedClosed, Grounded, Same, graph
<1>7. CASE Leave
  <2> DEFINE n == Len(stack)
             r == stack[n].run
  <2>1. /\ UNCHANGED <<graph, walk, verdict>> /\ stack' = Rest /\ stack # <<>> /\ verdict = ""
        /\ onPath' = onPath \ {r} /\ visited' = visited \cup {r} /\ stack[n].todo = {}
    BY <1>7 DEF Leave, Top
  <2>2. /\ n \in Nat \ {0} /\ r \in Runs /\ stack' \in Seq(Frames) /\ Len(stack') = n - 1
        /\ \A i \in 1..(n - 1) : stack'[i] = stack[i]
    BY <1>0, <1>7, LeaveStack
  <2>3. r \notin visited /\ deps[r] \subseteq visited /\ \A d \in deps[r] : Same(r, d)
    <3>1. FrameDone(n) /\ r \in onPath
      BY <2>2 DEF SearchInv, StackDone, PathIsStack
    <3>2. ~(n < Len(stack))
      BY <2>2
    <3> QED BY <2>1, <3>1, <3>2 DEF FrameDone, SearchInv, PathIsStack
  <2>4. TypeOK'
    BY <1>0, <2>1, <2>2 DEF TypeOK, graph, walk
  <2>5. VisitedClosed'
    BY <2>1, <2>3 DEF VisitedClosed, SearchInv, Same, graph
  <2>6. Grounded(visited)'
    <3>1. visited \in SUBSET Runs /\ r \in Runs \ visited
      BY <1>0, <2>2, <2>3 DEF TypeOK
    <3>2. Grounded(visited \cup {r})
      BY <1>0, <2>3, <3>1, GroundedExtends DEF SearchInv, VisitedClosed
    <3> QED BY <2>1, <3>2 DEF Grounded, graph
  <2>7. StackDone'
    <3> SUFFICES ASSUME NEW i \in 1..(n - 1) PROVE FrameDone(i)'
      BY <2>2 DEF StackDone
    <3>1. FrameDone(i) /\ i + 1 \in 1..n
      BY <2>2 DEF SearchInv, StackDone
    <3>2. i + 1 # n => i + 1 \in 1..(n - 1) /\ stack'[i + 1] = stack[i + 1] /\ i < Len(stack')
      BY <2>2, <3>1
    <3> QED BY <2>1, <2>2, <3>1, <3>2 DEF FrameDone, Same, graph
  <2>8. PathIsStack'
    <3>1. \A i \in 1..(n - 1) : stack[i].run # r
      BY <2>2 DEF SearchInv, PathIsStack
    <3>2. 1..(n - 1) \subseteq 1..n
      BY <2>2
    <3>3. \A i \in 1..(n - 1) : stack'[i].run \in onPath'
      BY <2>1, <2>2, <3>1, <3>2 DEF SearchInv, PathIsStack
    <3>4. \A i, j \in 1..(n - 1) : stack'[i].run = stack'[j].run => i = j
      BY <2>2, <3>2 DEF SearchInv, PathIsStack
    <3>5. onPath' \cap visited' = {}
      BY <2>1 DEF SearchInv, PathIsStack
    <3> QED BY <2>2, <3>3, <3>4, <3>5 DEF PathIsStack
  <2> QED BY <2>1, <2>4, <2>5, <2>6, <2>7, <2>8 DEF SearchInv
<1>8. ASSUME NEW r \in Runs, Check(r) PROVE SearchInv'
  BY <1>0, <1>1, <1>8 DEF Check, SearchInv, TypeOK, Searched
<1>9. ASSUME NEW r \in Runs, NEW d \in Runs, Walk(r, d) PROVE SearchInv'
  BY <1>0, <1>1, <1>9 DEF Walk, SearchInv, TypeOK, Searched
<1>10. ASSUME NEW r \in Runs, WalkFails(r) PROVE SearchInv'
  BY <1>0, <1>1, <1>10 DEF WalkFails, SearchInv, TypeOK, Searched, Verdicts, walk
<1>11. CASE Accept
  BY <1>0, <1>1, <1>11 DEF Accept, SearchInv, TypeOK, Searched, Verdicts, walk
<1> QED
  BY <1>2, <1>3, <1>4, <1>5, <1>6, <1>7, <1>8, <1>9, <1>10, <1>11 DEF Next

(* The types of the graph and of the search, whose path is its stack.      *)
THEOREM TypeCorrect == Spec => []TypeOK
<1>1. SearchInv => TypeOK
  BY DEF SearchInv
<1> QED BY SearchInit, SearchStep, <1>1, PTL DEF Spec

(* A graph ValidateRunGraph accepts names only runs of the experiment and  *)
(* has no cycle, whatever the runs and the order of the search.            *)
THEOREM AcceptsOnlyRunnableHolds == Spec => []AcceptsOnlyRunnable
<1>1. Init => SearchInv
  BY SearchInit
<1>2. SearchInv /\ [Next]_vars => SearchInv'
  BY SearchStep
<1>3. SearchInv => AcceptsOnlyRunnable
  <2> SUFFICES ASSUME SearchInv, verdict = "ok"
               PROVE  Closed /\ OneHouse /\ Grounded(Runs)
    BY DEF AcceptsOnlyRunnable
  <2>1. visited = Runs
    BY DEF SearchInv
  <2> QED BY <2>1 DEF SearchInv, VisitedClosed, Same, Closed, OneHouse
<1> QED BY <1>1, <1>2, <1>3, PTL DEF Spec

-----------------------------------------------------------------------------
(* q is among the ancestors of r: in every set that holds what r names and *)
(* what its own members name.                                              *)
Holds(r, B) ==
  deps[r] \cap Runs \subseteq B /\ \A q \in B : deps[q] \cap Runs \subseteq B
IsAncestor(r, q) == \A B \in SUBSET Runs : Holds(r, B) => q \in B

(* There is a least such set, so that Ancestors, which chooses one, is it. *)
LEMMA AncestorsAre ==
  ASSUME NEW r \in Runs
  PROVE  Ancestors(r) = {q \in Runs : IsAncestor(r, q)}
<1> DEFINE A == {q \in Runs : IsAncestor(r, q)}
           Least(S) == /\ Holds(r, S)
                       /\ \A B \in SUBSET Runs : Holds(r, B) => S \subseteq B
<1>1. Holds(r, A)
  <2>1. deps[r] \cap Runs \subseteq A
    BY DEF Holds, IsAncestor
  <2>2. ASSUME NEW q \in A, NEW d \in deps[q] \cap Runs PROVE d \in A
    <3>1. ASSUME NEW B \in SUBSET Runs, Holds(r, B) PROVE d \in B
      <4>1. q \in B
        BY <3>1 DEF IsAncestor
      <4> QED BY <3>1, <4>1, <2>2 DEF Holds
    <3> QED BY <2>2, <3>1 DEF IsAncestor
  <2> QED BY <2>1, <2>2 DEF Holds
<1>2. \A B \in SUBSET Runs : Holds(r, B) => A \subseteq B
  BY DEF IsAncestor
<1> HIDE DEF A
<1>3. Least(A) /\ A \in SUBSET Runs
  <2>1. A \in SUBSET Runs
    BY DEF A
  <2> QED BY <1>1, <1>2, <2>1
<1>4. Ancestors(r) = CHOOSE S \in SUBSET Runs : Least(S)
  BY Zenon DEF Ancestors, Holds
<1> HIDE DEF Least
<1>5. Ancestors(r) \in SUBSET Runs /\ Least(Ancestors(r))
  BY <1>3, <1>4, Zenon
<1>6. Ancestors(r) \subseteq A /\ A \subseteq Ancestors(r)
  BY <1>3, <1>5 DEF Least
<1> QED BY <1>6 DEF A

HasBaseline(r) == \E q \in Runs : kind[q] = "baseline" /\ IsAncestor(r, q)

LEMMA ReplayableIs == Replayable <=> \A r \in Runs : kind[r] = "frozen" => HasBaseline(r)
BY AncestorsAre DEF Replayable, HasBaseline

(* The stack is a path of the graph: each call was made for a dependency   *)
(* of the one below, and has dependencies of its run yet to do.            *)
PathInv ==
  /\ \A i \in 1..Len(stack) : stack[i].todo \subseteq deps[stack[i].run]
  /\ \A i \in 1..(Len(stack) - 1) : stack[i + 1].run \in deps[stack[i].run]
  /\ \A q \in onPath : \E i \in 1..Len(stack) : stack[i].run = q

(* The walk has seen ancestors, none of them a baseline; and the runs it   *)
(* is through with have one.                                               *)
WalkInv ==
  /\ \A p, r \in walking : p = r
  /\ \A r \in walking : kind[r] = "frozen" /\ \A q \in seen : IsAncestor(r, q)
  /\ \A q \in seen : kind[q] = "frozen"
  /\ \A r \in Runs \ (unchecked \cup walking) : kind[r] = "frozen" => HasBaseline(r)
  /\ verdict = "ok" => unchecked = {} /\ walking = {}

CauseInv == SearchInv /\ PathInv /\ WalkInv /\ RejectsForCause

LEMMA PathStep == SearchInv /\ PathInv /\ [Next]_vars => PathInv'
<1> SUFFICES ASSUME SearchInv, PathInv, [Next]_vars PROVE PathInv'
  OBVIOUS
<1>0. TypeOK
  BY DEF SearchInv
<1> DEFINE n == Len(stack)
<1>1. ASSUME UNCHANGED <<graph, search>> PROVE PathInv'
  BY <1>1 DEF PathInv, graph, search
<1>2. ASSUME NEW r \in Runs, Root(r) PROVE PathInv'
  <2>1. /\ stack' \in Seq(Frames) /\ Len(stack') = 1
        /\ stack'[1].run = r /\ stack'[1].todo = deps[r]
    BY <1>0, <1>2, RootStack
  <2>2. onPath' = onPath \cup {r} /\ deps' = deps /\ onPath = {}
    <3>1. stack = <<>> /\ onPath' = onPath \cup {r} /\ deps' = deps
      BY <1>2 DEF Root, graph
    <3>2. 1..Len(stack) = {}
      BY <3>1, EmptySeq
    <3> QED BY <3>1, <3>2 DEF PathInv
  <2> QED BY <2>1, <2>2 DEF PathInv
<1>3. ASSUME NEW d \in Runs \cup Others, Skip(d) PROVE PathInv'
  <2>1. /\ n \in Nat \ {0} /\ stack' \in Seq(Frames) /\ Len(stack') = n
        /\ \A i \in 1..(n - 1) : stack'[i] = stack[i]
        /\ stack'[n].run = stack[n].run /\ stack'[n].todo = stack[n].todo \ {d}
    BY <1>0, <1>3, SkipStack
  <2>2. onPath' = onPath /\ deps' = deps
    BY <1>3 DEF Skip, graph
  <2>3. \A i \in 1..n : stack'[i].run = stack[i].run /\ stack'[i].todo \subseteq stack[i].todo
    BY <2>1
  <2>4. \A i \in 1..(n - 1) : i \in 1..n /\ i + 1 \in 1..n
    BY <2>1
  <2> QED BY <2>1, <2>2, <2>3, <2>4 DEF PathInv
<1>4. ASSUME NEW d \in Runs \cup Others, Descend(d) PROVE PathInv'
  <2>1. /\ n \in Nat \ {0} /\ stack' \in Seq(Frames) /\ Len(stack') = n + 1
        /\ \A i \in 1..(n - 1) : stack'[i] = stack[i]
        /\ stack'[n].run = stack[n].run /\ stack'[n].todo = stack[n].todo \ {d}
        /\ stack'[n + 1].run = d /\ stack'[n + 1].todo = deps[d]
    BY <1>0, <1>4, DescendStack
  <2>2. onPath' = onPath \cup {d} /\ deps' = deps /\ d \in stack[n].todo
    BY <1>4 DEF Descend, Upcoming, Top, graph
  <2>3. \A i \in 1..n : stack'[i].run = stack[i].run /\ stack'[i].todo \subseteq stack[i].todo
    BY <2>1
  <2>4. \A i \in 1..(n + 1) : i \in 1..n \/ i = n + 1
    BY <2>1
  <2>5. \A i \in 1..(n + 1) : stack'[i].todo \subseteq deps[stack'[i].run]
    BY <2>1, <2>3, <2>4 DEF PathInv
  <2>6. \A i \in 1..n : stack'[i + 1].run \in deps[stack'[i].run]
    <3> SUFFICES ASSUME NEW i \in 1..n PROVE stack'[i + 1].run \in deps[stack'[i].run]
      OBVIOUS
    <3>1. CASE i = n
      <4>1. n \in 1..n
        BY <2>1
      <4> QED BY <2>1, <2>2, <3>1, <4>1 DEF PathInv
    <3>2. CASE i # n
      <4>1. i \in 1..(n - 1) /\ i + 1 \in 1..n
        BY <2>1, <3>2
      <4> QED BY <2>3, <4>1 DEF PathInv
    <3> QED BY <3>1, <3>2
  <2>7. \A q \in onPath' : \E i \in 1..(n + 1) : stack'[i].run = q
    <3> SUFFICES ASSUME NEW q \in onPath' PROVE \E i \in 1..(n + 1) : stack'[i].run = q
      OBVIOUS
    <3>1. CASE q = d
      <4>1. n + 1 \in 1..(n + 1)
        BY <2>1
      <4> QED BY <2>1, <3>1, <4>1
    <3>2. CASE q \in onPath
      <4>1. PICK i \in 1..n : stack[i].run = q
        BY <3>2 DEF PathInv
      <4>2. i \in 1..(n + 1)
        BY <2>1
      <4> QED BY <2>3, <4>1, <4>2
    <3> QED BY <2>2, <3>1, <3>2
  <2>8. Len(stack') - 1 = n
    BY <2>1
  <2> QED BY <2>1, <2>2, <2>5, <2>6, <2>7, <2>8 DEF PathInv
<1>5. CASE Leave
  <2>1. /\ n \in Nat \ {0} /\ stack[n].run \in Runs
        /\ stack' \in Seq(Frames) /\ Len(stack') = n - 1
        /\ \A i \in 1..(n - 1) : stack'[i] = stack[i]
    BY <1>0, <1>5, LeaveStack
  <2>2. onPath' = onPath \ {stack[n].run} /\ deps' = deps
    BY <1>5 DEF Leave, Top, graph
  <2>3. \A i \in 1..(n - 1) : i \in 1..n
    BY <2>1
  <2>4. \A i \in 1..((n - 1) - 1) : i \in 1..(n - 1) /\ i + 1 \in 1..(n - 1)
    BY <2>1
  <2>5. \A q \in onPath' : \E i \in 1..(n - 1) : stack'[i].run = q
    <3> SUFFICES ASSUME NEW q \in onPath' PROVE \E i \in 1..(n - 1) : stack'[i].run = q
      OBVIOUS
    <3>1. q \in onPath /\ q # stack[n].run
      BY <2>2
    <3>2. PICK i \in 1..n : stack[i].run = q
      BY <3>1 DEF PathInv
    <3>3. i \in 1..(n - 1)
      BY <2>1, <3>1, <3>2
    <3> QED BY <2>1, <3>2, <3>3
  <2> QED BY <2>1, <2>2, <2>3, <2>4, <2>5 DEF PathInv
<1>6. CASE UNCHANGED vars
  BY <1>1, <1>6 DEF vars, graph, search
<1>7. ASSUME NEW d \in Runs \cup Others, Reject(d) PROVE PathInv'
  BY <1>1, <1>7 DEF Reject
<1>8. ASSUME NEW r \in Runs, Check(r) \/ WalkFails(r) PROVE PathInv'
  BY <1>1, <1>8 DEF Check, WalkFails
<1>9. ASSUME NEW r \in Runs, NEW d \in Runs, Walk(r, d) PROVE PathInv'
  BY <1>1, <1>9 DEF Walk
<1>10. CASE Accept
  BY <1>1, <1>10 DEF Accept
<1> QED
  BY <1>2, <1>3, <1>4, <1>5, <1>6, <1>7, <1>8, <1>9, <1>10 DEF Next

LEMMA WalkStep == SearchInv /\ WalkInv /\ [Next]_vars => WalkInv'
<1> SUFFICES ASSUME SearchInv, WalkInv, [Next]_vars PROVE WalkInv'
  OBVIOUS
<1>0. TypeOK
  BY DEF SearchInv
<1>1. UNCHANGED graph
  BY DEF Next, Root, Check, WalkFails, Walk, Reject, Skip, Descend, Leave, Accept, vars, graph
<1>2. /\ \A r, q : IsAncestor(r, q)' <=> IsAncestor(r, q)
      /\ \A r : HasBaseline(r)' <=> HasBaseline(r)
  BY <1>1 DEF IsAncestor, HasBaseline, Holds, graph
<1>3. ASSUME UNCHANGED walk, verdict' # "ok" \/ UNCHANGED verdict \/ (unchecked = {} /\ walking = {})
      PROVE  WalkInv'
  BY <1>1, <1>2, <1>3 DEF WalkInv, walk, graph
<1>4. CASE UNCHANGED vars
  BY <1>3, <1>4 DEF vars, walk
<1>5. ASSUME NEW r \in Runs, Root(r) \/ WalkFails(r) PROVE WalkInv'
  BY <1>3, <1>5 DEF Root, WalkFails
<1>6. ASSUME NEW d \in Runs \cup Others, Reject(d) \/ Skip(d) \/ Descend(d) PROVE WalkInv'
  BY <1>3, <1>6 DEF Reject, Skip, Descend
<1>7. CASE Leave \/ Accept
  BY <1>3, <1>7 DEF Leave, Accept
<1>8. ASSUME NEW r \in Runs, Check(r) PROVE WalkInv'
  <2>1. /\ unchecked' = unchecked \ {r} /\ seen' = {} /\ verdict' # "ok" /\ walking = {}
        /\ walking' = IF kind[r] = "baseline" THEN {} ELSE {r}
    BY <1>8 DEF Check, Searched
  <2>2. kind[r] \in Kinds /\ kind' = kind
    BY <1>0, <1>1 DEF TypeOK, graph
  <2> QED BY <1>2, <2>1, <2>2 DEF WalkInv, Kinds
<1>9. ASSUME NEW r \in Runs, NEW d \in Runs, Walk(r, d) PROVE WalkInv'
  <2>1. r \in walking /\ d \in Reached(r) /\ unchecked' = unchecked /\ verdict' # "ok" /\ kind' = kind
    BY <1>1, <1>9 DEF Walk, Searched, graph
  <2>2. IsAncestor(r, d)
    <3> SUFFICES ASSUME NEW B \in SUBSET Runs, Holds(r, B) PROVE d \in B
      BY DEF IsAncestor
    <3>1. seen \subseteq B
      BY <2>1 DEF WalkInv, IsAncestor
    <3>2. PICK q \in seen \cup {r} : d \in deps[q]
      BY <2>1 DEF Reached
    <3> QED BY <3>1, <3>2 DEF Holds
  <2>3. walking = {r}
    BY <2>1 DEF WalkInv
  <2>4. CASE kind[d] = "baseline"
    <3>1. walking' = {} /\ seen' = seen
      BY <1>9, <2>4 DEF Walk
    <3>2. HasBaseline(r)
      BY <2>2, <2>4 DEF HasBaseline
    <3> QED BY <1>2, <2>1, <2>3, <3>1, <3>2 DEF WalkInv
  <2>5. CASE kind[d] # "baseline"
    <3>1. walking' = walking /\ seen' = seen \cup {d}
      BY <1>9, <2>5 DEF Walk
    <3>2. kind[d] = "frozen"
      BY <1>0, <2>5 DEF TypeOK, Kinds
    <3> QED BY <1>2, <2>1, <2>2, <2>3, <3>1, <3>2 DEF WalkInv
  <2> QED BY <2>4, <2>5
<1> QED
  BY <1>4, <1>5, <1>6, <1>7, <1>8, <1>9 DEF Next

(* A run that is rejected has the fault: the path back to a run on the     *)
(* stack is a cycle, and a walk that ends has seen every ancestor.         *)
LEMMA CauseStep == CauseInv /\ [Next]_vars => RejectsForCause'
<1> SUFFICES ASSUME CauseInv, [Next]_vars PROVE RejectsForCause'
  OBVIOUS
<1>0. TypeOK
  BY DEF CauseInv, SearchInv
<1>1. UNCHANGED graph
  BY DEF Next, Root, Check, WalkFails, Walk, Reject, Skip, Descend, Leave, Accept, vars, graph
<1>2. /\ Grounded(Runs)' <=> Grounded(Runs)
      /\ Closed' <=> Closed
      /\ OneHouse' <=> OneHouse
  BY <1>1 DEF Grounded, Closed, OneHouse, graph
<1>3. Replayable' <=> Replayable
  <2>1. (\A r \in Runs : kind[r] = "frozen" => HasBaseline(r))'
        <=> \A r \in Runs : kind[r] = "frozen" => HasBaseline(r)
    BY <1>1 DEF HasBaseline, IsAncestor, Holds, graph
  <2>2. Replayable' <=> (\A r \in Runs : kind[r] = "frozen" => HasBaseline(r))'
    BY ReplayableIs, PTL
  <2> QED BY <2>1, <2>2, ReplayableIs
<1>4. ASSUME UNCHANGED verdict \/ verdict' = "ok" PROVE RejectsForCause'
  BY <1>2, <1>3, <1>4 DEF CauseInv, RejectsForCause
<1>5. ASSUME NEW d \in Runs \cup Others, Reject(d) PROVE RejectsForCause'
  <2> DEFINE n == Len(stack)
  <2>1. /\ n \in Nat \ {0} /\ Top = stack[n] /\ Top.run \in Runs
        /\ d \in Top.todo /\ d \in deps[Top.run]
    <3>1. stack # <<>> /\ d \in Top.todo
      BY <1>5 DEF Reject, Upcoming
    <3>2. n \in Nat \ {0} /\ Top = stack[n] /\ Top.run \in Runs
      BY <1>0, <3>1, StackFacts
    <3>3. n \in 1..n
      BY <3>2
    <3> QED BY <3>1, <3>2, <3>3 DEF CauseInv, PathInv
  <2>2. CASE d \notin Runs /\ verdict' = "unknown"
    <3>1. ~Closed
      BY <2>1, <2>2 DEF Closed
    <3> QED BY <1>2, <2>2, <3>1 DEF RejectsForCause
  <2>3. CASE d \in Runs /\ ~SameAs(d) /\ verdict' = "foreign"
    <3>1. ~OneHouse
      BY <2>1, <2>3 DEF OneHouse, SameAs
    <3> QED BY <1>2, <2>3, <3>1 DEF RejectsForCause
  <2>4. CASE d \in Runs /\ SameAs(d) /\ d \in onPath /\ verdict' = "cycle"
    <3>1. PICK k \in 1..n : stack[k].run = d
      BY <2>4 DEF CauseInv, PathInv
    <3> DEFINE T == {stack[i].run : i \in k..n}
    <3>2. \A i \in k..n : i \in 1..n
      BY <2>1
    <3>3. T \subseteq Runs
      BY <1>0, <2>1, <3>2, StackFacts DEF TypeOK, Frames
    <3>4. d \in T
      <4>1. k \in k..n
        BY <2>1
      <4> QED BY <3>1, <4>1
    <3>5. \A i \in k..n : deps[stack[i].run] \cap T # {}
      <4> SUFFICES ASSUME NEW i \in k..n PROVE deps[stack[i].run] \cap T # {}
        OBVIOUS
      <4>1. CASE i = n
        BY <2>1, <3>4, <4>1
      <4>2. CASE i # n
        <5>1. i \in 1..(n - 1) /\ i + 1 \in k..n
          BY <2>1, <3>2, <4>2
        <5>2. stack[i + 1].run \in deps[stack[i].run]
          BY <5>1 DEF CauseInv, PathInv
        <5> QED BY <5>1, <5>2
      <4> QED BY <4>1, <4>2
    <3>6. ~Grounded(Runs)
      <4>1. T \in SUBSET Runs /\ T # {}
        BY <3>3, <3>4
      <4>2. \A t \in T : deps[t] \cap T # {}
        BY <3>5
      <4> HIDE DEF T
      <4> QED BY <4>1, <4>2 DEF Grounded
    <3> QED BY <1>2, <2>4, <3>6 DEF RejectsForCause
  <2> QED BY <1>5, <2>2, <2>3, <2>4 DEF Reject
<1>6. ASSUME NEW r \in Runs, WalkFails(r) PROVE RejectsForCause'
  <2>1. r \in walking /\ Reached(r) = {} /\ visited = Runs /\ verdict' = "no baseline"
    BY <1>6 DEF WalkFails, Searched
  <2>2. \A q \in Runs : deps[q] \subseteq Runs
    BY <2>1 DEF CauseInv, SearchInv, VisitedClosed
  <2>3. \A q \in seen \cup {r} : deps[q] \subseteq seen
    BY <2>1 DEF Reached
  <2>4. Holds(r, seen) /\ seen \in SUBSET Runs
    BY <1>0, <2>3 DEF Holds, TypeOK
  <2>5. \A q \in Runs : IsAncestor(r, q) => q \in seen
    BY <2>4 DEF IsAncestor
  <2>6. ~HasBaseline(r) /\ kind[r] = "frozen"
    BY <2>1, <2>5 DEF CauseInv, WalkInv, HasBaseline
  <2>7. ~Replayable
    BY <2>6, ReplayableIs
  <2> QED BY <1>3, <2>1, <2>7 DEF RejectsForCause
<1>7. CASE UNCHANGED vars
  BY <1>4, <1>7 DEF vars
<1>8. ASSUME NEW r \in Runs, Root(r) \/ Check(r) PROVE RejectsForCause'
  BY <1>4, <1>8 DEF Root, Check
<1>9. ASSUME NEW r \in Runs, NEW d \in Runs, Walk(r, d) PROVE RejectsForCause'
  BY <1>4, <1>9 DEF Walk
<1>10. ASSUME NEW d \in Runs \cup Others, Skip(d) \/ Descend(d) PROVE RejectsForCause'
  BY <1>4, <1>10 DEF Skip, Descend
<1>11. CASE Leave \/ Accept
  BY <1>4, <1>11 DEF Leave, Accept
<1> QED
  BY <1>5, <1>6, <1>7, <1>8, <1>9, <1>10, <1>11 DEF Next

LEMMA CauseInvariant == Spec => []CauseInv
<1>1. Init => CauseInv
  <2> SUFFICES ASSUME Init PROVE CauseInv
    OBVIOUS
  <2>1. SearchInv
    BY SearchInit
  <2>2. stack = <<>> /\ onPath = {} /\ unchecked = Runs /\ walking = {} /\ seen = {} /\ verdict = ""
    BY DEF Init
  <2>3. Len(stack) = 0
    BY <2>2, EmptySeq
  <2>4. 1..Len(stack) = {} /\ 1..(Len(stack) - 1) = {}
    BY <2>3
  <2> QED BY <2>1, <2>2, <2>4 DEF CauseInv, PathInv, WalkInv, RejectsForCause
<1>2. CauseInv /\ [Next]_vars => CauseInv'
  BY SearchStep, PathStep, WalkStep, CauseStep DEF CauseInv
<1> QED BY <1>1, <1>2, PTL DEF Spec

(* Every run with frozen services that is accepted has a baseline among    *)
(* its ancestors to replay from (model/experiment.go, hasBaselineAncestor).*)
THEOREM AcceptsOnlyReplayableHolds == Spec => []AcceptsOnlyReplayable
<1>1. CauseInv => AcceptsOnlyReplayable
  BY ReplayableIs DEF CauseInv, WalkInv, AcceptsOnlyReplayable
<1> QED BY <1>1, CauseInvariant, PTL

(* A graph is rejected only for a fault it has: the search takes no        *)
(* diamond for a cycle, and the walk misses no ancestor.                   *)
THEOREM RejectsForCauseHolds == Spec => []RejectsForCause
<1>1. CauseInv => RejectsForCause
  BY DEF CauseInv
<1> QED BY <1>1, CauseInvariant, PTL

-----------------------------------------------------------------------------
(* Why the recursion ends, on cyclic graphs too.                           *)

Less(S, T) == S \subseteq T /\ S # T
Known == visited \cup onPath

(* A step brings the verdict, marks a run, or, with the same runs marked,  *)
(* ends a call or uses up a dependency of the call in progress; once all   *)
(* are marked, it uses up a run to check, ends a walk or extends it.  Each *)
(* is one way in an order in which the former count for more, and with     *)
(* finitely many runs and dependencies none of them can go on for ever.    *)
GoesForward ==
  /\ verdict = "" /\ UNCHANGED graph
  /\ \/ verdict' # ""
     \/ Less(Known, Known')
     \/ Known' = Known /\ Len(stack') < Len(stack)
     \/ /\ Known' = Known /\ Len(stack') = Len(stack) /\ stack # <<>>
        /\ Less(Top.todo', Top.todo)
     \/ /\ UNCHANGED search
        /\ \/ Less(unchecked', unchecked)
           \/ unchecked' = unchecked /\ Less(walking', walking)
           \/ UNCHANGED <<unchecked, walking>> /\ Less(seen, seen')

(* Marking, leaving and skipping.                                          *)
LEMMA SearchGoesForward ==
  ASSUME CauseInv, \/ \E r \in Runs : Root(r)
                   \/ \E d \in Runs \cup Others : Skip(d) \/ Descend(d)
                   \/ Leave
  PROVE  GoesForward
<1>0. TypeOK /\ PathIsStack /\ PathInv
  BY DEF CauseInv, SearchInv
<1>1. ASSUME NEW r \in Runs, Root(r) PROVE GoesForward
  <2>1. stack = <<>> /\ verdict = "" /\ r \notin visited /\ onPath' = onPath \cup {r}
        /\ UNCHANGED <<graph, visited>>
    BY <1>1 DEF Root
  <2>2. onPath = {}
    <3>1. Len(stack) = 0
      BY <2>1, EmptySeq
    <3>2. 1..Len(stack) = {}
      BY <3>1
    <3> QED BY <1>0, <3>2 DEF PathInv
  <2>3. Less(Known, Known')
    BY <2>1, <2>2 DEF Less, Known
  <2> QED BY <2>1, <2>3 DEF GoesForward
<1>2. ASSUME NEW d \in Runs \cup Others, Skip(d) PROVE GoesForward
  <2> DEFINE n == Len(stack)
  <2>1. /\ verdict = "" /\ stack # <<>> /\ d \in Top.todo
        /\ UNCHANGED <<graph, visited, onPath>>
    BY <1>2 DEF Skip, Upcoming
  <2>2. /\ n \in Nat \ {0} /\ Len(stack') = n /\ stack'[n].todo = stack[n].todo \ {d}
    BY <1>0, <1>2, SkipStack
  <2>3. Less(Top.todo', Top.todo)
    BY <2>1, <2>2 DEF Less, Top
  <2>4. Known' = Known
    BY <2>1 DEF Known
  <2> QED BY <2>1, <2>2, <2>3, <2>4 DEF GoesForward
<1>3. ASSUME NEW d \in Runs \cup Others, Descend(d) PROVE GoesForward
  <2>1. /\ verdict = "" /\ d \notin visited \cup onPath /\ onPath' = onPath \cup {d}
        /\ UNCHANGED <<graph, visited>>
    BY <1>3 DEF Descend, Upcoming
  <2>2. Less(Known, Known')
    BY <2>1 DEF Less, Known
  <2> QED BY <2>1, <2>2 DEF GoesForward
<1>4. CASE Leave
  <2> DEFINE n == Len(stack)
  <2>1. /\ verdict = "" /\ UNCHANGED graph
        /\ onPath' = onPath \ {Top.run} /\ visited' = visited \cup {Top.run}
    BY <1>4 DEF Leave
  <2>2. n \in Nat \ {0} /\ Len(stack') = n - 1
    BY <1>0, <1>4, LeaveStack
  <2>3. Top.run \in onPath
    BY <1>0, <2>2 DEF PathIsStack, Top
  <2>4. Known' = Known
    BY <2>1, <2>3 DEF Known
  <2>5. Len(stack') < Len(stack)
    BY <2>2
  <2> QED BY <2>1, <2>4, <2>5 DEF GoesForward
<1> QED BY <1>1, <1>2, <1>3, <1>4

(* The checks that follow the search.                                      *)
LEMMA CheckGoesForward ==
  ASSUME \/ \E r \in Runs : Check(r) \/ \E d \in Runs : Walk(r, d)
         \/ \E r \in Runs : WalkFails(r)
         \/ \E d \in Runs \cup Others : Reject(d)
         \/ Accept
  PROVE  GoesForward
<1>1. ASSUME NEW r \in Runs, Check(r) PROVE GoesForward
  <2>1. Less(unchecked', unchecked)
    BY <1>1 DEF Check, Less
  <2>2. verdict = "" /\ UNCHANGED <<graph, search>>
    BY <1>1 DEF Check, Searched
  <2> QED BY <2>1, <2>2 DEF GoesForward
<1>2. ASSUME NEW r \in Runs, NEW d \in Runs, Walk(r, d) PROVE GoesForward
  <2>1. /\ verdict = "" /\ UNCHANGED <<graph, search, unchecked>>
        /\ r \in walking /\ d \notin seen
    BY <1>2 DEF Walk, Searched, Reached
  <2>2. CASE kind[d] = "baseline"
    <3>1. Less(walking', walking)
      BY <1>2, <2>1, <2>2 DEF Walk, Less
    <3> QED BY <2>1, <3>1 DEF GoesForward
  <2>3. CASE kind[d] # "baseline"
    <3>1. UNCHANGED walking /\ Less(seen, seen')
      BY <1>2, <2>1, <2>3 DEF Walk, Less
    <3> QED BY <2>1, <3>1 DEF GoesForward
  <2> QED BY <2>2, <2>3
<1>3. ASSUME \/ \E r \in Runs : WalkFails(r)
             \/ \E d \in Runs \cup Others : Reject(d)
             \/ Accept
      PROVE  GoesForward
  <2>1. verdict = "" /\ verdict' # "" /\ UNCHANGED graph
    BY <1>3 DEF WalkFails, Reject, Accept, Searched, Upcoming
  <2> QED BY <2>1 DEF GoesForward
<1> QED BY <1>1, <1>2, <1>3

(* No statement of the validation leaves it where it was, on cyclic graphs *)
(* too: with finitely many runs and dependencies it takes finitely many.   *)
THEOREM SearchMakesProgress == Spec => [][GoesForward]_vars
<1>1. CauseInv /\ [Next]_vars => [GoesForward]_vars
  BY SearchGoesForward, CheckGoesForward DEF Next
<1> QED BY <1>1, CauseInvariant, PTL DEF Spec

(* The walk for a baseline comes to no ID that byID has not: the search    *)
(* has rejected every such graph before (model/experiment.go:247).         *)
THEOREM LooksUpOnlyRunsHolds == Spec => []LooksUpOnlyRuns
<1>1. CauseInv => LooksUpOnlyRuns
  <2> SUFFICES ASSUME CauseInv, Searched, NEW r \in walking, NEW d \in Reached(r)
               PROVE  d \in Runs
    BY DEF LooksUpOnlyRuns
  <2>1. visited = Runs /\ walking \subseteq Runs /\ seen \subseteq Runs
    BY DEF CauseInv, SearchInv, TypeOK, Searched
  <2>2. \A q \in Runs : deps[q] \subseteq Runs
    BY <2>1 DEF CauseInv, SearchInv, VisitedClosed
  <2> QED BY <2>1, <2>2 DEF Reached
<1> QED BY <1>1, CauseInvariant, PTL
=============================================================================
