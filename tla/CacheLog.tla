------------------------------ MODULE CacheLog ------------------------------
(***************************************************************************)
(* What the cache store promises of each (run, service) pair: one log of   *)
(* entries that only grows, in which the entries of a batch stand next to  *)
(* each other and in their order, and of which a reader gets all there is  *)
(* at one moment.  A batch may be cut short; a read may not happen; one    *)
(* that the disk fails may get the beginning of the log only; and all the  *)
(* logs may be lost, but only together.                                    *)
(***************************************************************************)
EXTENDS Naturals, Sequences

CONSTANTS
  Keys,      \* (run, service) pairs
  Requests,  \* ingest batches; the i-th entry of batch q is <<q, i>>
  Readers,
  Target,    \* Target[q], the pair batch q is for
  Size,      \* Size[q], the entries in it
  Source     \* Source[d], the pair that reader d asks for

VARIABLES
  log,       \* log[k]
  answer,    \* answer[d], what reader d got
  cut        \* the readers that the disk has failed

Init ==
  /\ log = [k \in Keys |-> <<>>]
  /\ answer = [d \in Readers |-> <<>>]
  /\ cut = {}

Put(q, i) ==
  /\ log' = [log EXCEPT ![Target[q]] = Append(@, <<q, i>>)]
  /\ UNCHANGED <<answer, cut>>

Begin(q) ==
  /\ \A j \in 1 .. Len(log[Target[q]]) : log[Target[q]][j][1] # q
  /\ Put(q, 1)

Continue(q, i) ==
  LET l == log[Target[q]] IN
  /\ i < Size[q] /\ l # <<>> /\ l[Len(l)] = <<q, i>>
  /\ Put(q, i + 1)

Read(d) ==
  /\ answer' = [answer EXCEPT ![d] = log[Source[d]]]
  /\ UNCHANGED <<log, cut>>

ReadCut(d) ==
  /\ \E m \in 0 .. Len(log[Source[d]]) :
       answer' = [answer EXCEPT ![d] = SubSeq(log[Source[d]], 1, m)]
  /\ cut' = cut \cup {d}
  /\ UNCHANGED log

Lose ==
  /\ log' = [k \in Keys |-> <<>>]
  /\ UNCHANGED <<answer, cut>>

Next ==
  \/ \E q \in Requests : Begin(q) \/ \E i \in 1 .. Size[q] : Continue(q, i)
  \/ \E d \in Readers : Read(d) \/ ReadCut(d)
  \/ Lose

Spec == Init /\ [][Next]_<<log, answer, cut>>
=============================================================================
