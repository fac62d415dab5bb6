---------------------------- MODULE FaultLibrary ----------------------------
(***************************************************************************)
(* The fault library: atomic fault specs, compositions of them, and the    *)
(* rules that name either.  A composition is a tree: its members are specs *)
(* or other compositions, executed in parallel or in sequence.  It is      *)
(* validated against the tables as they are, in three passes, and stored   *)
(* in a later transaction; it is never updated.  What a rule names is      *)
(* compiled anew for every poll and every push.                            *)
(***************************************************************************)
EXTENDS Integers, Sequences, FiniteSets

CONSTANTS
  Specs, Comps,  \* fault spec IDs, composition IDs
  Types,         \* the fault types specs are given: <<category, fault type>>
  Requests,      \* the compositions operators ask for
  Creators,      \* create requests in progress at once (bound)
  MaxDepth,      \* 3 in the code
  Reuse          \* may the ID of something deleted be given again?

Refs  == Specs \cup Comps
Modes == {"parallel", "sequential"}
Dirs  == {"", "upstream", "downstream"}
Members == Seq([ref : Refs, dir : Dirs])

ValidFaultTypes ==
  {"inline"} \X {"error", "hang", "latency"}
    \cup {"network"} \X {"blackhole", "drip", "latency", "retransmit_delay", "rst", "throttle"}
    \cup {"resource"} \X {"cpu", "disk", "io", "memory"}

(* Specs have passed FaultSpec.Validate: their type is a known one.        *)
(* The requests have passed FaultComposition.Validate: two members or more.*)
ConstantsOK ==
  /\ Specs \cap Comps = {} /\ Types \subseteq ValidFaultTypes
  /\ IsFiniteSet(Comps) /\ MaxDepth \in Nat \ {0} /\ Reuse \in BOOLEAN
  /\ \A q \in Requests : /\ q.id \in Comps /\ q.mode \in Modes
                         /\ q.members \in Members /\ Len(q.members) >= 2

Compositions == [mode : Modes, members : Members]

NoType == <<"", "">>
NoComp == [mode |-> "", members |-> <<>>]
NoRequest == [id |-> "", mode |-> "", members |-> <<>>]

VARIABLES
  spec, comp,  \* the tables: the type of each spec, each composition
  rules,       \* what the rules name
  used,        \* history: IDs that have been given,
  edited,      \*   specs whose type was changed after they were created
  pc, req      \* create requests: where each is, the composition it is about

tables      == <<spec, comp, rules>>
libraryVars == <<spec, comp, rules, used, edited, pc, req>>

Stored == {x \in Specs : spec[x] # NoType} \cup {x \in Comps : comp[x] # NoComp}
RefsOf(members) == {members[i].ref : i \in DOMAIN members}

(* Also, what the foreign keys see to: nothing refers to what is not there.*)
LibraryTypeOK ==
  /\ spec \in [Specs -> Types \cup {NoType}]
  /\ comp \in [Comps -> Compositions \cup {NoComp}]
  /\ rules \subseteq Stored /\ Stored \subseteq used /\ used \subseteq Refs
  /\ \A c \in Comps : RefsOf(comp[c].members) \subseteq Stored
  /\ edited \subseteq Specs
  /\ pc \in [Creators -> {"idle", "depth", "directions", "leaves", "insert"}]
  /\ req \in [Creators -> Requests \cup {NoRequest}]

LibraryInit ==
  /\ spec = [x \in Specs |-> NoType] /\ comp = [x \in Comps |-> NoComp]
  /\ rules = {} /\ used = {} /\ edited = {}
  /\ pc = [k \in Creators |-> "idle"] /\ req = [k \in Creators |-> NoRequest]

Free(x) == x \notin Stored /\ (Reuse \/ x \notin used)

-----------------------------------------------------------------------------
(* Fault types, and the pairs that must not run at once (the hard rules of *)
(* DefaultConstraints; the soft ones reject nothing).                      *)
Network(t) == t[1] = "network"
Matches(t, pattern) == t[1] = pattern[1] /\ pattern[2] \in {"*", t[2]}

HardPairs == {
  [subject |-> <<"network", "blackhole">>, object |-> <<"network", "*">>],
  [subject |-> <<"network", "drip">>, object |-> <<"network", "throttle">>],
  [subject |-> <<"network", "drip">>, object |-> <<"network", "latency">>]}

MatchesPair(t, u) ==
  \E h \in HardPairs : \/ Matches(t, h.subject) /\ Matches(u, h.object)
                       \/ Matches(t, h.object) /\ Matches(u, h.subject)

(* How far down the tree of a composition goes: those stored whose tree    *)
(* ends within n levels (walkDepth), and those that can be resolved within *)
(* n levels, down to their specs (resolveComposition, with n = MaxDepth;   *)
(* collectNetworkMembers and collectLeaves, which count no levels).        *)
Deepest == MaxDepth + Cardinality(Comps)

Within[n \in 0 .. MaxDepth] ==
  LET below == IF n = 0 THEN {} ELSE Within[n - 1]
  IN  {c \in Comps \cap Stored : n > 0 /\ RefsOf(comp[c].members) \cap Comps \subseteq below}

Compiled[n \in 0 .. Deepest] ==
  LET below == IF n = 0 THEN {} ELSE Compiled[n - 1] \cup (Specs \cap Stored)
  IN  {c \in Comps \cap Stored : RefsOf(comp[c].members) \subseteq below}

Resolves(members) == RefsOf(members) \subseteq (Specs \cap Stored) \cup Compiled[Deepest]

CompileRules ==
  rules \cap Specs \subseteq Stored /\ rules \cap Comps \subseteq Compiled[MaxDepth]

(* The leaves of a tree, each with its place in it and the direction it    *)
(* has or inherits from the compositions around it.                        *)
Inherit(leaf, i, dir) ==
  [at |-> <<i>> \o leaf.at, spec |-> leaf.spec, dir |-> IF leaf.dir = "" THEN dir ELSE leaf.dir]

LeavesOf(members, below) ==
  UNION {IF members[i].ref \in Specs
         THEN {[at |-> <<i>>, spec |-> members[i].ref, dir |-> members[i].dir]}
         ELSE {Inherit(l, i, members[i].dir) : l \in below[members[i].ref]} : i \in DOMAIN members}

Tree[n \in 0 .. Deepest] ==
  [c \in Comps |-> IF n = 0 THEN {} ELSE LeavesOf(comp[c].members, Tree[n - 1])]

Leaves(members) == LeavesOf(members, Tree[Deepest])

OneToxicPerDirection(leaves) ==
  \A l, m \in leaves : Network(spec[l.spec]) /\ Network(spec[m.spec]) /\ l.dir = m.dir => l = m

NoHardPair(leaves) ==
  \A l, m \in leaves : l # m => ~MatchesPair(spec[l.spec], spec[m.spec])

-----------------------------------------------------------------------------
(* A create request: three passes over the tree, each reading it from the  *)
(* database again, then the transaction.                                   *)
Goto(k, l) == pc' = [pc EXCEPT ![k] = l] /\ UNCHANGED <<tables, used, edited>>
Refuse(k)  == /\ pc' = [pc EXCEPT ![k] = "idle"] /\ req' = [req EXCEPT ![k] = NoRequest]
              /\ UNCHANGED <<tables, used, edited>>
Pass(k, ok, next) == IF ok THEN Goto(k, next) /\ UNCHANGED req ELSE Refuse(k)

CreateFaultComposition(k) ==
  /\ pc[k] = "idle"
  /\ \E q \in Requests : (Reuse \/ q.id \notin used \ Stored) /\ req' = [req EXCEPT ![k] = q]
  /\ Goto(k, "depth")

(* Mutant: the top level is not counted.                                   *)
ValidateDepthBelow(k) ==
  /\ pc[k] = "depth"
  /\ Pass(k, RefsOf(req[k].members) \cap Comps \subseteq Within[MaxDepth], "directions")

ValidateDepth(k) ==
  /\ pc[k] = "depth"
  /\ Pass(k, RefsOf(req[k].members) \cap Comps \subseteq Within[MaxDepth - 1], "directions")

(* Mutant: only the faults the composition lists itself are looked at.     *)
ValidateOwnPairs(k) ==
  /\ pc[k] = "leaves"
  /\ Pass(k, /\ Resolves(req[k].members)
             /\ req[k].mode = "parallel"
                  => NoHardPair(LeavesOf(req[k].members, [c \in Comps |-> {}])), "insert")

ValidateDirections(k) ==
  /\ pc[k] = "directions"
  /\ Pass(k, req[k].mode = "parallel"
               => Resolves(req[k].members) /\ OneToxicPerDirection(Leaves(req[k].members)), "leaves")

ValidateIncompatibilities(k) ==
  /\ pc[k] = "leaves"
  /\ Pass(k, /\ Resolves(req[k].members)
             /\ req[k].mode = "parallel" => NoHardPair(Leaves(req[k].members)), "insert")

(* The composition row goes first, so that its members may refer to it;    *)
(* a foreign key or the primary key may fail the transaction.              *)
InsertComposition(k) ==
  LET q == req[k] IN
  /\ pc[k] = "insert"
  /\ pc' = [pc EXCEPT ![k] = "idle"] /\ req' = [req EXCEPT ![k] = NoRequest]
  /\ IF q.id \notin Stored /\ (Reuse \/ q.id \notin used) /\ RefsOf(q.members) \subseteq Stored \cup {q.id}
     THEN /\ comp' = [comp EXCEPT ![q.id] = [mode |-> q.mode, members |-> q.members]]
          /\ used' = used \cup {q.id}
     ELSE UNCHANGED <<comp, used>>
  /\ UNCHANGED <<spec, rules, edited>>

(* Foreign keys refuse to delete what a member or a rule refers to; the    *)
(* members of a deleted composition go with it.  (A fault config that      *)
(* names a composition holds it as a rule does: its key would become NULL, *)
(* which a CHECK of its row refuses.)                                      *)
ReferredTo(x) ==
  x \in rules \/ \E c \in Comps \ {x} : x \in RefsOf(comp[c].members)

(* Mutant: the foreign key of children cascades too.                       *)
DeleteCompositionAnyway(c) ==
  /\ c \in Stored /\ c \notin rules
  /\ comp' = [comp EXCEPT ![c] = NoComp]
  /\ UNCHANGED <<spec, rules, used, edited, pc, req>>

DeleteComposition(c) ==
  /\ c \in Stored /\ ~ReferredTo(c)
  /\ comp' = [comp EXCEPT ![c] = NoComp]
  /\ UNCHANGED <<spec, rules, used, edited, pc, req>>

-----------------------------------------------------------------------------
(* Specs: their type may be changed under the compositions that use them.  *)
CreateSpec(x) ==
  /\ Free(x)
  /\ \E t \in Types : spec' = [spec EXCEPT ![x] = t]
  /\ used' = used \cup {x}
  /\ UNCHANGED <<comp, rules, edited, pc, req>>

UpdateSpec(x) ==
  /\ x \in Stored
  /\ \E t \in Types \ {spec[x]} : spec' = [spec EXCEPT ![x] = t]
  /\ edited' = edited \cup {x}
  /\ UNCHANGED <<comp, rules, used, pc, req>>

DeleteSpec(x) ==
  /\ x \in Stored /\ ~ReferredTo(x)
  /\ spec' = [spec EXCEPT ![x] = NoType]
  /\ UNCHANGED <<comp, rules, used, edited, pc, req>>

(* A rule is written, or rewritten, to name x; the last one that does goes.*)
NameInRule(x) ==
  /\ x \in Stored \ rules
  /\ rules' = rules \cup {x}
  /\ UNCHANGED <<spec, comp, used, edited, pc, req>>

UnnameInRule(x) ==
  /\ x \in rules
  /\ rules' = rules \ {x}
  /\ UNCHANGED <<spec, comp, used, edited, pc, req>>

LibraryNext ==
  \/ \E k \in Creators :
       \/ CreateFaultComposition(k) \/ ValidateDepth(k) \/ ValidateDirections(k)
       \/ ValidateIncompatibilities(k) \/ InsertComposition(k)
  \/ \E c \in Comps : DeleteComposition(c)
  \/ \E x \in Specs : CreateSpec(x) \/ UpdateSpec(x) \/ DeleteSpec(x)
  \/ \E x \in Refs : NameInRule(x) \/ UnnameInRule(x)

LibrarySpec == LibraryInit /\ [][LibraryNext]_libraryVars

-----------------------------------------------------------------------------
(* Whatever a rule names can be compiled, at every moment: no poll has to  *)
(* fall back to rules that are not compiled, and no push to fail, because  *)
(* of what operators have stored.                                          *)
RulesCompile == CompileRules

(* Faults that run at once get along, at every level of a tree (a child is *)
(* a stored composition itself): they are no hard pair, and no two network *)
(* ones go in the same direction, unless a spec was changed afterwards.    *)
ParallelFaultsCoexist ==
  \A c \in Comps \cap Stored :
    LET unchanged == {l \in Leaves(comp[c].members) : l.spec \notin edited}
    IN  comp[c].mode = "parallel" => OneToxicPerDirection(unchanged) /\ NoHardPair(unchanged)

(* What the code's comments say and the code does not do.                  *)

(* "A parallel composition has at most one network toxic per direction"    *)
(* (ValidateNetworkDirections): also in the directions its members inherit *)
(* from the sequential composition it is part of.                          *)
OneToxicPerDirectionAtOnce ==
  \A c \in Comps \cap Stored : \A i \in DOMAIN comp[c].members :
    LET m == comp[c].members[i] IN
    m.ref \in Comps /\ comp[m.ref].mode = "parallel" =>
      OneToxicPerDirection({l \in Leaves(<<m>>) : l.spec \notin edited})
=============================================================================
