------------------------- MODULE FaultLibraryProofs -------------------------
(* Proofs about the fault library: for any specs, compositions, requests,  *)
(* creators and depth, when no ID is given twice, every rule compiles and  *)
(* the faults of a parallel composition get along.                         *)
EXTENDS FaultLibrary, FiniteSetTheorems, WellFoundedInduction, TLAPS

Leaf == [at : Seq(Nat), spec : Specs, dir : Dirs]

-----------------------------------------------------------------------------
(* Induction over the naturals, for a set of them.                         *)

LEMMA Smallest ==
  ASSUME NEW T \in SUBSET Nat, T # {}
  PROVE  \E m \in T : \A n \in T : m <= n
<1>1. OpToRel(<, Nat) = {ss \in Nat \X Nat : ss[1] < ss[2]}
  BY DEF OpToRel
<1>2. PICK m \in T : \A n \in T : <<n, m>> \notin OpToRel(<, Nat)
  BY NatLessThanWellFounded, WFMin
<1>3. ASSUME NEW n \in T PROVE m <= n
  <2>1. <<n, m>> \notin {ss \in Nat \X Nat : ss[1] < ss[2]}
    BY <1>1, <1>2
  <2> QED BY <2>1
<1> QED BY <1>3

LEMMA Induction ==
  ASSUME NEW S \in SUBSET Nat, 0 \in S, \A n \in S : n + 1 \in S
  PROVE  S = Nat
<1> SUFFICES ASSUME Nat \ S # {} PROVE FALSE
  OBVIOUS
<1>1. PICK m \in Nat \ S : \A n \in Nat \ S : m <= n
  <2> DEFINE T == Nat \ S
  <2>1. \E m \in T : \A n \in T : m <= n
    BY Smallest
  <2> QED BY <2>1
<1>2. m - 1 \in S
  BY <1>1
<1> QED BY <1>1, <1>2

(* What holds at level 0, and at each level whenever it does at the one    *)
(* before, holds at all of them.                                           *)
LEMMA LevelInduction ==
  ASSUME NEW N \in Nat, NEW T \in SUBSET Nat, 0 \in T,
         \A n \in 1 .. N : n - 1 \in T => n \in T
  PROVE  0 .. N \subseteq T
<1> DEFINE S == {n \in Nat : n <= N => n \in T}
<1>1. 0 \in S
  OBVIOUS
<1>2. ASSUME NEW n \in S PROVE n + 1 \in S
  OBVIOUS
<1>3. S \in SUBSET Nat
  OBVIOUS
<1> HIDE DEF S
<1>4. S = Nat
  BY <1>1, <1>2, <1>3, Induction
<1> QED BY <1>4 DEF S

(* A function on levels 0 .. N is defined by its first value and the step  *)
(* from each of its values to the next.                                    *)
Iterates(f, N, S, s0, g) ==
  f \in [0 .. N -> S] /\ f[0] = s0 /\ \A n \in 1 .. N : f[n] = g[f[n - 1]]

LEMMA Recursion ==
  ASSUME NEW N \in Nat, NEW S, NEW s0 \in S, NEW g \in [S -> S]
  PROVE  \E f : Iterates(f, N, S, s0, g)
<1> DEFINE Upto(k) == \E f \in [0 .. k -> S] :
                        f[0] = s0 /\ \A n \in 1 .. k : f[n] = g[f[n - 1]]
           T == {k \in Nat : Upto(k)}
<1>1. 0 \in T
  <2> DEFINE h == [n \in 0 .. 0 |-> s0]
  <2>1. h \in [0 .. 0 -> S] /\ h[0] = s0 /\ 1 .. 0 = {}
    OBVIOUS
  <2> HIDE DEF h
  <2>2. Upto(0)
    BY <2>1
  <2> QED BY <2>2
<1>2. ASSUME NEW k \in Nat, k \in T PROVE k + 1 \in T
  <2>1. PICK f \in [0 .. k -> S] : f[0] = s0 /\ \A n \in 1 .. k : f[n] = g[f[n - 1]]
    BY <1>2
  <2> DEFINE h == [n \in 0 .. k + 1 |-> IF n <= k THEN f[n] ELSE g[f[k]]]
  <2>2. h \in [0 .. k + 1 -> S] /\ h[0] = s0
    BY <2>1
  <2>3. ASSUME NEW n \in 1 .. k + 1 PROVE h[n] = g[h[n - 1]]
    <3>1. CASE n <= k
      BY <2>1, <3>1
    <3>2. CASE n = k + 1
      BY <2>1, <3>2
    <3> QED BY <3>1, <3>2
  <2> HIDE DEF h
  <2>4. Upto(k + 1)
    BY <2>2, <2>3
  <2> QED BY <2>4
<1>3. T \in SUBSET Nat /\ N \in Nat
  OBVIOUS
<1> HIDE DEF T
<1>4. T = Nat
  BY <1>1, <1>2, <1>3, Induction
<1>5. PICK f \in [0 .. N -> S] : f[0] = s0 /\ \A n \in 1 .. N : f[n] = g[f[n - 1]]
  BY <1>4 DEF T
<1> QED BY <1>5 DEF Iterates

-----------------------------------------------------------------------------
(* The levels of the trees.                                                *)

LEMMA DeepestIs == ASSUME ConstantsOK PROVE Deepest \in Nat /\ MaxDepth <= Deepest
<1>1. Cardinality(Comps) \in Nat
  BY FS_CardinalityType DEF ConstantsOK
<1> QED BY <1>1 DEF Deepest, ConstantsOK

WithinLevels ==
  /\ Within[0] = {}
  /\ \A n \in 1 .. MaxDepth : Within[n] =
       {c \in Comps \cap Stored : RefsOf(comp[c].members) \cap Comps \subseteq Within[n - 1]}

LEMMA WithinIs == ASSUME ConstantsOK PROVE WithinLevels
<1> DEFINE From(B) ==
             {c \in Comps \cap Stored : RefsOf(comp[c].members) \cap Comps \subseteq B}
           g == [B \in SUBSET Comps |-> From(B)]
<1>1. g \in [SUBSET Comps -> SUBSET Comps]
  OBVIOUS
<1>2. {} \in SUBSET Comps /\ MaxDepth \in Nat
  BY DEF ConstantsOK
<1>3. \A B \in SUBSET Comps : g[B] = From(B)
  OBVIOUS
<1> HIDE DEF g
<1>4. PICK f \in [0 .. MaxDepth -> SUBSET Comps] :
           f[0] = {} /\ \A n \in 1 .. MaxDepth : f[n] = g[f[n - 1]]
  <2> DEFINE S  == SUBSET Comps
             s0 == {}
  <2>1. s0 \in S
    BY <1>1
  <2>2. g \in [S -> S]
    BY <1>1
  <2>3. MaxDepth \in Nat
    BY <1>2
  <2> HIDE DEF S, s0
  <2>4. \E f : Iterates(f, MaxDepth, S, s0, g)
    BY <2>1, <2>2, <2>3, Recursion
  <2> QED BY <2>4 DEF S, s0, Iterates
<1>5. ASSUME NEW n \in 0 .. MaxDepth
      PROVE  f[n] = LET below == IF n = 0 THEN {} ELSE f[n - 1]
                    IN  {c \in Comps \cap Stored :
                           n > 0 /\ RefsOf(comp[c].members) \cap Comps \subseteq below}
  <2>1. CASE n = 0
    BY <1>4, <2>1
  <2>2. CASE n # 0
    <3>1. n \in 1 .. MaxDepth /\ n - 1 \in 0 .. MaxDepth
      BY <1>2, <2>2
    <3>2. f[n] = From(f[n - 1])
      BY <1>3, <1>4, <3>1
    <3> QED BY <2>2, <3>1, <3>2
  <2> QED BY <2>1, <2>2
<1>6. f = [n \in 0 .. MaxDepth |->
             LET below == IF n = 0 THEN {} ELSE f[n - 1]
             IN  {c \in Comps \cap Stored :
                    n > 0 /\ RefsOf(comp[c].members) \cap Comps \subseteq below}]
  BY <1>5
<1>7. Within = [n \in 0 .. MaxDepth |->
                  LET below == IF n = 0 THEN {} ELSE Within[n - 1]
                  IN  {c \in Comps \cap Stored :
                         n > 0 /\ RefsOf(comp[c].members) \cap Comps \subseteq below}]
  BY <1>6, Zenon DEF Within
<1> HIDE DEF Within
<1>8. Within[0] = {}
  BY <1>2, <1>7
<1>9. ASSUME NEW n \in 1 .. MaxDepth
      PROVE  Within[n] =
               {c \in Comps \cap Stored : RefsOf(comp[c].members) \cap Comps \subseteq Within[n - 1]}
  <2>1. n \in 0 .. MaxDepth /\ n # 0 /\ n > 0
    BY <1>2
  <2> QED BY <1>7, <2>1
<1> QED BY <1>8, <1>9 DEF WithinLevels

LEMMA CompiledIs ==
  ASSUME ConstantsOK
  PROVE  /\ Compiled[0] = {c \in Comps \cap Stored : RefsOf(comp[c].members) \subseteq {}}
         /\ \A n \in 1 .. Deepest : Compiled[n] =
              {c \in Comps \cap Stored :
                 RefsOf(comp[c].members) \subseteq Compiled[n - 1] \cup (Specs \cap Stored)}
<1> DEFINE From(B) == {c \in Comps \cap Stored : RefsOf(comp[c].members) \subseteq B}
           g == [B \in SUBSET Comps |-> From(B \cup (Specs \cap Stored))]
<1>1. g \in [SUBSET Comps -> SUBSET Comps] /\ From({}) \in SUBSET Comps
  OBVIOUS
<1>2. Deepest \in Nat
  BY DeepestIs
<1>3. \A B \in SUBSET Comps : g[B] = From(B \cup (Specs \cap Stored))
  OBVIOUS
<1> HIDE DEF g
<1>4. PICK f \in [0 .. Deepest -> SUBSET Comps] :
           f[0] = From({}) /\ \A n \in 1 .. Deepest : f[n] = g[f[n - 1]]
  <2> DEFINE S  == SUBSET Comps
             s0 == From({})
  <2>1. s0 \in S
    BY <1>1
  <2>2. g \in [S -> S]
    BY <1>1
  <2>3. Deepest \in Nat
    BY <1>2
  <2> HIDE DEF S, s0
  <2>4. \E f : Iterates(f, Deepest, S, s0, g)
    BY <2>1, <2>2, <2>3, Recursion
  <2> QED BY <2>4 DEF S, s0, Iterates
<1>5. ASSUME NEW n \in 0 .. Deepest
      PROVE  f[n] = LET below == IF n = 0 THEN {} ELSE f[n - 1] \cup (Specs \cap Stored)
                    IN  {c \in Comps \cap Stored : RefsOf(comp[c].members) \subseteq below}
  <2>1. CASE n = 0
    BY <1>4, <2>1
  <2>2. CASE n # 0
    <3>1. n \in 1 .. Deepest /\ n - 1 \in 0 .. Deepest
      BY <1>2, <2>2
    <3>2. f[n] = From(f[n - 1] \cup (Specs \cap Stored))
      BY <1>3, <1>4, <3>1
    <3> QED BY <2>2, <3>2
  <2> QED BY <2>1, <2>2
<1>6. f = [n \in 0 .. Deepest |->
             LET below == IF n = 0 THEN {} ELSE f[n - 1] \cup (Specs \cap Stored)
             IN  {c \in Comps \cap Stored : RefsOf(comp[c].members) \subseteq below}]
  BY <1>5
<1>7. Compiled = [n \in 0 .. Deepest |->
                    LET below == IF n = 0 THEN {} ELSE Compiled[n - 1] \cup (Specs \cap Stored)
                    IN  {c \in Comps \cap Stored : RefsOf(comp[c].members) \subseteq below}]
  BY <1>6, Zenon DEF Compiled
<1> HIDE DEF Compiled
<1>8. Compiled[0] = From({})
  BY <1>2, <1>7
<1>9. ASSUME NEW n \in 1 .. Deepest
      PROVE  Compiled[n] =
               {c \in Comps \cap Stored :
                  RefsOf(comp[c].members) \subseteq Compiled[n - 1] \cup (Specs \cap Stored)}
  <2>1. n \in 0 .. Deepest /\ n # 0
    BY <1>2
  <2> QED BY <1>7, <2>1
<1> QED BY <1>8, <1>9

LEMMA MembersAre ==
  ASSUME NEW members \in Members, NEW i \in DOMAIN members
  PROVE  i \in Nat /\ members[i] \in [ref : Refs, dir : Dirs]
<1> DEFINE M == [ref : Refs, dir : Dirs]
<1>1. members \in Seq(M)
  BY DEF Members
<1> HIDE DEF M
<1>2. i \in 1 .. Len(members) /\ members[i] \in M
  BY <1>1
<1> QED BY <1>2 DEF M

LEMMA CompsHaveMembers ==
  ASSUME LibraryTypeOK
  PROVE  \A c \in Comps : comp[c].members \in Members
<1> TAKE c \in Comps
<1>1. CASE comp[c] = NoComp
  <2> DEFINE M == [ref : Refs, dir : Dirs]
  <2> HIDE DEF M
  <2>0. <<>> \in Seq(M)
    OBVIOUS
  <2>1. <<>> \in Members
    BY <2>0, Zenon DEF Members, M
  <2>2. NoComp.members = <<>>
    BY DEF NoComp
  <2>3. comp[c].members = <<>>
    BY <1>1, <2>2
  <2> QED BY <2>1, <2>3
<1>2. CASE comp[c] \in Compositions
  BY <1>2 DEF Compositions
<1> QED BY <1>1, <1>2 DEF LibraryTypeOK

LEMMA LeavesType ==
  ASSUME ConstantsOK, NEW members \in Members, NEW below \in [Comps -> SUBSET Leaf]
  PROVE  LeavesOf(members, below) \subseteq Leaf
<1> SUFFICES ASSUME NEW i \in DOMAIN members
             PROVE  (IF members[i].ref \in Specs
                     THEN {[at |-> <<i>>, spec |-> members[i].ref, dir |-> members[i].dir]}
                     ELSE {Inherit(l, i, members[i].dir) : l \in below[members[i].ref]})
                    \subseteq Leaf
  BY DEF LeavesOf
<1>1. i \in Nat /\ members[i] \in [ref : Refs, dir : Dirs]
  BY MembersAre
<1>2. CASE members[i].ref \in Specs
  BY <1>1, <1>2 DEF Leaf
<1>3. CASE members[i].ref \notin Specs
  <2>1. members[i].ref \in Comps
    BY <1>1, <1>3 DEF Refs
  <2>2. ASSUME NEW l \in below[members[i].ref] PROVE Inherit(l, i, members[i].dir) \in Leaf
    <3>1. l \in Leaf
      BY <2>1
    <3>2. l.at \in Seq(Nat) /\ l.spec \in Specs /\ l.dir \in Dirs /\ <<i>> \in Seq(Nat)
      BY <1>1, <3>1 DEF Leaf
    <3>3. <<i>> \o l.at \in Seq(Nat)
      BY <3>2
    <3> QED BY <1>1, <3>2, <3>3 DEF Inherit, Leaf
  <2> QED BY <1>3, <2>2
<1> QED BY <1>2, <1>3

TreeLevels ==
  /\ Tree \in [0 .. Deepest -> [Comps -> SUBSET Leaf]]
  /\ Tree[0] = [c \in Comps |-> {}]
  /\ \A n \in 1 .. Deepest :
       Tree[n] = [c \in Comps |-> LeavesOf(comp[c].members, Tree[n - 1])]

LEMMA TreeIs == ASSUME ConstantsOK, LibraryTypeOK PROVE TreeLevels
<1> DEFINE S == [Comps -> SUBSET Leaf]
           Above(B) == [c \in Comps |-> LeavesOf(comp[c].members, B)]
           g == [B \in S |-> Above(B)]
           s0 == [c \in Comps |-> {}]
<1>1. \A c \in Comps : comp[c].members \in Members
  BY CompsHaveMembers
<1>2. \A B \in S : Above(B) \in S
  BY <1>1, LeavesType
<1>3. g \in [S -> S]
  BY <1>2
<1>4. s0 \in S
  OBVIOUS
<1>5. Deepest \in Nat
  BY DeepestIs
<1>6. \A B \in S : g[B] = Above(B)
  OBVIOUS
<1> HIDE DEF g, S, s0
<1>7. PICK f : Iterates(f, Deepest, S, s0, g)
  BY <1>3, <1>4, <1>5, Recursion
<1>8. ASSUME NEW n \in 0 .. Deepest
      PROVE  f[n] = [c \in Comps |-> IF n = 0 THEN {} ELSE LeavesOf(comp[c].members, f[n - 1])]
  <2>1. CASE n = 0
    BY <1>7, <2>1 DEF s0, Iterates
  <2>2. CASE n # 0
    <3>1. n \in 1 .. Deepest /\ n - 1 \in 0 .. Deepest
      BY <1>5, <2>2
    <3>2. f[n] = Above(f[n - 1])
      BY <1>6, <1>7, <3>1 DEF Iterates
    <3> QED BY <2>2, <3>2
  <2> QED BY <2>1, <2>2
<1>9. f = [n \in 0 .. Deepest |->
             [c \in Comps |-> IF n = 0 THEN {} ELSE LeavesOf(comp[c].members, f[n - 1])]]
  BY <1>7, <1>8 DEF Iterates
<1>10. Tree = [n \in 0 .. Deepest |->
                 [c \in Comps |-> IF n = 0 THEN {} ELSE LeavesOf(comp[c].members, Tree[n - 1])]]
  BY <1>9, Zenon DEF Tree
<1> HIDE DEF Tree
<1>11. Tree[0] = s0
  BY <1>5, <1>10 DEF s0
<1>12. ASSUME NEW n \in 1 .. Deepest
       PROVE  Tree[n] = [c \in Comps |-> LeavesOf(comp[c].members, Tree[n - 1])]
  <2>1. n \in 0 .. Deepest /\ n # 0
    BY <1>5
  <2> QED BY <1>10, <2>1
<1>13. 0 .. Deepest \subseteq {n \in Nat : n \in 0 .. Deepest => Tree[n] \in S}
  <2> DEFINE T == {n \in Nat : n \in 0 .. Deepest => Tree[n] \in S}
  <2>1. 0 \in T
    BY <1>4, <1>11
  <2>2. ASSUME NEW n \in 1 .. Deepest, n - 1 \in T PROVE n \in T
    <3>1. Tree[n - 1] \in S
      BY <1>5, <2>2
    <3>2. Tree[n] \in S
      BY <1>2, <1>12, <3>1
    <3> QED BY <1>5, <3>2
  <2>3. T \in SUBSET Nat
    OBVIOUS
  <2> HIDE DEF T
  <2>4. 0 .. Deepest \subseteq T
    BY <1>5, <2>1, <2>2, <2>3, LevelInduction
  <2> QED BY <2>4 DEF T
<1>14. \A n \in 0 .. Deepest : Tree[n] \in S
  BY <1>13
<1>15. DOMAIN Tree = 0 .. Deepest /\ Tree = [n \in 0 .. Deepest |-> Tree[n]]
  BY <1>10
<1>16. Tree \in [0 .. Deepest -> S]
  BY <1>14, <1>15
<1> QED BY <1>11, <1>12, <1>16 DEF S, s0, TreeLevels

-----------------------------------------------------------------------------
(* What is stored, and the types.                                          *)

LEMMA TypesAreTypes == ASSUME ConstantsOK PROVE NoType \notin Types
BY DEF ConstantsOK, NoType, ValidFaultTypes

LEMMA NotNoComp == ASSUME NEW c \in Compositions PROVE c # NoComp
<1>1. c.mode # ""
  BY DEF Compositions, Modes
<1>2. NoComp.mode = ""
  BY DEF NoComp
<1> QED BY <1>1, <1>2

LEMMA RequestIs ==
  ASSUME ConstantsOK, NEW q \in Requests
  PROVE  /\ q.id \in Comps /\ q.mode \in Modes /\ q.members \in Members
         /\ [mode |-> q.mode, members |-> q.members] \in Compositions
BY DEF ConstantsOK, Compositions

LEMMA StoredIs ==
  ASSUME ConstantsOK
  PROVE  /\ \A x \in Specs : x \in Stored <=> spec[x] # NoType
         /\ \A c \in Comps : c \in Stored <=> comp[c] # NoComp
         /\ Stored \subseteq Refs
BY DEF Stored, ConstantsOK, Refs

LEMMA NoMembers == RefsOf(NoComp.members) = {}
<1>1. NoComp.members = <<>>
  BY DEF NoComp
<1>2. DOMAIN <<>> = {}
  OBVIOUS
<1> QED BY <1>1, <1>2 DEF RefsOf

LEMMA RefsAre == ASSUME NEW members \in Members PROVE RefsOf(members) \subseteq Refs
BY MembersAre DEF RefsOf

(* What is created is new (if no ID is given twice), what is deleted was   *)
(* not referred to, and what stays is as it was: compositions always,      *)
(* specs unless they are edited.                                           *)
Frame ==
  /\ \A c \in Comps \cap Stored \cap Stored' : comp'[c] = comp[c]
  /\ \A x \in Specs \cap Stored \cap Stored' : spec'[x] = spec[x] \/ x \in edited'
  /\ used \subseteq used' /\ edited \subseteq edited'
  /\ ~Reuse => Stored' \cap used \subseteq Stored

Started == \A k \in Creators : pc[k] # "idle" => req[k] \in Requests

LEMMA Untouched ==
  ASSUME LibraryTypeOK, UNCHANGED tables, UNCHANGED <<used, edited>>
  PROVE  Frame /\ Stored' = Stored
BY DEF Frame, Stored, LibraryTypeOK, tables

LEMMA InsertStores ==
  ASSUME ConstantsOK, LibraryTypeOK, Started, NEW k \in Creators, InsertComposition(k)
  PROVE  /\ Frame
         /\ req[k].id \in Comps
         /\ \/ Stored' = Stored /\ UNCHANGED <<comp, used>>
            \/ /\ Stored' = Stored \cup {req[k].id} /\ used' = used \cup {req[k].id}
               /\ req[k].id \notin Stored /\ (~Reuse => req[k].id \notin used)
               /\ RefsOf(req[k].members) \subseteq Stored \cup {req[k].id}
               /\ comp' = [comp EXCEPT ![req[k].id] =
                             [mode |-> req[k].mode, members |-> req[k].members]]
<1> DEFINE q == req[k]
           new == [mode |-> q.mode, members |-> q.members]
<1>1. q \in Requests
  BY DEF Started, InsertComposition
<1>2. q.id \in Comps /\ new \in Compositions /\ new # NoComp
  BY <1>1, RequestIs, NotNoComp
<1>3. CASE UNCHANGED <<comp, used>>
  <2>1. UNCHANGED tables /\ UNCHANGED <<used, edited>>
    BY <1>3 DEF InsertComposition, tables
  <2> QED BY <1>2, <1>3, <2>1, Untouched
<1>4. CASE /\ q.id \notin Stored /\ (~Reuse => q.id \notin used)
           /\ RefsOf(q.members) \subseteq Stored \cup {q.id}
           /\ comp' = [comp EXCEPT ![q.id] = new] /\ used' = used \cup {q.id}
           /\ UNCHANGED <<spec, edited>>
  <2> HIDE DEF q, new
  <2>1. comp \in [Comps -> Compositions \cup {NoComp}] /\ Stored \subseteq used
    BY DEF LibraryTypeOK
  <2>2. \A c \in Comps : comp'[c] = IF c = q.id THEN new ELSE comp[c]
    BY <1>2, <1>4, <2>1
  <2>3. Stored' = Stored \cup {q.id}
    BY <1>2, <1>4, <2>2 DEF Stored
  <2>5. Frame
    BY <1>4, <2>1, <2>2, <2>3 DEF Frame
  <2> QED BY <1>2, <1>4, <2>3, <2>5 DEF q, new
<1> QED BY <1>3, <1>4 DEF InsertComposition

LEMMA DeleteCompositionRemoves ==
  ASSUME ConstantsOK, LibraryTypeOK, NEW d \in Comps, DeleteComposition(d)
  PROVE  /\ Frame /\ Stored' = Stored \ {d}
         /\ d \notin rules /\ \A c \in Comps \ {d} : d \notin RefsOf(comp[c].members)
<1>1. comp \in [Comps -> Compositions \cup {NoComp}]
  BY DEF LibraryTypeOK
<1>2. comp' = [comp EXCEPT ![d] = NoComp] /\ UNCHANGED <<spec, used, edited>>
  BY DEF DeleteComposition
<1>3. \A c \in Comps : comp'[c] = IF c = d THEN NoComp ELSE comp[c]
  BY <1>1, <1>2
<1>4. d \notin Specs
  BY DEF ConstantsOK
<1>5. Stored' = Stored \ {d}
  BY <1>2, <1>3, <1>4 DEF Stored
<1>6. Frame
  BY <1>2, <1>3, <1>5 DEF Frame
<1> QED BY <1>5, <1>6 DEF DeleteComposition, ReferredTo

LEMMA SpecSteps ==
  ASSUME ConstantsOK, LibraryTypeOK, NEW x \in Specs,
         CreateSpec(x) \/ UpdateSpec(x) \/ DeleteSpec(x)
  PROVE  /\ Frame
         /\ \/ /\ CreateSpec(x) /\ Stored' = Stored \cup {x} /\ used' = used \cup {x}
               /\ x \notin Stored
            \/ UpdateSpec(x) /\ Stored' = Stored /\ used' = used
            \/ /\ DeleteSpec(x) /\ Stored' = Stored \ {x} /\ used' = used
               /\ x \notin rules /\ \A c \in Comps : x \notin RefsOf(comp[c].members)
         /\ spec' \in [Specs -> Types \cup {NoType}]
<1>1. spec \in [Specs -> Types \cup {NoType}] /\ NoType \notin Types
  BY TypesAreTypes DEF LibraryTypeOK
<1>2. x \notin Comps
  BY DEF ConstantsOK
<1>3. CASE CreateSpec(x)
  <2>1. /\ x \notin Stored /\ (~Reuse => x \notin used)
        /\ used' = used \cup {x} /\ UNCHANGED <<comp, edited>>
    BY <1>3 DEF CreateSpec, Free
  <2>2. PICK t \in Types : spec' = [spec EXCEPT ![x] = t]
    BY <1>3 DEF CreateSpec
  <2>3. \A y \in Specs : spec'[y] = IF y = x THEN t ELSE spec[y]
    BY <1>1, <2>2
  <2>4. Stored' = Stored \cup {x}
    BY <1>1, <1>2, <2>1, <2>3 DEF Stored
  <2>5. Frame
    BY <2>1, <2>3, <2>4 DEF Frame
  <2> QED BY <1>1, <1>3, <2>1, <2>2, <2>4, <2>5
<1>4. CASE UpdateSpec(x)
  <2>1. x \in Stored /\ edited' = edited \cup {x} /\ UNCHANGED <<comp, used>>
    BY <1>4 DEF UpdateSpec
  <2>2. PICK t \in Types : spec' = [spec EXCEPT ![x] = t]
    BY <1>4 DEF UpdateSpec
  <2>3. \A y \in Specs : spec'[y] = IF y = x THEN t ELSE spec[y]
    BY <1>1, <2>2
  <2>4. Stored' = Stored
    BY <1>1, <1>2, <2>1, <2>3 DEF Stored
  <2>5. Frame
    BY <2>1, <2>3, <2>4 DEF Frame
  <2> QED BY <1>1, <1>4, <2>1, <2>2, <2>4, <2>5
<1>5. CASE DeleteSpec(x)
  <2>1. x \in Stored /\ UNCHANGED <<comp, used, edited>> /\ spec' = [spec EXCEPT ![x] = NoType]
    BY <1>5 DEF DeleteSpec
  <2>2. x \notin rules /\ \A c \in Comps : x \notin RefsOf(comp[c].members)
    BY <1>2, <1>5 DEF DeleteSpec, ReferredTo
  <2>3. \A y \in Specs : spec'[y] = IF y = x THEN NoType ELSE spec[y]
    BY <1>1, <2>1
  <2>4. Stored' = Stored \ {x}
    BY <1>1, <1>2, <2>1, <2>3 DEF Stored
  <2>5. Frame
    BY <2>1, <2>3, <2>4 DEF Frame
  <2> QED BY <1>1, <1>5, <2>1, <2>2, <2>4, <2>5
<1> QED BY <1>3, <1>4, <1>5

(* The other steps leave the tables alone.                                 *)
LEMMA QuietSteps ==
  ASSUME LibraryTypeOK
  PROVE  /\ \A k \in Creators :
              CreateFaultComposition(k) \/ ValidateDepth(k) \/ ValidateDirections(k)
                \/ ValidateIncompatibilities(k)
              => Frame /\ Stored' = Stored /\ UNCHANGED <<tables, used, edited>>
         /\ \A x \in Refs : NameInRule(x) \/ UnnameInRule(x)
              => Frame /\ Stored' = Stored /\ UNCHANGED <<spec, comp, used, edited>>
         /\ UNCHANGED libraryVars => Frame /\ Stored' = Stored
<1>1. UNCHANGED <<spec, comp, used, edited>> => Frame /\ Stored' = Stored
  BY DEF Frame, Stored, LibraryTypeOK
<1>2. ASSUME NEW k \in Creators,
             CreateFaultComposition(k) \/ ValidateDepth(k) \/ ValidateDirections(k)
               \/ ValidateIncompatibilities(k)
      PROVE  UNCHANGED <<tables, used, edited>>
  BY <1>2 DEF CreateFaultComposition, ValidateDepth, ValidateDirections,
              ValidateIncompatibilities, Pass, Goto, Refuse
<1>3. ASSUME NEW x \in Refs, NameInRule(x) \/ UnnameInRule(x)
      PROVE  UNCHANGED <<spec, comp, used, edited>>
  BY <1>3 DEF NameInRule, UnnameInRule
<1>4. UNCHANGED <<tables, used, edited>> => UNCHANGED <<spec, comp, used, edited>>
  BY DEF tables
<1>5. UNCHANGED libraryVars => UNCHANGED <<spec, comp, used, edited>>
  BY DEF libraryVars
<1> QED BY <1>1, <1>2, <1>3, <1>4, <1>5

-----------------------------------------------------------------------------
(* Types: nothing refers to what is not stored.                            *)
TypeInv == LibraryTypeOK /\ Started

LEMMA TypeInit == ASSUME ConstantsOK, LibraryInit PROVE TypeInv
<1>1. Stored = {}
  BY DEF LibraryInit, Stored
<1>2. \A c \in Comps : RefsOf(comp[c].members) = {}
  BY NoMembers DEF LibraryInit
<1> QED BY <1>1, <1>2 DEF LibraryInit, TypeInv, LibraryTypeOK, Started

LEMMA CreatorsType ==
  ASSUME ConstantsOK, TypeInv, [LibraryNext]_libraryVars
  PROVE  /\ pc' \in [Creators -> {"idle", "depth", "directions", "leaves", "insert"}]
         /\ req' \in [Creators -> Requests \cup {NoRequest}]
         /\ Started'
<1>1. /\ pc \in [Creators -> {"idle", "depth", "directions", "leaves", "insert"}]
      /\ req \in [Creators -> Requests \cup {NoRequest}]
      /\ \A k \in Creators : pc[k] # "idle" => req[k] \in Requests
  BY DEF TypeInv, LibraryTypeOK, Started
<1>2. CASE UNCHANGED <<pc, req>>
  BY <1>1, <1>2 DEF Started
<1>3. ASSUME NEW k \in Creators,
             \E l \in {"directions", "leaves", "insert"} : pc' = [pc EXCEPT ![k] = l],
             req' = req, pc[k] # "idle"
      PROVE  /\ pc' \in [Creators -> {"idle", "depth", "directions", "leaves", "insert"}]
             /\ req' \in [Creators -> Requests \cup {NoRequest}]
             /\ Started'
  BY <1>1, <1>3 DEF Started
<1>4. ASSUME NEW k \in Creators,
             pc' = [pc EXCEPT ![k] = "idle"], req' = [req EXCEPT ![k] = NoRequest]
      PROVE  /\ pc' \in [Creators -> {"idle", "depth", "directions", "leaves", "insert"}]
             /\ req' \in [Creators -> Requests \cup {NoRequest}]
             /\ Started'
  BY <1>1, <1>4 DEF Started
<1>5. ASSUME NEW k \in Creators, NEW q \in Requests,
             pc' = [pc EXCEPT ![k] = "depth"], req' = [req EXCEPT ![k] = q]
      PROVE  /\ pc' \in [Creators -> {"idle", "depth", "directions", "leaves", "insert"}]
             /\ req' \in [Creators -> Requests \cup {NoRequest}]
             /\ Started'
  BY <1>1, <1>5 DEF Started
<1>6. ASSUME NEW k \in Creators, CreateFaultComposition(k)
      PROVE  \E q \in Requests : pc' = [pc EXCEPT ![k] = "depth"] /\ req' = [req EXCEPT ![k] = q]
  BY <1>6 DEF CreateFaultComposition, Goto
<1>7. ASSUME NEW k \in Creators,
             ValidateDepth(k) \/ ValidateDirections(k) \/ ValidateIncompatibilities(k)
      PROVE  \/ /\ \E l \in {"directions", "leaves", "insert"} : pc' = [pc EXCEPT ![k] = l]
                /\ req' = req /\ pc[k] # "idle"
             \/ pc' = [pc EXCEPT ![k] = "idle"] /\ req' = [req EXCEPT ![k] = NoRequest]
  BY <1>7
  DEF ValidateDepth, ValidateDirections, ValidateIncompatibilities, Pass, Goto, Refuse
<1>8. ASSUME NEW k \in Creators, InsertComposition(k)
      PROVE  pc' = [pc EXCEPT ![k] = "idle"] /\ req' = [req EXCEPT ![k] = NoRequest]
  BY <1>8 DEF InsertComposition
<1>9. ASSUME NEW c \in Comps, DeleteComposition(c) PROVE UNCHANGED <<pc, req>>
  BY <1>9 DEF DeleteComposition
<1>10. ASSUME NEW x \in Specs, CreateSpec(x) \/ UpdateSpec(x) \/ DeleteSpec(x)
       PROVE  UNCHANGED <<pc, req>>
  BY <1>10 DEF CreateSpec, UpdateSpec, DeleteSpec
<1>11. ASSUME NEW x \in Refs, NameInRule(x) \/ UnnameInRule(x) PROVE UNCHANGED <<pc, req>>
  BY <1>11 DEF NameInRule, UnnameInRule
<1>12. CASE UNCHANGED libraryVars
  BY <1>2, <1>12 DEF libraryVars
<1> QED
  BY <1>2, <1>3, <1>4, <1>5, <1>6, <1>7, <1>8, <1>9, <1>10, <1>11, <1>12 DEF LibraryNext

(* The tables, when the steps keep what is referred to.                    *)
LEMMA TablesType ==
  ASSUME ConstantsOK, TypeInv, [LibraryNext]_libraryVars
  PROVE  /\ spec' \in [Specs -> Types \cup {NoType}]
         /\ comp' \in [Comps -> Compositions \cup {NoComp}]
         /\ rules' \subseteq Stored' /\ Stored' \subseteq used' /\ used' \subseteq Refs
         /\ \A c \in Comps : RefsOf(comp'[c].members) \subseteq Stored'
         /\ edited' \subseteq Specs
         /\ Frame
<1>0. /\ spec \in [Specs -> Types \cup {NoType}]
      /\ comp \in [Comps -> Compositions \cup {NoComp}]
      /\ rules \subseteq Stored /\ Stored \subseteq used /\ used \subseteq Refs
      /\ \A c \in Comps : RefsOf(comp[c].members) \subseteq Stored
      /\ edited \subseteq Specs
  BY DEF TypeInv, LibraryTypeOK
<1>1. LibraryTypeOK /\ Started
  BY DEF TypeInv
<1> DEFINE Goal ==
      /\ spec' \in [Specs -> Types \cup {NoType}]
      /\ comp' \in [Comps -> Compositions \cup {NoComp}]
      /\ rules' \subseteq Stored' /\ Stored' \subseteq used' /\ used' \subseteq Refs
      /\ \A c \in Comps : RefsOf(comp'[c].members) \subseteq Stored'
      /\ edited' \subseteq Specs
      /\ Frame
<1>2. ASSUME NEW k \in Creators, InsertComposition(k) PROVE Goal
  <2>1. Frame /\ req[k].id \in Comps
    BY <1>1, <1>2, InsertStores
  <2>2. UNCHANGED <<spec, rules, edited>>
    BY <1>2 DEF InsertComposition
  <2>3. CASE Stored' = Stored /\ UNCHANGED <<comp, used>>
    BY <1>0, <2>1, <2>2, <2>3
  <2>4. CASE /\ Stored' = Stored \cup {req[k].id} /\ used' = used \cup {req[k].id}
             /\ req[k].id \notin Stored /\ (~Reuse => req[k].id \notin used)
             /\ RefsOf(req[k].members) \subseteq Stored \cup {req[k].id}
             /\ comp' = [comp EXCEPT ![req[k].id] =
                           [mode |-> req[k].mode, members |-> req[k].members]]
    <3> DEFINE new == [mode |-> req[k].mode, members |-> req[k].members]
    <3>1. req[k] \in Requests
      BY <1>1, <1>2 DEF Started, InsertComposition
    <3>2. new \in Compositions /\ new.members = req[k].members
      BY <3>1, RequestIs
    <3> HIDE DEF new
    <3>3. comp' = [comp EXCEPT ![req[k].id] = new]
      BY <2>4 DEF new
    <3>4. \A c \in Comps : comp'[c] = IF c = req[k].id THEN new ELSE comp[c]
      BY <1>0, <3>3
    <3>5. comp' \in [Comps -> Compositions \cup {NoComp}]
      BY <1>0, <3>2, <3>3
    <3>6. \A c \in Comps : RefsOf(comp'[c].members) \subseteq Stored'
      BY <1>0, <2>4, <3>2, <3>4
    <3>7. used' \subseteq Refs
      BY <1>0, <2>1, <2>4 DEF Refs
    <3> QED BY <1>0, <2>1, <2>2, <2>4, <3>5, <3>6, <3>7
  <2> QED BY <1>1, <1>2, <2>3, <2>4, InsertStores
<1>3. ASSUME NEW d \in Comps, DeleteComposition(d) PROVE Goal
  <2>1. /\ Frame /\ Stored' = Stored \ {d}
        /\ d \notin rules /\ \A c \in Comps \ {d} : d \notin RefsOf(comp[c].members)
    BY <1>1, <1>3, DeleteCompositionRemoves
  <2>2. UNCHANGED <<spec, rules, used, edited>> /\ comp' = [comp EXCEPT ![d] = NoComp]
    BY <1>3 DEF DeleteComposition
  <2>3. \A c \in Comps : comp'[c] = IF c = d THEN NoComp ELSE comp[c]
    BY <1>0, <2>2
  <2>4. \A c \in Comps : RefsOf(comp'[c].members) \subseteq Stored'
    BY <1>0, <2>1, <2>3, NoMembers
  <2> QED BY <1>0, <2>1, <2>2, <2>4
<1>4. ASSUME NEW x \in Specs, CreateSpec(x) \/ UpdateSpec(x) \/ DeleteSpec(x) PROVE Goal
  <2>1. spec' \in [Specs -> Types \cup {NoType}] /\ Frame
    BY <1>1, <1>4, SpecSteps
  <2>2. UNCHANGED <<comp, rules>> /\ edited' \subseteq Specs
    BY <1>0, <1>4 DEF CreateSpec, UpdateSpec, DeleteSpec
  <2>3. \/ Stored' = Stored \cup {x} /\ used' = used \cup {x}
        \/ Stored' = Stored /\ used' = used
        \/ /\ Stored' = Stored \ {x} /\ used' = used
           /\ x \notin rules /\ \A c \in Comps : x \notin RefsOf(comp[c].members)
    BY <1>1, <1>4, SpecSteps
  <2>4. x \in Refs
    BY DEF Refs
  <2> QED BY <1>0, <2>1, <2>2, <2>3, <2>4
<1>5. ASSUME NEW k \in Creators,
             CreateFaultComposition(k) \/ ValidateDepth(k) \/ ValidateDirections(k)
               \/ ValidateIncompatibilities(k)
      PROVE  Goal
  <2>1. Frame /\ Stored' = Stored /\ UNCHANGED <<tables, used, edited>>
    BY <1>1, <1>5, QuietSteps
  <2> QED BY <1>0, <2>1 DEF tables
<1>6. ASSUME NEW x \in Refs, NameInRule(x) \/ UnnameInRule(x) PROVE Goal
  <2>1. Frame /\ Stored' = Stored /\ UNCHANGED <<spec, comp, used, edited>>
    BY <1>1, <1>6, QuietSteps
  <2>2. rules' \subseteq Stored
    BY <1>0, <1>6 DEF NameInRule, UnnameInRule
  <2> QED BY <1>0, <2>1, <2>2
<1>7. CASE UNCHANGED libraryVars
  BY <1>0, <1>1, <1>7, QuietSteps DEF libraryVars
<1> QED BY <1>2, <1>3, <1>4, <1>5, <1>6, <1>7 DEF LibraryNext

LEMMA TypeStep ==
  ASSUME ConstantsOK, TypeInv, [LibraryNext]_libraryVars
  PROVE  TypeInv' /\ Frame
BY TablesType, CreatorsType DEF TypeInv, LibraryTypeOK

(* The foreign keys hold: no rule and no composition refers to a spec or a *)
(* composition that is not stored, whatever is deleted while creates are   *)
(* on their way.                                                           *)
THEOREM LibraryTypeCorrect ==
  ASSUME ConstantsOK PROVE LibrarySpec => []LibraryTypeOK
<1>1. LibraryInit => TypeInv
  BY TypeInit
<1>2. TypeInv /\ [LibraryNext]_libraryVars => TypeInv'
  BY TypeStep
<1>3. TypeInv => LibraryTypeOK
  BY DEF TypeInv
<1> QED BY <1>1, <1>2, <1>3, PTL DEF LibrarySpec

-----------------------------------------------------------------------------
(* Depths.                                                                 *)

(* The only composition that appears is the one that a creator inserts.    *)
LEMMA NewComposition ==
  ASSUME ConstantsOK, TypeInv, [LibraryNext]_libraryVars,
         NEW c \in Comps, c \in Stored', c \notin Stored
  PROVE  \E k \in Creators :
           /\ pc[k] = "insert" /\ req[k] \in Requests /\ c = req[k].id
           /\ ~Reuse => c \notin used
           /\ Stored' = Stored \cup {c} /\ RefsOf(req[k].members) \subseteq Stored \cup {c}
           /\ comp'[c] = [mode |-> req[k].mode, members |-> req[k].members]
<1>1. LibraryTypeOK /\ Started
  BY DEF TypeInv
<1>2. ASSUME NEW k \in Creators,
             CreateFaultComposition(k) \/ ValidateDepth(k) \/ ValidateDirections(k)
               \/ ValidateIncompatibilities(k)
      PROVE  FALSE
  BY <1>1, <1>2, QuietSteps
<1>3. ASSUME NEW d \in Comps, DeleteComposition(d) PROVE FALSE
  BY <1>1, <1>3, DeleteCompositionRemoves
<1>4. ASSUME NEW x \in Specs, CreateSpec(x) \/ UpdateSpec(x) \/ DeleteSpec(x) PROVE FALSE
  <2>1. x # c
    BY DEF ConstantsOK
  <2> QED BY <1>1, <1>4, <2>1, SpecSteps
<1>5. ASSUME NEW x \in Refs, NameInRule(x) \/ UnnameInRule(x) PROVE FALSE
  BY <1>1, <1>5, QuietSteps
<1>6. ~UNCHANGED libraryVars
  BY <1>1, QuietSteps
<1>7. PICK k \in Creators : InsertComposition(k)
  BY <1>2, <1>3, <1>4, <1>5, <1>6 DEF LibraryNext
<1>8. pc[k] = "insert" /\ req[k] \in Requests
  BY <1>1, <1>7 DEF InsertComposition, Started
<1>9. /\ Stored' = Stored \cup {req[k].id} /\ (~Reuse => req[k].id \notin used)
      /\ RefsOf(req[k].members) \subseteq Stored \cup {req[k].id}
      /\ comp' = [comp EXCEPT ![req[k].id] =
                    [mode |-> req[k].mode, members |-> req[k].members]]
  BY <1>1, <1>7, InsertStores
<1>10. c = req[k].id
  BY <1>9
<1>11. comp \in [Comps -> Compositions \cup {NoComp}]
  BY <1>1 DEF LibraryTypeOK
<1>12. comp'[c] = [mode |-> req[k].mode, members |-> req[k].members]
  BY <1>9, <1>10, <1>11
<1> QED BY <1>8, <1>9, <1>10, <1>12

(* A composition that stays is as deep as before.                          *)
LEMMA WithinStays ==
  ASSUME ConstantsOK, TypeInv, TypeInv', Frame
  PROVE  \A n \in 0 .. MaxDepth : Within[n] \cap Stored' \subseteq Within'[n]
<1>1. WithinLevels'
  BY WithinIs, PTL
<1>2. WithinLevels /\ WithinLevels'
  BY <1>1, WithinIs
<1>3. MaxDepth \in Nat
  BY DEF ConstantsOK
<1>4. \A c \in Comps : RefsOf(comp'[c].members) \subseteq Stored'
  BY DEF TypeInv, LibraryTypeOK
<1> DEFINE T == {n \in Nat : n <= MaxDepth => Within[n] \cap Stored' \subseteq Within'[n]}
<1>5. 0 \in T
  BY <1>2 DEF WithinLevels
<1>6. ASSUME NEW n \in 1 .. MaxDepth, n - 1 \in T PROVE n \in T
  <2>1. Within[n - 1] \cap Stored' \subseteq Within'[n - 1]
    BY <1>3, <1>6
  <2>2. ASSUME NEW c \in Within[n], c \in Stored' PROVE c \in Within'[n]
    <3>1. c \in Comps \cap Stored /\ RefsOf(comp[c].members) \cap Comps \subseteq Within[n - 1]
      BY <1>2, <2>2 DEF WithinLevels
    <3>2. comp'[c] = comp[c]
      BY <2>2, <3>1 DEF Frame
    <3>3. RefsOf(comp'[c].members) \cap Comps \subseteq Within'[n - 1]
      BY <1>4, <2>1, <3>1, <3>2
    <3> QED BY <1>2, <2>2, <3>1, <3>3 DEF WithinLevels
  <2>3. n \in Nat
    BY <1>3
  <2> QED BY <2>2, <2>3
<1>7. T \in SUBSET Nat
  OBVIOUS
<1> HIDE DEF T
<1>8. 0 .. MaxDepth \subseteq T
  BY <1>3, <1>5, <1>6, <1>7, LevelInduction
<1> QED BY <1>3, <1>8 DEF T

(* What ends within n levels is resolved within n levels.                  *)
LEMMA WithinCompiles ==
  ASSUME ConstantsOK, LibraryTypeOK
  PROVE  \A n \in 0 .. MaxDepth : Within[n] \subseteq Compiled[n]
<1>1. WithinLevels
  BY WithinIs
<1>2. /\ MaxDepth \in Nat /\ Deepest \in Nat /\ MaxDepth <= Deepest
      /\ \A n \in 1 .. Deepest : Compiled[n] =
           {c \in Comps \cap Stored :
              RefsOf(comp[c].members) \subseteq Compiled[n - 1] \cup (Specs \cap Stored)}
  BY DeepestIs, CompiledIs DEF ConstantsOK
<1>3. \A c \in Comps : RefsOf(comp[c].members) \subseteq Stored
  BY DEF LibraryTypeOK
<1>4. Stored \subseteq Specs \cup Comps
  BY StoredIs DEF Refs
<1> DEFINE T == {n \in Nat : n <= MaxDepth => Within[n] \subseteq Compiled[n]}
<1>5. 0 \in T
  BY <1>1 DEF WithinLevels
<1>6. ASSUME NEW n \in 1 .. MaxDepth, n - 1 \in T PROVE n \in T
  <2>1. Within[n - 1] \subseteq Compiled[n - 1] /\ n \in 1 .. Deepest /\ n \in Nat
    BY <1>2, <1>6
  <2>2. ASSUME NEW c \in Within[n] PROVE c \in Compiled[n]
    <3>1. c \in Comps \cap Stored /\ RefsOf(comp[c].members) \cap Comps \subseteq Within[n - 1]
      BY <1>1 DEF WithinLevels
    <3>2. RefsOf(comp[c].members) \subseteq Compiled[n - 1] \cup (Specs \cap Stored)
      BY <1>3, <1>4, <2>1, <3>1
    <3> QED BY <1>2, <2>1, <3>1, <3>2
  <2> QED BY <2>1, <2>2
<1>7. T \in SUBSET Nat
  OBVIOUS
<1> HIDE DEF T
<1>8. 0 .. MaxDepth \subseteq T
  BY <1>2, <1>5, <1>6, <1>7, LevelInduction
<1> QED BY <1>2, <1>8 DEF T

-----------------------------------------------------------------------------
(* The good leaves of a tree.                                              *)
Kept(members, tree, ed) == {l \in LeavesOf(members, tree) : l.spec \notin ed}

Directed(members, tree, ed, types) ==
  \A l, m \in Kept(members, tree, ed) :
    Network(types[l.spec]) /\ Network(types[m.spec]) /\ l.dir = m.dir => l = m

Paired(members, tree, ed, types) ==
  \A l, m \in Kept(members, tree, ed) : l # m => ~MatchesPair(types[l.spec], types[m.spec])

LEMMA CoexistIs ==
  ParallelFaultsCoexist <=>
    \A c \in Comps \cap Stored : comp[c].mode = "parallel" =>
      /\ Directed(comp[c].members, Tree[Deepest], edited, spec)
      /\ Paired(comp[c].members, Tree[Deepest], edited, spec)
BY DEF ParallelFaultsCoexist, Leaves, OneToxicPerDirection, NoHardPair, Directed,
       Paired, Kept

(* How a creator moves, and what it has found when it does.                *)
LEMMA CreatorMoves ==
  ASSUME ConstantsOK, TypeInv, [LibraryNext]_libraryVars, NEW k \in Creators
  PROVE  \/ pc'[k] \in {"idle", "depth"}
         \/ pc'[k] = pc[k] /\ req'[k] = req[k]
         \/ /\ pc[k] = "depth" /\ pc'[k] = "directions" /\ req'[k] = req[k]
            /\ RefsOf(req[k].members) \cap Comps \subseteq Within[MaxDepth - 1]
            /\ Stored' = Stored
         \/ /\ pc[k] = "directions" /\ pc'[k] = "leaves" /\ req'[k] = req[k]
            /\ req[k].mode = "parallel" =>
                 /\ RefsOf(req[k].members) \subseteq Stored
                 /\ Directed(req[k].members, Tree[Deepest], edited, spec)
            /\ Stored' = Stored
         \/ /\ pc[k] = "leaves" /\ pc'[k] = "insert" /\ req'[k] = req[k]
            /\ req[k].mode = "parallel" => Paired(req[k].members, Tree[Deepest], edited, spec)
            /\ Stored' = Stored
<1>1. /\ LibraryTypeOK /\ DOMAIN pc = Creators /\ DOMAIN req = Creators
  BY DEF TypeInv, LibraryTypeOK
<1>2. ASSUME NEW j \in Creators, CreateFaultComposition(j)
      PROVE  pc'[k] = "depth" \/ (pc'[k] = pc[k] /\ req'[k] = req[k])
  BY <1>1, <1>2 DEF CreateFaultComposition, Goto
<1>3. ASSUME NEW j \in Creators, InsertComposition(j)
      PROVE  pc'[k] = "idle" \/ (pc'[k] = pc[k] /\ req'[k] = req[k])
  BY <1>1, <1>3 DEF InsertComposition
<1>4. ASSUME NEW j \in Creators, NEW ok \in BOOLEAN, NEW l, Pass(j, ok, l)
      PROVE  \/ pc'[k] = "idle"
             \/ pc'[k] = pc[k] /\ req'[k] = req[k]
             \/ j = k /\ ok /\ pc'[k] = l /\ req'[k] = req[k]
  BY <1>1, <1>4 DEF Pass, Goto, Refuse
<1>5. ASSUME NEW j \in Creators, ValidateDepth(j)
      PROVE  \/ pc'[k] = "idle"
             \/ pc'[k] = pc[k] /\ req'[k] = req[k]
             \/ /\ pc[k] = "depth" /\ pc'[k] = "directions" /\ req'[k] = req[k]
                /\ RefsOf(req[k].members) \cap Comps \subseteq Within[MaxDepth - 1]
                /\ Stored' = Stored
  <2> DEFINE ok == RefsOf(req[j].members) \cap Comps \subseteq Within[MaxDepth - 1]
  <2>1. pc[j] = "depth" /\ Pass(j, ok, "directions")
    BY <1>5 DEF ValidateDepth
  <2>2. Stored' = Stored
    BY <1>1, <1>5, QuietSteps
  <2>3. ok \in BOOLEAN
    OBVIOUS
  <2> HIDE DEF ok
  <2>4. \/ pc'[k] = "idle"
        \/ pc'[k] = pc[k] /\ req'[k] = req[k]
        \/ j = k /\ ok /\ pc'[k] = "directions" /\ req'[k] = req[k]
    BY <1>4, <2>1, <2>3
  <2> QED BY <2>1, <2>2, <2>4 DEF ok
<1>6. ASSUME NEW j \in Creators, ValidateDirections(j)
      PROVE  \/ pc'[k] = "idle"
             \/ pc'[k] = pc[k] /\ req'[k] = req[k]
             \/ /\ pc[k] = "directions" /\ pc'[k] = "leaves" /\ req'[k] = req[k]
                /\ req[k].mode = "parallel" =>
                     /\ RefsOf(req[k].members) \subseteq Stored
                     /\ Directed(req[k].members, Tree[Deepest], edited, spec)
                /\ Stored' = Stored
  <2> DEFINE ok == req[j].mode = "parallel"
                     => Resolves(req[j].members) /\ OneToxicPerDirection(Leaves(req[j].members))
  <2>1. pc[j] = "directions" /\ Pass(j, ok, "leaves")
    BY <1>6 DEF ValidateDirections
  <2>2. Stored' = Stored
    BY <1>1, <1>6, QuietSteps
  <2>3. ok \in BOOLEAN
    OBVIOUS
  <2>4. ok => (req[j].mode = "parallel" =>
                 /\ RefsOf(req[j].members) \subseteq Stored
                 /\ Directed(req[j].members, Tree[Deepest], edited, spec))
    <3>1. Compiled[Deepest] \subseteq Stored
      BY CompiledIs, DeepestIs
    <3>2. Resolves(req[j].members) => RefsOf(req[j].members) \subseteq Stored
      BY <3>1 DEF Resolves
    <3>3. OneToxicPerDirection(Leaves(req[j].members))
            => Directed(req[j].members, Tree[Deepest], edited, spec)
      BY DEF OneToxicPerDirection, Leaves, Directed, Kept
    <3> QED BY <3>2, <3>3
  <2> HIDE DEF ok
  <2>5. \/ pc'[k] = "idle"
        \/ pc'[k] = pc[k] /\ req'[k] = req[k]
        \/ j = k /\ ok /\ pc'[k] = "leaves" /\ req'[k] = req[k]
    BY <1>4, <2>1, <2>3
  <2> QED BY <2>1, <2>2, <2>4, <2>5
<1>7. ASSUME NEW j \in Creators, ValidateIncompatibilities(j)
      PROVE  \/ pc'[k] = "idle"
             \/ pc'[k] = pc[k] /\ req'[k] = req[k]
             \/ /\ pc[k] = "leaves" /\ pc'[k] = "insert" /\ req'[k] = req[k]
                /\ req[k].mode = "parallel" => Paired(req[k].members, Tree[Deepest], edited, spec)
                /\ Stored' = Stored
  <2> DEFINE ok == /\ Resolves(req[j].members)
                   /\ req[j].mode = "parallel" => NoHardPair(Leaves(req[j].members))
  <2>1. pc[j] = "leaves" /\ Pass(j, ok, "insert")
    BY <1>7 DEF ValidateIncompatibilities
  <2>2. Stored' = Stored
    BY <1>1, <1>7, QuietSteps
  <2>3. ok \in BOOLEAN
    OBVIOUS
  <2>4. ok => (req[j].mode = "parallel" => Paired(req[j].members, Tree[Deepest], edited, spec))
    BY DEF NoHardPair, Leaves, Paired, Kept
  <2> HIDE DEF ok
  <2>5. \/ pc'[k] = "idle"
        \/ pc'[k] = pc[k] /\ req'[k] = req[k]
        \/ j = k /\ ok /\ pc'[k] = "insert" /\ req'[k] = req[k]
    BY <1>4, <2>1, <2>3
  <2> QED BY <2>1, <2>2, <2>4, <2>5
<1>8. ASSUME NEW c \in Comps, DeleteComposition(c) PROVE UNCHANGED <<pc, req>>
  BY <1>8 DEF DeleteComposition
<1>9. ASSUME NEW x \in Specs, CreateSpec(x) \/ UpdateSpec(x) \/ DeleteSpec(x)
      PROVE  UNCHANGED <<pc, req>>
  BY <1>9 DEF CreateSpec, UpdateSpec, DeleteSpec
<1>10. ASSUME NEW x \in Refs, NameInRule(x) \/ UnnameInRule(x) PROVE UNCHANGED <<pc, req>>
  BY <1>10 DEF NameInRule, UnnameInRule
<1>11. UNCHANGED libraryVars => UNCHANGED <<pc, req>>
  BY DEF libraryVars
<1>12. CASE \E j \in Creators :
              \/ CreateFaultComposition(j) \/ ValidateDepth(j) \/ ValidateDirections(j)
              \/ ValidateIncompatibilities(j) \/ InsertComposition(j)
  BY <1>2, <1>3, <1>5, <1>6, <1>7, <1>12
<1>13. CASE UNCHANGED <<pc, req>>
  BY <1>13
<1> QED BY <1>8, <1>9, <1>10, <1>11, <1>12, <1>13 DEF LibraryNext

-----------------------------------------------------------------------------
(* Rules compile.  The inductive invariant: what is stored is no deeper    *)
(* than MaxDepth, and a creator that has counted the levels is right about *)
(* those of its members that are still there.  What has gone does not come *)
(* back deeper, for its ID is not given again.                             *)
Counted(k) ==
  pc[k] \in {"directions", "leaves", "insert"} =>
    /\ RefsOf(req[k].members) \cap Comps \subseteq used
    /\ RefsOf(req[k].members) \cap Comps \cap Stored \subseteq Within[MaxDepth - 1]

DepthInv ==
  /\ TypeInv
  /\ Comps \cap Stored \subseteq Within[MaxDepth]
  /\ \A k \in Creators : Counted(k)

LEMMA DepthInit == ASSUME ConstantsOK, LibraryInit PROVE DepthInv
<1>1. Stored = {}
  BY DEF LibraryInit, Stored
<1>2. \A k \in Creators : pc[k] = "idle"
  BY DEF LibraryInit
<1> QED BY <1>1, <1>2, TypeInit DEF DepthInv, Counted

LEMMA DepthStep ==
  ASSUME ConstantsOK, ~Reuse, DepthInv, [LibraryNext]_libraryVars
  PROVE  DepthInv' /\ Frame
<1>1. TypeInv /\ TypeInv' /\ Frame
  BY TypeStep DEF DepthInv
<1>2. \A n \in 0 .. MaxDepth : Within[n] \cap Stored' \subseteq Within'[n]
  BY <1>1, WithinStays
<1>3. MaxDepth \in 0 .. MaxDepth /\ MaxDepth - 1 \in 0 .. MaxDepth /\ MaxDepth \in 1 .. MaxDepth
  BY DEF ConstantsOK
<1>4. WithinLevels'
  BY WithinIs, PTL
<1>5. Within[MaxDepth - 1] \subseteq Stored
  <2>1. WithinLevels
    BY WithinIs
  <2>2. MaxDepth - 1 = 0 \/ MaxDepth - 1 \in 1 .. MaxDepth
    BY <1>3
  <2> QED BY <2>1, <2>2 DEF WithinLevels
<1>6. Stored \subseteq used /\ used \subseteq used'
  BY <1>1 DEF TypeInv, LibraryTypeOK, Frame
<1>7. Comps \cap Stored' \subseteq Within'[MaxDepth]
  <2> SUFFICES ASSUME NEW c \in Comps, c \in Stored' PROVE c \in Within'[MaxDepth]
    OBVIOUS
  <2>1. CASE c \in Stored
    BY <1>2, <1>3, <2>1 DEF DepthInv
  <2>2. CASE c \notin Stored
    <3>1. PICK k \in Creators :
            /\ pc[k] = "insert" /\ req[k] \in Requests /\ c = req[k].id
            /\ ~Reuse => c \notin used
            /\ Stored' = Stored \cup {c} /\ RefsOf(req[k].members) \subseteq Stored \cup {c}
            /\ comp'[c] = [mode |-> req[k].mode, members |-> req[k].members]
      BY <1>1, <2>2, NewComposition
    <3>2. Counted(k)
      BY DEF DepthInv
    <3>3. c \notin RefsOf(req[k].members)
      BY <3>1, <3>2 DEF Counted
    <3>4. RefsOf(req[k].members) \cap Comps \subseteq Within[MaxDepth - 1] \cap Stored'
      BY <3>1, <3>2, <3>3 DEF Counted
    <3>5. RefsOf(comp'[c].members) \cap Comps \subseteq Within'[MaxDepth - 1]
      BY <1>2, <1>3, <3>1, <3>4
    <3> QED BY <1>3, <1>4, <3>5 DEF WithinLevels
  <2> QED BY <2>1, <2>2
<1>8. ASSUME NEW k \in Creators PROVE Counted(k)'
  <2>1. CASE pc'[k] \in {"idle", "depth"}
    BY <2>1 DEF Counted
  <2>2. CASE /\ req'[k] = req[k]
             /\ RefsOf(req[k].members) \cap Comps \subseteq used
             /\ RefsOf(req[k].members) \cap Comps \cap Stored \subseteq Within[MaxDepth - 1]
    <3>1. RefsOf(req[k].members) \cap Comps \cap Stored' \subseteq Stored
      BY <1>1, <2>2 DEF Frame
    <3>2. RefsOf(req[k].members) \cap Comps \cap Stored' \subseteq Within'[MaxDepth - 1]
      BY <1>2, <1>3, <2>2, <3>1
    <3> QED BY <1>6, <2>2, <3>2 DEF Counted
  <2>3. CASE /\ pc[k] = "depth" /\ req'[k] = req[k]
             /\ RefsOf(req[k].members) \cap Comps \subseteq Within[MaxDepth - 1]
    BY <1>5, <1>6, <2>2, <2>3
  <2>4. CASE pc[k] \in {"directions", "leaves", "insert"} /\ req'[k] = req[k]
    BY <2>2, <2>4 DEF DepthInv, Counted
  <2>5. CASE pc'[k] = pc[k] /\ req'[k] = req[k]
    <3>1. CASE pc[k] \in {"directions", "leaves", "insert"}
      BY <2>4, <2>5, <3>1
    <3>2. CASE pc[k] \notin {"directions", "leaves", "insert"}
      BY <2>5, <3>2 DEF Counted
    <3> QED BY <3>1, <3>2
  <2> QED BY <1>1, <2>1, <2>3, <2>4, <2>5, CreatorMoves
<1> QED BY <1>1, <1>7, <1>8 DEF DepthInv

(* Whatever a rule names can be compiled at every moment: walkDepth, which *)
(* reads the members before the transaction that stores them, still keeps  *)
(* every composition within the depth that resolveComposition goes.        *)
THEOREM RulesCompileHolds ==
  ASSUME ConstantsOK, ~Reuse PROVE LibrarySpec => []RulesCompile
<1>1. LibraryInit => DepthInv
  BY DepthInit
<1>2. DepthInv /\ [LibraryNext]_libraryVars => DepthInv'
  BY DepthStep
<1>3. DepthInv => RulesCompile
  <2> SUFFICES ASSUME DepthInv PROVE CompileRules
    BY DEF RulesCompile
  <2>1. LibraryTypeOK
    BY DEF DepthInv, TypeInv
  <2>2. rules \subseteq Stored
    BY <2>1 DEF LibraryTypeOK
  <2>3. Within[MaxDepth] \subseteq Compiled[MaxDepth]
    BY <2>1, WithinCompiles DEF ConstantsOK
  <2> QED BY <2>2, <2>3 DEF DepthInv, CompileRules
<1> QED BY <1>1, <1>2, <1>3, PTL DEF LibrarySpec

-----------------------------------------------------------------------------
(* Trees stay, leaves and all.                                             *)

LEMMA LeavesDepend ==
  ASSUME ConstantsOK, NEW members \in Members, NEW b, NEW d,
         \A c \in RefsOf(members) \cap Comps : b[c] = d[c]
  PROVE  LeavesOf(members, b) = LeavesOf(members, d)
<1>1. ASSUME NEW i \in DOMAIN members, members[i].ref \notin Specs
      PROVE  b[members[i].ref] = d[members[i].ref]
  <2>1. members[i].ref \in RefsOf(members) /\ members[i].ref \in Refs
    BY MembersAre DEF RefsOf
  <2> QED BY <1>1, <2>1 DEF Refs
<1> DEFINE From(i, x) ==
             IF members[i].ref \in Specs
             THEN {[at |-> <<i>>, spec |-> members[i].ref, dir |-> members[i].dir]}
             ELSE {Inherit(l, i, members[i].dir) : l \in x[members[i].ref]}
<1>2. \A i \in DOMAIN members : From(i, b) = From(i, d)
  BY <1>1
<1>3. \A x : LeavesOf(members, x) = UNION {From(i, x) : i \in DOMAIN members}
  BY Zenon DEF LeavesOf
<1> HIDE DEF From
<1>4. UNION {From(i, b) : i \in DOMAIN members} = UNION {From(i, d) : i \in DOMAIN members}
  BY <1>2
<1> QED BY <1>3, <1>4

LEMMA LeafSpecs ==
  ASSUME ConstantsOK, NEW members \in Members, NEW b, NEW X,
         RefsOf(members) \cap Specs \subseteq X,
         \A c \in RefsOf(members) \cap Comps : \A l \in b[c] : l.spec \in X
  PROVE  \A l \in LeavesOf(members, b) : l.spec \in X
<1> SUFFICES ASSUME NEW i \in DOMAIN members,
                    NEW l \in IF members[i].ref \in Specs
                              THEN {[at |-> <<i>>, spec |-> members[i].ref, dir |-> members[i].dir]}
                              ELSE {Inherit(l, i, members[i].dir) : l \in b[members[i].ref]}
             PROVE  l.spec \in X
  BY DEF LeavesOf
<1>1. members[i].ref \in RefsOf(members) /\ members[i].ref \in Refs
  BY MembersAre DEF RefsOf
<1>2. CASE members[i].ref \in Specs
  BY <1>1, <1>2
<1>3. CASE members[i].ref \notin Specs
  <2>1. members[i].ref \in RefsOf(members) \cap Comps
    BY <1>1, <1>3 DEF Refs
  <2>2. PICK m \in b[members[i].ref] : l = Inherit(m, i, members[i].dir)
    BY <1>3
  <2>3. l.spec = m.spec
    BY <2>2 DEF Inherit
  <2> QED BY <2>1, <2>2, <2>3
<1> QED BY <1>2, <1>3

LEMMA TreeLeaves ==
  ASSUME ConstantsOK, LibraryTypeOK
  PROVE  \A n \in 0 .. Deepest : \A c \in Comps : \A l \in Tree[n][c] : l.spec \in Stored
<1>1. TreeLevels /\ Deepest \in Nat
  BY TreeIs, DeepestIs
<1>2. \A c \in Comps : comp[c].members \in Members /\ RefsOf(comp[c].members) \subseteq Stored
  BY CompsHaveMembers DEF LibraryTypeOK
<1> DEFINE T == {n \in Nat : n <= Deepest =>
                    \A c \in Comps : \A l \in Tree[n][c] : l.spec \in Stored}
<1>3. 0 \in T
  BY <1>1 DEF TreeLevels
<1>4. ASSUME NEW n \in 1 .. Deepest, n - 1 \in T PROVE n \in T
  <2>1. \A c \in Comps : \A l \in Tree[n - 1][c] : l.spec \in Stored
    BY <1>1, <1>4
  <2>2. ASSUME NEW c \in Comps PROVE \A l \in Tree[n][c] : l.spec \in Stored
    <3>1. Tree[n][c] = LeavesOf(comp[c].members, Tree[n - 1])
      BY <1>1 DEF TreeLevels
    <3> QED BY <1>2, <2>1, <3>1, LeafSpecs
  <2>3. n \in Nat
    BY <1>1
  <2> QED BY <2>2, <2>3
<1>5. T \in SUBSET Nat
  OBVIOUS
<1> HIDE DEF T
<1>6. 0 .. Deepest \subseteq T
  BY <1>1, <1>3, <1>4, <1>5, LevelInduction
<1> QED BY <1>1, <1>6 DEF T

LEMMA TreeStays ==
  ASSUME ConstantsOK, TypeInv, TypeInv', Frame
  PROVE  \A n \in 0 .. Deepest : \A c \in Comps \cap Stored \cap Stored' : Tree'[n][c] = Tree[n][c]
<1>1. LibraryTypeOK /\ LibraryTypeOK'
  BY DEF TypeInv
<1>2. TreeLevels'
  BY <1>1, TreeIs, PTL
<1>3. TreeLevels /\ Deepest \in Nat
  BY <1>1, TreeIs, DeepestIs
<1>4. \A c \in Comps : comp[c].members \in Members /\ RefsOf(comp[c].members) \subseteq Stored
  BY <1>1, CompsHaveMembers DEF LibraryTypeOK
<1>5. \A c \in Comps : RefsOf(comp'[c].members) \subseteq Stored'
  BY <1>1 DEF LibraryTypeOK
<1> DEFINE Both == Comps \cap Stored \cap Stored'
           T == {n \in Nat : n <= Deepest => \A c \in Both : Tree'[n][c] = Tree[n][c]}
<1>6. 0 \in T
  BY <1>2, <1>3 DEF TreeLevels
<1>7. ASSUME NEW n \in 1 .. Deepest, n - 1 \in T PROVE n \in T
  <2>1. \A c \in Both : Tree'[n - 1][c] = Tree[n - 1][c]
    BY <1>3, <1>7
  <2>2. ASSUME NEW c \in Both PROVE Tree'[n][c] = Tree[n][c]
    <3>1. comp'[c] = comp[c]
      BY DEF Frame
    <3>2. RefsOf(comp[c].members) \subseteq Stored \cap Stored' /\ comp[c].members \in Members
      BY <1>4, <1>5, <3>1
    <3>3. LeavesOf(comp[c].members, Tree'[n - 1]) = LeavesOf(comp[c].members, Tree[n - 1])
      BY <2>1, <3>2, LeavesDepend
    <3>4. Tree[n][c] = LeavesOf(comp[c].members, Tree[n - 1])
      BY <1>3 DEF TreeLevels
    <3>5. Tree'[n][c] = LeavesOf(comp'[c].members, Tree'[n - 1])
      BY <1>2 DEF TreeLevels
    <3> QED BY <3>1, <3>3, <3>4, <3>5
  <2>3. n \in Nat
    BY <1>3
  <2> QED BY <2>2, <2>3
<1>8. T \in SUBSET Nat
  OBVIOUS
<1> HIDE DEF T
<1>9. 0 .. Deepest \subseteq T
  BY <1>3, <1>6, <1>7, <1>8, LevelInduction
<1> QED BY <1>3, <1>9 DEF T

(* What got along still does, as long as all of it is there.               *)
LEMMA GoodStays ==
  ASSUME ConstantsOK, TypeInv, TypeInv', Frame, NEW members \in Members,
         RefsOf(members) \subseteq Stored \cap Stored'
  PROVE  /\ Directed(members, Tree[Deepest], edited, spec)
              => Directed(members, Tree'[Deepest], edited', spec')
         /\ Paired(members, Tree[Deepest], edited, spec)
              => Paired(members, Tree'[Deepest], edited', spec')
<1>1. LibraryTypeOK /\ LibraryTypeOK' /\ Deepest \in 0 .. Deepest
  BY DeepestIs DEF TypeInv
<1>2. \A c \in Comps \cap Stored \cap Stored' : Tree'[Deepest][c] = Tree[Deepest][c]
  BY <1>1, TreeStays
<1>3. LeavesOf(members, Tree'[Deepest]) = LeavesOf(members, Tree[Deepest])
  BY <1>2, LeavesDepend
<1>4. \A c \in Comps : \A l \in Tree[Deepest][c] : l.spec \in Stored
  BY <1>1, TreeLeaves
<1>5. (\A n \in 0 .. Deepest : \A c \in Comps : \A l \in Tree[n][c] : l.spec \in Stored)'
  BY <1>1, TreeLeaves, PTL
<1>6. \A c \in Comps : \A l \in Tree'[Deepest][c] : l.spec \in Stored'
  BY <1>1, <1>5
<1>7. \A l \in LeavesOf(members, Tree[Deepest]) : l.spec \in Stored
  BY <1>4, LeafSpecs
<1>8. \A l \in LeavesOf(members, Tree'[Deepest]) : l.spec \in Stored'
  BY <1>6, LeafSpecs
<1>9. \A l \in LeavesOf(members, Tree[Deepest]) : l.spec \in Specs
  <2>1. TreeLevels
    BY <1>1, TreeIs
  <2>2. Tree[Deepest] \in [Comps -> SUBSET Leaf]
    BY <1>1, <2>1 DEF TreeLevels
  <2>3. LeavesOf(members, Tree[Deepest]) \subseteq Leaf
    BY <2>2, LeavesType
  <2> QED BY <2>3 DEF Leaf
<1>10. ASSUME NEW l \in Kept(members, Tree'[Deepest], edited')
       PROVE  l \in Kept(members, Tree[Deepest], edited) /\ spec'[l.spec] = spec[l.spec]
  <2>1. l \in LeavesOf(members, Tree[Deepest]) /\ l.spec \notin edited'
    BY <1>3 DEF Kept
  <2>2. l.spec \in Specs \cap Stored \cap Stored'
    BY <1>3, <1>7, <1>8, <1>9, <2>1
  <2> QED BY <2>1, <2>2 DEF Frame, Kept
<1> QED BY <1>10 DEF Directed, Paired

-----------------------------------------------------------------------------
(* Parallel faults coexist.  The inductive invariant: a creator that has   *)
(* passed a check is right about it, if all its members are still there.   *)
Checked(k) ==
  req[k].mode = "parallel" =>
    /\ pc[k] \in {"leaves", "insert"} =>
         /\ RefsOf(req[k].members) \subseteq used
         /\ RefsOf(req[k].members) \subseteq Stored
              => Directed(req[k].members, Tree[Deepest], edited, spec)
    /\ pc[k] = "insert" /\ RefsOf(req[k].members) \subseteq Stored
         => Paired(req[k].members, Tree[Deepest], edited, spec)

AlongInv ==
  /\ TypeInv
  /\ \A k \in Creators : Checked(k)
  /\ \A c \in Comps \cap Stored : comp[c].mode = "parallel" =>
       /\ Directed(comp[c].members, Tree[Deepest], edited, spec)
       /\ Paired(comp[c].members, Tree[Deepest], edited, spec)

LEMMA AlongInit == ASSUME ConstantsOK, LibraryInit PROVE AlongInv
<1>1. Stored = {}
  BY DEF LibraryInit, Stored
<1>2. \A k \in Creators : pc[k] = "idle"
  BY DEF LibraryInit
<1> QED BY <1>1, <1>2, TypeInit DEF AlongInv, Checked

LEMMA AlongStep ==
  ASSUME ConstantsOK, ~Reuse, AlongInv, [LibraryNext]_libraryVars
  PROVE  AlongInv'
<1>1. TypeInv /\ TypeInv' /\ Frame
  BY TypeStep DEF AlongInv
<1>2. Stored \subseteq used /\ used \subseteq used' /\ Stored' \cap used \subseteq Stored
  BY <1>1 DEF TypeInv, LibraryTypeOK, Frame
<1>3. ASSUME NEW members \in Members, RefsOf(members) \subseteq Stored \cap Stored'
      PROVE  /\ Directed(members, Tree[Deepest], edited, spec)
                  => Directed(members, Tree'[Deepest], edited', spec')
             /\ Paired(members, Tree[Deepest], edited, spec)
                  => Paired(members, Tree'[Deepest], edited', spec')
  BY <1>1, <1>3, GoodStays
<1>4. ASSUME NEW k \in Creators PROVE Checked(k)'
  <2> SUFFICES ASSUME req'[k].mode = "parallel", pc'[k] \in {"leaves", "insert"}
               PROVE  /\ RefsOf(req'[k].members) \subseteq used'
                      /\ RefsOf(req'[k].members) \subseteq Stored' =>
                           /\ Directed(req'[k].members, Tree'[Deepest], edited', spec')
                           /\ pc'[k] = "insert" =>
                                Paired(req'[k].members, Tree'[Deepest], edited', spec')
    BY DEF Checked
  <2>1. Checked(k)
    BY DEF AlongInv
  <2>2. /\ req'[k] = req[k]
        /\ RefsOf(req[k].members) \subseteq used
        /\ RefsOf(req[k].members) \subseteq Stored =>
             /\ Directed(req[k].members, Tree[Deepest], edited, spec)
             /\ pc'[k] = "insert" => Paired(req[k].members, Tree[Deepest], edited, spec)
    <3>1. CASE pc'[k] = pc[k] /\ req'[k] = req[k]
      BY <2>1, <3>1 DEF Checked
    <3>2. CASE /\ pc[k] = "directions" /\ pc'[k] = "leaves" /\ req'[k] = req[k]
               /\ req[k].mode = "parallel" =>
                    /\ RefsOf(req[k].members) \subseteq Stored
                    /\ Directed(req[k].members, Tree[Deepest], edited, spec)
      BY <1>2, <3>2
    <3>3. CASE /\ pc[k] = "leaves" /\ pc'[k] = "insert" /\ req'[k] = req[k]
               /\ req[k].mode = "parallel" =>
                    Paired(req[k].members, Tree[Deepest], edited, spec)
      BY <2>1, <3>3 DEF Checked
    <3> QED BY <1>1, <3>1, <3>2, <3>3, CreatorMoves
  <2>3. req[k].members \in Members
    <3>1. pc'[k] # "idle"
      OBVIOUS
    <3>2. req'[k] \in Requests
      BY <1>1, <3>1 DEF TypeInv, Started
    <3> QED BY <2>2, <3>2, RequestIs
  <2>4. RefsOf(req[k].members) \subseteq Stored' => RefsOf(req[k].members) \subseteq Stored \cap Stored'
    BY <1>2, <2>2
  <2> QED BY <1>2, <1>3, <2>2, <2>3, <2>4
<1>5. ASSUME NEW c \in Comps, c \in Stored', comp'[c].mode = "parallel"
      PROVE  /\ Directed(comp'[c].members, Tree'[Deepest], edited', spec')
             /\ Paired(comp'[c].members, Tree'[Deepest], edited', spec')
  <2>1. RefsOf(comp'[c].members) \subseteq Stored'
    BY <1>1 DEF TypeInv, LibraryTypeOK
  <2>2. CASE c \in Stored
    <3>1. comp'[c] = comp[c]
      BY <1>1, <1>5, <2>2 DEF Frame
    <3>2. comp[c].members \in Members /\ RefsOf(comp[c].members) \subseteq Stored
      BY <1>1, CompsHaveMembers DEF TypeInv, LibraryTypeOK
    <3>3. /\ Directed(comp[c].members, Tree[Deepest], edited, spec)
          /\ Paired(comp[c].members, Tree[Deepest], edited, spec)
      BY <1>5, <2>2, <3>1 DEF AlongInv
    <3> QED BY <1>3, <2>1, <3>1, <3>2, <3>3
  <2>3. CASE c \notin Stored
    <3>1. PICK k \in Creators :
            /\ pc[k] = "insert" /\ req[k] \in Requests /\ c = req[k].id
            /\ ~Reuse => c \notin used
            /\ Stored' = Stored \cup {c} /\ RefsOf(req[k].members) \subseteq Stored \cup {c}
            /\ comp'[c] = [mode |-> req[k].mode, members |-> req[k].members]
      BY <1>1, <1>5, <2>3, NewComposition
    <3>2. comp'[c].mode = req[k].mode /\ comp'[c].members = req[k].members
      BY <3>1
    <3>3. Checked(k)
      BY DEF AlongInv
    <3>4. RefsOf(req[k].members) \subseteq Stored \cap Stored'
      BY <1>5, <3>1, <3>2, <3>3 DEF Checked
    <3>5. /\ Directed(req[k].members, Tree[Deepest], edited, spec)
          /\ Paired(req[k].members, Tree[Deepest], edited, spec)
      BY <1>5, <3>1, <3>2, <3>3, <3>4 DEF Checked
    <3>6. req[k].members \in Members
      BY <3>1, RequestIs
    <3> QED BY <1>3, <3>2, <3>4, <3>5, <3>6
  <2> QED BY <2>2, <2>3
<1> QED BY <1>1, <1>4, <1>5 DEF AlongInv

(* The faults of a parallel composition get along, at every level: no hard *)
(* pair and no two network faults in one direction among the leaves whose  *)
(* specs have not been edited, although the checks and the insert are      *)
(* separate steps between which members may come and go.                   *)
THEOREM ParallelFaultsCoexistHolds ==
  ASSUME ConstantsOK, ~Reuse PROVE LibrarySpec => []ParallelFaultsCoexist
<1>1. LibraryInit => AlongInv
  BY AlongInit
<1>2. AlongInv /\ [LibraryNext]_libraryVars => AlongInv'
  BY AlongStep
<1>3. AlongInv => ParallelFaultsCoexist
  BY CoexistIs DEF AlongInv
<1> QED BY <1>1, <1>2, <1>3, PTL DEF LibrarySpec
=============================================================================
