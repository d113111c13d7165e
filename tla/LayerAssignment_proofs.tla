----------------------- MODULE LayerAssignment_proofs -----------------------
(***************************************************************************)
(* TLAPS proofs about LayerAssignment and the operators of LayerPlan, for  *)
(* any number of layers and any nodes and sizes: what the greedy walk of   *)
(* _pipeline_plan and the sliding window of assign_layers compute.         *)
(***************************************************************************)
EXTENDS LayerAssignment, Recursion, SequenceTheorems

----------------------------------------------------------------------------
(* The greedy walk.                                                        *)

\* The shares of some nodes are ranges of the model's layers.
Ranges(s, nodes) ==
  \A n \in nodes : /\ s[n].first \in Nat /\ s[n].last \in Nat
                   /\ s[n].first < s[n].last /\ s[n].last <= TotalLayers

\* The furthest reaching of some nodes is one of them, and none reaches further.
LEMMA FurthestIsLast ==
  ASSUME NEW s, NEW nodes, nodes # {}, Ranges(s, nodes)
  PROVE  /\ Furthest(s, nodes) \in nodes
         /\ \A m \in nodes : s[m].last <= s[Furthest(s, nodes)].last
<1> DEFINE Left == {TotalLayers - s[n].last : n \in nodes}
<1>1. Left \in SUBSET Nat /\ Left # {}
  BY LayerAssumption DEF Ranges
<1>2. PICK l \in Left : \A k \in Left : l <= k
  <2> HIDE DEF Left
  <2> QED BY <1>1, LeastNatural
<1>3. PICK n \in nodes : l = TotalLayers - s[n].last
  BY <1>2
<1>4. ASSUME NEW m \in nodes
      PROVE  s[m].last <= s[n].last
  <2>1. TotalLayers - s[m].last \in Left
    OBVIOUS
  <2>2. TotalLayers - s[n].last <= TotalLayers - s[m].last
    BY <1>2, <1>3, <2>1
  <2> QED
    BY <2>2, LayerAssumption DEF Ranges
<1> QED
  BY <1>4 DEF Furthest

\* One turn of the walk.
Turn(s, at) ==
  LET reachable == Reachable(s, at.remaining, at.cursor)
      best == Furthest(s, reachable)
  IN  IF at.cursor >= TotalLayers \/ reachable = {} THEN at
      ELSE [stages |-> Append(at.stages, best), cursor |-> s[best].last,
            remaining |-> at.remaining \ {best}]

Turns(up) == Cardinality(up) + 1
FirstTurn(up) == [stages |-> <<>>, cursor |-> 0, remaining |-> up]
WalkState(up) == [stages : Seq(up), cursor : Nat, remaining : SUBSET up]

IsWalk(w, s, up) ==
  w = [k \in 0 .. Turns(up) |-> IF k = 0 THEN FirstTurn(up) ELSE Turn(s, w[k - 1])]

\* A turn leads from a state of the walk to another.
LEMMA TurnType ==
  ASSUME NEW s, NEW up, Ranges(s, up), NEW at \in WalkState(up)
  PROVE  Turn(s, at) \in WalkState(up)
<1> DEFINE reachable == Reachable(s, at.remaining, at.cursor)
           best == Furthest(s, reachable)
<1>1. CASE at.cursor >= TotalLayers \/ reachable = {}
  BY <1>1 DEF Turn
<1>2. CASE ~ (at.cursor >= TotalLayers \/ reachable = {})
  <2>1. reachable \subseteq at.remaining /\ at.remaining \subseteq up /\ at.stages \in Seq(up)
    BY DEF Reachable, WalkState
  <2>2. best \in reachable
    BY <1>2, <2>1, FurthestIsLast DEF Ranges
  <2>3. best \in up /\ s[best].last \in Nat
    BY <2>1, <2>2 DEF Ranges
  <2>4. Turn(s, at) = [stages |-> Append(at.stages, best), cursor |-> s[best].last,
                       remaining |-> at.remaining \ {best}]
    BY <1>2 DEF Turn
  <2> HIDE DEF best, reachable
  <2>5. Append(at.stages, best) \in Seq(up)
    BY <2>1, <2>3, AppendProperties
  <2> QED
    BY <2>1, <2>3, <2>4, <2>5 DEF WalkState
<1> QED
  BY <1>1, <1>2

\* The walk is defined turn by turn.
LEMMA WalkDef ==
  ASSUME NEW s, NEW up, IsFiniteSet(up), Ranges(s, up)
  PROVE  \E w : /\ Walk(s, up) = w[Turns(up)]
                /\ w \in [0 .. Turns(up) -> WalkState(up)]
                /\ w[0] = FirstTurn(up)
                /\ \A k \in 1 .. Turns(up) : w[k] = Turn(s, w[k - 1])
<1> DEFINE N == Turns(up)
           V == WalkState(up)
           step == [k \in 1 .. N |-> [at \in V |-> Turn(s, at)]]
<1>1. N \in Nat
  BY FS_CardinalityType DEF Turns
<1>2. FirstTurn(up) \in V
  BY EmptySeq DEF FirstTurn, WalkState
<1>3. StepData(N, V, FirstTurn(up), step)
  BY <1>1, <1>2, TurnType DEF StepData
<1>4. PICK f : IsStepwise(f, N, V, FirstTurn(up), step)
  <2> HIDE DEF N, V, step
  <2> QED BY <1>3, StepwiseExists
<1>5. ASSUME NEW k \in 1 .. N
      PROVE  f[k] = Turn(s, f[k - 1])
  <2>1. k - 1 \in 0 .. N
    BY <1>1
  <2>2. f[k - 1] \in V /\ f[k] = step[k][f[k - 1]]
    BY <1>4, <2>1 DEF IsStepwise
  <2> HIDE DEF V
  <2> QED BY <2>2
<1>6. IsWalk(f, s, up)
  BY <1>1, <1>4, <1>5 DEF IsStepwise, IsWalk
<1> DEFINE w == CHOOSE w : IsWalk(w, s, up)
<1>7. Walk(s, up) = w[N]
  BY DEF Walk, IsWalk, Turn, Turns, FirstTurn
<1>8. IsWalk(w, s, up)
  BY <1>6
<1> HIDE DEF w
<1>9. w[0] = FirstTurn(up) /\ \A k \in 1 .. N : w[k] = Turn(s, w[k - 1])
  BY <1>1, <1>8 DEF IsWalk
<1>10. 0 .. N \subseteq {k \in 0 .. N : w[k] \in V}
  <2> DEFINE C == {k \in 0 .. N : w[k] \in V}
  <2>1. 0 \in C
    BY <1>1, <1>2, <1>9
  <2>2. ASSUME NEW k \in 0 .. N - 1, k \in C
        PROVE  k + 1 \in C
    <3>1. w[k + 1] = Turn(s, w[k])
      BY <1>1, <1>9
    <3> QED BY <1>1, <2>2, <3>1, TurnType
  <2> HIDE DEF C
  <2> QED BY <1>1, <2>1, <2>2, UpTo DEF C
<1>11. w = [k \in 0 .. N |-> w[k]]
  BY <1>8 DEF IsWalk
<1> QED
  BY <1>7, <1>9, <1>10, <1>11

\* How far the first j stages reach.
Reach(s, stages, j) == IF j = 0 THEN 0 ELSE s[stages[j]].last

\* The greedy choice: of all the UP tiles that hold the layer after the stages before it,
\* each stage reaches furthest.
Chosen(s, up, stages, i) ==
  LET c == Reach(s, stages, i - 1)
  IN  /\ c < TotalLayers
      /\ s[stages[i]].first <= c /\ c < s[stages[i]].last
      /\ \A m \in up : s[m].first <= c /\ c < s[m].last => s[m].last <= s[stages[i]].last

Greedy(s, up, at) ==
  /\ at.cursor = Reach(s, at.stages, Len(at.stages))
  /\ \A i \in 1 .. Len(at.stages) : Chosen(s, up, at.stages, i)
  /\ \A i, j \in 0 .. Len(at.stages) :
       i < j => Reach(s, at.stages, i) < Reach(s, at.stages, j)
  /\ at.remaining = up \ {at.stages[i] : i \in 1 .. Len(at.stages)}

Stuck(s, at) == at.cursor >= TotalLayers \/ Reachable(s, at.remaining, at.cursor) = {}

\* A turn that takes a tile takes the one that reaches furthest of all the UP tiles.
LEMMA TurnIsGreedy ==
  ASSUME NEW s, NEW up, Ranges(s, up), NEW at \in WalkState(up), Greedy(s, up, at)
  PROVE  /\ Greedy(s, up, Turn(s, at))
         /\ Stuck(s, at) => Turn(s, at) = at
         /\ ~ Stuck(s, at) => Len(Turn(s, at).stages) = Len(at.stages) + 1
<1> DEFINE reachable == Reachable(s, at.remaining, at.cursor)
           best == Furthest(s, reachable)
           L == Len(at.stages)
           c == at.cursor
           next == Append(at.stages, best)
<1>1. CASE Stuck(s, at)
  BY <1>1 DEF Turn, Stuck
<1>2. CASE ~ Stuck(s, at)
  <2>1. /\ reachable \subseteq at.remaining /\ at.remaining \subseteq up
        /\ at.stages \in Seq(up) /\ L \in Nat /\ c \in Nat
    BY LenProperties DEF Reachable, WalkState
  <2>2. best \in reachable /\ \A m \in reachable : s[m].last <= s[best].last
    <3>1. reachable # {} /\ Ranges(s, reachable)
      BY <1>2, <2>1 DEF Stuck, Ranges
    <3> HIDE DEF reachable
    <3> QED BY <3>1, FurthestIsLast
  <2>3. best \in up /\ s[best].last \in Nat /\ s[best].first <= c /\ c < s[best].last
    BY <2>1, <2>2 DEF Ranges, Reachable
  <2>4. Turn(s, at) = [stages |-> next, cursor |-> s[best].last,
                       remaining |-> at.remaining \ {best}]
    BY <1>2 DEF Turn, Stuck
  <2>5. c < TotalLayers
    BY <1>2, <2>1, LayerAssumption DEF Stuck
  <2>6. ASSUME NEW m \in up, s[m].first <= c, c < s[m].last
        PROVE  s[m].last <= s[best].last
    <3>1. ASSUME NEW i \in 1 .. L, m = at.stages[i]
          PROVE  FALSE
      <4>1. s[m].last = Reach(s, at.stages, i)
        BY <3>1 DEF Reach
      <4>2. i = L \/ Reach(s, at.stages, i) < Reach(s, at.stages, L)
        BY <2>1 DEF Greedy
      <4>3. c = Reach(s, at.stages, L)
        BY DEF Greedy
      <4> QED BY <2>1, <2>6, <4>1, <4>2, <4>3 DEF Ranges
    <3>2. m \in at.remaining
      BY <3>1 DEF Greedy
    <3>3. m \in reachable
      BY <2>6, <3>2 DEF Reachable
    <3> QED
      BY <2>2, <3>3
  <2> HIDE DEF best, reachable
  <2>7. /\ next \in Seq(up) /\ Len(next) = L + 1 /\ next[L + 1] = best
        /\ \A i \in 1 .. L : next[i] = at.stages[i]
    BY <2>1, <2>3, AppendProperties
  <2> HIDE DEF next
  <2>8. /\ \A j \in 0 .. L : Reach(s, next, j) = Reach(s, at.stages, j)
        /\ Reach(s, next, L + 1) = s[best].last
        /\ Reach(s, next, L) = c
    BY <2>1, <2>7 DEF Reach, Greedy
  <2>9. ASSUME NEW i \in 1 .. L + 1
        PROVE  Chosen(s, up, next, i)
    <3>1. CASE i = L + 1
      <4>1. i - 1 = L /\ next[i] = best /\ Reach(s, next, i - 1) = c
        BY <2>1, <2>7, <2>8, <3>1
      <4> QED BY <2>3, <2>5, <2>6, <4>1 DEF Chosen
    <3>2. CASE i \in 1 .. L
      <4>1. i - 1 \in 0 .. L
        BY <2>1, <3>2
      <4>2. next[i] = at.stages[i] /\ Reach(s, next, i - 1) = Reach(s, at.stages, i - 1)
        BY <2>7, <2>8, <3>2, <4>1
      <4>3. Chosen(s, up, at.stages, i)
        BY <3>2 DEF Greedy
      <4> QED BY <4>2, <4>3 DEF Chosen
    <3> QED
      BY <2>1, <3>1, <3>2
  <2>10. ASSUME NEW i \in 0 .. L + 1, NEW j \in 0 .. L + 1, i < j
         PROVE  Reach(s, next, i) < Reach(s, next, j)
    <3>1. CASE j \in 0 .. L
      <4>1. i \in 0 .. L
        BY <2>1, <2>10, <3>1
      <4> QED BY <2>8, <2>10, <3>1, <4>1 DEF Greedy
    <3>2. CASE j = L + 1
      <4>1. i \in 0 .. L
        BY <2>1, <2>10, <3>2
      <4>2. i = L \/ Reach(s, at.stages, i) < Reach(s, at.stages, L)
        BY <2>1, <4>1 DEF Greedy
      <4>3. Reach(s, at.stages, i) \in Nat
        <5>1. i \in 1 .. L => at.stages[i] \in up
          BY <2>1, ElementOfSeq
        <5> QED BY <2>1, <4>1, <5>1 DEF Reach, Ranges
      <4> QED BY <2>1, <2>3, <2>8, <3>2, <4>1, <4>2, <4>3
    <3> QED
      BY <2>1, <3>1, <3>2
  <2>11. at.remaining \ {best} = up \ {next[i] : i \in 1 .. L + 1}
    <3>1. 1 .. L + 1 = (1 .. L) \cup {L + 1}
      BY <2>1
    <3>2. {next[i] : i \in 1 .. L + 1} = {at.stages[i] : i \in 1 .. L} \cup {best}
      BY <2>7, <3>1
    <3> QED
      BY <3>2 DEF Greedy
  <2>12. Greedy(s, up, Turn(s, at))
    <3> DEFINE after == Turn(s, at)
    <3>1. /\ after.stages = next /\ after.cursor = s[best].last
          /\ after.remaining = at.remaining \ {best}
      <4> HIDE DEF after
      <4>1. after = [stages |-> next, cursor |-> s[best].last,
                     remaining |-> at.remaining \ {best}]
        BY <2>4 DEF after
      <4> QED BY <4>1
    <3>2. Len(next) = L + 1 /\ Reach(s, next, L + 1) = s[best].last
      BY <2>7, <2>8
    <3> HIDE DEF after, next, best, L
    <3>3. Greedy(s, up, after)
      BY <2>9, <2>10, <2>11, <3>1, <3>2 DEF Greedy
    <3> QED BY <3>3 DEF after
  <2> QED
    BY <1>2, <2>4, <2>7, <2>12
<1> QED
  BY <1>1, <1>2

\* Fewer stages than nodes, when each stage is given a node of its own.
LEMMA StagesFit ==
  ASSUME NEW L \in Nat, NEW nodes, IsFiniteSet(nodes), NEW f \in [1 .. L -> nodes],
         \A i, j \in 1 .. L : i < j => f[i] # f[j]
  PROVE  L <= Cardinality(nodes)
<1>1. f \in Injection(1 .. L, nodes)
  <2> SUFFICES ASSUME NEW i \in 1 .. L, NEW j \in 1 .. L, f[i] = f[j]
               PROVE  i = j
    BY DEF Injection, IsInjective
  <2>1. i \in Int /\ j \in Int /\ ~ (i < j) /\ ~ (j < i)
    OBVIOUS
  <2> QED
    BY <2>1
<1>2. Cardinality(1 .. L) <= Cardinality(nodes)
  BY <1>1, FS_Injection
<1>3. Cardinality(1 .. L) = L
  BY FS_Interval
<1> QED
  BY <1>2, <1>3

\* The walk of a finite set of tiles ends stuck, each of its turns greedy.
LEMMA WalkIsGreedy ==
  ASSUME NEW s, NEW up, IsFiniteSet(up), Ranges(s, up)
  PROVE  /\ Walk(s, up) \in WalkState(up)
         /\ Greedy(s, up, Walk(s, up))
         /\ Stuck(s, Walk(s, up))
<1>1. PICK w : /\ Walk(s, up) = w[Turns(up)]
               /\ w \in [0 .. Turns(up) -> WalkState(up)]
               /\ w[0] = FirstTurn(up)
               /\ \A k \in 1 .. Turns(up) : w[k] = Turn(s, w[k - 1])
  BY WalkDef
<1>2. Cardinality(up) \in Nat /\ Turns(up) = Cardinality(up) + 1
  BY FS_CardinalityType DEF Turns
<1> DEFINE Done(k) == Stuck(s, w[k]) \/ Len(w[k].stages) = k
           C == {k \in 0 .. Turns(up) : Greedy(s, up, w[k]) /\ Done(k)}
<1>3. 0 \in C
  <2>1. Len(<<>>) = 0
    OBVIOUS
  <2>2. 1 .. 0 = {} /\ 0 .. 0 = {0}
    OBVIOUS
  <2>3. Greedy(s, up, FirstTurn(up)) /\ Len(FirstTurn(up).stages) = 0
    BY <2>1, <2>2 DEF Greedy, FirstTurn, Reach
  <2> QED
    BY <1>1, <1>2, <2>3
<1>4. ASSUME NEW k \in 0 .. Turns(up) - 1, k \in C
      PROVE  k + 1 \in C
  <2>1. k + 1 \in 1 .. Turns(up) /\ w[k] \in WalkState(up) /\ w[k + 1] = Turn(s, w[k])
    BY <1>1, <1>2
  <2>2. Greedy(s, up, w[k])
    BY <1>4
  <2>3. Greedy(s, up, w[k + 1])
    BY <2>1, <2>2, TurnIsGreedy
  <2>4. Stuck(s, w[k + 1]) \/ Len(w[k + 1].stages) = k + 1
    <3>1. CASE Stuck(s, w[k])
      BY <2>1, <2>2, <3>1, TurnIsGreedy
    <3>2. CASE ~ Stuck(s, w[k])
      BY <1>4, <2>1, <2>2, <3>2, TurnIsGreedy
    <3> QED
      BY <3>1, <3>2
  <2> QED
    BY <1>2, <2>1, <2>3, <2>4
<1>5. 0 .. Turns(up) \subseteq C
  <2> HIDE DEF C
  <2> QED BY <1>2, <1>3, <1>4, UpTo
<1> DEFINE at == Walk(s, up)
<1>6. at \in WalkState(up) /\ Greedy(s, up, at) /\ (Stuck(s, at) \/ Len(at.stages) = Turns(up))
  BY <1>1, <1>2, <1>5
<1> HIDE DEF at
<1>7. Len(at.stages) <= Cardinality(up)
  <2>1. at.stages \in Seq(up) /\ Len(at.stages) \in Nat
        /\ at.stages \in [1 .. Len(at.stages) -> up]
    BY <1>6, LenProperties DEF WalkState
  <2>2. ASSUME NEW i \in 1 .. Len(at.stages), NEW j \in 1 .. Len(at.stages), i < j
        PROVE  at.stages[i] # at.stages[j]
    <3>1. Reach(s, at.stages, i) < Reach(s, at.stages, j)
      BY <1>6, <2>1, <2>2 DEF Greedy
    <3>2. s[at.stages[i]].last \in Nat
      BY <2>1 DEF Ranges
    <3> QED
      BY <3>1, <3>2 DEF Reach
  <2> QED
    BY <2>1, <2>2, StagesFit
<1>8. Stuck(s, at)
  <2>1. Len(at.stages) \in Nat
    BY <1>6, LenProperties DEF WalkState
  <2> QED
    BY <1>2, <1>6, <1>7, <2>1
<1> QED
  BY <1>6, <1>8 DEF at

\* The layers below the cursor are held by the stages: the walk leaves no gap.
LEMMA StagesHold ==
  ASSUME NEW s, NEW up, Ranges(s, up), NEW at \in WalkState(up), Greedy(s, up, at),
         NEW l \in Nat, l < at.cursor
  PROVE  \E i \in 1 .. Len(at.stages) : s[at.stages[i]].first <= l /\ l < s[at.stages[i]].last
<1> DEFINE L == Len(at.stages)
           Beyond == {j \in 0 .. L : l < Reach(s, at.stages, j)}
<1>1. L \in Nat /\ \A j \in 1 .. L : at.stages[j] \in up
  BY LenProperties, ElementOfSeq DEF WalkState
<1>2. \A j \in 0 .. L : Reach(s, at.stages, j) \in Nat
  BY <1>1 DEF Reach, Ranges
<1>3. L \in Beyond
  BY <1>1 DEF Greedy
<1>4. PICK i \in Beyond : \A j \in Beyond : i <= j
  <2>1. Beyond \in SUBSET Nat /\ Beyond # {}
    BY <1>3
  <2> HIDE DEF Beyond
  <2> QED BY <2>1, LeastNatural
<1>5. i \in 1 .. L
  BY <1>1, <1>4 DEF Reach
<1>6. i - 1 \in 0 .. L /\ i - 1 \notin Beyond
  BY <1>1, <1>4, <1>5
<1>7. Reach(s, at.stages, i - 1) <= l
  BY <1>2, <1>6
<1>8. s[at.stages[i]].first <= Reach(s, at.stages, i - 1) /\ l < s[at.stages[i]].last
  BY <1>4, <1>5 DEF Greedy, Chosen, Reach
<1>9. s[at.stages[i]].first \in Nat /\ Reach(s, at.stages, i - 1) \in Nat
  BY <1>1, <1>2, <1>5, <1>6 DEF Ranges
<1>10. s[at.stages[i]].first <= l
  BY <1>7, <1>8, <1>9
<1> QED
  BY <1>5, <1>8, <1>10

\* The plan says "covered" when and only when the tiles it may use cover every layer.
LEMMA ExactPlan ==
  ASSUME NEW s, NEW up, IsFiniteSet(up), Ranges(s, up)
  PROVE  PipelinePlan(s, up).covered <=> Covers(s, up)
<1> DEFINE at == Walk(s, up)
<1>1. at \in WalkState(up) /\ Greedy(s, up, at) /\ Stuck(s, at)
  BY WalkIsGreedy
<1>2. PipelinePlan(s, up).covered <=> at.cursor >= TotalLayers
  BY DEF PipelinePlan
<1> HIDE DEF at
<1>3. at.cursor \in Nat /\ at.stages \in Seq(up) /\ Len(at.stages) \in Nat
  BY <1>1, LenProperties DEF WalkState
<1>4. ASSUME at.cursor >= TotalLayers
      PROVE  Covers(s, up)
  <2> SUFFICES ASSUME NEW l \in Layer
               PROVE  \E n \in up : s[n].first <= l /\ l < s[n].last
    BY DEF Covers
  <2>1. l \in Nat /\ l < at.cursor
    BY <1>3, <1>4, LayerAssumption DEF Layer
  <2>2. PICK i \in 1 .. Len(at.stages) : s[at.stages[i]].first <= l /\ l < s[at.stages[i]].last
    BY <1>1, <2>1, StagesHold
  <2>3. at.stages[i] \in up
    BY <1>3, ElementOfSeq
  <2> QED
    BY <2>2, <2>3
<1>5. ASSUME Covers(s, up), ~ (at.cursor >= TotalLayers)
      PROVE  FALSE
  <2>1. at.cursor \in Layer
    BY <1>3, <1>5, LayerAssumption DEF Layer
  <2>2. PICK n \in up : s[n].first <= at.cursor /\ at.cursor < s[n].last
    BY <1>5, <2>1 DEF Covers
  <2>3. ASSUME NEW i \in 1 .. Len(at.stages), n = at.stages[i]
        PROVE  FALSE
    <3>1. Reach(s, at.stages, i) = s[n].last /\ s[n].last \in Nat
      BY <2>3 DEF Reach, Ranges
    <3>2. i = Len(at.stages) \/ Reach(s, at.stages, i) < Reach(s, at.stages, Len(at.stages))
      BY <1>1, <1>3 DEF Greedy
    <3> QED
      BY <1>1, <1>3, <2>2, <3>1, <3>2 DEF Greedy
  <2>4. n \in at.remaining
    BY <1>1, <2>3 DEF Greedy
  <2> QED
    BY <1>1, <1>5, <2>2, <2>4 DEF Stuck, Reachable
<1> QED
  BY <1>2, <1>4, <1>5

\* A covering plan is made of tiles it may use, covers what it claims, and no fewer tiles
\* could.
LEMMA MinimalPlan ==
  ASSUME NEW s, NEW up, IsFiniteSet(up), Ranges(s, up), PipelinePlan(s, up).covered
  PROVE  LET stages == PipelinePlan(s, up).stages
             Planned == {stages[i] : i \in DOMAIN stages}
         IN  /\ Planned \subseteq up
             /\ Covers(s, Planned)
             /\ \A nodes \in SUBSET up : Covers(s, nodes) => Len(stages) <= Cardinality(nodes)
<1> DEFINE at == Walk(s, up)
           L == Len(at.stages)
<1>1. at \in WalkState(up) /\ Greedy(s, up, at) /\ Stuck(s, at)
  BY WalkIsGreedy
<1>2. PipelinePlan(s, up).stages = at.stages /\ at.cursor >= TotalLayers
  BY DEF PipelinePlan
<1> HIDE DEF at
<1>3. /\ at.cursor \in Nat /\ at.stages \in Seq(up) /\ L \in Nat
      /\ DOMAIN at.stages = 1 .. L /\ \A i \in 1 .. L : at.stages[i] \in up
  BY <1>1, LenProperties, ElementOfSeq DEF WalkState
<1> DEFINE Planned == {at.stages[i] : i \in DOMAIN at.stages}
<1>4. Planned \subseteq up
  BY <1>3
<1>5. Covers(s, Planned)
  <2> SUFFICES ASSUME NEW l \in Layer
               PROVE  \E n \in Planned : s[n].first <= l /\ l < s[n].last
    BY DEF Covers
  <2>1. l \in Nat /\ l < at.cursor
    BY <1>2, <1>3, LayerAssumption DEF Layer
  <2> QED
    BY <1>1, <1>3, <2>1, StagesHold
<1>6. ASSUME NEW nodes \in SUBSET up, Covers(s, nodes)
      PROVE  L <= Cardinality(nodes)
  <2> DEFINE holds(n, i) == /\ s[n].first <= Reach(s, at.stages, i - 1)
                            /\ Reach(s, at.stages, i - 1) < s[n].last
             f == [i \in 1 .. L |-> CHOOSE n \in nodes : holds(n, i)]
  <2>1. ASSUME NEW i \in 0 .. L
        PROVE  Reach(s, at.stages, i) \in Nat
    BY <1>3 DEF Reach, Ranges
  <2>2. ASSUME NEW i \in 1 .. L
        PROVE  f[i] \in nodes /\ holds(f[i], i)
    <3>1. i - 1 \in 0 .. L
      BY <1>3
    <3>2. Reach(s, at.stages, i - 1) \in Layer
      BY <1>1, <2>1, <3>1, LayerAssumption DEF Greedy, Chosen, Layer
    <3>3. \E n \in nodes : holds(n, i)
      BY <1>6, <3>2 DEF Covers
    <3> HIDE DEF holds
    <3> QED BY <3>3
  <2>3. f \in [1 .. L -> nodes]
    BY <2>2
  <2> HIDE DEF f
  <2>4. ASSUME NEW i \in 1 .. L, NEW j \in 1 .. L, i < j
        PROVE  f[i] # f[j]
    <3>1. i - 1 \in 0 .. L /\ j - 1 \in 0 .. L /\ i \in 0 .. L /\ i <= j - 1
      BY <1>3, <2>4
    <3>2. s[f[i]].last <= Reach(s, at.stages, i)
      <4>1. Chosen(s, up, at.stages, i)
        BY <1>1 DEF Greedy
      <4>2. f[i] \in up /\ holds(f[i], i)
        BY <1>6, <2>2
      <4>3. s[f[i]].last <= s[at.stages[i]].last
        BY <4>1, <4>2 DEF Chosen
      <4>4. Reach(s, at.stages, i) = s[at.stages[i]].last
        BY DEF Reach
      <4> QED BY <4>3, <4>4
    <3>3. i = j - 1 \/ Reach(s, at.stages, i) < Reach(s, at.stages, j - 1)
      BY <1>1, <3>1 DEF Greedy
    <3>4. Reach(s, at.stages, j - 1) < s[f[j]].last
      BY <2>2
    <3>5. s[f[i]].last \in Nat /\ s[f[j]].last \in Nat
      BY <1>6, <2>2 DEF Ranges
    <3>6. Reach(s, at.stages, i) \in Nat /\ Reach(s, at.stages, j - 1) \in Nat
      BY <2>1, <3>1
    <3>7. s[f[i]].last < s[f[j]].last
      BY <3>2, <3>3, <3>4, <3>5, <3>6
    <3> QED
      BY <3>5, <3>7
  <2>5. IsFiniteSet(nodes)
    BY FS_Subset
  <2> QED
    BY <1>3, <2>3, <2>4, <2>5, StagesFit
<1> QED
  BY <1>2, <1>4, <1>5, <1>6

----------------------------------------------------------------------------
(* The sliding window.                                                     *)

\* The VRAM of some nodes.
VramSum(s, nodes) == MapThenSumSet(LAMBDA n : s[n].vram, nodes)

\* It is the sum of the values of a function.
LEMMA VramIsNat ==
  ASSUME NEW s, NEW nodes, IsFiniteSet(nodes), \A n \in nodes : s[n].vram \in Nat
  PROVE  VramSum(s, nodes) \in Nat
<1> DEFINE f == [n \in nodes |-> s[n].vram]
           Solves(g) == g = [t \in SUBSET nodes |->
                               IF t = {} THEN 0
                               ELSE s[CHOOSE x \in t : TRUE].vram + g[t \ {CHOOSE x \in t : TRUE}]]
           g == CHOOSE g : Solves(g)
<1>1. VramSum(s, nodes) = g[nodes]
  BY DEF VramSum, MapThenSumSet, MapThenFoldSet
<1>2. \A n \in nodes : f[n] \in Nat /\ f[n] \in Int /\ f[n] = s[n].vram
  OBVIOUS
<1>3. \A h : IsSum(h, f, nodes) <=> Solves(h)
  BY <1>2 DEF IsSum
<1>4. \E h : IsSum(h, f, nodes)
  <2> HIDE DEF f
  <2> QED BY <1>2, SumExists
<1>5. IsSum(g, f, nodes)
  <2> HIDE DEF Solves
  <2> QED BY <1>3, <1>4
<1>6. g[nodes] = Sum(f, nodes) /\ Sum(f, nodes) \in Nat
  <2> HIDE DEF f, g
  <2> QED BY <1>2, <1>5, SumUnique, SumNat
<1> QED
  BY <1>1, <1>6

\* The shares of the tiles: ranges of the layers, of finitely many nodes.
SharesInv ==
  /\ IsFiniteSet(DOMAIN shares)
  /\ Ranges(shares, DOMAIN shares)
  /\ \A n \in DOMAIN shares : shares[n].vram \in Nat

\* The VRAM of a layer and the number of layers a node gets are what their names say.
LEMMA LayerNumbers ==
  ASSUME NEW s, IsFiniteSet(DOMAIN s), \A n \in DOMAIN s : s[n].vram \in Nat
  PROVE  /\ \A i : Coverage(s, i) \in Nat
         /\ \A vram \in Nat : ShareSize(s, vram) \in 1 .. TotalLayers
<1>1. ASSUME NEW i
      PROVE  Coverage(s, i) \in Nat
  <2> DEFINE nodes == {n \in DOMAIN s : s[n].first <= i /\ i < s[n].last}
  <2>1. IsFiniteSet(nodes) /\ \A n \in nodes : s[n].vram \in Nat
    BY FS_Subset
  <2>2. VramSum(s, nodes) \in Nat
    <3> HIDE DEF nodes
    <3> QED BY <2>1, VramIsNat
  <2>3. Coverage(s, i) = VramSum(s, nodes)
    BY DEF Coverage, VramSum, MapThenSumSet, MapThenFoldSet
  <2> QED
    BY <2>2, <2>3
<1>2. ASSUME NEW vram \in Nat
      PROVE  ShareSize(s, vram) \in 1 .. TotalLayers
  <2>1. VramOf(s) \in Nat
    <3>1. VramOf(s) = VramSum(s, DOMAIN s)
      BY DEF VramOf, VramSum, MapThenSumSet, MapThenFoldSet
    <3> QED BY <3>1, VramIsNat
  <2> DEFINE total == VramOf(s) + vram
             part == Rounded(TotalLayers * vram, total)
             least == Max({1, part})
  <2>2. CASE total = 0
    BY <2>2, LayerAssumption DEF ShareSize
  <2>3. CASE total # 0
    <3>1. total \in Nat \ {0} /\ TotalLayers * vram \in Nat
      BY <2>1, <2>3, LayerAssumption
    <3>2. part \in Int
      <4> DEFINE a == TotalLayers * vram
      <4> HIDE DEF a, total
      <4>1. a \div total \in Int
        BY <3>1 DEF a
      <4> QED BY <4>1 DEF Rounded, a
    <3> HIDE DEF part, total
    <3>3. least \in Int /\ least >= 1
      BY <3>2 DEF Max
    <3>4. ShareSize(s, vram) = Min({TotalLayers, least})
      BY <2>3 DEF ShareSize, part, total
    <3> HIDE DEF least
    <3>5. Min({TotalLayers, least}) \in 1 .. TotalLayers
      BY <3>3, LayerAssumption DEF Min
    <3> QED
      BY <3>4, <3>5
  <2> QED
    BY <2>2, <2>3
<1> QED
  BY <1>1, <1>2

\* The sum over a window, as a sum of the values of a function.
LEMMA WindowIsSum ==
  ASSUME NEW s, \A i : Coverage(s, i) \in Nat, NEW size \in Nat, NEW start \in Int
  PROVE  WindowSum(s, size, start) = Sum([i \in Int |-> Coverage(s, i)], start .. start + size - 1)
<1> DEFINE f == [i \in Int |-> Coverage(s, i)]
           window == start .. start + size - 1
           Solves(g) == g = [t \in SUBSET window |->
                               IF t = {} THEN 0
                               ELSE Coverage(s, CHOOSE x \in t : TRUE)
                                      + g[t \ {CHOOSE x \in t : TRUE}]]
           g == CHOOSE g : Solves(g)
<1>1. WindowSum(s, size, start) = g[window]
  BY DEF WindowSum, MapThenSumSet, MapThenFoldSet
<1>2. \A i \in window : i \in Int /\ f[i] \in Int /\ f[i] = Coverage(s, i)
  OBVIOUS
<1>3. IsFiniteSet(window)
  BY FS_Interval
<1> HIDE DEF window
<1>4. \A h : IsSum(h, f, window) <=> Solves(h)
  BY <1>2 DEF IsSum
<1>5. \E h : IsSum(h, f, window)
  <2> HIDE DEF f
  <2> QED BY <1>2, <1>3, SumExists
<1>6. IsSum(g, f, window)
  <2> HIDE DEF Solves
  <2> QED BY <1>4, <1>5
<1>7. g[window] = Sum(f, window)
  <2> HIDE DEF f, g
  <2> QED BY <1>2, <1>3, <1>6, SumUnique
<1> QED
  BY <1>1, <1>7 DEF window

\* The window moved one layer on: one layer enters it, one leaves.
LEMMA WindowMoves ==
  ASSUME NEW s, \A i : Coverage(s, i) \in Nat, NEW size \in Nat \ {0}, NEW start \in Int
  PROVE  /\ WindowSum(s, size, start) \in Int
         /\ WindowSum(s, size, start + 1) =
              WindowSum(s, size, start) + Coverage(s, start + size) - Coverage(s, start)
<1> DEFINE f == [i \in Int |-> Coverage(s, i)]
           both == start .. start + size
<1>1. WindowSum(s, size, start) = Sum(f, start .. start + size - 1)
  BY WindowIsSum
<1>2. WindowSum(s, size, start + 1) = Sum(f, start + 1 .. start + size)
  <2>1. start + 1 \in Int /\ (start + 1) + size - 1 = start + size
    OBVIOUS
  <2> QED BY <2>1, WindowIsSum
<1>3. /\ start \in both /\ start + size \in both
      /\ both \ {start + size} = start .. start + size - 1
      /\ both \ {start} = start + 1 .. start + size
  OBVIOUS
<1>4. /\ IsFiniteSet(both) /\ IsFiniteSet(start .. start + size - 1)
      /\ IsFiniteSet(start + 1 .. start + size)
  BY FS_Interval
<1>5. /\ \A i \in both : f[i] \in Int
      /\ \A i \in start .. start + size - 1 : f[i] \in Int
      /\ \A i \in start + 1 .. start + size : f[i] \in Int
      /\ f[start] = Coverage(s, start) /\ f[start + size] = Coverage(s, start + size)
  OBVIOUS
<1> HIDE DEF f, both
<1>6. /\ Sum(f, both) = f[start + size] + Sum(f, start .. start + size - 1)
      /\ Sum(f, both) = f[start] + Sum(f, start + 1 .. start + size)
  <2>1. \A x \in both : Sum(f, both) = f[x] + Sum(f, both \ {x})
    BY <1>4, <1>5, SumRules
  <2> QED
    BY <1>3, <2>1
<1>7. Sum(f, start .. start + size - 1) \in Int /\ Sum(f, start + 1 .. start + size) \in Int
  BY <1>4, <1>5, SumRules
<1> QED
  BY <1>1, <1>2, <1>5, <1>6, <1>7

\* The window at start is the first of the least of those up to i.
FirstLeast(s, size, i, start) ==
  \A j \in 0 .. i : \/ WindowSum(s, size, start) < WindowSum(s, size, j)
                    \/ WindowSum(s, size, start) = WindowSum(s, size, j) /\ start <= j

SlideState == [sum : Int, best : Int, least : Int]
SlideFirst(s, size) ==
  [sum |-> WindowSum(s, size, 0), best |-> 0, least |-> WindowSum(s, size, 0)]
SlideOn(s, size, i, at) ==
  LET sum == at.sum + Coverage(s, i + size - 1) - Coverage(s, i - 1)
  IN  IF sum < at.least THEN [sum |-> sum, best |-> i, least |-> sum]
      ELSE [at EXCEPT !.sum = sum]

IsSlide(w, s, size) ==
  w = [i \in 0 .. TotalLayers - size |->
         IF i = 0 THEN SlideFirst(s, size) ELSE SlideOn(s, size, i, w[i - 1])]

\* The running sum is the window's sum, and the best window so far is the first least one.
LEMMA SlideFindsLeast ==
  ASSUME NEW s, \A i : Coverage(s, i) \in Nat, NEW size \in 1 .. TotalLayers
  PROVE  /\ Slide(s, size) \in 0 .. TotalLayers - size
         /\ FirstLeast(s, size, TotalLayers - size, Slide(s, size))
<1> DEFINE N == TotalLayers - size
           V == SlideState
           base == SlideFirst(s, size)
           step == [i \in 1 .. N |-> [at \in V |-> SlideOn(s, size, i, at)]]
<1>1. N \in Nat /\ size \in Nat \ {0}
  BY LayerAssumption
<1>2. \A i \in Int : WindowSum(s, size, i) \in Int
  BY <1>1, WindowMoves
<1>3. base \in V
  BY <1>2 DEF SlideFirst, SlideState
<1>4. ASSUME NEW i \in 1 .. N, NEW at \in V
      PROVE  SlideOn(s, size, i, at) \in V
  BY <1>1 DEF SlideOn, SlideState
<1>5. StepData(N, V, base, step)
  BY <1>1, <1>3, <1>4 DEF StepData
<1>6. PICK f : IsStepwise(f, N, V, base, step)
  <2> HIDE DEF N, V, base, step
  <2> QED BY <1>5, StepwiseExists
<1>7. ASSUME NEW i \in 1 .. N
      PROVE  f[i] = SlideOn(s, size, i, f[i - 1])
  <2>1. i - 1 \in 0 .. N
    BY <1>1
  <2>2. f[i - 1] \in V /\ f[i] = step[i][f[i - 1]]
    BY <1>6, <2>1 DEF IsStepwise
  <2> HIDE DEF V, N
  <2> QED BY <2>2
<1>8. IsSlide(f, s, size)
  BY <1>1, <1>6, <1>7 DEF IsStepwise, IsSlide
<1> DEFINE w == CHOOSE w : IsSlide(w, s, size)
<1>9. Slide(s, size) = w[N].best
  BY DEF Slide, IsSlide, SlideFirst, SlideOn
<1>10. IsSlide(w, s, size)
  BY <1>8
<1> HIDE DEF w
<1>11. w[0] = base /\ \A i \in 1 .. N : w[i] = SlideOn(s, size, i, w[i - 1])
  BY <1>1, <1>10 DEF IsSlide
<1> DEFINE Best(i) == /\ w[i] \in V
                      /\ w[i].sum = WindowSum(s, size, i)
                      /\ w[i].best \in 0 .. i
                      /\ w[i].least = WindowSum(s, size, w[i].best)
                      /\ FirstLeast(s, size, i, w[i].best)
           C == {i \in 0 .. N : Best(i)}
<1>12. 0 \in C
  BY <1>1, <1>2, <1>3, <1>11 DEF SlideFirst, FirstLeast
<1>13. ASSUME NEW i \in 0 .. N - 1, i \in C
       PROVE  i + 1 \in C
  <2> DEFINE sum == w[i].sum + Coverage(s, i + size) - Coverage(s, i)
  <2>1. /\ i \in Nat /\ i + 1 \in 1 .. N /\ w[i] \in V /\ Best(i)
        /\ (i + 1) + size - 1 = i + size /\ (i + 1) - 1 = i
    BY <1>1, <1>13
  <2>2. w[i + 1] = IF sum < w[i].least THEN [sum |-> sum, best |-> i + 1, least |-> sum]
                   ELSE [w[i] EXCEPT !.sum = sum]
    BY <1>11, <2>1 DEF SlideOn
  <2>3. sum = WindowSum(s, size, i + 1) /\ sum \in Int
    <3>1. WindowSum(s, size, i + 1) =
            WindowSum(s, size, i) + Coverage(s, i + size) - Coverage(s, i)
      BY <1>1, <2>1, WindowMoves
    <3> QED BY <1>2, <2>1, <3>1
  <2> HIDE DEF sum
  <2>4. CASE sum < w[i].least
    <3>1. w[i + 1] = [sum |-> sum, best |-> i + 1, least |-> sum]
      BY <2>2, <2>4
    <3>2. ASSUME NEW j \in 0 .. i + 1
          PROVE  \/ WindowSum(s, size, i + 1) < WindowSum(s, size, j)
                 \/ WindowSum(s, size, i + 1) = WindowSum(s, size, j) /\ i + 1 <= j
      <4>1. CASE j = i + 1
        BY <1>2, <2>1, <4>1
      <4>2. CASE j \in 0 .. i
        <5>1. WindowSum(s, size, w[i].best) <= WindowSum(s, size, j)
          BY <1>2, <2>1, <4>2 DEF FirstLeast
        <5>2. WindowSum(s, size, i + 1) < WindowSum(s, size, w[i].best)
          BY <2>1, <2>3, <2>4
        <5> QED BY <1>2, <2>1, <4>2, <5>1, <5>2
      <4> QED
        BY <2>1, <4>1, <4>2
    <3>3. FirstLeast(s, size, i + 1, w[i + 1].best)
      BY <3>1, <3>2 DEF FirstLeast
    <3> QED
      BY <1>1, <2>1, <2>3, <3>1, <3>3 DEF SlideState
  <2>5. CASE ~ (sum < w[i].least)
    <3>1. w[i + 1] = [w[i] EXCEPT !.sum = sum]
      BY <2>2, <2>5
    <3>2. /\ w[i + 1] \in V /\ w[i + 1].sum = sum /\ w[i + 1].best = w[i].best
          /\ w[i + 1].least = w[i].least
      BY <2>1, <2>3, <3>1 DEF SlideState
    <3>3. ASSUME NEW j \in 0 .. i + 1
          PROVE  \/ WindowSum(s, size, w[i].best) < WindowSum(s, size, j)
                 \/ WindowSum(s, size, w[i].best) = WindowSum(s, size, j) /\ w[i].best <= j
      <4>1. CASE j = i + 1
        <5>1. WindowSum(s, size, w[i].best) <= WindowSum(s, size, i + 1)
          BY <1>2, <2>1, <2>3, <2>5
        <5> QED BY <1>2, <2>1, <4>1, <5>1
      <4>2. CASE j \in 0 .. i
        BY <2>1, <4>2 DEF FirstLeast
      <4> QED
        BY <2>1, <4>1, <4>2
    <3>4. FirstLeast(s, size, i + 1, w[i + 1].best)
      BY <3>2, <3>3 DEF FirstLeast
    <3> QED
      BY <1>1, <2>1, <2>3, <3>2, <3>4
  <2> QED
    BY <2>4, <2>5
<1>14. 0 .. N \subseteq C
  <2> HIDE DEF C, N
  <2> QED BY <1>1, <1>12, <1>13, UpTo
<1> QED
  BY <1>1, <1>9, <1>14

\* What assign_layers gives a joining node.
LEMMA AssignedShare ==
  ASSUME SharesInv, NEW vram \in Nat
  PROVE  LET share == AssignLayers(shares, vram)
             size == share.last - share.first
         IN  /\ share.vram = vram
             /\ size \in 1 .. TotalLayers
             /\ share.first \in 0 .. TotalLayers - size
             /\ share.last = share.first + size
             /\ FirstLeast(shares, size, TotalLayers - size, share.first)
<1> DEFINE n == ShareSize(shares, vram)
           start == Slide(shares, n)
<1>1. /\ \A i : Coverage(shares, i) \in Nat
      /\ n \in 1 .. TotalLayers
  BY LayerNumbers DEF SharesInv
<1> HIDE DEF n
<1>2. start \in 0 .. TotalLayers - n /\ FirstLeast(shares, n, TotalLayers - n, start)
  BY <1>1, SlideFindsLeast
<1>3. AssignLayers(shares, vram) = [vram |-> vram, first |-> start, last |-> start + n]
  BY DEF AssignLayers, n
<1> HIDE DEF start
<1>4. (start + n) - start = n
  BY <1>1, <1>2, LayerAssumption
<1> QED
  BY <1>1, <1>2, <1>3, <1>4

----------------------------------------------------------------------------
(* Theorems about the joins.                                               *)

LEMMA SharesInit == Init => SharesInv
BY FS_EmptySet DEF Init, SharesInv, Ranges

LEMMA SharesStep == SharesInv /\ [Next]_shares => SharesInv'
<1> SUFFICES ASSUME SharesInv, [Next]_shares PROVE SharesInv'
  OBVIOUS
<1>1. CASE UNCHANGED shares
  BY <1>1 DEF SharesInv, Ranges
<1>2. ASSUME NEW n \in Node, NEW vram \in Vram, AssignShare(n, vram)
      PROVE  SharesInv'
  <2> DEFINE share == AssignLayers(shares, vram)
  <2>1. vram \in Nat
    BY VramAssumption
  <2>2. /\ share.vram = vram /\ share.first \in Nat /\ share.last \in Nat
        /\ share.first < share.last /\ share.last <= TotalLayers
    BY <2>1, AssignedShare, LayerAssumption
  <2> HIDE DEF share
  <2>3. /\ DOMAIN shares' = DOMAIN shares \cup {n}
        /\ \A m \in DOMAIN shares' : shares'[m] = IF m = n THEN share ELSE shares[m]
    BY <1>2 DEF AssignShare, share
  <2>4. IsFiniteSet(DOMAIN shares')
    BY <2>3, FS_AddElement DEF SharesInv
  <2> QED
    BY <2>1, <2>2, <2>3, <2>4 DEF SharesInv, Ranges
<1> QED
  BY <1>1, <1>2 DEF Next

\* The shares of all the tiles that ever joined are ranges of the layers.
LEMMA SharesAlways == Spec => []SharesInv
BY SharesInit, SharesStep, PTL DEF Spec

LEMMA UpTilesAreProper ==
  ASSUME SharesInv, NEW up \in SUBSET DOMAIN shares
  PROVE  IsFiniteSet(up) /\ Ranges(shares, up)
BY FS_Subset DEF SharesInv, Ranges

\* PlanIsExact, for any number of layers and whatever joins came before: the walk ends
\* stuck, and it is stuck below the last layer only where no tile holds the next one.
THEOREM PlansAreExact == Spec => []PlanIsExact
<1>1. SharesInv => PlanIsExact
  BY UpTilesAreProper, ExactPlan DEF PlanIsExact
<1> QED
  BY <1>1, SharesAlways, PTL

\* PlanIsMinimal: each stage reaches as far as any tile that holds its first layer, so
\* another set of tiles that covers the layers has a tile of its own for each stage.
THEOREM PlansAreMinimal == Spec => []PlanIsMinimal
<1>1. SharesInv => PlanIsMinimal
  <2> SUFFICES ASSUME SharesInv, NEW up \in SUBSET DOMAIN shares,
                      PipelinePlan(shares, up).covered
               PROVE  LET plan == PipelinePlan(shares, up)
                          Planned == {plan.stages[i] : i \in DOMAIN plan.stages}
                      IN  /\ Planned \subseteq up
                          /\ Covers(shares, Planned)
                          /\ \A nodes \in SUBSET up : Covers(shares, nodes) =>
                               Len(plan.stages) <= Cardinality(nodes)
    BY DEF PlanIsMinimal
  <2>1. IsFiniteSet(up) /\ Ranges(shares, up)
    BY UpTilesAreProper
  <2> QED
    BY <2>1, MinimalPlan
<1> QED
  BY <1>1, SharesAlways, PTL

\* PlacedWhereLeast: the running sum of assign_layers is the sum over the window it slides
\* to, so the window it keeps is the first of the least ones.
THEOREM JoinsArePlacedWhereLeast == Spec => PlacedWhereLeast
<1> DEFINE Placed(n) ==
             LET size == shares'[n].last - shares'[n].first
                 sum(start) == WindowSum(shares, size, start)
             IN  /\ size > 0 /\ shares'[n].first >= 0 /\ shares'[n].last <= TotalLayers
                 /\ \A start \in 0 .. TotalLayers - size :
                      \/ sum(shares'[n].first) < sum(start)
                      \/ sum(shares'[n].first) = sum(start) /\ shares'[n].first <= start
           New(n) == n \in DOMAIN shares' /\ (n \in DOMAIN shares => shares'[n] # shares[n])
<1>1. ASSUME SharesInv, Next
      PROVE  \A n \in Node : New(n) => Placed(n)
  <2>1. PICK m \in Node, vram \in Vram : AssignShare(m, vram)
    BY <1>1 DEF Next
  <2> SUFFICES ASSUME NEW n \in Node, New(n) PROVE Placed(n)
    OBVIOUS
  <2>2. n = m
    BY <2>1 DEF AssignShare
  <2>3. shares'[n] = AssignLayers(shares, vram)
    BY <2>1, <2>2 DEF AssignShare
  <2>4. vram \in Nat
    BY VramAssumption
  <2>5. LET size == shares'[n].last - shares'[n].first
        IN  /\ size \in 1 .. TotalLayers
            /\ shares'[n].first \in 0 .. TotalLayers - size
            /\ shares'[n].last = shares'[n].first + size
            /\ FirstLeast(shares, size, TotalLayers - size, shares'[n].first)
    BY <1>1, <2>3, <2>4, AssignedShare
  <2> QED
    BY <2>5, LayerAssumption DEF FirstLeast
<1>2. SharesInv /\ [Next]_shares => [\A n \in Node : New(n) => Placed(n)]_shares
  <2> HIDE DEF New, Placed
  <2> QED BY <1>1
<1> QED
  BY <1>2, SharesAlways, PTL DEF Spec, PlacedWhereLeast
=============================================================================
