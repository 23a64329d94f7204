------------------------- MODULE ChainSelectorProofs -------------------------
(* What the selection path of ActivateBestChain guarantees, for every block    *)
(* tree, every set of checkpoints and every bound.                             *)
EXTENDS ChainSelector, FiniteSetTheorems, WellFoundedInduction, TLAPS

-----------------------------------------------------------------------------
(* Among finite sets there is one that none of the others is part of. *)
LEMMA LeastFiniteSet ==
    ASSUME NEW S, NEW T \in SUBSET FiniteSubsetsOf(S), T # {}
    PROVE  \E m \in T : \A n \in T : n \subseteq m => n = m
  <1>1. \E m \in T : \A n \in T : ~(<<n, m>> \in StrictSubsetOrdering(S))
    BY WFMin, FS_StrictSubsetOrderingWellFounded
  <1>2. \A n \in T : n \in SUBSET S
    BY DEF FiniteSubsetsOf
  <1> QED
    BY <1>1, <1>2, Zenon DEF StrictSubsetOrdering

(* CBlockIndexWorkComparator is a strict total order: the ordering of          *)
(* std::set is well defined, given that blocks of equal work agree on having   *)
(* a VDF output.                                                               *)
LEMMA BetterOrder ==
    ASSUME seq \in [Blocks -> Nat]
    PROVE  /\ \A a \in Blocks : ~Better(a, a)
           /\ \A a, b \in Blocks : a # b => Better(a, b) \/ Better(b, a)
           /\ \A a, b, c \in Blocks : Better(a, b) /\ Better(b, c) => Better(a, c)
  <1>0. /\ \A a \in Blocks : /\ ChainWork[a] \in Nat /\ VdfOutput[a] \in Nat
                             /\ seq[a] \in Nat /\ Address[a] \in Nat
    BY TreeAssumption, VdfAssumption, SelectorAssumption
  <1>1. ASSUME NEW a \in Blocks
        PROVE  ~Better(a, a)
    BY <1>0 DEF Better
  <1>2. ASSUME NEW a \in Blocks, NEW b \in Blocks, a # b
        PROVE  Better(a, b) \/ Better(b, a)
    <2>1. Address[a] # Address[b]
      BY <1>2, SelectorAssumption
    <2> QED
      BY <1>0, <2>1 DEF Better
  <1>3. ASSUME NEW a \in Blocks, NEW b \in Blocks, NEW c \in Blocks,
               Better(a, b), Better(b, c)
        PROVE  Better(a, c)
    <2>1. \A x, y \in Blocks :
              ChainWork[x] = ChainWork[y] /\ VdfOutput[x] > 0 => VdfOutput[y] > 0
      BY SelectorAssumption
    <2> QED
      BY <1>0, <1>3, <2>1 DEF Better
  <1> QED
    BY <1>1, <1>2, <1>3

(* ... so every nonempty set of blocks has a first element. *)
LEMMA BestExists ==
    ASSUME seq \in [Blocks -> Nat], NEW S \in SUBSET Blocks, S # {}
    PROVE  \E b \in S : \A c \in S \ {b} : Better(b, c)
  <1> DEFINE Before(b) == {c \in S : Better(c, b)}
             T == {Before(b) : b \in S}
  <1>1. T \in SUBSET FiniteSubsetsOf(S)
    BY SelectorAssumption, FS_Subset DEF FiniteSubsetsOf
  <1>2. PICK b \in S : \A c \in S : Before(c) \subseteq Before(b) => Before(c) = Before(b)
    <2>1. T # {}
      BY Zenon
    <2>2. \E m \in T : \A n \in T : n \subseteq m => n = m
      <3> HIDE DEF T
      <3> QED
        BY <1>1, <2>1, LeastFiniteSet
    <2>3. PICK b \in S : \A n \in T : n \subseteq Before(b) => n = Before(b)
      BY <2>2, Zenon
    <2>4. \A c \in S : Before(c) \in T
      OBVIOUS
    <2> QED
      <3> HIDE DEF T, Before
      <3> QED
        BY <2>3, <2>4
  <1>3. ASSUME NEW c \in S \ {b}, ~Better(b, c)
        PROVE  FALSE
    <2>1. Better(c, b)
      BY <1>3, BetterOrder
    <2>2. Before(c) \subseteq Before(b)
      BY <2>1, BetterOrder
    <2>3. c \in Before(b) /\ c \notin Before(c)
      BY <2>1, BetterOrder
    <2> QED
      BY <1>2, <2>2, <2>3
  <1> QED
    BY <1>3

-----------------------------------------------------------------------------
(* The tree.  A chain holds its last block, the chains of its blocks and       *)
(* Genesis; below its last block it is strictly lower.                         *)
LEMMA AncFacts ==
    ASSUME NEW b \in Blocks
    PROVE  /\ b \in Anc[b] /\ Genesis \in Anc[b]
           /\ \A a \in Anc[b] : /\ a \in Blocks /\ Anc[a] \subseteq Anc[b]
                                /\ a # b => Height[a] < Height[b] /\ b \notin Anc[a]
  <1>1. \A x \in Blocks : x \in Anc[x]
    BY TreeAssumption, AncAssumption DEF NonGenesis
  <1>2. Genesis \in Anc[b]
    <2>1. PICK f \in Blocks : Anc[Genesis] \cap Anc[b] = Anc[f]
      BY TreeAssumption, ForkAssumption, Zenon
    <2> QED
      BY <1>1, <2>1, AncAssumption
  <1>3. ASSUME NEW a \in Anc[b], a # b
        PROVE  Height[a] < Height[b]
    <2>1. PICK c \in Anc[b] \ {Genesis} : Parent[c] = a
      BY <1>3, AncAssumption
    <2>2. c \in NonGenesis /\ Height[c] <= Height[b]
      BY AncAssumption DEF NonGenesis
    <2> QED
      BY <2>1, <2>2, TreeAssumption DEF NonGenesis
  <1> QED
    BY <1>1, <1>2, <1>3, AncAssumption, TreeAssumption

LEMMA ParentFacts ==
    ASSUME NEW b \in NonGenesis
    PROVE  /\ Parent[b] \in Blocks /\ Parent[b] \in Anc[b]
           /\ Anc[Parent[b]] = Anc[b] \ {b}
           /\ Height[b] = Height[Parent[b]] + 1 /\ Height[Parent[b]] \in Nat
  <1>1. Parent[b] \in Blocks /\ b \in Blocks /\ Anc[b] = Anc[Parent[b]] \cup {b}
    BY TreeAssumption, AncAssumption DEF NonGenesis
  <1>2. /\ Height[b] = Height[Parent[b]] + 1 /\ Height[Parent[b]] \in Nat
        /\ Parent[b] # b
    BY <1>1, TreeAssumption
  <1>3. Parent[b] \in Anc[b]
    BY <1>1, AncFacts
  <1>4. b \notin Anc[Parent[b]]
    BY <1>1, <1>2, <1>3, AncFacts
  <1> QED
    BY <1>1, <1>2, <1>3, <1>4

(* A nonempty set of blocks has a member that is Genesis or whose parent is    *)
(* not in the set: induction over the tree.                                    *)
LEMMA TreeLeast ==
    ASSUME NEW C \in SUBSET Blocks, C # {}
    PROVE  \E b \in C : b # Genesis => Parent[b] \notin C
  <1> DEFINE T == {Anc[b] : b \in C}
  <1>1. T \in SUBSET FiniteSubsetsOf(Blocks)
    BY SelectorAssumption, AncAssumption, FS_Subset DEF FiniteSubsetsOf
  <1>2. T # {}
    OBVIOUS
  <1>3. \E m \in T : \A n \in T : n \subseteq m => n = m
    <2> HIDE DEF T
    <2> QED
      BY <1>1, <1>2, LeastFiniteSet
  <1>4. PICK b \in C : \A n \in T : n \subseteq Anc[b] => n = Anc[b]
    BY <1>3
  <1>5. \A c \in C : Anc[c] \in T
    OBVIOUS
  <1>6. ASSUME b # Genesis, Parent[b] \in C
        PROVE  FALSE
    <2>1. Anc[Parent[b]] = Anc[b] \ {b} /\ b \in Anc[b]
      BY <1>6, ParentFacts, AncFacts DEF NonGenesis
    <2>2. Anc[Parent[b]] \in T
      BY <1>5, <1>6
    <2> HIDE DEF T
    <2> QED
      BY <1>4, <2>1, <2>2
  <1> QED
    BY <1>6

(* Work does not decrease along a chain, and a chain has a block at every      *)
(* height up to its last.                                                      *)
LEMMA WorkGrows ==
    ASSUME NEW b \in Blocks, NEW a \in Anc[b]
    PROVE  ChainWork[a] <= ChainWork[b]
  <1> DEFINE C == {x \in Blocks : a \in Anc[x] /\ ~(ChainWork[a] <= ChainWork[x])}
  <1>1. SUFFICES ASSUME C # {}
                 PROVE  FALSE
    OBVIOUS
  <1>2. PICK x \in C : x # Genesis => Parent[x] \notin C
    <2>1. C \in SUBSET Blocks
      OBVIOUS
    <2> HIDE DEF C
    <2> QED
      BY <1>1, <2>1, TreeLeast
  <1>3. a \in Blocks /\ x # a
    BY AncFacts, TreeAssumption
  <1>4. x # Genesis
    BY <1>3, AncAssumption
  <1>5. /\ Parent[x] \in Blocks /\ a \in Anc[Parent[x]]
        /\ ChainWork[x] > ChainWork[Parent[x]]
    BY <1>3, <1>4, ParentFacts, TreeAssumption DEF NonGenesis
  <1>6. ~(ChainWork[a] <= ChainWork[Parent[x]])
    BY <1>3, <1>5, TreeAssumption
  <1> QED
    BY <1>2, <1>4, <1>5, <1>6

LEMMA EveryHeight ==
    ASSUME NEW b \in Blocks, NEW h \in Nat, h <= Height[b]
    PROVE  \E a \in Anc[b] : Height[a] = h
  <1> DEFINE C == {x \in Blocks : h <= Height[x] /\ \A a \in Anc[x] : Height[a] # h}
  <1>1. SUFFICES ASSUME C # {}
                 PROVE  FALSE
    OBVIOUS
  <1>2. PICK x \in C : x # Genesis => Parent[x] \notin C
    <2>1. C \in SUBSET Blocks
      OBVIOUS
    <2> HIDE DEF C
    <2> QED
      BY <1>1, <2>1, TreeLeast
  <1>3. Height[x] # h
    BY AncFacts
  <1>4. x # Genesis
    BY <1>3, TreeAssumption
  <1>5. /\ Parent[x] \in Blocks /\ Anc[Parent[x]] \subseteq Anc[x]
        /\ Height[x] = Height[Parent[x]] + 1 /\ Height[Parent[x]] \in Nat
    BY <1>4, ParentFacts DEF NonGenesis
  <1>6. h <= Height[Parent[x]]
    BY <1>3, <1>5
  <1> QED
    BY <1>2, <1>4, <1>5, <1>6

LEMMA ForkFacts ==
    ASSUME NEW a \in Blocks, NEW b \in Blocks
    PROVE  /\ Fork[a][b] \in Blocks
           /\ Fork[a][b] \in Anc[a] \cap Anc[b]
  <1>1. \E f \in Blocks : Anc[a] \cap Anc[b] = Anc[f]
    BY ForkAssumption, Zenon
  <1>2. /\ FindFork(a, b) \in Blocks
        /\ Anc[a] \cap Anc[b] = Anc[FindFork(a, b)]
    BY <1>1 DEF FindFork
  <1>3. Fork[a][b] = FindFork(a, b)
    BY DEF Fork
  <1> QED
    BY <1>2, <1>3, AncFacts

LEMMA ForkIsSelf ==
    ASSUME NEW b \in Blocks, NEW t \in Blocks, b \in Anc[t]
    PROVE  Fork[b][t] = b
  <1>1. Anc[b] \cap Anc[t] = Anc[b]
    BY AncFacts
  <1>2. \E f \in Blocks : Anc[b] \cap Anc[t] = Anc[f]
    BY <1>1
  <1>3. FindFork(b, t) \in Blocks /\ Anc[b] = Anc[FindFork(b, t)]
    BY <1>1, <1>2 DEF FindFork
  <1>4. FindFork(b, t) = b
    BY <1>3, AncFacts
  <1> QED
    BY <1>4 DEF Fork

LEMMA NextFacts ==
    ASSUME NEW t \in Blocks, NEW c \in Anc[t], c # t
    PROVE  /\ NextTowards(c, t) \in Anc[t] /\ NextTowards(c, t) \in NonGenesis
           /\ Parent[NextTowards(c, t)] = c
           /\ Anc[NextTowards(c, t)] = Anc[c] \cup {NextTowards(c, t)}
           /\ NextTowards(c, t) \notin Anc[c]
  <1> DEFINE n == NextTowards(c, t)
  <1>1. \E d \in Anc[t] \ {Genesis} : Parent[d] = c
    BY AncAssumption
  <1>2. n \in Anc[t] \ {Genesis} /\ Parent[n] = c
    BY <1>1 DEF NextTowards
  <1>3. n \in NonGenesis
    BY <1>2, AncFacts DEF NonGenesis
  <1>4. Anc[Parent[n]] = Anc[n] \ {n} /\ n \in Anc[n]
    BY <1>3, ParentFacts, AncFacts DEF NonGenesis
  <1> QED
    BY <1>2, <1>3, <1>4

-----------------------------------------------------------------------------
(* The inductive invariant.  No block of the chain contradicts a checkpoint;   *)
(* every block that could be of use is a candidate itself or was dropped; and  *)
(* while the goal is being reached it is the best candidate, its branch has    *)
(* data, and its chain contradicts no checkpoint either.                       *)
Conflict(b) == \E p \in Anc[b], c \in Checkpoints : Height[c] = Height[p] /\ c # p

Kept ==
    ~rebuild => \A b \in received :
        ~Invalid(b) /\ ~Conflict(b) => b \in candidates \cup dropped

Stepping ==
    pc = "step" =>
        /\ goal \in candidates /\ ~Conflict(goal)
        /\ Anc[goal] \ Anc[tip] \subseteq received
        /\ \A b \in candidates \ {goal} : Better(goal, b)

SInv ==
    /\ TypeOK
    /\ Anc[tip] \subseteq received /\ ~Conflict(tip)
    /\ FailedChildJustified
    /\ Kept
    /\ Stepping

(* A mark found below a block explains a mark on the block. *)
LEMMA MarkedBelow ==
    ASSUME FailedChildJustified, NEW b \in Blocks, NEW a \in Anc[b], a # b, Invalid(a)
    PROVE  \E x \in Anc[b] \ {b} : x \in failedValid \cup cleared
  <1>1. CASE a \in failedValid
    BY <1>1
  <1>2. CASE a \in failedChild
    <2>1. PICK x \in Anc[a] \ {a} : x \in failedValid \cup cleared
      BY <1>2 DEF FailedChildJustified
    <2>2. Anc[a] \subseteq Anc[b] /\ b \notin Anc[a]
      BY AncFacts
    <2> QED
      BY <2>1, <2>2
  <1> QED
    BY <1>1, <1>2 DEF Invalid

(* What a block that the checkpoint tiers refuse has against it. *)
LEMMA RefusedConflicts ==
    ASSUME NEW t \in Blocks, NEW b \in Blocks, ~CheckpointTiers(t, b)
    PROVE  Conflict(b)
  <1>1. ASSUME NEW c \in Checkpoints, Height[c] = Height[b], c # b
        PROVE  Conflict(b)
    BY <1>1, AncFacts DEF Conflict
  <1>2. ASSUME NEW c \in Checkpoints, Height[c] < Height[b], c \notin Anc[b]
        PROVE  Conflict(b)
    <2>1. c \in Blocks /\ Height[c] \in Nat /\ Height[b] \in Nat
      BY CheckpointAssumption, TreeAssumption
    <2>2. PICK a \in Anc[b] : Height[a] = Height[c]
      BY <1>2, <2>1, EveryHeight
    <2> QED
      BY <1>2, <2>2 DEF Conflict
  <1>3. ASSUME NEW c \in Checkpoints
        PROVE  Height[b] > Height[c] <=> Height[c] < Height[b]
    BY CheckpointAssumption, TreeAssumption
  <1> QED
    BY <1>1, <1>2, <1>3 DEF CheckpointTiers

(* FindMostWorkChainImpl returns the first of the candidates that pass, and    *)
(* nothing that it leaves in the set comes before that one.                    *)
LEMMA MostWorkFacts ==
    ASSUME TypeOK, Good # {}
    PROVE  /\ MostWork \in Good /\ MostWork \in candidates \ Popped
           /\ MostWork \in Blocks /\ MostWork \in received
           /\ \A b \in candidates \ Popped : b # MostWork => Better(MostWork, b)
  <1>1. Good \in SUBSET Blocks /\ seq \in [Blocks -> Nat] /\ candidates \subseteq Blocks
    BY SelectorAssumption, FS_CardinalityType DEF TypeOK, Good
  <1>2. \E b \in Good : \A c \in Good \ {b} : Better(b, c)
    BY <1>1, BestExists
  <1>3. MostWork \in Good /\ \A c \in Good \ {MostWork} : Better(MostWork, c)
    BY <1>2 DEF MostWork
  <1>4. MostWork \in candidates \ Popped
    BY <1>1, <1>3, BetterOrder DEF Good, Popped
  <1>5. ASSUME NEW b \in candidates \ Popped, b # MostWork
        PROVE  Better(MostWork, b)
    <2>1. PICK g \in Good : ~Better(b, g)
      BY DEF Popped
    <2>2. ~Better(b, MostWork)
      BY <1>1, <1>3, <2>1, BetterOrder
    <2> QED
      BY <1>1, <1>3, <1>5, <2>2, BetterOrder
  <1> QED
    BY <1>1, <1>3, <1>4, <1>5 DEF TypeOK

(* Its branch has data. *)
LEMMA GoodFacts ==
    ASSUME TypeOK, NEW b \in Good
    PROVE  Anc[b] \ Anc[tip] \subseteq received
  BY DEF Good, Stops, Walk, TypeOK

(* What the walk erases from the set is marked, with a reason, or recorded as  *)
(* dropped.                                                                    *)
LEMMA PoppedFacts ==
    ASSUME SInv
    PROVE  /\ Marked \subseteq index /\ DroppedForData \subseteq index
           /\ failedChild \subseteq Marked /\ dropped \subseteq DroppedForData
           /\ \A b \in Marked : \E a \in Anc[b] \ {b} : a \in failedValid \cup cleared
           /\ \A b \in Popped : b \in failedValid \cup Marked \cup DroppedForData
  <1>1. Popped \subseteq index /\ index \subseteq Blocks
    BY DEF Popped, SInv, TypeOK
  <1>2. Marked \subseteq index /\ DroppedForData \subseteq index
    BY <1>1 DEF Marked, DroppedForData, SInv, TypeOK
  <1>3. ASSUME NEW b \in Popped, StopsAtMark(b), ~Invalid(b)
        PROVE  \E a \in Anc[b] \ {b} : a \in failedValid \cup cleared
    <2>1. PICK a \in Walk(b) : Invalid(a)
      BY <1>3 DEF StopsAtMark, Stops
    <2>2. a \in Anc[b] /\ b \in Blocks
      BY <1>1, ForkFacts DEF Walk, SInv, TypeOK
    <2> QED
      BY <1>3, <2>1, <2>2, MarkedBelow DEF SInv
  <1>4. \A b \in Marked : \E a \in Anc[b] \ {b} : a \in failedValid \cup cleared
    BY <1>3 DEF Marked, SInv, FailedChildJustified
  <1> QED
    BY <1>2, <1>4 DEF Marked, DroppedForData, Invalid

-----------------------------------------------------------------------------
(* Init, and one lemma per action. *)
LEMMA SInvInit == Init => SInv
  <1> SUFFICES ASSUME Init
               PROVE  SInv
    OBVIOUS
  <1>1. TypeOK
    <2>1. 0 \in 0 .. Cardinality(Blocks)
      BY SelectorAssumption, FS_CardinalityType
    <2>2. 0 \in 0 .. MaxFaults /\ 0 \in 0 .. MaxCalls
      BY SelectorAssumption
    <2> QED
      BY <2>1, <2>2, TreeAssumption, Zenon DEF Init, TypeOK
  <1>2. Anc[tip] = {Genesis}
    BY AncAssumption DEF Init
  <1>3. ~Conflict(tip)
    <2>1. ASSUME NEW c \in Checkpoints, Height[c] = Height[Genesis], c # Genesis
          PROVE  FALSE
      <3>1. c \in NonGenesis
        BY <2>1, CheckpointAssumption DEF NonGenesis
      <3> QED
        BY <2>1, <3>1, TreeAssumption, ParentFacts
    <2> QED
      BY <1>2, <2>1 DEF Conflict
  <1> QED
    BY <1>1, <1>2, <1>3 DEF Init, SInv, FailedChildJustified, Kept, Stepping

LEMMA ProcessNewHeaderStep ==
    ASSUME SInv, NEW b \in NonGenesis, ProcessNewHeader(b)
    PROVE  SInv'
  <1> USE DEF SInv, ProcessNewHeader, markVars, chainVars, stepVars, boundVars
  <1>1. TypeOK'
    <2>1. Cardinality({c \in index : seq[c] > 0}) + 1 \in 0 .. Cardinality(Blocks)
      <3> DEFINE S == {c \in index : seq[c] > 0}
      <3>1. IsFiniteSet(Blocks) /\ b \in Blocks
        BY SelectorAssumption DEF NonGenesis
      <3>2. S \in SUBSET Blocks /\ b \notin S
        BY DEF TypeOK
      <3>3. IsFiniteSet(S) /\ IsFiniteSet(S \cup {b})
            /\ Cardinality(S \cup {b}) = Cardinality(S) + 1
        BY <3>1, <3>2, FS_Subset, FS_AddElement, Zenon
      <3>4. Cardinality(S \cup {b}) <= Cardinality(Blocks)
        BY <3>1, <3>2, FS_Subset
      <3>5. Cardinality(S) \in Nat /\ Cardinality(Blocks) \in Nat
        BY <3>1, <3>3, FS_CardinalityType
      <3> HIDE DEF S
      <3>6. Cardinality(S) + 1 \in 0 .. Cardinality(Blocks)
        BY <3>3, <3>4, <3>5
      <3> QED
        BY <3>6 DEF S
    <2> QED
      BY <2>1 DEF TypeOK, NonGenesis
  <1>2. (Anc[tip] \subseteq received /\ ~Conflict(tip))'
    BY DEF Conflict
  <1>3. FailedChildJustified'
    BY DEF FailedChildJustified
  <1>4. Kept' /\ Stepping'
    BY DEF Kept, Stepping, Invalid, Conflict
  <1> QED
    BY <1>1, <1>2, <1>3, <1>4

LEMMA ProcessNewBlockStep ==
    ASSUME SInv, NEW b \in NonGenesis, ProcessNewBlock(b)
    PROVE  SInv'
  <1> USE DEF SInv, ProcessNewBlock, markVars, chainVars, boundVars
  <1>1. TypeOK'
    BY DEF TypeOK, NonGenesis, Invalid
  <1>2. (Anc[tip] \subseteq received /\ ~Conflict(tip))'
    BY Zenon DEF Conflict
  <1>3. FailedChildJustified'
    BY DEF FailedChildJustified
  <1>4. Kept'
    <2>1. CASE CheckpointTiers(tip, b)
      BY <2>1 DEF Kept, Invalid, Conflict
    <2>2. CASE ~CheckpointTiers(tip, b)
      <3>1. Conflict(b)
        BY <2>2, RefusedConflicts DEF TypeOK, NonGenesis
      <3> QED
        BY <2>2, <3>1 DEF Kept, Invalid, Conflict
    <2> QED
      BY <2>1, <2>2
  <1>5. Stepping'
    BY DEF Stepping
  <1> QED
    BY <1>1, <1>2, <1>3, <1>4, <1>5

LEMMA SelectNothingStep ==
    ASSUME SInv, SelectNothing
    PROVE  SInv'
  <1> USE DEF SInv, SelectNothing, indexVars, chainVars, boundVars
  <1>1. TypeOK'
    BY PoppedFacts DEF TypeOK
  <1>2. (Anc[tip] \subseteq received /\ ~Conflict(tip))'
    BY DEF Conflict
  <1>3. FailedChildJustified'
    BY PoppedFacts DEF FailedChildJustified
  <1>4. Kept'
    BY PoppedFacts DEF Kept, Invalid, Conflict
  <1>5. Stepping'
    BY DEF Stepping
  <1> QED
    BY <1>1, <1>2, <1>3, <1>4, <1>5

LEMMA SelectViolatingStep ==
    ASSUME SInv, SelectViolating
    PROVE  SInv'
  <1> USE DEF SInv, SelectViolating, indexVars, chainVars, stepVars, boundVars
  <1>1. \A x \in Violating(MostWork) : x \in index
    BY MostWorkFacts, GoodFacts DEF Violating, TypeOK
  <1>2. PICK v \in Violating(MostWork) :
            /\ candidates' = candidates \ (Popped \cup Subtree(v))
            /\ failedValid' = failedValid \cup {v}
            /\ failedChild' = Marked \cup (Subtree(v) \ {v})
    OBVIOUS
  <1>3. TypeOK'
    BY <1>1, <1>2, PoppedFacts DEF TypeOK, Subtree
  <1>4. (Anc[tip] \subseteq received /\ ~Conflict(tip))'
    BY Zenon DEF Conflict
  <1>5. FailedChildJustified'
    BY <1>2, PoppedFacts DEF FailedChildJustified, Subtree
  <1>6. Kept'
    BY <1>2, PoppedFacts DEF Kept, Invalid, Conflict
  <1>7. Stepping'
    BY Zenon DEF Stepping
  <1> QED
    BY <1>3, <1>4, <1>5, <1>6, <1>7

LEMMA SelectTooDeepStep ==
    ASSUME SInv, SelectTooDeep
    PROVE  SInv'
  <1> USE DEF SInv, SelectTooDeep, indexVars, boundVars
  <1>1. TypeOK'
    BY PoppedFacts DEF TypeOK
  <1>2. (Anc[tip] \subseteq received /\ ~Conflict(tip))'
    BY DEF Conflict
  <1>3. FailedChildJustified'
    BY PoppedFacts DEF FailedChildJustified
  <1>4. Kept' /\ Stepping'
    BY DEF Kept, Stepping
  <1> QED
    BY <1>1, <1>2, <1>3, <1>4

(* A branch without a violation above a chain without one. *)
LEMMA NoViolation ==
    ASSUME NEW b \in Blocks, ~Conflict(tip), Violating(b) = {}
    PROVE  ~Conflict(b)
  BY DEF Conflict, Violating

LEMMA SelectGoalStep ==
    ASSUME SInv, SelectGoal
    PROVE  SInv'
  <1> USE DEF SInv, SelectGoal, indexVars, chainVars
  <1>1. TypeOK'
    <2>1. MostWork \in index
      BY MostWorkFacts DEF TypeOK
    <2>2. faults' \in 0 .. MaxFaults
      BY SelectorAssumption DEF Outcome, TypeOK
    <2> QED
      BY <2>1, <2>2, PoppedFacts, Zenon DEF TypeOK
  <1>2. (Anc[tip] \subseteq received /\ ~Conflict(tip))'
    BY DEF Conflict
  <1>3. FailedChildJustified'
    BY PoppedFacts DEF FailedChildJustified
  <1>4. Kept'
    BY PoppedFacts DEF Kept, Invalid, Conflict
  <1>5. Stepping'
    <2>1. ~Conflict(MostWork)
      BY MostWorkFacts, NoViolation
    <2>2. Anc[MostWork] \ Anc[tip] \subseteq received
      BY MostWorkFacts, GoodFacts
    <2>3. \A a, b : Better(a, b)' = Better(a, b)
      BY DEF Better
    <2> QED
      BY <2>1, <2>2, <2>3, MostWorkFacts DEF Stepping, Conflict
  <1> QED
    BY <1>1, <1>2, <1>3, <1>4, <1>5, Zenon

(* The chain one block down. *)
LEMMA TipDown ==
    ASSUME SInv, tip # Genesis
    PROVE  /\ Parent[tip] \in received
           /\ Anc[Parent[tip]] = Anc[tip] \ {tip}
           /\ ~Conflict(Parent[tip])
  <1>1. tip \in NonGenesis
    BY DEF SInv, TypeOK, NonGenesis
  <1>2. Parent[tip] \in Anc[tip] /\ Anc[Parent[tip]] = Anc[tip] \ {tip}
    BY <1>1, ParentFacts
  <1> QED
    BY <1>2 DEF SInv, Conflict

(* A disconnect happens above the fork with the goal. *)
LEMMA AboveFork ==
    ASSUME SInv, tip \notin Anc[goal]
    PROVE  tip # Genesis
  BY AncFacts DEF SInv, TypeOK

LEMMA DisconnectStep ==
    ASSUME SInv, Disconnect
    PROVE  SInv'
  <1> USE DEF SInv, Disconnect, indexVars, markVars, boundVars
  <1>0. /\ Parent[tip] \in received /\ Anc[Parent[tip]] = Anc[tip] \ {tip}
        /\ ~Conflict(Parent[tip])
    BY AboveFork, TipDown
  <1>1. TypeOK'
    BY <1>0 DEF TypeOK
  <1>2. (Anc[tip] \subseteq received /\ ~Conflict(tip))'
    BY <1>0 DEF Conflict
  <1>3. FailedChildJustified'
    BY DEF FailedChildJustified
  <1>4. Kept'
    BY DEF Kept, Invalid, Conflict
  <1>5. Stepping'
    BY <1>0 DEF Stepping, Conflict, Better
  <1> QED
    BY <1>1, <1>2, <1>3, <1>4, <1>5

LEMMA DisconnectFailsStep ==
    ASSUME SInv, DisconnectFails
    PROVE  SInv'
  <1> USE DEF SInv, DisconnectFails, indexVars, markVars
  <1>0. /\ Parent[tip] \in received /\ Anc[Parent[tip]] = Anc[tip] \ {tip}
        /\ ~Conflict(Parent[tip])
    BY AboveFork, TipDown
  <1>1. TypeOK'
    <2>1. faults' \in 0 .. MaxFaults
      BY SelectorAssumption DEF Outcome, TypeOK
    <2> QED
      BY <1>0, <2>1 DEF TypeOK
  <1>2. (Anc[tip] \subseteq received /\ ~Conflict(tip))'
    BY <1>0 DEF Conflict
  <1>3. FailedChildJustified'
    BY DEF FailedChildJustified
  <1>4. Kept' /\ Stepping'
    BY DEF Kept, Stepping
  <1> QED
    BY <1>1, <1>2, <1>3, <1>4

(* The chain one block up, towards the goal. *)
LEMMA TipUp ==
    ASSUME SInv, pc = "step", tip \in Anc[goal] \ {goal},
           NEW n, n = NextTowards(tip, goal)
    PROVE  /\ n \in received /\ n \in Blocks /\ n \in Anc[goal]
           /\ Anc[n] = Anc[tip] \cup {n} /\ n \notin Anc[tip]
           /\ ~Conflict(n)
           /\ goal \notin Pruned(n)
  <1>1. /\ n \in Anc[goal] /\ Anc[n] = Anc[tip] \cup {n} /\ n \notin Anc[tip]
        /\ n \in Blocks /\ goal \in Blocks
    BY NextFacts DEF SInv, TypeOK, NonGenesis
  <1>2. n \in received
    BY <1>1 DEF SInv, Stepping
  <1>3. ~Conflict(n)
    BY <1>1, AncFacts DEF SInv, Stepping, Conflict
  <1>4. ~(ChainWork[n] > ChainWork[goal])
    BY <1>1, WorkGrows, TreeAssumption
  <1> QED
    BY <1>1, <1>2, <1>3, <1>4 DEF Pruned

(* MaybeAnchorVdfGrace. *)
LEMMA AnchorFacts ==
    ASSUME TypeOK, NEW n \in Blocks, Anchor(n)
    PROVE  (graceHeight \in {-1} \cup {Height[b] : b \in Blocks} /\ graceOpen \in BOOLEAN)'
  BY Zenon DEF Anchor, TypeOK

LEMMA ConnectStep ==
    ASSUME SInv, Connect
    PROVE  SInv'
  <1> DEFINE n == NextTowards(tip, goal)
  <1>0. /\ n \in received /\ n \in Blocks /\ n \in Anc[goal]
        /\ Anc[n] = Anc[tip] \cup {n} /\ ~Conflict(n) /\ goal \notin Pruned(n)
    BY TipUp DEF Connect
  <1>A. /\ Anchor(n) /\ tip' = n /\ pc = "step"
        /\ candidates' = candidates \ Pruned(n) /\ dropped' = dropped \cup Pruned(n)
        /\ pc' = IF n = goal THEN "idle" ELSE "step"
        /\ UNCHANGED <<index, received, seq, failedValid, failedChild, rebuild, goal, undid,
                       cleared, faults, calls>>
    BY DEF Connect, indexVars, markVars, boundVars
  <1> HIDE DEF n
  <1> USE DEF SInv
  <1>1. TypeOK'
    BY <1>0, <1>A, AnchorFacts DEF TypeOK, Pruned
  <1>2. (Anc[tip] \subseteq received /\ ~Conflict(tip))'
    BY <1>0, <1>A, Zenon DEF Conflict
  <1>3. FailedChildJustified'
    BY <1>A DEF FailedChildJustified
  <1>4. Kept'
    BY <1>A DEF Kept, Invalid, Conflict
  <1>5. Stepping'
    BY <1>0, <1>A DEF Stepping, Conflict, Better
  <1> QED
    BY <1>1, <1>2, <1>3, <1>4, <1>5

LEMMA ConnectUnwrittenStep ==
    ASSUME SInv, ConnectUnwritten
    PROVE  SInv'
  <1> DEFINE n == NextTowards(tip, goal)
  <1>0. /\ n \in received /\ n \in Blocks
        /\ Anc[n] = Anc[tip] \cup {n} /\ ~Conflict(n)
    BY TipUp, Zenon DEF ConnectUnwritten
  <1>A. /\ Anchor(n) /\ tip' = n /\ rebuild' = TRUE /\ pc' = "idle" /\ Outcome(FALSE)
        /\ UNCHANGED <<index, received, seq, failedValid, failedChild, candidates, goal, undid,
                       dropped, cleared, calls>>
    BY Zenon DEF ConnectUnwritten, indexVars, markVars
  <1> HIDE DEF n
  <1> USE DEF SInv
  <1>1. TypeOK'
    <2>1. faults' \in 0 .. MaxFaults
      BY <1>A, SelectorAssumption DEF Outcome, TypeOK
    <2> QED
      BY <1>0, <1>A, <2>1, AnchorFacts DEF TypeOK
  <1>2. (Anc[tip] \subseteq received /\ ~Conflict(tip))'
    BY <1>0, <1>A DEF Conflict
  <1>3. FailedChildJustified'
    BY <1>A DEF FailedChildJustified
  <1>4. Kept' /\ Stepping'
    BY <1>A, ZenonT(40) DEF Kept, Stepping
  <1> QED
    BY <1>1, <1>2, <1>3, <1>4

LEMMA ReadFailsStep ==
    ASSUME SInv, ReadFails
    PROVE  SInv'
  <1> USE DEF SInv, ReadFails, indexVars, markVars
  <1>1. TypeOK'
    <2>1. faults' \in 0 .. MaxFaults
      BY SelectorAssumption DEF Outcome, TypeOK
    <2> QED
      BY <2>1 DEF TypeOK
  <1>2. (Anc[tip] \subseteq received /\ ~Conflict(tip))'
    BY DEF Conflict
  <1>3. FailedChildJustified'
    BY DEF FailedChildJustified
  <1>4. Kept' /\ Stepping'
    BY Zenon DEF Kept, Stepping, Invalid, Conflict
  <1> QED
    BY <1>1, <1>2, <1>3, <1>4, Zenon

(* The bounds on faults and calls survive a fault and a call.                   *)
LEMMA BoundsHold ==
    ASSUME TypeOK
    PROVE  /\ MaxFaults \in Nat /\ faults \in Nat
           /\ Call => calls' \in 0 .. MaxCalls
           /\ \A ok : Outcome(ok) => faults' \in 0 .. MaxFaults
  <1>1. MaxFaults \in Nat /\ MaxCalls \in Nat
    BY SelectorAssumption, Zenon
  <1>2. faults \in 0 .. MaxFaults /\ calls \in 0 .. MaxCalls
    BY Zenon DEF TypeOK
  <1>3. Call => calls' \in 0 .. MaxCalls
    BY <1>1, <1>2 DEF Call
  <1>4. ASSUME NEW ok, Outcome(ok)
        PROVE  faults' \in 0 .. MaxFaults
    BY <1>1, <1>2, <1>4 DEF Outcome
  <1>5. faults \in Nat
    BY <1>1, <1>2
  <1> QED
    BY <1>1, <1>3, <1>4, <1>5, Zenon

LEMMA ConnectFailsStep ==
    ASSUME SInv, ConnectFails
    PROVE  SInv'
  <1> DEFINE n == NextTowards(tip, goal)
  <1>0. n \in received
    BY TipUp DEF ConnectFails
  <1>A. /\ pc' # "step" /\ pc' \in {"idle", "select"} /\ Outcome(n \notin Valid)
        /\ failedValid' = failedValid \cup {n}
        /\ failedChild' = failedChild \cup (Subtree(n) \ {n})
        /\ candidates' = candidates \ Subtree(n)
        /\ rebuild' = (rebuild \/ undid)
        /\ UNCHANGED <<index, received, seq, tip, graceHeight, graceOpen, goal, undid, dropped,
                       cleared, calls>>
    BY Zenon DEF ConnectFails, indexVars
  <1> HIDE DEF n
  <1> USE DEF SInv
  <1>1. TypeOK'
    <2>1. faults' \in 0 .. MaxFaults
      BY <1>A, BoundsHold, Zenon
    <2> QED
      BY <1>0, <1>A, <2>1 DEF TypeOK, Subtree
  <1>2. (Anc[tip] \subseteq received /\ ~Conflict(tip))'
    BY <1>A, Zenon DEF Conflict
  <1>3. FailedChildJustified'
    BY <1>A DEF FailedChildJustified, Subtree
  <1>4. Kept' /\ Stepping'
    BY <1>A, ZenonT(40) DEF Kept, Stepping, Invalid, Conflict
  <1> QED
    BY <1>1, <1>2, <1>3, <1>4

LEMMA InvalidateBlockStep ==
    ASSUME SInv, NEW b \in NonGenesis, InvalidateBlock(b)
    PROVE  SInv'
  <1> USE DEF SInv, InvalidateBlock, Recompute, indexVars, chainVars, stepVars
  <1>1. TypeOK'
    <2>1. calls' \in 0 .. MaxCalls
      BY BoundsHold, Zenon
    <2> QED
      BY <2>1, ZenonT(40) DEF TypeOK, Subtree
  <1>2. (Anc[tip] \subseteq received /\ ~Conflict(tip))'
    BY DEF Conflict
  <1>3. FailedChildJustified'
    BY DEF FailedChildJustified, Subtree
  <1>4. Kept' /\ Stepping'
    BY DEF Kept, Stepping, Invalid
  <1> QED
    BY <1>1, <1>2, <1>3, <1>4, Zenon

LEMMA ReconsiderBlockStep ==
    ASSUME SInv, NEW b \in NonGenesis, ReconsiderBlock(b)
    PROVE  SInv'
  <1> USE DEF SInv, ReconsiderBlock, Recompute, indexVars, chainVars, stepVars
  <1>1. TypeOK'
    <2>1. calls' \in 0 .. MaxCalls
      BY BoundsHold, Zenon
    <2> QED
      BY <2>1 DEF TypeOK
  <1>2. (Anc[tip] \subseteq received /\ ~Conflict(tip))'
    BY Zenon DEF Conflict
  <1>3. FailedChildJustified'
    <2> SUFFICES ASSUME NEW c \in failedChild \ Reconsidered(b)
                 PROVE  \E a \in Anc[c] \ {c} : a \in (failedValid \ {b}) \cup cleared
      BY DEF FailedChildJustified
    <2>1. PICK a \in Anc[c] \ {c} : a \in failedValid \cup cleared
      BY DEF FailedChildJustified
    <2>2. CASE a # b \/ a \in cleared
      BY <2>1, <2>2
    <2>3. CASE a = b
      <3>1. c \in Subtree(b) /\ b \in Anc[b]
        BY <2>3, AncFacts, ZenonT(40) DEF Subtree, TypeOK, NonGenesis
      <3>2. PICK x \in Anc[c] \ (Anc[b] \cup {c}) : x \in failedValid
        BY <3>1, Zenon DEF Reconsidered
      <3> QED
        BY <3>1, <3>2
    <2> QED
      BY <2>2, <2>3, Zenon
  <1>4. Kept' /\ Stepping'
    BY DEF Kept, Stepping, Invalid
  <1> QED
    BY <1>1, <1>2, <1>3, <1>4

LEMMA RewindStep ==
    ASSUME SInv, Rewind
    PROVE  SInv'
  <1> USE DEF SInv, Rewind, indexVars, markVars, stepVars
  <1>0. /\ Parent[tip] \in received /\ Anc[Parent[tip]] = Anc[tip] \ {tip}
        /\ ~Conflict(Parent[tip])
    BY TipDown
  <1>1. TypeOK'
    <2>1. calls' \in 0 .. MaxCalls
      BY BoundsHold, Zenon
    <2> QED
      BY <1>0, <2>1, ZenonT(40) DEF TypeOK
  <1>2. (Anc[tip] \subseteq received /\ ~Conflict(tip))'
    BY <1>0, Zenon DEF Conflict
  <1>3. FailedChildJustified'
    BY DEF FailedChildJustified
  <1>4. Kept' /\ Stepping'
    BY DEF Kept, Stepping, Invalid, Conflict
  <1> QED
    BY <1>1, <1>2, <1>3, <1>4

(* The marks set and cleared without cs_main. *)
LEMMA MarksStep ==
    ASSUME SInv, NEW b \in NonGenesis,
           MarkFailed(b) \/ MarkFailedChild(b) \/ ClearFailed(b)
    PROVE  SInv'
  <1> USE DEF SInv, indexVars, markVars, chainVars, stepVars, boundVars
  <1>0. /\ UNCHANGED <<index, received, seq, candidates, tip, graceHeight, graceOpen, rebuild,
                       pc, goal, undid, faults>>
        /\ calls' \in 0 .. MaxCalls
        /\ failedValid' \subseteq index /\ failedChild' \subseteq index
        /\ dropped' \subseteq index /\ cleared' \subseteq index
        /\ dropped \subseteq dropped'
        /\ (failedValid \cup failedChild) \ dropped' \subseteq failedValid' \cup failedChild'
    <2>1. /\ failedValid \subseteq index /\ failedChild \subseteq index
          /\ dropped \subseteq index /\ cleared \subseteq index /\ calls \in 0 .. MaxCalls
      BY Zenon DEF TypeOK
    <2>2. CASE MarkFailed(b)
      BY <2>1, <2>2 DEF MarkFailed
    <2>3. CASE MarkFailedChild(b)
      BY <2>1, <2>3 DEF MarkFailedChild
    <2>4. CASE ClearFailed(b)
      <3>1. calls' \in 0 .. MaxCalls
        BY <2>4, BoundsHold, Zenon DEF ClearFailed
      <3> QED
        BY <2>1, <2>4, <3>1 DEF ClearFailed
    <2> QED
      BY <2>2, <2>3, <2>4, Zenon
  <1>1. TypeOK'
    BY <1>0, Zenon DEF TypeOK
  <1>2. (Anc[tip] \subseteq received /\ ~Conflict(tip))'
    BY <1>0, Zenon DEF Conflict
  <1>3. FailedChildJustified'
    <2>1. CASE MarkFailed(b) \/ ClearFailed(b)
      BY <2>1, ZenonT(40) DEF FailedChildJustified, MarkFailed, ClearFailed
    <2>2. CASE MarkFailedChild(b)
      <3>1. b \in Blocks /\ Parent[b] \in Anc[b] /\ Parent[b] # b
        BY ParentFacts, TreeAssumption DEF NonGenesis
      <3>2. \E x \in Anc[b] \ {b} : x \in failedValid \cup cleared
        BY <2>2, <3>1, MarkedBelow DEF MarkFailedChild
      <3> QED
        BY <2>2, <3>2, Zenon DEF FailedChildJustified, MarkFailedChild
    <2> QED
      BY <2>1, <2>2
  <1>4. Kept' /\ Stepping'
    BY <1>0, ZenonT(40) DEF Kept, Stepping, Invalid, Conflict, Better
  <1> QED
    BY <1>1, <1>2, <1>3, <1>4, ZenonT(40)

LEMMA ExpireGraceStep ==
    ASSUME SInv, ExpireGrace
    PROVE  SInv'
  BY ZenonT(40) DEF SInv, ExpireGrace, indexVars, markVars, stepVars, boundVars, TypeOK,
         Conflict, FailedChildJustified, Kept, Stepping, Invalid, Better

LEMMA SInvStutter ==
    ASSUME SInv, UNCHANGED vars
    PROVE  SInv'
  BY Zenon DEF SInv, vars, indexVars, markVars, chainVars, stepVars, boundVars, TypeOK,
         Conflict, FailedChildJustified, Kept, Stepping, Invalid, Better

LEMMA SInvNext ==
    ASSUME SInv, [Next]_vars
    PROVE  SInv'
  <1>1. CASE ActivateStep
    BY <1>1, SelectNothingStep, SelectViolatingStep, SelectTooDeepStep, SelectGoalStep,
       DisconnectStep, DisconnectFailsStep, ConnectStep, ConnectUnwrittenStep,
       ReadFailsStep, ConnectFailsStep DEF ActivateStep
  <1>2. ASSUME NEW b \in NonGenesis,
               \/ ProcessNewHeader(b) \/ ProcessNewBlock(b)
               \/ InvalidateBlock(b) \/ ReconsiderBlock(b)
               \/ MarkFailed(b) \/ MarkFailedChild(b) \/ ClearFailed(b)
        PROVE  SInv'
    BY <1>2, ProcessNewHeaderStep, ProcessNewBlockStep, InvalidateBlockStep,
       ReconsiderBlockStep, MarksStep
  <1>3. CASE Rewind
    BY <1>3, RewindStep
  <1>4. CASE ExpireGrace
    BY <1>4, ExpireGraceStep
  <1>5. CASE UNCHANGED vars
    BY <1>5, SInvStutter
  <1> QED
    BY <1>1, <1>2, <1>3, <1>4, <1>5 DEF Next

LEMMA SInvHolds == Spec => []SInv
  BY SInvInit, SInvNext, PTL DEF Spec

-----------------------------------------------------------------------------
(* The types of the selector's state hold throughout: candidates have data and *)
(* the tip's chain never loses it, whatever fails while a branch is switched.  *)
THEOREM TypeCorrect == Spec => []TypeOK
  <1>1. SInv => TypeOK
    BY DEF SInv
  <1> QED
    BY <1>1, SInvHolds, PTL

(* Every BLOCK_FAILED_CHILD mark has a failed or cleared ancestor below it,    *)
(* whoever set and cleared marks in the meantime.                              *)
THEOREM FailedChildJustifiedHolds == Spec => []FailedChildJustified
  <1>1. SInv => FailedChildJustified
    BY DEF SInv
  <1> QED
    BY <1>1, SInvHolds, PTL

(* A connectable branch preferred to the active chain is a candidate, or was   *)
(* dropped for one of the four reasons: between calls of ActivateBestChain     *)
(* nothing better is forgotten.                                                *)
THEOREM BetterIsKeptHolds == Spec => []BetterIsKept
  <1>1. SInv => BetterIsKept
    <2> SUFFICES ASSUME SInv, ~rebuild, NEW b \in index, Activatable(b)
                 PROVE  (\E c \in candidates : b \in Anc[c]) \/ b \in dropped
      BY DEF BetterIsKept
    <2>1. b \in received /\ b \in Blocks /\ Violating(b) = {}
      BY DEF Activatable, SInv, TypeOK
    <2>2. ~Conflict(b)
      BY <2>1, NoViolation DEF SInv
    <2>3. ~Invalid(b)
      <3>1. CASE b \in Anc[tip]
        <4>1. Fork[b][tip] = b
          BY <2>1, <3>1, ForkIsSelf DEF SInv, TypeOK
        <4> QED
          BY <4>1 DEF Activatable
      <3>2. CASE b \notin Anc[tip]
        BY <2>1, <3>2, AncFacts DEF Activatable
      <3> QED
        BY <3>1, <3>2
    <2> QED
      BY <2>1, <2>2, <2>3, AncFacts DEF SInv, Kept
  <1> QED
    BY <1>1, SInvHolds, PTL

(* Distance is a sum of two finite cardinalities: one element less in one of   *)
(* the sets makes it smaller.                                                  *)
LEMMA Closer ==
    ASSUME NEW S \in SUBSET Blocks, NEW T \in SUBSET Blocks, NEW x \in S
    PROVE  /\ Cardinality(S \ {x}) + Cardinality(T) < Cardinality(S) + Cardinality(T)
           /\ Cardinality(T) + Cardinality(S \ {x}) < Cardinality(T) + Cardinality(S)
  <1>1. IsFiniteSet(S) /\ IsFiniteSet(T)
    BY SelectorAssumption, FS_Subset
  <1>2. Cardinality(S) \in Nat /\ Cardinality(T) \in Nat
    BY <1>1, FS_CardinalityType
  <1>3. Cardinality(S \ {x}) = Cardinality(S) - 1
    BY <1>1, FS_RemoveElement
  <1> QED
    BY <1>2, <1>3

(* While cs_main is held the set of candidates only shrinks, a return to the   *)
(* selection has lost one, and every move of the tip is towards the goal.      *)
THEOREM ActivationAdvancesHolds == Spec => ActivationAdvances
  <1> DEFINE Advance ==
        pc # "idle" /\ pc' # "idle" =>
          /\ candidates' \subseteq candidates
          /\ pc' = "select" /\ ActivateStep => candidates' # candidates
          /\ tip' # tip => Distance' < Distance
  <1>1. ASSUME SInv, [Next]_vars
        PROVE  [Advance]_vars
    <2> SUFFICES ASSUME Next, pc # "idle", pc' # "idle"
                 PROVE  /\ candidates' \subseteq candidates
                        /\ pc' = "select" /\ ActivateStep => candidates' # candidates
                        /\ tip' # tip => Distance' < Distance
      BY <1>1
    <2>1. CASE SelectViolating
      <3>1. PICK v \in Violating(MostWork) : candidates' = candidates \ (Popped \cup Subtree(v))
        BY <2>1 DEF SelectViolating
      <3>2. MostWork \in candidates /\ MostWork \in Subtree(v)
        BY <1>1, <2>1, MostWorkFacts, Zenon DEF SelectViolating, SInv, TypeOK, Violating, Subtree
      <3> QED
        BY <2>1, <3>1, <3>2 DEF SelectViolating, chainVars
    <2>2. CASE SelectGoal
      <3>1. pc' # "select" /\ tip' = tip /\ candidates' \subseteq candidates
        BY <2>2 DEF SelectGoal, chainVars
      <3> QED
        BY <3>1
    <2>3. CASE Disconnect
      <3>1. /\ Anc[tip'] = Anc[tip] \ {tip} /\ tip \in Anc[tip] /\ goal' = goal
            /\ candidates' = candidates /\ pc' = "step" /\ tip \notin Anc[goal]
            /\ tip \in Blocks /\ goal \in Blocks
        BY <1>1, <2>3, AboveFork, TipDown, AncFacts, ZenonT(40) DEF Disconnect, SInv, TypeOK
      <3>2. /\ Anc[tip'] \ Anc[goal] = (Anc[tip] \ Anc[goal]) \ {tip}
            /\ Anc[goal] \ Anc[tip'] = Anc[goal] \ Anc[tip]
            /\ tip \in Anc[tip] \ Anc[goal]
        BY <3>1
      <3>3. Anc[tip] \ Anc[goal] \in SUBSET Blocks /\ Anc[goal] \ Anc[tip] \in SUBSET Blocks
        BY <3>1, AncAssumption
      <3>4. Cardinality((Anc[tip] \ Anc[goal]) \ {tip}) + Cardinality(Anc[goal] \ Anc[tip])
              < Cardinality(Anc[tip] \ Anc[goal]) + Cardinality(Anc[goal] \ Anc[tip])
        BY <3>2, <3>3, Closer
      <3>5. Distance' < Distance
        BY <3>1, <3>2, <3>4 DEF Distance
      <3> QED
        BY <3>1, <3>5
    <2>4. CASE Connect
      <3> DEFINE n == NextTowards(tip, goal)
      <3>1. /\ n \in Anc[goal] /\ n \notin Anc[tip] /\ Anc[n] = Anc[tip] \cup {n}
            /\ tip' = n /\ goal' = goal
            /\ candidates' \subseteq candidates /\ pc' = "step"
            /\ tip \in Blocks /\ goal \in Blocks
        BY <1>1, <2>4, TipUp, Zenon DEF Connect, SInv, TypeOK
      <3> HIDE DEF n
      <3>2. /\ Anc[goal] \ Anc[tip'] = (Anc[goal] \ Anc[tip]) \ {n}
            /\ Anc[tip'] \ Anc[goal] = Anc[tip] \ Anc[goal]
            /\ n \in Anc[goal] \ Anc[tip]
        BY <3>1
      <3>3. Anc[tip] \ Anc[goal] \in SUBSET Blocks /\ Anc[goal] \ Anc[tip] \in SUBSET Blocks
        BY <3>1, AncAssumption
      <3>4. Cardinality(Anc[tip] \ Anc[goal]) + Cardinality((Anc[goal] \ Anc[tip]) \ {n})
              < Cardinality(Anc[tip] \ Anc[goal]) + Cardinality(Anc[goal] \ Anc[tip])
        BY <3>2, <3>3, Closer
      <3>5. Distance' < Distance
        BY <3>1, <3>2, <3>4 DEF Distance
      <3> QED
        BY <3>1, <3>5
    <2>5. CASE ConnectFails
      <3> DEFINE n == NextTowards(tip, goal)
      <3>1. n \in Anc[goal] /\ goal \in candidates
        BY <1>1, <2>5, TipUp, Zenon DEF ConnectFails, SInv, Stepping
      <3>2. candidates' = candidates \ Subtree(n) /\ tip' = tip
        BY <2>5 DEF ConnectFails
      <3>3. goal \in Subtree(n)
        BY <1>1, <3>1 DEF Subtree, SInv, TypeOK
      <3> QED
        BY <3>1, <3>2, <3>3
    <2>6. CASE SelectNothing \/ SelectTooDeep \/ DisconnectFails \/ ConnectUnwritten \/ ReadFails
      BY <2>6, Zenon DEF SelectNothing, SelectTooDeep, DisconnectFails, ConnectUnwritten, ReadFails
    <2>7. CASE ~ActivateStep
      <3>1. ASSUME NEW b \in NonGenesis,
                   \/ ProcessNewHeader(b) \/ ProcessNewBlock(b)
                   \/ InvalidateBlock(b) \/ ReconsiderBlock(b)
            PROVE  FALSE
        BY <3>1, ZenonT(40) DEF ProcessNewHeader, ProcessNewBlock, InvalidateBlock, ReconsiderBlock
      <3>2. ASSUME NEW b \in NonGenesis,
                   MarkFailed(b) \/ MarkFailedChild(b) \/ ClearFailed(b)
            PROVE  candidates' = candidates /\ tip' = tip
        BY <3>2, Zenon DEF MarkFailed, MarkFailedChild, ClearFailed, chainVars
      <3>3. ~Rewind /\ (ExpireGrace => candidates' = candidates /\ tip' = tip)
        BY DEF Rewind, ExpireGrace
      <3> QED
        BY <2>7, <3>1, <3>2, <3>3 DEF Next
    <2> QED
      BY <2>1, <2>2, <2>3, <2>4, <2>5, <2>6, <2>7 DEF ActivateStep
  <1> QED
    BY <1>1, SInvHolds, PTL DEF Spec, ActivationAdvances

(* A block that another is better than, or the same as, is not preferred to    *)
(* it: the comparator of the set and the rule of the loop agree.               *)
LEMMA NotPreferred ==
    ASSUME seq \in [Blocks -> Nat], NEW m \in Blocks, NEW b \in Blocks,
           b = m \/ Better(m, b)
    PROVE  /\ ChainWork[b] <= ChainWork[m]
           /\ ChainWork[b] = ChainWork[m] /\ 0 < VdfOutput[b] =>
                  ~(VdfOutput[b] < VdfOutput[m])
  <1>1. \A a \in Blocks : ChainWork[a] \in Nat /\ VdfOutput[a] \in Nat
    BY TreeAssumption, VdfAssumption
  <1> QED
    BY <1>1 DEF Better

(* A call of ActivateBestChain that ends without an I/O failure and without    *)
(* asking for a rebuild leaves no candidate that should have become the tip,   *)
(* except behind a sibling that came after the grace period.                   *)
THEOREM ActivationIsCompleteHolds == Spec => ActivationIsComplete
  <1> DEFINE Complete ==
        pc # "idle" /\ pc' = "idle" /\ faults' = faults /\ ~rebuild' =>
            \A b \in candidates' :
                (Activatable(b) /\ Preferred(b) => BehindLateSibling(b))'
  <1>1. ASSUME SInv, [Next]_vars
        PROVE  [Complete]_vars
    <2> SUFFICES ASSUME Next, pc # "idle", pc' = "idle", faults' = faults, ~rebuild',
                        NEW b \in candidates', Activatable(b)', Preferred(b)'
                 PROVE  BehindLateSibling(b)'
      BY <1>1
    <2>0. /\ seq \in [Blocks -> Nat] /\ tip \in Blocks /\ goal \in Blocks
          /\ candidates \subseteq Blocks /\ faults \in Nat
      <3>1. TypeOK
        BY <1>1, Zenon DEF SInv
      <3>2. Cardinality(Blocks) \in Nat
        BY SelectorAssumption, FS_CardinalityType, Zenon
      <3>3. faults \in Nat
        BY <3>1, BoundsHold, Zenon
      <3> QED
        BY <3>1, <3>2, <3>3 DEF TypeOK
    <2>1. CASE SelectNothing
      <3>0. /\ UNCHANGED <<index, received, seq, tip, graceHeight, graceOpen, failedValid>>
            /\ candidates' = candidates \ Popped /\ failedChild' = Marked
        BY <2>1 DEF SelectNothing, indexVars, chainVars
      <3>1. b \in candidates \ Popped /\ b \in Blocks
        BY <2>0, <3>0
      <3>2. b \in Good
        <4>1. failedChild \subseteq failedChild'
          BY <1>1, <3>0, PoppedFacts
        <4>2. \A a \in Walk(b) : ~Invalid(a) /\ a \in Anc[tip] \cup received
          BY <2>0, <3>0, <3>1, <4>1, ForkFacts DEF Walk, Activatable, Invalid
        <4> QED
          BY <3>1, <4>2, Zenon DEF Good, Stops
      <3> DEFINE m == MostWork
      <3>3. Keep(m)
        BY <2>1, <3>2 DEF SelectNothing
      <3>4. m \in candidates \ Popped /\ m \in Blocks /\ (b = m \/ Better(m, b))
        BY <1>1, <3>1, <3>2, MostWorkFacts DEF SInv
      <3> HIDE DEF m
      <3>5. /\ ChainWork[b] <= ChainWork[m]
            /\ ChainWork[b] = ChainWork[m] /\ 0 < VdfOutput[b] =>
                   ~(VdfOutput[b] < VdfOutput[m])
        BY <2>0, <3>1, <3>4, NotPreferred, ZenonT(40)
      <3>6. Preferred(b)
        BY <3>0 DEF Preferred, GraceExpired
      <3>7. ChainWork[b] \in Nat /\ ChainWork[m] \in Nat /\ ChainWork[tip] \in Nat
        BY <2>0, <3>1, <3>4, TreeAssumption
      <3>8. GraceExpired(m)
        BY <3>3, <3>5, <3>6, <3>7 DEF Keep, Preferred
      <3>9. ChainWork[b] = ChainWork[m] /\ b # m
        <4>1. ChainWork[m] = ChainWork[tip]
          BY <3>8, Zenon DEF GraceExpired
        <4>2. ChainWork[b] = ChainWork[tip] /\ ~GraceExpired(b)
          BY <3>5, <3>6, <3>7, <4>1 DEF Preferred
        <4> QED
          BY <3>8, <4>1, <4>2, Zenon
      <3> QED
        BY <3>0, <3>4, <3>8, <3>9, Zenon DEF BehindLateSibling, GraceExpired, Better
    <2>2. CASE Connect
      <3>1. tip' = goal /\ b \in candidates /\ (b = goal \/ Better(goal, b))
        BY <1>1, <2>2, Zenon DEF Connect, SInv, Stepping
      <3>2. /\ ChainWork[b] <= ChainWork[goal]
            /\ ChainWork[b] = ChainWork[goal] /\ 0 < VdfOutput[b] =>
                   ~(VdfOutput[b] < VdfOutput[goal])
        BY <2>0, <3>1, NotPreferred
      <3>3. ChainWork[b] \in Nat /\ ChainWork[goal] \in Nat
        BY <2>0, <3>1, TreeAssumption
      <3>4. ~Preferred(b)'
        BY <3>1, <3>2, <3>3 DEF Preferred
      <3> QED
        BY <3>4
    <2>3. ~SelectViolating /\ ~Disconnect
      BY DEF SelectViolating, Disconnect, stepVars
    <2>4. ~SelectTooDeep /\ ~DisconnectFails /\ ~ConnectUnwritten
      BY ZenonT(40) DEF SelectTooDeep, DisconnectFails, ConnectUnwritten
    <2>5. ~SelectGoal /\ ~ReadFails
      <3>1. ~Outcome(FALSE)
        BY <2>0 DEF Outcome
      <3> QED
        BY <3>1, Zenon DEF SelectGoal, ReadFails
    <2>6. ~ConnectFails
      BY ZenonT(40) DEF ConnectFails
    <2>7. ASSUME NEW x \in NonGenesis,
                 \/ ProcessNewHeader(x) \/ ProcessNewBlock(x)
                 \/ InvalidateBlock(x) \/ ReconsiderBlock(x)
                 \/ MarkFailed(x) \/ MarkFailedChild(x) \/ ClearFailed(x)
          PROVE  FALSE
      BY <2>7, ZenonT(40) DEF ProcessNewHeader, ProcessNewBlock, InvalidateBlock, ReconsiderBlock,
                  MarkFailed, MarkFailedChild, ClearFailed, stepVars
    <2>8. ~Rewind /\ ~ExpireGrace
      BY Zenon DEF Rewind, ExpireGrace, stepVars
    <2> QED
      BY <2>1, <2>2, <2>3, <2>4, <2>5, <2>6, <2>7, <2>8 DEF Next, ActivateStep
  <1> QED
    BY <1>1, SInvHolds, PTL DEF Spec, ActivationIsComplete

=============================================================================
