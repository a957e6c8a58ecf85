--------------------- MODULE TerrainAnalysisExt_proofs ----------------------
(***************************************************************************)
(* Theorems about TerrainAnalysisExt and TraversableTerrain.               *)
(***************************************************************************)
EXTENDS TerrainAnalysisExt, FiniteSetTheorems, WellFoundedInduction, TLAPS

-----------------------------------------------------------------------------
(***************************************************************************)
(* Elevations.                                                             *)
(***************************************************************************)
LEMMA AbsType == \A n \in Int : Abs(n) \in Nat
BY DEF Abs

\* A set of integers that is finite and not empty has a greatest element.
LEMMA Highest ==
    ASSUME NEW S \in SUBSET Int, S # {}, IsFiniteSet(S)
    PROVE  \E h \in S : \A g \in S : g <= h
<1>0. \A x \in S : x \in Int
      OBVIOUS
<1> DEFINE Above(a) == {x \in S : x > a}
           Counts == {Cardinality(Above(a)) : a \in S}
<1>1. \A a \in S : IsFiniteSet(Above(a)) /\ Cardinality(Above(a)) \in Nat
      BY FS_Subset, FS_CardinalityType
<1>2. Counts \subseteq Nat /\ Counts # {}
      BY <1>1
<1>3. IsWellFoundedOn(OpToRel(<, Nat), Nat)
      BY NatLessThanWellFounded
<1>4. \E n \in Counts : \A m \in Counts : ~(m < n)
  <2> HIDE DEF Counts
  <2>1. \E n \in Counts : \A m \in Counts : ~ (<<m, n>> \in OpToRel(<, Nat))
        BY <1>2, <1>3, WFMin
  <2> QED BY <2>1, <1>2 DEF OpToRel
<1>5. PICK h \in S : \A m \in Counts : ~(m < Cardinality(Above(h)))
      BY <1>4
<1>6. ASSUME NEW g \in S, g > h PROVE FALSE
  <2>1. g \in Above(h) /\ g \notin Above(g)
        BY <1>0, <1>6
  <2>2. ASSUME NEW x \in Above(g) PROVE x \in Above(h)
    <3>1. x \in S /\ x > g
          OBVIOUS
    <3>2. x \in Int /\ g \in Int /\ h \in Int
          BY <3>1, <1>0
    <3>3. x > h
          BY <3>1, <3>2, <1>6
    <3> QED BY <3>1, <3>3
  <2>3. Cardinality(Above(g)) < Cardinality(Above(h))
    <3> HIDE DEF Above
    <3>1. Cardinality(Above(g)) <= Cardinality(Above(h)) /\ Cardinality(Above(g)) # Cardinality(Above(h))
          BY <2>1, <2>2, <1>1, FS_Subset
    <3> QED BY <3>1, <1>1
  <2> QED BY <2>3, <1>5
<1> QED BY <1>0, <1>6

\* The images of a finite set are finite, as the image of a function.
LEMMA ImageFinite ==
    ASSUME NEW S, IsFiniteSet(S), NEW f, f = [x \in S |-> f[x]]
    PROVE  IsFiniteSet({f[x] : x \in S})
<1> DEFINE T == {f[x] : x \in S}
<1>1. f \in Surjection(S, T)
      BY DEF Surjection
<1>2. IsFiniteSet(T)
  <2> HIDE DEF T
  <2> QED BY <1>1, FS_Surjection
<1> QED BY <1>2

\* The points over a cell are finite in number, and their heights are integers.
LEMMA OverFinite ==
    ASSUME NEW K \in Clouds, NEW c \in Cells
    PROVE  /\ IsFiniteSet(Over(K, c))
           /\ \A q \in Over(K, c) : q.z \in Int
<1> DEFINE P == (c[1] - 1..c[1] + 1) \X (c[2] - 1..c[2] + 1)
           Above(a) == {[at |-> a, z |-> h] : h \in K[a]}
           column == [a \in P |-> Above(a)]
           Columns == {column[a] : a \in P}
<1>1. c[1] \in 0..Width - 1 /\ c[2] \in 0..Width - 1
      BY DEF Cells
<1>2. P \subseteq Positions /\ IsFiniteSet(P)
  <2>1. IsFiniteSet(c[1] - 1..c[1] + 1) /\ IsFiniteSet(c[2] - 1..c[2] + 1)
    <3>1. /\ c[1] - 1 \in Int /\ c[1] + 1 \in Int
          /\ c[2] - 1 \in Int /\ c[2] + 1 \in Int
          BY <1>1, WidthAssumption
    <3> QED BY <3>1, FS_Interval
  <2>2. IsFiniteSet(P)
        BY <2>1, FS_Product
  <2>3. c[1] - 1..c[1] + 1 \subseteq -1..Width /\ c[2] - 1..c[2] + 1 \subseteq -1..Width
        BY <1>1, WidthAssumption
  <2> QED BY <2>2, <2>3 DEF Positions
<1>3. \A a \in P : K[a] \subseteq Int /\ IsFiniteSet(K[a])
  <2>1. K \in [Positions -> SUBSET Int]
        BY TerrainAssumption
  <2>2. \A a \in Positions : K[a] \subseteq Int /\ IsFiniteSet(K[a])
        BY <2>1, TerrainAssumption
  <2> QED BY <2>2, <1>2
<1>4. ASSUME NEW a \in P PROVE IsFiniteSet(Above(a))
  <2> DEFINE f == [h \in K[a] |-> [at |-> a, z |-> h]]
  <2>1. IsFiniteSet({f[h] : h \in K[a]})
    <3>1. f = [h \in K[a] |-> f[h]]
          OBVIOUS
    <3>2. IsFiniteSet(K[a])
          BY <1>3
    <3> HIDE DEF f
    <3> QED BY <3>1, <3>2, ImageFinite
  <2>2. {f[h] : h \in K[a]} = Above(a)
        OBVIOUS
  <2> QED BY <2>1, <2>2
<1>5. IsFiniteSet(Columns)
  <2>1. column = [a \in P |-> column[a]]
        OBVIOUS
  <2> HIDE DEF column, P
  <2> QED BY <2>1, <1>2, ImageFinite
<1>6. \A T \in Columns : IsFiniteSet(T)
      BY <1>4
<1>7. IsFiniteSet(UNION Columns)
  <2> HIDE DEF Columns
  <2> QED BY <1>5, <1>6, FS_UNION
<1>8. Over(K, c) = UNION Columns
  <2>1. Columns = {Above(a) : a \in P}
        OBVIOUS
  <2>2. Over(K, c) = UNION {Above(a) : a \in P}
        BY DEF Over
  <2> QED BY <2>1, <2>2
<1>9. ASSUME NEW q \in Over(K, c) PROVE q.z \in Int
  <2>1. PICK a \in P : q \in Above(a)
        BY DEF Over
  <2>2. PICK h \in K[a] : q = [at |-> a, z |-> h]
        BY <2>1
  <2> QED BY <2>2, <1>3
<1> QED BY <1>7, <1>8, <1>9

LEMMA Lowest ==
    ASSUME NEW S \in SUBSET Int, S # {}, IsFiniteSet(S)
    PROVE  \E h \in S : \A g \in S : h <= g
<1> DEFINE f == [x \in S |-> -x]
           T == {f[x] : x \in S}
<1>1. IsFiniteSet(T)
  <2>1. f = [x \in S |-> f[x]]
        OBVIOUS
  <2> HIDE DEF f
  <2> QED BY <2>1, ImageFinite
<1>2. T \in SUBSET Int /\ T # {}
      OBVIOUS
<1>3. PICK t \in T : \A u \in T : u <= t
  <2> HIDE DEF T
  <2> QED BY <1>1, <1>2, Highest
<1>4. PICK h \in S : t = -h
      OBVIOUS
<1>5. ASSUME NEW g \in S PROVE h <= g
  <2>1. -g <= t
        BY <1>3
  <2>2. h \in Int /\ g \in Int
        OBVIOUS
  <2> QED BY <2>1, <2>2, <1>4
<1> QED BY <1>5

\* The height of a given rank exists.
LEMMA Ranked ==
    ASSUME NEW P, P # {}, IsFiniteSet(P), \A q \in P : q.z \in Int,
           NEW id \in Int, 0 <= id, id < Cardinality(P)
    PROVE  \E h \in {q.z : q \in P} :
               /\ Cardinality({q \in P : q.z < h}) <= id
               /\ Cardinality({q \in P : q.z <= h}) > id
<1> DEFINE Z == {q.z : q \in P}
           Upto(h) == {q \in P : q.z <= h}
           Below(h) == {q \in P : q.z < h}
           B == {h \in Z : Cardinality(Upto(h)) > id}
<1>1. Z \in SUBSET Int /\ Z # {}
      OBVIOUS
<1>2. IsFiniteSet(Z)
  <2> DEFINE f == [q \in P |-> q.z]
             T == {f[q] : q \in P}
  <2>1. f = [q \in P |-> f[q]]
        OBVIOUS
  <2>2. IsFiniteSet(T)
    <3> HIDE DEF f
    <3> QED BY <2>1, ImageFinite
  <2>3. T = Z
        OBVIOUS
  <2> QED BY <2>2, <2>3
<1>3. \A h \in Z : Cardinality(Upto(h)) \in Nat /\ Cardinality(Below(h)) \in Nat
      BY FS_Subset, FS_CardinalityType
<1>4. PICK top \in Z : \A g \in Z : g <= top
  <2> HIDE DEF Z
  <2> QED BY <1>1, <1>2, Highest
<1>5. Upto(top) = P
      BY <1>4
<1>6. top \in B
      BY <1>5
<1>7. B \in SUBSET Int /\ B # {} /\ IsFiniteSet(B)
  <2> HIDE DEF Z, Upto
  <2> QED BY <1>1, <1>2, <1>6, FS_Subset
<1>8. PICK h \in B : \A g \in B : h <= g
  <2> HIDE DEF B
  <2> QED BY <1>7, Lowest
<1>9. h \in Z /\ h \in Int /\ Cardinality(Upto(h)) > id
      BY <1>1
<1>10. Cardinality(Below(h)) <= id
  <2> DEFINE L == {g \in Z : g < h}
  <2>1. CASE L = {}
    <3>1. Below(h) = {}
          BY <2>1
    <3>2. Cardinality(Below(h)) = 0
      <4> HIDE DEF Below
      <4> QED BY <3>1, FS_EmptySet
    <3> HIDE DEF Below
    <3> QED BY <3>2
  <2>2. CASE L # {}
    <3>1. L \in SUBSET Int /\ IsFiniteSet(L)
      <4> HIDE DEF Z
      <4> QED BY <1>1, <1>2, FS_Subset
    <3>2. PICK l \in L : \A g \in L : g <= l
      <4> HIDE DEF L
      <4> QED BY <2>2, <3>1, Highest
    <3>3. l \in Z /\ l \in Int /\ l < h
          BY <3>1
    <3>4. ASSUME NEW q \in P PROVE q.z < h <=> q.z <= l
      <4>1. q.z \in Z /\ q.z \in Int
            OBVIOUS
      <4>2. q.z < h => q.z \in L
            BY <4>1
      <4>3. q.z < h => q.z <= l
            BY <4>2, <3>2
      <4> HIDE DEF Z, L, B
      <4> QED BY <4>1, <4>3, <3>3, <1>9
    <3>5. Below(h) = Upto(l)
          BY <3>4
    <3>6. l \notin B
      <4> HIDE DEF B
      <4>1. l \in B => h <= l
            BY <1>8
      <4> QED BY <4>1, <3>3, <1>9
    <3>7. ~(Cardinality(Upto(l)) > id)
          BY <3>6, <3>3
    <3> HIDE DEF Below, Upto, Z
    <3> QED BY <3>5, <3>7, <3>3, <1>3
  <2> QED BY <2>1, <2>2
<1> QED BY <1>9, <1>10

LEMMA ElevationType ==
    ASSUME NEW P, IsFiniteSet(P), \A q \in P : q.z \in Int
    PROVE  Elevation(P) \in Int
<1>1. CASE P = {}
      BY <1>1 DEF Elevation
<1>2. CASE P # {}
  <2> DEFINE N == Cardinality(P)
             id == Least((QuantileZ * N) \div 100, N - 1)
             Z == {q.z : q \in P}
             IsRank(h) == /\ Cardinality({q \in P : q.z < h}) <= id
                          /\ Cardinality({q \in P : q.z <= h}) > id
  <2>1. N \in Nat /\ N # 0
        BY <1>2, FS_CardinalityType, FS_EmptySet
  <2>2. id \in Int /\ 0 <= id /\ id < N
    <3> HIDE DEF N
    <3>1. QuantileZ \in Nat
          BY TerrainAssumption
    <3>2. QuantileZ * N \in Nat
          BY <3>1, <2>1
    <3> DEFINE m == QuantileZ * N
    <3>3. m \in Nat
          BY <3>2
    <3> HIDE DEF m
    <3>4. m \div 100 \in Nat
          BY <3>3
    <3>5. id = Least(m \div 100, N - 1)
          BY DEF m
    <3> QED BY <3>4, <3>5, <2>1 DEF Least
  <2>3. \E h \in Z : IsRank(h)
    <3> HIDE DEF id
    <3> QED BY <2>2, <1>2, Ranked
  <2>4. Elevation(P) = CHOOSE h \in Z : IsRank(h)
        BY <1>2 DEF Elevation
  <2>5. Elevation(P) \in Z
    <3> HIDE DEF Z, IsRank
    <3> QED BY <2>3, <2>4
  <2> QED BY <2>5
<1> QED BY <1>1, <1>2

-----------------------------------------------------------------------------
(***************************************************************************)
(* Types.                                                                  *)
(***************************************************************************)
\* Only support carries a transition.
LEMMA TransitionSupported ==
    ASSUME NEW elev, NEW support, NEW p
    PROVE  TransitionCells(elev, support, p) \subseteq support
BY DEF TransitionCells, IsRun

LEMMA CentreCell == Centre \in Cells
<1>1. Width \div 2 \in 0..Width - 1
      BY WidthAssumption, TerrainAssumption
<1> QED BY <1>1 DEF Centre, Cells

LEMMA CellsArePositions == Cells \subseteq Positions
<1>1. 0..Width - 1 \subseteq -1..Width
      BY WidthAssumption
<1> QED BY <1>1 DEF Cells, Positions

LEMMA IntensityType ==
    ASSUME NEW z \in Int, NEW c \in Cells, NEW elev \in [Cells -> Int],
           NEW support, NEW transition, NEW p
    PROVE  PointIntensity(z, c, elev, support, transition, p) \in Int
<1>1. Abs(z - elev[c]) \in Int
      BY AbsType
<1>2. Free \in Int
      BY DEF Free
<1> QED BY <1>1, <1>2 DEF PointIntensity

LEMMA OwnPointsType == TypeOK => OwnPoints \subseteq MapPoints
<1> SUFFICES ASSUME TypeOK, NEW m \in OwnPoints PROVE m \in MapPoints
    OBVIOUS
<1>1. PICK c \in Cells : \E h \in terrainCloud[c] :
          m = [at |-> c, z |-> h,
               intensity |-> PointIntensity(h, c, planarVoxelElev, planarSupportCell,
                                            planarTransitionCell, Tuning)]
      BY DEF OwnPoints
<1>2. PICK h \in terrainCloud[c] :
          m = [at |-> c, z |-> h,
               intensity |-> PointIntensity(h, c, planarVoxelElev, planarSupportCell,
                                            planarTransitionCell, Tuning)]
      BY <1>1
<1>3. c \in Positions /\ h \in Int
      BY CellsArePositions DEF TypeOK
<1>4. PointIntensity(h, c, planarVoxelElev, planarSupportCell, planarTransitionCell, Tuning) \in Int
      BY <1>3, IntensityType DEF TypeOK
<1> QED BY <1>2, <1>3, <1>4 DEF MapPoints

LEMMA InitType == Init => TypeOK
<1> SUFFICES ASSUME Init PROVE TypeOK
    OBVIOUS
<1>1. <<>> \in Seq(Cells)
      OBVIOUS
<1>2. /\ planarVoxelElev \in [Cells -> Int] /\ planarVoxelConn \in [Cells -> -1..2]
      /\ terrainCloud \in [Positions -> SUBSET Int]
      BY DEF Init
<1>3. /\ {stairEnable, checkTerrainConn, newlaserCloud} \subseteq BOOLEAN
      /\ terrainCloudLocal \in LocalMaps \cup {{}} /\ phase \in {"idle", "detect", "search"}
      BY DEF Init
<1> QED BY <1>1, <1>2, <1>3 DEF Init, TypeOK

LEMMA NextType == TypeOK /\ [Next]_vars => TypeOK'
<1> SUFFICES ASSUME TypeOK, [Next]_vars PROVE TypeOK'
    OBVIOUS
<1>1. CASE LaserCloudHandler
      BY <1>1 DEF TypeOK, LaserCloudHandler, params, estimate, search
<1>2. CASE TerrainCloudLocalHandler
      BY <1>2 DEF TypeOK, TerrainCloudLocalHandler, params, estimate, search
<1>3. CASE EstimateGround
  <2>1. planarVoxelElev' \in [Cells -> Int]
    <3>1. \A c \in Cells : Elevation(Over(terrainCloud', c)) \in Int
      <4> SUFFICES ASSUME NEW c \in Cells PROVE Elevation(Over(terrainCloud', c)) \in Int
          OBVIOUS
      <4>1. terrainCloud' \in Clouds
            BY <1>3 DEF EstimateGround
      <4>2. IsFiniteSet(Over(terrainCloud', c)) /\ \A q \in Over(terrainCloud', c) : q.z \in Int
            BY <4>1, OverFinite
      <4> QED BY <4>2, ElevationType
    <3> QED BY <3>1, <1>3 DEF EstimateGround
  <2>2. terrainCloud' \in [Positions -> SUBSET Int]
        BY <1>3, TerrainAssumption DEF EstimateGround
  <2>3. planarVoxelConn' \in [Cells -> -1..2] /\ visited' \in Seq(Cells) /\ terrainMap' \subseteq MapPoints
        BY <1>3 DEF EstimateGround
  <2> QED BY <2>1, <2>2, <2>3, <1>3 DEF TypeOK, EstimateGround, params
<1>4. CASE DetectTransitions
  <2>1. planarSupportCell' \subseteq Cells
        BY <1>4 DEF DetectTransitions, SupportCells
  <2>2. planarTransitionCell' \subseteq planarSupportCell'
        BY <1>4, TransitionSupported DEF DetectTransitions
  <2>3. planarVoxelElev' \in [Cells -> Int]
        BY <1>4, TerrainAssumption DEF DetectTransitions, TypeOK
  <2>4. planarVoxelConn' \in [Cells -> -1..2] /\ planarVoxelQueue' \in Seq(Cells)
    <3>1. CASE checkTerrainConn
      <4>1. <<Centre>> \in Seq(Cells)
            BY CentreCell
      <4>2. [planarVoxelConn EXCEPT ![Centre] = 1] \in [Cells -> -1..2]
            BY CentreCell DEF TypeOK
      <4> QED BY <4>1, <4>2, <3>1, <1>4 DEF DetectTransitions
    <3>2. CASE ~checkTerrainConn
          BY <3>2, <1>4 DEF DetectTransitions, TypeOK
    <3> QED BY <3>1, <3>2
  <2> QED BY <2>1, <2>2, <2>3, <2>4, <1>4 DEF TypeOK, DetectTransitions, params, inputs
<1>5. CASE VisitFront
  <2>1. Head(planarVoxelQueue) \in Cells /\ Tail(planarVoxelQueue) \in Seq(Cells)
        BY <1>5 DEF VisitFront, TypeOK
  <2>2. planarVoxelConn' \in [Cells -> -1..2] /\ visited' \in Seq(Cells) /\ todo' \subseteq Cells
        BY <2>1, <1>5 DEF VisitFront, TypeOK
  <2> QED BY <2>1, <2>2, <1>5 DEF TypeOK, VisitFront, params, inputs, estimate
<1>6. ASSUME NEW c \in Cells, ExamineNeighbour(c) PROVE TypeOK'
  <2>1. planarVoxelConn' \in [Cells -> -1..2] /\ planarVoxelQueue' \in Seq(Cells)
    <3>1. CASE JoinCell(c)
      <4>1. Append(planarVoxelQueue, c) \in Seq(Cells)
            BY DEF TypeOK
      <4>2. [planarVoxelConn EXCEPT ![c] = 1] \in [Cells -> -1..2]
            BY DEF TypeOK
      <4> QED BY <4>1, <4>2, <3>1 DEF JoinCell
    <3>2. CASE DropCeiling(c)
      <4>1. [planarVoxelConn EXCEPT ![c] = -1] \in [Cells -> -1..2]
            BY DEF TypeOK
      <4> QED BY <4>1, <3>2 DEF DropCeiling, TypeOK
    <3>3. CASE LeaveOpen(c)
          BY <3>3 DEF LeaveOpen, TypeOK
    <3> QED BY <3>1, <3>2, <3>3, <1>6 DEF ExamineNeighbour
  <2>2. todo' \subseteq Cells
        BY <1>6 DEF ExamineNeighbour, TypeOK
  <2> QED BY <2>1, <2>2, <1>6 DEF TypeOK, ExamineNeighbour, params, inputs, estimate
<1>7. CASE Publish
  <2>1. terrainMap' \subseteq MapPoints
    <3>1. terrainCloudLocal \subseteq MapPoints
          BY TerrainAssumption DEF TypeOK
    <3> QED BY <3>1, <1>7, OwnPointsType DEF Publish
  <2> QED BY <2>1, <1>7 DEF TypeOK, Publish, params, inputs, estimate, search
<1>8. CASE UNCHANGED vars
      BY <1>8 DEF TypeOK, vars, params, inputs, estimate, search
<1> QED BY <1>1, <1>2, <1>3, <1>4, <1>5, <1>6, <1>7, <1>8 DEF Next, Loop

\* The types hold from the start, and every step keeps them.
THEOREM TypeCorrect == Spec => []TypeOK
<1>1. Init => TypeOK
      BY InitType
<1>2. TypeOK /\ [Next]_vars => TypeOK'
      BY NextType
<1> QED BY <1>1, <1>2, PTL DEF Spec

-----------------------------------------------------------------------------
(***************************************************************************)
(* The search's bookkeeping.                                               *)
(***************************************************************************)
\* Outside the search nothing waits; before it nothing is marked.
LoopState ==
    /\ phase # "search" => planarVoxelQueue = <<>> /\ todo = {}
    /\ phase = "detect" => visited = <<>> /\ \A c \in Cells : planarVoxelConn[c] = 0

\* The cells to look at are open neighbours of the newest ground cell.
TodoOpen ==
    \A c \in todo : visited # <<>> /\ planarVoxelConn[c] = 0 /\ Near(Front, c, Reach)

Bookkeeping == TypeOK /\ LoopState /\ TodoOpen /\ MarksExact

LEMMA BookkeepingInit == Init => Bookkeeping
<1> SUFFICES ASSUME Init PROVE Bookkeeping
    OBVIOUS
<1>1. TypeOK
      BY InitType
<1>2. LoopState /\ TodoOpen
      BY DEF Init, LoopState, TodoOpen
<1>3. MarksExact
      BY DEF Init, MarksExact
<1> QED BY <1>1, <1>2, <1>3 DEF Bookkeeping

LEMMA BookkeepingVisit ==
    Bookkeeping /\ VisitFront => LoopState' /\ TodoOpen' /\ MarksExact'
<1> SUFFICES ASSUME Bookkeeping, VisitFront PROVE LoopState' /\ TodoOpen' /\ MarksExact'
    OBVIOUS
<1> DEFINE Q == planarVoxelQueue
           V == visited
           f == Head(Q)
<1>1. Q \in Seq(Cells) /\ Q # <<>> /\ V \in Seq(Cells) /\ phase = "search" /\ todo = {}
      BY DEF Bookkeeping, TypeOK, VisitFront
<1>2. /\ f = Q[1] /\ f \in Cells /\ Tail(Q) \in Seq(Cells)
      /\ Len(Tail(Q)) = Len(Q) - 1 /\ Len(Q) \in Nat /\ Len(Q) >= 1
      /\ \A i \in 1..Len(Q) - 1 : Tail(Q)[i] = Q[i + 1]
      BY <1>1
<1>3. /\ Append(V, f) \in Seq(Cells) /\ Len(V) \in Nat
      /\ Len(Append(V, f)) = Len(V) + 1 /\ Append(V, f)[Len(V) + 1] = f
      /\ \A i \in 1..Len(V) : Append(V, f)[i] = V[i]
      BY <1>1, <1>2
<1>4. /\ planarVoxelQueue' = Tail(Q) /\ visited' = Append(V, f) /\ phase' = "search"
      /\ planarVoxelConn \in [Cells -> -1..2]
      /\ planarVoxelConn' = [planarVoxelConn EXCEPT ![f] = 2]
      /\ todo' = {c \in Cells : Near(f, c, Reach) /\ Occupied(c) /\ planarVoxelConn'[c] = 0}
      BY <1>1 DEF VisitFront, Bookkeeping, TypeOK
<1>5. LoopState'
      BY <1>4 DEF LoopState
<1>6. TodoOpen'
  <2>1. visited' # <<>> /\ Front' = f
        BY <1>3, <1>4 DEF Front
  <2> QED BY <2>1, <1>4 DEF TodoOpen
<1>7. /\ \A c \in Cells : planarVoxelConn[c] = 1 <=> \E i \in 1..Len(Q) : Q[i] = c
      /\ \A c \in Cells : planarVoxelConn[c] = 2 <=> \E i \in 1..Len(V) : V[i] = c
      /\ \A i, j \in 1..Len(Q) : Q[i] = Q[j] => i = j
      /\ \A i, j \in 1..Len(V) : V[i] = V[j] => i = j
      BY DEF Bookkeeping, MarksExact
<1> DEFINE T == Tail(Q)
           W == Append(V, f)
<1> HIDE DEF Q, V, T, W, f
<1>8. \A i, j \in 1..Len(T) : T[i] = T[j] => i = j
      BY <1>2, <1>7 DEF T
<1>9. planarVoxelConn[f] = 1
      BY <1>2, <1>7
<1>10. \A i \in 1..Len(V) : V[i] # f
      BY <1>9, <1>2, <1>7
<1>11. \A i, j \in 1..Len(W) : W[i] = W[j] => i = j
  <2> SUFFICES ASSUME NEW i \in 1..Len(W), NEW j \in 1..Len(W), W[i] = W[j] PROVE i = j
      OBVIOUS
  <2>1. i \in 1..Len(V) \/ i = Len(V) + 1
        BY <1>3 DEF W
  <2>2. j \in 1..Len(V) \/ j = Len(V) + 1
        BY <1>3 DEF W
  <2> QED BY <2>1, <2>2, <1>3, <1>7, <1>10 DEF W
<1>12. ASSUME NEW c \in Cells
       PROVE  /\ planarVoxelConn'[c] = 1 <=> \E i \in 1..Len(T) : T[i] = c
              /\ planarVoxelConn'[c] = 2 <=> \E i \in 1..Len(W) : W[i] = c
  <2>1. CASE c = f
    <3>1. planarVoxelConn'[c] = 2
          BY <2>1, <1>4
    <3>2. W[Len(V) + 1] = c /\ Len(V) + 1 \in 1..Len(W)
          BY <2>1, <1>3 DEF W
    <3>3. ASSUME NEW i \in 1..Len(T), T[i] = c PROVE FALSE
      <4>1. i + 1 \in 1..Len(Q) /\ 1 \in 1..Len(Q) /\ Q[i + 1] = Q[1] /\ i + 1 # 1
            BY <3>3, <2>1, <1>2 DEF T
      <4> QED BY <4>1, <1>7
    <3> QED BY <3>1, <3>2, <3>3
  <2>2. CASE c # f
    <3>1. planarVoxelConn'[c] = planarVoxelConn[c]
          BY <2>2, <1>4
    <3>2. (\E i \in 1..Len(Q) : Q[i] = c) <=> (\E i \in 1..Len(T) : T[i] = c)
      <4>1. ASSUME NEW i \in 1..Len(Q), Q[i] = c PROVE \E k \in 1..Len(T) : T[k] = c
        <5>1. i # 1
              BY <4>1, <2>2, <1>2
        <5>2. i - 1 \in 1..Len(T) /\ T[i - 1] = c
              BY <4>1, <5>1, <1>2 DEF T
        <5> QED BY <5>2
      <4>2. ASSUME NEW i \in 1..Len(T), T[i] = c PROVE \E k \in 1..Len(Q) : Q[k] = c
        <5>1. i + 1 \in 1..Len(Q) /\ Q[i + 1] = c
              BY <4>2, <1>2 DEF T
        <5> QED BY <5>1
      <4> QED BY <4>1, <4>2
    <3>3. (\E i \in 1..Len(V) : V[i] = c) <=> (\E i \in 1..Len(W) : W[i] = c)
      <4>1. ASSUME NEW i \in 1..Len(V), V[i] = c PROVE \E k \in 1..Len(W) : W[k] = c
        <5>1. i \in 1..Len(W) /\ W[i] = c
              BY <4>1, <1>3 DEF W
        <5> QED BY <5>1
      <4>2. ASSUME NEW i \in 1..Len(W), W[i] = c PROVE \E k \in 1..Len(V) : V[k] = c
        <5>1. i # Len(V) + 1
              BY <4>2, <2>2, <1>3 DEF W
        <5>2. i \in 1..Len(V) /\ V[i] = c
              BY <4>2, <5>1, <1>3 DEF W
        <5> QED BY <5>2
      <4> QED BY <4>1, <4>2
    <3> QED BY <3>1, <3>2, <3>3, <1>7
  <2> QED BY <2>1, <2>2
<1>13. planarVoxelQueue' = T /\ visited' = W
      BY <1>4 DEF T, W
<1>14. MarksExact'
      BY <1>8, <1>11, <1>12, <1>13 DEF MarksExact
<1> QED BY <1>5, <1>6, <1>14

LEMMA BookkeepingExamine ==
    ASSUME Bookkeeping, NEW c \in Cells, ExamineNeighbour(c)
    PROVE  LoopState' /\ TodoOpen' /\ MarksExact'
<1> DEFINE Q == planarVoxelQueue
<1>1. /\ phase = "search" /\ phase' = "search" /\ c \in todo /\ todo' = todo \ {c}
      /\ visited' = visited /\ Q \in Seq(Cells) /\ planarVoxelConn \in [Cells -> -1..2]
      /\ planarVoxelConn[c] = 0 /\ todo \subseteq Cells
      BY DEF ExamineNeighbour, Bookkeeping, TypeOK, TodoOpen
<1>2. \A b \in Cells : b # c => planarVoxelConn'[b] = planarVoxelConn[b]
      BY <1>1 DEF ExamineNeighbour, JoinCell, DropCeiling, LeaveOpen
<1>3. LoopState'
      BY <1>1 DEF LoopState
<1>4. TodoOpen'
  <2>1. Front' = Front
        BY <1>1 DEF Front
  <2> QED BY <2>1, <1>1, <1>2 DEF TodoOpen, Bookkeeping
<1>5. /\ \A b \in Cells : planarVoxelConn[b] = 1 <=> \E i \in 1..Len(Q) : Q[i] = b
      /\ \A b \in Cells : planarVoxelConn[b] = 2 <=> \E i \in 1..Len(visited) : visited[i] = b
      /\ \A i, j \in 1..Len(Q) : Q[i] = Q[j] => i = j
      /\ \A i, j \in 1..Len(visited) : visited[i] = visited[j] => i = j
      BY DEF Bookkeeping, MarksExact
<1>6. MarksExact'
  <2>1. CASE JoinCell(c)
    <3> DEFINE R == Append(Q, c)
    <3>1. /\ Len(Q) \in Nat /\ Len(R) = Len(Q) + 1 /\ R[Len(Q) + 1] = c
          /\ \A i \in 1..Len(Q) : R[i] = Q[i]
          BY <1>1
    <3>2. planarVoxelQueue' = R /\ planarVoxelConn'[c] = 1
          BY <2>1, <1>1 DEF JoinCell
    <3> HIDE DEF R, Q
    <3>3. \A i \in 1..Len(Q) : Q[i] # c
          BY <1>1, <1>5
    <3>4. \A i, j \in 1..Len(R) : R[i] = R[j] => i = j
      <4> SUFFICES ASSUME NEW i \in 1..Len(R), NEW j \in 1..Len(R), R[i] = R[j] PROVE i = j
          OBVIOUS
      <4>1. i \in 1..Len(Q) \/ i = Len(Q) + 1
            BY <3>1
      <4>2. j \in 1..Len(Q) \/ j = Len(Q) + 1
            BY <3>1
      <4> QED BY <4>1, <4>2, <3>1, <3>3, <1>5
    <3>5. ASSUME NEW b \in Cells
          PROVE  planarVoxelConn'[b] = 1 <=> \E i \in 1..Len(R) : R[i] = b
      <4>1. CASE b = c
        <5>1. Len(Q) + 1 \in 1..Len(R)
              BY <3>1
        <5> QED BY <5>1, <4>1, <3>1, <3>2
      <4>2. CASE b # c
        <5>1. ASSUME NEW i \in 1..Len(R), R[i] = b PROVE \E k \in 1..Len(Q) : Q[k] = b
          <6>1. i # Len(Q) + 1
                BY <5>1, <4>2, <3>1
          <6>2. i \in 1..Len(Q) /\ Q[i] = b
                BY <5>1, <6>1, <3>1
          <6> QED BY <6>2
        <5>2. ASSUME NEW i \in 1..Len(Q), Q[i] = b PROVE \E k \in 1..Len(R) : R[k] = b
          <6>1. i \in 1..Len(R) /\ R[i] = b
                BY <5>2, <3>1
          <6> QED BY <6>1
        <5> QED BY <5>1, <5>2, <4>2, <1>2, <1>5
      <4> QED BY <4>1, <4>2
    <3>6. ASSUME NEW b \in Cells
          PROVE  planarVoxelConn'[b] = 2 <=> \E i \in 1..Len(visited) : visited[i] = b
      <4>1. CASE b = c
            BY <4>1, <3>2, <1>1, <1>5
      <4>2. CASE b # c
            BY <4>2, <1>2, <1>5
      <4> QED BY <4>1, <4>2
    <3> QED BY <3>2, <3>4, <3>5, <3>6, <1>1, <1>5 DEF MarksExact
  <2>2. CASE DropCeiling(c) \/ LeaveOpen(c)
    <3>1. planarVoxelQueue' = Q
          BY <2>2 DEF DropCeiling, LeaveOpen
    <3>2. planarVoxelConn'[c] # 1 /\ planarVoxelConn'[c] # 2
          BY <2>2, <1>1 DEF DropCeiling, LeaveOpen
    <3> HIDE DEF Q
    <3>3. \A b \in Cells : (planarVoxelConn'[b] = 1 <=> planarVoxelConn[b] = 1)
                           /\ (planarVoxelConn'[b] = 2 <=> planarVoxelConn[b] = 2)
      <4> SUFFICES ASSUME NEW b \in Cells
                   PROVE  (planarVoxelConn'[b] = 1 <=> planarVoxelConn[b] = 1)
                           /\ (planarVoxelConn'[b] = 2 <=> planarVoxelConn[b] = 2)
          OBVIOUS
      <4>1. CASE b = c
            BY <4>1, <3>2, <1>1
      <4>2. CASE b # c
            BY <4>2, <1>2
      <4> QED BY <4>1, <4>2
    <3> QED BY <3>1, <3>3, <1>1, <1>5 DEF MarksExact
  <2> QED BY <2>1, <2>2 DEF ExamineNeighbour
<1> QED BY <1>3, <1>4, <1>6

LEMMA BookkeepingNext == Bookkeeping /\ [Next]_vars => Bookkeeping'
<1> SUFFICES ASSUME Bookkeeping, [Next]_vars PROVE Bookkeeping'
    OBVIOUS
<1>1. TypeOK'
      BY NextType DEF Bookkeeping
<1>2. LoopState' /\ TodoOpen' /\ MarksExact'
  <2>1. CASE LaserCloudHandler \/ TerrainCloudLocalHandler \/ UNCHANGED vars
    <3>1. UNCHANGED <<search, phase>>
          BY <2>1 DEF LaserCloudHandler, TerrainCloudLocalHandler, vars, search
    <3> QED BY <3>1 DEF Bookkeeping, LoopState, TodoOpen, MarksExact, Front, search
  <2>2. CASE EstimateGround
    <3>1. /\ phase = "idle" /\ phase' = "detect" /\ visited' = <<>>
          /\ planarVoxelConn' = [c \in Cells |-> 0]
          /\ planarVoxelQueue' = planarVoxelQueue /\ todo' = todo
          BY <2>2 DEF EstimateGround
    <3>2. planarVoxelQueue = <<>> /\ todo = {}
          BY <3>1 DEF Bookkeeping, LoopState
    <3> QED BY <3>1, <3>2 DEF LoopState, TodoOpen, MarksExact
  <2>3. CASE DetectTransitions
    <3>1. /\ phase = "detect" /\ phase' = "search" /\ visited' = visited /\ todo' = todo
          BY <2>3 DEF DetectTransitions
    <3>2. /\ planarVoxelQueue = <<>> /\ todo = {} /\ visited = <<>>
          /\ \A c \in Cells : planarVoxelConn[c] = 0
          BY <3>1 DEF Bookkeeping, LoopState
    <3>3. CASE checkTerrainConn
      <4>1. planarVoxelQueue' = <<Centre>> /\ planarVoxelConn' = [planarVoxelConn EXCEPT ![Centre] = 1]
            BY <2>3, <3>3 DEF DetectTransitions
      <4>2. ASSUME NEW c \in Cells PROVE planarVoxelConn'[c] = IF c = Centre THEN 1 ELSE 0
            BY <4>1, <3>2 DEF Bookkeeping, TypeOK
      <4>3. Len(<<Centre>>) = 1 /\ <<Centre>>[1] = Centre
            OBVIOUS
      <4> QED BY <4>1, <4>2, <4>3, <3>1, <3>2 DEF LoopState, TodoOpen, MarksExact
    <3>4. CASE ~checkTerrainConn
      <4>1. planarVoxelQueue' = planarVoxelQueue /\ planarVoxelConn' = planarVoxelConn
            BY <2>3, <3>4 DEF DetectTransitions
      <4> QED BY <4>1, <3>1, <3>2 DEF LoopState, TodoOpen, MarksExact
    <3> QED BY <3>3, <3>4
  <2>4. CASE VisitFront
        BY <2>4, BookkeepingVisit
  <2>5. ASSUME NEW c \in Cells, ExamineNeighbour(c) PROVE LoopState' /\ TodoOpen' /\ MarksExact'
        BY <2>5, BookkeepingExamine
  <2>6. CASE Publish
    <3>1. /\ phase' = "idle" /\ planarVoxelQueue = <<>> /\ todo = {} /\ UNCHANGED search
          BY <2>6 DEF Publish
    <3> QED BY <3>1 DEF Bookkeeping, LoopState, TodoOpen, MarksExact, search
  <2> QED BY <2>1, <2>2, <2>3, <2>4, <2>5, <2>6 DEF Next, Loop
<1> QED BY <1>1, <1>2 DEF Bookkeeping

\* A cell is queued once and visited once, and its mark says which.
THEOREM MarksAlwaysExact == Spec => []MarksExact
<1>1. Init => Bookkeeping
      BY BookkeepingInit
<1>2. Bookkeeping /\ [Next]_vars => Bookkeeping'
      BY BookkeepingNext
<1>3. Bookkeeping => MarksExact
      BY DEF Bookkeeping
<1> QED BY <1>1, <1>2, <1>3, PTL DEF Spec

-----------------------------------------------------------------------------
(***************************************************************************)
(* Connected ground.                                                       *)
(***************************************************************************)
\* What waits is linked with ground already found, or is where the search begins.
QueueLinked ==
    \A i \in 1..Len(planarVoxelQueue) :
       IF visited = <<>> THEN planarVoxelQueue[i] = Centre
       ELSE LinkedFrom(planarVoxelQueue[i], Len(visited))

GroundLinked == \A i \in 2..Len(visited) : LinkedFrom(visited[i], i - 1)

CeilingsSeen == \A c \in Cells : planarVoxelConn[c] = -1 => CeilingFrom(c, Len(visited))

\* Each visit has settled what it is linked with, but for the cells still to look at.
VisitsSettle ==
    \A i \in 1..Len(visited), c \in Cells :
       Near(visited[i], c, Reach) /\ Occupied(c) /\ Linked(visited[i], c) =>
          \/ planarVoxelConn[c] \in {1, 2} \/ CeilingFrom(c, i - 1)
          \/ i = Len(visited) /\ c \in todo

IInv == Bookkeeping /\ QueueLinked /\ GroundLinked /\ CeilingsSeen /\ VisitsSettle

LEMMA ConnectedByIInv == IInv => GroundConnected
<1> SUFFICES ASSUME IInv PROVE GroundConnected
    OBVIOUS
<1>1. \A i \in 2..Len(visited) : LinkedFrom(visited[i], i - 1)
      BY DEF IInv, GroundLinked
<1>2. ASSUME planarVoxelQueue = <<>>, todo = {},
             NEW i \in 1..Len(visited), NEW c \in Cells,
             Near(visited[i], c, Reach), Occupied(c), Linked(visited[i], c)
      PROVE  (\E k \in 1..Len(visited) : visited[k] = c) \/ CeilingFrom(c, i - 1)
  <2>1. planarVoxelConn[c] \in {1, 2} \/ CeilingFrom(c, i - 1)
        BY <1>2 DEF IInv, VisitsSettle
  <2>2. planarVoxelConn[c] # 1
        BY <1>2 DEF IInv, Bookkeeping, MarksExact
  <2>3. planarVoxelConn[c] = 2 => \E k \in 1..Len(visited) : visited[k] = c
        BY DEF IInv, Bookkeeping, MarksExact
  <2> QED BY <2>1, <2>2, <2>3
<1> QED BY <1>1, <1>2 DEF GroundConnected

\* While the grid stays, so does what is linked; and what the first n visits have found
\* stays found.
LEMMA FoundKept ==
    ASSUME UNCHANGED <<stairEnable, planarVoxelElev, planarTransitionCell, terrainCloud>>
    PROVE  /\ \A a, b : (Linked(a, b)' <=> Linked(a, b)) /\ (IsCeiling(a, b)' <=> IsCeiling(a, b))
           /\ \A b : Occupied(b)' <=> Occupied(b)
<1>1. \A a, b : Linked(a, b)' <=> Linked(a, b)
      BY DEF Linked, HeightBetween
<1>2. \A a, b : IsCeiling(a, b)' <=> IsCeiling(a, b)
      BY <1>1 DEF IsCeiling, HeightBetween
<1>3. \A b : Occupied(b)' <=> Occupied(b)
      BY DEF Occupied
<1> QED BY <1>1, <1>2, <1>3

LEMMA FromKept ==
    ASSUME UNCHANGED <<stairEnable, planarVoxelElev, planarTransitionCell, terrainCloud>>,
           NEW n \in Nat, \A j \in 1..n : visited'[j] = visited[j]
    PROVE  \A c : (LinkedFrom(c, n)' <=> LinkedFrom(c, n)) /\ (CeilingFrom(c, n)' <=> CeilingFrom(c, n))
<1>1. \A a, b : (Linked(a, b)' <=> Linked(a, b)) /\ (IsCeiling(a, b)' <=> IsCeiling(a, b))
      BY FoundKept
<1> QED BY <1>1 DEF LinkedFrom, CeilingFrom

\* What was found among the first visits is found among more.
LEMMA FromGrows ==
    ASSUME NEW n \in Nat, NEW m \in Nat, n <= m, NEW c
    PROVE  /\ LinkedFrom(c, n) => LinkedFrom(c, m)
           /\ LinkedFrom(c, n)' => LinkedFrom(c, m)'
           /\ CeilingFrom(c, n)' => CeilingFrom(c, m)'
<1>1. 1..n \subseteq 1..m
      OBVIOUS
<1> QED BY <1>1 DEF LinkedFrom, CeilingFrom

LEMMA IInvInit == Init => IInv
<1> SUFFICES ASSUME Init PROVE IInv
    OBVIOUS
<1>1. Bookkeeping
      BY BookkeepingInit
<1>2. Len(visited) = 0 /\ Len(planarVoxelQueue) = 0 /\ \A c \in Cells : planarVoxelConn[c] = 0
      BY DEF Init
<1> QED BY <1>1, <1>2 DEF IInv, QueueLinked, GroundLinked, CeilingsSeen, VisitsSettle

LEMMA IInvVisit ==
    IInv /\ VisitFront => QueueLinked' /\ GroundLinked' /\ CeilingsSeen' /\ VisitsSettle'
<1> SUFFICES ASSUME IInv, VisitFront
             PROVE  QueueLinked' /\ GroundLinked' /\ CeilingsSeen' /\ VisitsSettle'
    OBVIOUS
<1> DEFINE Q == planarVoxelQueue
           V == visited
           T == Tail(Q)
<1>1. Q \in Seq(Cells) /\ Q # <<>> /\ V \in Seq(Cells) /\ todo = {}
      BY DEF IInv, Bookkeeping, TypeOK, VisitFront
<1>2. PICK L \in Nat : L = Len(V)
      BY <1>1
<1>15. PICK M \in Nat : M = L + 1
      OBVIOUS
<1>3. PICK f \in Cells : f = Head(Q)
      BY <1>1
<1> DEFINE W == Append(V, f)
<1>4. /\ f = Q[1] /\ Len(T) = Len(Q) - 1 /\ Len(Q) \in Nat /\ Len(Q) >= 1
      /\ \A i \in 1..Len(T) : T[i] = Q[i + 1] /\ i + 1 \in 1..Len(Q) /\ 1 \in 1..Len(Q) /\ i + 1 # 1
      BY <1>1, <1>3
<1>5. /\ Len(W) = L + 1 /\ W[L + 1] = f
      /\ \A i \in 1..L : W[i] = V[i]
      BY <1>1, <1>2
<1>6. /\ planarVoxelQueue' = T /\ visited' = W
      /\ planarVoxelConn \in [Cells -> -1..2]
      /\ planarVoxelConn' = [planarVoxelConn EXCEPT ![f] = 2]
      /\ todo' = {c \in Cells : Near(f, c, Reach) /\ Occupied(c) /\ planarVoxelConn'[c] = 0}
      BY <1>1, <1>3 DEF VisitFront, IInv, Bookkeeping, TypeOK
<1>7. UNCHANGED <<stairEnable, planarVoxelElev, planarTransitionCell, terrainCloud>>
      BY DEF VisitFront, params, estimate
<1>8. /\ \A a, b : Linked(a, b)' <=> Linked(a, b)
      /\ \A b : Occupied(b)' <=> Occupied(b)
      BY <1>7, FoundKept
<1> HIDE DEF Q, V, T, W
<1>9. ASSUME NEW n \in 0..L
      PROVE  \A c : (LinkedFrom(c, n)' <=> LinkedFrom(c, n)) /\ (CeilingFrom(c, n)' <=> CeilingFrom(c, n))
  <2>1. n \in Nat /\ \A j \in 1..n : visited'[j] = visited[j]
        BY <1>5, <1>6 DEF V
  <2> QED BY <2>1, <1>7, FromKept
<1>10. \A c : /\ LinkedFrom(c, L) => LinkedFrom(c, M)'
              /\ CeilingFrom(c, L) => CeilingFrom(c, M)'
  <2>1. L \in 0..L /\ L <= M
        BY <1>15
  <2>2. \A c : /\ LinkedFrom(c, L)' => LinkedFrom(c, M)'
               /\ CeilingFrom(c, L)' => CeilingFrom(c, M)'
        BY <2>1, FromGrows
  <2> QED BY <2>1, <2>2, <1>9
<1>11. QueueLinked'
  <2>1. ASSUME NEW i \in 1..Len(T), NEW c, c = T[i] PROVE LinkedFrom(c, M)'
    <3>1. Q[i + 1] # Q[1]
          BY <1>4 DEF IInv, Bookkeeping, MarksExact, Q
    <3>2. V # <<>>
          BY <1>4, <3>1 DEF IInv, QueueLinked, Q, V
    <3>3. LinkedFrom(c, L)
          BY <2>1, <1>2, <1>4, <3>2 DEF IInv, QueueLinked, Q, V
    <3> QED BY <3>3, <1>10
  <2>2. visited' # <<>> /\ Len(visited') = M /\ planarVoxelQueue' = T
        BY <1>5, <1>6, <1>15
  <2> QED BY <2>1, <2>2 DEF QueueLinked
<1>12. GroundLinked'
  <2>1. ASSUME NEW i \in 2..L + 1, NEW c, c = W[i], NEW n, n = i - 1 PROVE LinkedFrom(c, n)'
    <3>1. CASE i = L + 1
      <4>1. c = Q[1] /\ V # <<>> /\ n = L /\ L \in 0..L
            BY <2>1, <3>1, <1>2, <1>4, <1>5 DEF V
      <4>2. LinkedFrom(c, L)
            BY <4>1, <1>2, <1>4 DEF IInv, QueueLinked, Q, V
      <4> QED BY <4>1, <4>2, <1>9
    <3>2. CASE i # L + 1
      <4>1. i \in 2..L /\ n \in 0..L /\ c = V[i]
            BY <2>1, <3>2, <1>5
      <4>2. LinkedFrom(c, n)
            BY <2>1, <4>1, <1>2 DEF IInv, GroundLinked, V
      <4> QED BY <4>1, <4>2, <1>9
    <3> QED BY <3>1, <3>2
  <2> QED BY <2>1, <1>5, <1>6 DEF GroundLinked
<1>13. CeilingsSeen'
  <2>1. ASSUME NEW c \in Cells, planarVoxelConn'[c] = -1 PROVE CeilingFrom(c, M)'
    <3>1. planarVoxelConn[c] = -1
          BY <2>1, <1>6
    <3>2. CeilingFrom(c, L)
          BY <3>1, <1>2 DEF IInv, CeilingsSeen, V
    <3> QED BY <3>2, <1>10
  <2> QED BY <2>1, <1>5, <1>6, <1>15 DEF CeilingsSeen
<1>14. VisitsSettle'
  <2>1. ASSUME NEW i \in 1..L + 1, NEW a, a = W[i], NEW c \in Cells, NEW n, n = i - 1,
               Near(a, c, Reach), Occupied(c), Linked(a, c)
        PROVE  \/ planarVoxelConn'[c] \in {1, 2} \/ CeilingFrom(c, n)'
               \/ i = L + 1 /\ c \in todo'
    <3>1. CASE i = L + 1
      <4>1. a = f /\ n = L /\ L \in 0..L
            BY <2>1, <3>1, <1>5
      <4>2. planarVoxelConn'[c] = 0 => c \in todo'
            BY <2>1, <4>1, <1>6
      <4>3. planarVoxelConn'[c] = -1 => CeilingFrom(c, L)
            BY <1>2, <1>6 DEF IInv, CeilingsSeen, V
      <4>4. planarVoxelConn'[c] \in -1..2
            BY <1>6
      <4> QED BY <3>1, <4>1, <4>2, <4>3, <4>4, <1>9
    <3>2. CASE i # L + 1
      <4>1. i \in 1..L /\ n \in 0..L /\ a = V[i]
            BY <2>1, <3>2, <1>5
      <4>2. planarVoxelConn[c] \in {1, 2} \/ CeilingFrom(c, n)
            BY <2>1, <4>1, <1>1, <1>2 DEF IInv, VisitsSettle, V
      <4> QED BY <4>1, <4>2, <1>6, <1>9
    <3> QED BY <3>1, <3>2
  <2> QED BY <2>1, <1>5, <1>6, <1>8 DEF VisitsSettle
<1> QED BY <1>11, <1>12, <1>13, <1>14

LEMMA IInvExamine ==
    ASSUME IInv, NEW c \in Cells, ExamineNeighbour(c)
    PROVE  QueueLinked' /\ GroundLinked' /\ CeilingsSeen' /\ VisitsSettle'
<1> DEFINE Q == planarVoxelQueue
           V == visited
<1>1. /\ c \in todo /\ todo' = todo \ {c} /\ visited' = V
      /\ Q \in Seq(Cells) /\ V \in Seq(Cells) /\ planarVoxelConn \in [Cells -> -1..2]
      /\ planarVoxelConn[c] = 0 /\ V # <<>> /\ Near(Front, c, Reach)
      BY DEF ExamineNeighbour, IInv, Bookkeeping, TypeOK, TodoOpen
<1>2. PICK L \in Nat : L = Len(V) /\ L > 0 /\ Front = V[L]
      BY <1>1 DEF Front
<1>3. UNCHANGED <<stairEnable, planarVoxelElev, planarTransitionCell, terrainCloud>>
      BY DEF ExamineNeighbour, params, estimate
<1>4. /\ \A a, b : Linked(a, b)' <=> Linked(a, b)
      /\ \A b : Occupied(b)' <=> Occupied(b)
      BY <1>3, FoundKept
<1>5. ASSUME NEW n \in 0..L
      PROVE  \A b : (LinkedFrom(b, n)' <=> LinkedFrom(b, n)) /\ (CeilingFrom(b, n)' <=> CeilingFrom(b, n))
  <2>1. n \in Nat /\ \A j \in 1..n : visited'[j] = visited[j]
        BY <1>1
  <2> QED BY <2>1, <1>3, FromKept
<1>6. \A b \in Cells : b # c => planarVoxelConn'[b] = planarVoxelConn[b]
      BY <1>1 DEF ExamineNeighbour, JoinCell, DropCeiling, LeaveOpen
<1>7. L \in 0..L /\ L \in 1..L
      BY <1>2
<1>8. QueueLinked'
  <2>1. ASSUME NEW i \in 1..Len(Q'), NEW b, b = Q'[i] PROVE LinkedFrom(b, L)'
    <3>1. CASE i \in 1..Len(Q) /\ b = Q[i]
      <4>1. LinkedFrom(b, L)
            BY <3>1, <1>1, <1>2 DEF IInv, QueueLinked
      <4> QED BY <4>1, <1>5, <1>7
    <3>2. CASE b = c /\ JoinCell(c)
      <4>1. Near(V[L], b, Reach) /\ Linked(V[L], b)
            BY <3>2, <1>1, <1>2 DEF JoinCell
      <4>2. LinkedFrom(b, L)
            BY <4>1, <1>7 DEF LinkedFrom
      <4> QED BY <4>2, <1>5, <1>7
    <3>3. (i \in 1..Len(Q) /\ b = Q[i]) \/ (b = c /\ JoinCell(c))
      <4>1. CASE JoinCell(c)
        <5>1. Q' = Append(Q, c)
              BY <4>1 DEF JoinCell
        <5>2. Len(Q') = Len(Q) + 1 /\ Len(Q) \in Nat
              BY <5>1, <1>1
        <5>3. i \in 1..Len(Q) \/ i = Len(Q) + 1
              BY <5>2
        <5>4. CASE i \in 1..Len(Q)
              BY <5>4, <5>1, <2>1, <1>1
        <5>5. CASE i = Len(Q) + 1
              BY <5>5, <5>1, <4>1, <2>1, <1>1
        <5> QED BY <5>3, <5>4, <5>5
      <4>2. CASE DropCeiling(c) \/ LeaveOpen(c)
        <5>1. Q' = Q
              BY <4>2 DEF DropCeiling, LeaveOpen
        <5> QED BY <5>1, <2>1
      <4> QED BY <4>1, <4>2 DEF ExamineNeighbour
    <3> QED BY <3>1, <3>2, <3>3
  <2>2. visited' # <<>> /\ Len(visited') = L
        BY <1>1, <1>2
  <2> QED BY <2>1, <2>2 DEF QueueLinked
<1>9. GroundLinked'
  <2>1. ASSUME NEW i \in 2..L, NEW b, b = V[i], NEW n, n = i - 1 PROVE LinkedFrom(b, n)'
    <3>1. n \in 0..L /\ LinkedFrom(b, n)
          BY <2>1, <1>2 DEF IInv, GroundLinked
    <3> QED BY <3>1, <1>5
  <2> QED BY <2>1, <1>1, <1>2 DEF GroundLinked
<1>10. CeilingsSeen'
  <2>1. ASSUME NEW b \in Cells, planarVoxelConn'[b] = -1 PROVE CeilingFrom(b, L)'
    <3>1. CASE b # c
      <4>1. CeilingFrom(b, L)
            BY <2>1, <3>1, <1>2, <1>6 DEF IInv, CeilingsSeen
      <4> QED BY <4>1, <1>5, <1>7
    <3>2. CASE b = c
      <4>1. DropCeiling(c)
            BY <2>1, <3>2, <1>1 DEF ExamineNeighbour, JoinCell, LeaveOpen
      <4>2. Near(V[L], b, Reach) /\ IsCeiling(V[L], b)
            BY <4>1, <3>2, <1>1, <1>2 DEF DropCeiling
      <4>3. CeilingFrom(b, L)
            BY <4>2, <1>7 DEF CeilingFrom
      <4> QED BY <4>3, <1>5, <1>7
    <3> QED BY <3>1, <3>2
  <2> QED BY <2>1, <1>1, <1>2 DEF CeilingsSeen
<1>11. VisitsSettle'
  <2>1. ASSUME NEW i \in 1..L, NEW a, a = V[i], NEW b \in Cells, NEW n, n = i - 1,
               Near(a, b, Reach), Occupied(b), Linked(a, b)
        PROVE  \/ planarVoxelConn'[b] \in {1, 2} \/ CeilingFrom(b, n)'
               \/ i = L /\ b \in todo'
    <3>1. n \in 0..L
          BY <2>1
    <3>2. planarVoxelConn[b] \in {1, 2} \/ CeilingFrom(b, n) \/ (i = L /\ b \in todo)
          BY <2>1, <1>2 DEF IInv, VisitsSettle
    <3>3. CASE b # c
          BY <3>1, <3>2, <3>3, <1>1, <1>5, <1>6
    <3>4. CASE b = c /\ CeilingFrom(b, n)
          BY <3>1, <3>4, <1>5
    <3>5. CASE b = c /\ i = L
      <4>1. Linked(Front, c)
            BY <2>1, <3>5, <1>2
      <4>2. JoinCell(c)
            BY <4>1 DEF ExamineNeighbour, DropCeiling, LeaveOpen, IsCeiling
      <4>3. planarVoxelConn'[c] = 1
            BY <4>2, <1>1 DEF JoinCell
      <4> QED BY <4>3, <3>5
    <3> QED BY <3>2, <3>3, <3>4, <3>5, <1>1
  <2> QED BY <2>1, <1>1, <1>2, <1>4 DEF VisitsSettle
<1> QED BY <1>8, <1>9, <1>10, <1>11

LEMMA IInvNext == IInv /\ [Next]_vars => IInv'
<1> SUFFICES ASSUME IInv, [Next]_vars PROVE IInv'
    OBVIOUS
<1>1. Bookkeeping'
      BY BookkeepingNext DEF IInv
<1>2. QueueLinked' /\ GroundLinked' /\ CeilingsSeen' /\ VisitsSettle'
  <2>1. ASSUME UNCHANGED <<stairEnable, terrainCloud, planarVoxelElev, planarTransitionCell, search>>
        PROVE  QueueLinked' /\ GroundLinked' /\ CeilingsSeen' /\ VisitsSettle'
    <3>1. \A a, b : (Linked(a, b)' <=> Linked(a, b)) /\ (IsCeiling(a, b)' <=> IsCeiling(a, b))
          BY <2>1, FoundKept
    <3>2. \A b : Occupied(b)' <=> Occupied(b)
          BY <2>1, FoundKept
    <3> QED BY <2>1, <3>1, <3>2 DEF IInv, QueueLinked, GroundLinked, CeilingsSeen, VisitsSettle,
                                    LinkedFrom, CeilingFrom, search
  <2>2. CASE LaserCloudHandler \/ TerrainCloudLocalHandler \/ Publish \/ UNCHANGED vars
        BY <2>1, <2>2 DEF LaserCloudHandler, TerrainCloudLocalHandler, Publish, vars, params, estimate
  <2>3. CASE EstimateGround
    <3>1. phase = "idle" /\ visited' = <<>> /\ planarVoxelQueue' = planarVoxelQueue
          /\ planarVoxelConn' = [c \in Cells |-> 0]
          BY <2>3 DEF EstimateGround
    <3>2. planarVoxelQueue' = <<>>
          BY <3>1 DEF IInv, Bookkeeping, LoopState
    <3>3. \A c \in Cells : planarVoxelConn'[c] # -1
          BY <3>1
    <3> QED BY <3>1, <3>2, <3>3 DEF QueueLinked, GroundLinked, CeilingsSeen, VisitsSettle
  <2>4. CASE DetectTransitions
    <3>1. /\ phase = "detect" /\ visited' = visited
          /\ \/ planarVoxelQueue' = <<Centre>> /\ planarVoxelConn' = [planarVoxelConn EXCEPT ![Centre] = 1]
             \/ planarVoxelQueue' = planarVoxelQueue /\ planarVoxelConn' = planarVoxelConn
          BY <2>4 DEF DetectTransitions
    <3>2. visited' = <<>> /\ planarVoxelQueue = <<>> /\ \A c \in Cells : planarVoxelConn[c] = 0
          BY <3>1 DEF IInv, Bookkeeping, LoopState
    <3>3. \A c \in Cells : planarVoxelConn'[c] # -1
      <4>1. planarVoxelConn \in [Cells -> -1..2]
            BY DEF IInv, Bookkeeping, TypeOK
      <4> QED BY <4>1, <3>1, <3>2
    <3>4. \A i \in 1..Len(planarVoxelQueue') : planarVoxelQueue'[i] = Centre'
      <4>1. Centre' = Centre
            BY DEF Centre
      <4> QED BY <4>1, <3>1, <3>2
    <3> QED BY <3>2, <3>3, <3>4 DEF QueueLinked, GroundLinked, CeilingsSeen, VisitsSettle
  <2>5. CASE VisitFront
        BY <2>5, IInvVisit
  <2>6. ASSUME NEW c \in Cells, ExamineNeighbour(c)
        PROVE  QueueLinked' /\ GroundLinked' /\ CeilingsSeen' /\ VisitsSettle'
        BY <2>6, IInvExamine
  <2> QED BY <2>2, <2>3, <2>4, <2>5, <2>6 DEF Next, Loop
<1> QED BY <1>1, <1>2 DEF IInv

\* Ground other than the vehicle's is linked with ground found before it, and when the
\* search is over whatever is linked with ground is ground, or was taken for a ceiling.
THEOREM GroundAlwaysConnected == Spec => []GroundConnected
<1>1. Init => IInv
      BY IInvInit
<1>2. IInv /\ [Next]_vars => IInv'
      BY IInvNext
<1>3. IInv => GroundConnected
      BY ConnectedByIInv
<1> QED BY <1>1, <1>2, <1>3, PTL DEF Spec

-----------------------------------------------------------------------------
(***************************************************************************)
(* The tuning and the marks.                                               *)
(***************************************************************************)
LEMMA TuningTypes ==
    ASSUME NEW p \in Tunings
    PROVE  /\ p.flat_eps \in Nat /\ p.min_seq_rise \in Nat /\ p.min_step_rise \in Nat
           /\ p.max_step_rise \in Nat /\ p.min_significant_steps \in Nat
           /\ p.min_width_cells \in Nat /\ p.width_height_eps \in Nat
           /\ p.seq_length \in Nat /\ p.seq_length >= 2
BY DEF Tunings, TuningFields

\* The rises of a run on support are integers.
LEMMA RiseType ==
    ASSUME NEW elev \in [Cells -> Int], NEW c, NEW d, NEW m \in Nat,
           \A n \in 0..m : At(c, d, n) \in Cells
    PROVE  \A n \in 1..m : Rise(elev, c, d, n) \in Int /\ Abs(Rise(elev, c, d, n)) \in Nat
<1> SUFFICES ASSUME NEW n \in 1..m
             PROVE  Rise(elev, c, d, n) \in Int /\ Abs(Rise(elev, c, d, n)) \in Nat
    OBVIOUS
<1>1. n \in 0..m /\ n - 1 \in 0..m
      OBVIOUS
<1>2. Rise(elev, c, d, n) \in Int
      BY <1>1 DEF Rise
<1> QED BY <1>2, AbsType

\* The marks are the cells of the runs: more runs, more marks.
LEMMA MoreRuns ==
    ASSUME NEW elev, NEW support, NEW p, NEW q, p.seq_length = q.seq_length,
           \A c \in support, d \in Dirs : IsRun(elev, support, c, d, p) => IsRun(elev, support, c, d, q)
    PROVE  TransitionCells(elev, support, p) \subseteq TransitionCells(elev, support, q)
<1> SUFFICES ASSUME NEW x \in TransitionCells(elev, support, p)
             PROVE  x \in TransitionCells(elev, support, q)
    OBVIOUS
<1>1. PICK r \in support \X Dirs :
          IsRun(elev, support, r[1], r[2], p) /\ \E n \in 0..p.seq_length - 1 : x = At(r[1], r[2], n)
      BY DEF TransitionCells
<1>2. IsRun(elev, support, r[1], r[2], q)
      BY <1>1
<1> QED BY <1>1, <1>2 DEF TransitionCells

\* The documentation advises to raise flatEps when ground waves are taken for stairs.  Up
\* to the least rise of a step that never takes a mark away: a larger flatEps only takes
\* away the veto of the small steps that go the wrong way.
THEOREM RaisingFlatEpsKeepsMarks ==
    ASSUME NEW elev \in [Cells -> Int], NEW support \in SUBSET Cells, NEW p \in Tunings,
           NEW e \in Nat, p.flat_eps <= e, e < p.min_step_rise
    PROVE  TransitionCells(elev, support, p)
             \subseteq TransitionCells(elev, support, [p EXCEPT !.flat_eps = e])
<1> DEFINE q == [p EXCEPT !.flat_eps = e]
<1>1. /\ q.seq_length = p.seq_length /\ q.min_seq_rise = p.min_seq_rise
      /\ q.min_step_rise = p.min_step_rise /\ q.max_step_rise = p.max_step_rise
      /\ q.min_significant_steps = p.min_significant_steps
      /\ q.min_width_cells = p.min_width_cells /\ q.width_height_eps = p.width_height_eps
      /\ q.flat_eps = e
      BY DEF Tunings, TuningFields
<1> HIDE DEF q
<1>2. ASSUME NEW c \in support, NEW d \in Dirs, IsRun(elev, support, c, d, p)
      PROVE  IsRun(elev, support, c, d, q)
  <2> DEFINE m == p.seq_length - 1
             Steps(eps) == {n \in 1..m : Abs(Rise(elev, c, d, n)) > eps}
             High(eps) == {n \in Steps(eps) : Abs(Rise(elev, c, d, n)) >= p.min_step_rise}
  <2>1. m \in Nat
        BY TuningTypes
  <2>2. \A n \in 0..m : At(c, d, n) \in support
        BY <1>2 DEF IsRun
  <2>3. \A n \in 1..m : Abs(Rise(elev, c, d, n)) \in Nat
        BY <2>1, <2>2, RiseType
  <2>4. Steps(e) \subseteq Steps(p.flat_eps)
        BY <2>3, TuningTypes
  <2>5. High(e) = High(p.flat_eps)
        BY <2>3, TuningTypes
  <2>6. SequenceMonotonic(elev, c, d, p)
        BY <1>2 DEF IsRun
  <2>7. SequenceMonotonic(elev, c, d, q)
    <3>1. /\ Abs(elev[At(c, d, m)] - elev[c]) >= p.min_seq_rise
          /\ \A n \in Steps(p.flat_eps) : /\ Rise(elev, c, d, n) > 0 <=> elev[At(c, d, m)] - elev[c] > 0
                                          /\ Abs(Rise(elev, c, d, n)) <= p.max_step_rise
          /\ Cardinality(High(p.flat_eps)) >= p.min_significant_steps
          BY <2>6 DEF SequenceMonotonic
    <3>2. /\ \A n \in Steps(e) : /\ Rise(elev, c, d, n) > 0 <=> elev[At(c, d, m)] - elev[c] > 0
                                 /\ Abs(Rise(elev, c, d, n)) <= p.max_step_rise
          /\ Cardinality(High(e)) >= p.min_significant_steps
      <4> HIDE DEF Steps, High
      <4> QED BY <3>1, <2>4, <2>5
    <3> QED BY <3>1, <3>2, <1>1 DEF SequenceMonotonic
  <2>8. \A n \in 0..m : HasLateralWidth(elev, support, At(c, d, n), d, q)
    <3>1. \A n \in 0..m : HasLateralWidth(elev, support, At(c, d, n), d, p)
          BY <1>2 DEF IsRun
    <3> QED BY <3>1, <1>1 DEF HasLateralWidth
  <2> QED BY <2>2, <2>7, <2>8, <1>1 DEF IsRun
<1>3. TransitionCells(elev, support, p) \subseteq TransitionCells(elev, support, q)
      BY <1>1, <1>2, MoreRuns
<1> QED BY <1>3 DEF q

\* The other thresholds do what the documentation says of them: with a higher least rise of
\* the whole or of a step, more steps asked for, or a lower greatest rise of a step, fewer
\* cells are marked.
THEOREM StricterTuningMarksFewer ==
    ASSUME NEW elev \in [Cells -> Int], NEW support \in SUBSET Cells,
           NEW p \in Tunings, NEW q \in Tunings,
           q.seq_length = p.seq_length, q.flat_eps = p.flat_eps,
           q.min_width_cells = p.min_width_cells, q.width_height_eps = p.width_height_eps,
           q.min_seq_rise <= p.min_seq_rise, q.min_step_rise <= p.min_step_rise,
           q.min_significant_steps <= p.min_significant_steps,
           q.max_step_rise >= p.max_step_rise
    PROVE  TransitionCells(elev, support, p) \subseteq TransitionCells(elev, support, q)
<1>1. ASSUME NEW c \in support, NEW d \in Dirs, IsRun(elev, support, c, d, p)
      PROVE  IsRun(elev, support, c, d, q)
  <2> DEFINE m == p.seq_length - 1
             Steps == {n \in 1..m : Abs(Rise(elev, c, d, n)) > p.flat_eps}
             High(rise) == {n \in Steps : Abs(Rise(elev, c, d, n)) >= rise}
             total == elev[At(c, d, m)] - elev[c]
  <2>1. m \in Nat
        BY TuningTypes
  <2>2. \A n \in 0..m : At(c, d, n) \in support
        BY <1>1 DEF IsRun
  <2>3. /\ \A n \in 1..m : Abs(Rise(elev, c, d, n)) \in Nat
        /\ Abs(total) \in Nat
    <3>1. m \in 0..m
          BY <2>1
    <3>2. total \in Int
          BY <2>2, <3>1
    <3> QED BY <2>1, <2>2, <3>2, RiseType, AbsType
  <2>4. High(p.min_step_rise) \subseteq High(q.min_step_rise)
        BY <2>3, TuningTypes
  <2>5. /\ Cardinality(High(p.min_step_rise)) <= Cardinality(High(q.min_step_rise))
        /\ Cardinality(High(p.min_step_rise)) \in Nat /\ Cardinality(High(q.min_step_rise)) \in Nat
    <3>1. IsFiniteSet(1..m) /\ High(q.min_step_rise) \subseteq 1..m
      <4>1. IsFiniteSet(1..m)
        <5> HIDE DEF m
        <5>1. m \in Int
              BY <2>1
        <5> QED BY <5>1, FS_Interval
      <4> QED BY <4>1
    <3>2. IsFiniteSet(High(q.min_step_rise))
      <4> HIDE DEF High
      <4> QED BY <3>1, FS_Subset
    <3> HIDE DEF High
    <3> QED BY <3>2, <2>4, FS_Subset, FS_CardinalityType
  <2>6. /\ Abs(total) >= p.min_seq_rise
        /\ \A n \in Steps : /\ Rise(elev, c, d, n) > 0 <=> total > 0
                            /\ Abs(Rise(elev, c, d, n)) <= p.max_step_rise
        /\ Cardinality(High(p.min_step_rise)) >= p.min_significant_steps
        BY <1>1 DEF IsRun, SequenceMonotonic
  <2>7. /\ Abs(total) >= q.min_seq_rise
        /\ Cardinality(High(q.min_step_rise)) >= q.min_significant_steps
    <3> HIDE DEF High, total
    <3> QED BY <2>3, <2>5, <2>6, TuningTypes
  <2>8. \A n \in Steps : /\ Rise(elev, c, d, n) > 0 <=> total > 0
                         /\ Abs(Rise(elev, c, d, n)) <= q.max_step_rise
    <3>1. \A n \in Steps : Abs(Rise(elev, c, d, n)) \in Nat
          BY <2>3
    <3> HIDE DEF Steps, total
    <3> QED BY <3>1, <2>6, TuningTypes
  <2>9. SequenceMonotonic(elev, c, d, q)
        BY <2>7, <2>8 DEF SequenceMonotonic
  <2>10. \A n \in 0..m : HasLateralWidth(elev, support, At(c, d, n), d, q)
    <3>1. \A n \in 0..m : HasLateralWidth(elev, support, At(c, d, n), d, p)
          BY <1>1 DEF IsRun
    <3> QED BY <3>1 DEF HasLateralWidth
  <2> QED BY <2>2, <2>9, <2>10 DEF IsRun
<1> QED BY <1>1, MoreRuns

-----------------------------------------------------------------------------
(***************************************************************************)
(* Turning the grid.                                                       *)
(***************************************************************************)
Points == Int \X Int

\* A motion t of the grid, with its inverse s, takes directions to directions by u, with
\* its inverse v, straight lines to straight lines, and normals to normals or, with sign -1,
\* to their opposites.
Motion(t, s, u, v, sign) ==
    /\ \A c \in Points : t[c] \in Points /\ s[c] \in Points /\ t[s[c]] = c /\ s[t[c]] = c
    /\ \A c \in Points : c \in Cells <=> t[c] \in Cells
    /\ \A d \in Dirs : u[d] \in Dirs /\ v[d] \in Dirs /\ u[v[d]] = d
    /\ \A c \in Points, d \in Dirs, n \in Int :
          /\ t[At(c, d, n)] = At(t[c], u[d], n)
          /\ t[At(c, Normal(d), n)] = At(t[c], Normal(u[d]), sign * n)
    /\ sign \in {1, -1}

LEMMA PointTypes ==
    /\ Cells \subseteq Points /\ Dirs \subseteq Points
    /\ \A d \in Dirs : Normal(d) \in Points
    /\ \A c, d \in Points, n \in Int : At(c, d, n) \in Points
<1>1. Cells \subseteq Points
      BY WidthAssumption DEF Cells, Points
<1>2. \A d \in Dirs : d[1] \in Int /\ d[2] \in Int /\ d \in Points
      BY DEF Dirs, Points
<1>3. \A d \in Dirs : Normal(d) \in Points
      BY <1>2 DEF Normal, Points
<1>4. ASSUME NEW c \in Points, NEW d \in Points, NEW n \in Int PROVE At(c, d, n) \in Points
  <2>1. c[1] \in Int /\ c[2] \in Int /\ d[1] \in Int /\ d[2] \in Int
        BY DEF Points
  <2>2. n * d[1] \in Int /\ n * d[2] \in Int
        BY <2>1
  <2>3. c[1] + n * d[1] \in Int /\ c[2] + n * d[2] \in Int
    <3> DEFINE a == n * d[1]
               b == n * d[2]
    <3>1. a \in Int /\ b \in Int
          BY <2>2
    <3> HIDE DEF a, b
    <3>2. c[1] + a \in Int /\ c[2] + b \in Int
          BY <3>1, <2>1
    <3> QED BY <3>2 DEF a, b
  <2> QED BY <2>3 DEF At, Points
<1> QED BY <1>1, <1>2, <1>3, <1>4

\* A set of integers and its mirror image have equally many members.
LEMMA Mirror ==
    ASSUME NEW S \in SUBSET Int, NEW T \in SUBSET Int, IsFiniteSet(S), NEW sign \in {1, -1},
           \A n \in Int : n \in S <=> sign * n \in T
    PROVE  Cardinality(S) = Cardinality(T)
<1>1. CASE sign = 1
  <2>1. \A n \in Int : n \in S <=> n \in T
        BY <1>1
  <2>2. S = T
        BY <2>1
  <2> QED BY <2>2
<1>2. CASE sign = -1
  <2> DEFINE f == [n \in S |-> -n]
  <2>1. \A n \in Int : n \in S <=> -n \in T
        BY <1>2
  <2>2. f \in [S -> T]
        BY <2>1
  <2>3. \A a, b \in S : f[a] = f[b] => a = b
        OBVIOUS
  <2>4. \A b \in T : \E a \in S : f[a] = b
    <3> SUFFICES ASSUME NEW b \in T PROVE \E a \in S : f[a] = b
        OBVIOUS
    <3>1. -b \in Int /\ -(-b) = b
          OBVIOUS
    <3>2. -b \in S
          BY <2>1, <3>1
    <3> QED BY <3>1, <3>2
  <2>5. f \in Bijection(S, T)
    <3> HIDE DEF f
    <3> QED BY <2>2, <2>3, <2>4 DEF Bijection, Injection, IsInjective, Surjection
  <2>6. ExistsBijection(S, T)
        BY <2>5 DEF ExistsBijection
  <2> QED BY <2>6, FS_Bijection
<1> QED BY <1>1, <1>2

\* A run in the moved grid is a run in the grid.
LEMMA RunMoves ==
    ASSUME NEW t, NEW s, NEW u, NEW v, NEW sign, Motion(t, s, u, v, sign),
           NEW elev \in [Cells -> Int], NEW support \in SUBSET Cells, NEW p \in Tunings,
           NEW elevT, elevT = [c \in Cells |-> elev[t[c]]],
           NEW supportT, supportT = {c \in Cells : t[c] \in support},
           NEW c \in supportT, NEW d \in Dirs
    PROVE  IsRun(elevT, supportT, c, d, p) <=> IsRun(elev, support, t[c], u[d], p)
<1> DEFINE m == p.seq_length - 1
<1>1. m \in Nat /\ m > 0
      BY TuningTypes
<1>2. c \in Cells /\ c \in Points /\ d \in Points /\ t[c] \in Points
      BY PointTypes DEF Motion
<1>3. \A x \in Points : /\ x \in supportT <=> t[x] \in support
                        /\ x \in supportT => elevT[x] = elev[t[x]]
      BY DEF Motion
<1>4. \A n \in Int : /\ At(c, d, n) \in Points
                     /\ t[At(c, d, n)] = At(t[c], u[d], n)
      BY <1>2, PointTypes DEF Motion
<1>5. (\A n \in 0..m : At(c, d, n) \in supportT) <=> (\A n \in 0..m : At(t[c], u[d], n) \in support)
      BY <1>3, <1>4
<1>6. SUFFICES ASSUME \A n \in 0..m : At(c, d, n) \in supportT
               PROVE  IsRun(elevT, supportT, c, d, p) <=> IsRun(elev, support, t[c], u[d], p)
      BY <1>5 DEF IsRun
<1>7. \A n \in 0..m : elevT[At(c, d, n)] = elev[At(t[c], u[d], n)]
      BY <1>3, <1>4, <1>6
<1>8. SequenceMonotonic(elevT, c, d, p) <=> SequenceMonotonic(elev, t[c], u[d], p)
  <2>1. \A n \in 1..m : Rise(elevT, c, d, n) = Rise(elev, t[c], u[d], n)
    <3> SUFFICES ASSUME NEW n \in 1..m PROVE Rise(elevT, c, d, n) = Rise(elev, t[c], u[d], n)
        OBVIOUS
    <3>1. n \in 0..m /\ n - 1 \in 0..m
          BY <1>1
    <3> QED BY <3>1, <1>7 DEF Rise
  <2>2. elevT[At(c, d, m)] = elev[At(t[c], u[d], m)] /\ elevT[c] = elev[t[c]]
    <3>1. m \in 0..m
          BY <1>1
    <3> QED BY <3>1, <1>2, <1>3, <1>7
  <2> DEFINE R(n) == Rise(elev, t[c], u[d], n)
             Steps == {n \in 1..m : Abs(R(n)) > p.flat_eps}
             StepsT == {n \in 1..m : Abs(Rise(elevT, c, d, n)) > p.flat_eps}
             High == {n \in Steps : Abs(R(n)) >= p.min_step_rise}
             HighT == {n \in StepsT : Abs(Rise(elevT, c, d, n)) >= p.min_step_rise}
  <2>3. StepsT = Steps
        BY <2>1
  <2>4. HighT = High
        BY <2>1, <2>3
  <2> QED
    <3>1. \A n \in StepsT : Rise(elevT, c, d, n) = R(n)
          BY <2>1
    <3>2. SequenceMonotonic(elevT, c, d, p) <=>
            /\ Abs(elevT[At(c, d, m)] - elevT[c]) >= p.min_seq_rise
            /\ \A n \in StepsT : /\ Rise(elevT, c, d, n) > 0 <=> elevT[At(c, d, m)] - elevT[c] > 0
                                 /\ Abs(Rise(elevT, c, d, n)) <= p.max_step_rise
            /\ Cardinality(HighT) >= p.min_significant_steps
          BY DEF SequenceMonotonic
    <3>3. SequenceMonotonic(elev, t[c], u[d], p) <=>
            /\ Abs(elev[At(t[c], u[d], m)] - elev[t[c]]) >= p.min_seq_rise
            /\ \A n \in Steps : /\ R(n) > 0 <=> elev[At(t[c], u[d], m)] - elev[t[c]] > 0
                                /\ Abs(R(n)) <= p.max_step_rise
            /\ Cardinality(High) >= p.min_significant_steps
          BY DEF SequenceMonotonic
    <3> HIDE DEF Steps, StepsT, High, HighT, R, m
    <3> QED BY <3>1, <3>2, <3>3, <2>2, <2>3, <2>4
<1>9. ASSUME NEW n \in 0..m
      PROVE  HasLateralWidth(elevT, supportT, At(c, d, n), d, p)
               <=> HasLateralWidth(elev, support, At(t[c], u[d], n), u[d], p)
  <2> DEFINE x == At(c, d, n)
             y == At(t[c], u[d], n)
             w == p.min_width_cells
             LevelT == {k \in (-w..w) \ {0} :
                          /\ At(x, Normal(d), k) \in supportT
                          /\ Abs(elevT[At(x, Normal(d), k)] - elevT[x]) <= p.width_height_eps}
             Level == {k \in (-w..w) \ {0} :
                          /\ At(y, Normal(u[d]), k) \in support
                          /\ Abs(elev[At(y, Normal(u[d]), k)] - elev[y]) <= p.width_height_eps}
  <2>1. x \in Points /\ x \in supportT /\ t[x] = y /\ w \in Nat
        BY <1>4, <1>6, TuningTypes
  <2>2. ASSUME NEW k \in Int PROVE k \in LevelT <=> sign * k \in Level
    <3>1. /\ At(x, Normal(d), k) \in Points
          /\ t[At(x, Normal(d), k)] = At(y, Normal(u[d]), sign * k)
      <4> HIDE DEF x, y
      <4>1. Normal(d) \in Points
            BY PointTypes
      <4>2. At(x, Normal(d), k) \in Points
            BY <2>1, <4>1, PointTypes
      <4>3. t[At(x, Normal(d), k)] = At(t[x], Normal(u[d]), sign * k)
            BY <2>1 DEF Motion
      <4> QED BY <2>1, <4>2, <4>3
    <3>2. k \in (-w..w) \ {0} <=> sign * k \in (-w..w) \ {0}
      <4>1. sign = 1 \/ sign = -1
            BY DEF Motion
      <4> HIDE DEF w
      <4>2. CASE sign = 1
            BY <4>2, <2>1
      <4>3. CASE sign = -1
        <5>1. sign * k = -k
              BY <4>3
        <5> QED BY <5>1, <2>1
      <4> QED BY <4>1, <4>2, <4>3
    <3>3. /\ At(x, Normal(d), k) \in supportT <=> At(y, Normal(u[d]), sign * k) \in support
          /\ At(x, Normal(d), k) \in supportT =>
               elevT[At(x, Normal(d), k)] = elev[At(y, Normal(u[d]), sign * k)]
          BY <3>1, <1>3
    <3>4. elevT[x] = elev[y]
          BY <2>1, <1>3
    <3> HIDE DEF x, y, w
    <3> QED BY <3>2, <3>3, <3>4
  <2>3. Cardinality(LevelT) = Cardinality(Level)
    <3>1. IsFiniteSet(-w..w)
      <4> HIDE DEF w
      <4> QED BY <2>1, FS_Interval
    <3>2. LevelT \subseteq -w..w /\ Level \subseteq -w..w
          OBVIOUS
    <3>3. IsFiniteSet(LevelT)
      <4> HIDE DEF LevelT
      <4> QED BY <3>1, <3>2, FS_Subset
    <3>4. LevelT \in SUBSET Int /\ Level \in SUBSET Int
      <4> HIDE DEF LevelT, Level, w
      <4> QED BY <3>2, <2>1
    <3>5. sign \in {1, -1}
          BY DEF Motion
    <3> HIDE DEF LevelT, Level
    <3> QED BY <2>2, <3>3, <3>4, <3>5, Mirror
  <2>4. HasLateralWidth(elevT, supportT, x, d, p) <=> 1 + Cardinality(LevelT) >= p.min_width_cells
        BY DEF HasLateralWidth
  <2>5. HasLateralWidth(elev, support, y, u[d], p) <=> 1 + Cardinality(Level) >= p.min_width_cells
        BY DEF HasLateralWidth
  <2> HIDE DEF LevelT, Level, x, y
  <2>6. HasLateralWidth(elevT, supportT, x, d, p) <=> HasLateralWidth(elev, support, y, u[d], p)
        BY <2>3, <2>4, <2>5
  <2> QED BY <2>6 DEF x, y
<1> QED BY <1>5, <1>6, <1>8, <1>9 DEF IsRun

LEMMA MarksMove ==
    ASSUME NEW t, NEW s, NEW u, NEW v, NEW sign, Motion(t, s, u, v, sign),
           NEW elev \in [Cells -> Int], NEW support \in SUBSET Cells, NEW p \in Tunings
    PROVE  TransitionCells([c \in Cells |-> elev[t[c]]], {c \in Cells : t[c] \in support}, p)
             = {c \in Cells : t[c] \in TransitionCells(elev, support, p)}
<1> DEFINE elevT == [c \in Cells |-> elev[t[c]]]
           supportT == {c \in Cells : t[c] \in support}
           m == p.seq_length - 1
<1>1. \A n \in 0..m : n \in Int
      OBVIOUS
<1>2. \A c \in supportT, d \in Dirs :
          IsRun(elevT, supportT, c, d, p) <=> IsRun(elev, support, t[c], u[d], p)
  <2>1. elevT = [c \in Cells |-> elev[t[c]]] /\ supportT = {c \in Cells : t[c] \in support}
        OBVIOUS
  <2> HIDE DEF elevT, supportT
  <2> QED BY <2>1, RunMoves
<1> DEFINE M == TransitionCells(elev, support, p)
           MT == TransitionCells(elevT, supportT, p)
<1>3. ASSUME NEW x \in MT PROVE x \in Cells /\ t[x] \in M
  <2>1. PICK r \in supportT \X Dirs :
            IsRun(elevT, supportT, r[1], r[2], p) /\ \E n \in 0..m : x = At(r[1], r[2], n)
    <3> HIDE DEF elevT, supportT
    <3> QED BY DEF TransitionCells
  <2>2. PICK n \in 0..m : x = At(r[1], r[2], n)
        BY <2>1
  <2>3. r[1] \in supportT /\ r[2] \in Dirs
        BY <2>1
  <2>4. x \in Cells
    <3>1. x \in supportT
      <4> HIDE DEF elevT, supportT
      <4> QED BY <2>1, <2>2 DEF IsRun
    <3> QED BY <3>1
  <2>5. t[x] = At(t[r[1]], u[r[2]], n)
    <3>1. r[1] \in Points
          BY <2>3, PointTypes
    <3> QED BY <3>1, <2>2, <2>3, <1>1 DEF Motion
  <2>6. t[r[1]] \in support /\ u[r[2]] \in Dirs
        BY <2>3 DEF Motion
  <2>7. IsRun(elev, support, t[r[1]], u[r[2]], p)
    <3> HIDE DEF elevT, supportT
    <3> QED BY <2>1, <2>3, <1>2
  <2>8. <<t[r[1]], u[r[2]]>> \in support \X Dirs
        BY <2>6
  <2>9. t[x] \in M
        BY <2>5, <2>7, <2>8 DEF TransitionCells
  <2> QED BY <2>4, <2>9
<1>4. ASSUME NEW x \in Cells, t[x] \in M PROVE x \in MT
  <2>1. PICK r \in support \X Dirs :
            IsRun(elev, support, r[1], r[2], p) /\ \E n \in 0..m : t[x] = At(r[1], r[2], n)
        BY <1>4 DEF TransitionCells
  <2>2. PICK n \in 0..m : t[x] = At(r[1], r[2], n)
        BY <2>1
  <2>3. r[1] \in support /\ r[2] \in Dirs /\ r[1] \in Points /\ x \in Points
        BY <2>1, PointTypes
  <2> DEFINE c == s[r[1]]
             d == v[r[2]]
  <2>4. c \in Points /\ t[c] = r[1] /\ d \in Dirs /\ u[d] = r[2]
        BY <2>3 DEF Motion
  <2>5. c \in supportT
        BY <2>3, <2>4 DEF Motion
  <2>6. x = At(c, d, n)
    <3>1. t[At(c, d, n)] = t[x]
      <4> HIDE DEF c, d
      <4> QED BY <2>2, <2>4, <1>1 DEF Motion
    <3>2. At(c, d, n) \in Points
      <4> HIDE DEF c, d
      <4> QED BY <2>4, <1>1, PointTypes
    <3>3. s[t[At(c, d, n)]] = At(c, d, n) /\ s[t[x]] = x
      <4> HIDE DEF c, d
      <4> QED BY <3>2, <2>3 DEF Motion
    <3> QED BY <3>1, <3>3
  <2>7. IsRun(elevT, supportT, c, d, p)
    <3> HIDE DEF elevT, supportT, c, d
    <3> QED BY <2>1, <2>4, <2>5, <1>2
  <2>8. <<c, d>> \in supportT \X Dirs
        BY <2>4, <2>5
  <2> HIDE DEF elevT, supportT, c, d
  <2> QED BY <2>6, <2>7, <2>8 DEF TransitionCells
<1>5. MT = {c \in Cells : t[c] \in M}
  <2> HIDE DEF M, MT
  <2> QED BY <1>3, <1>4
<1> QED BY <1>5

\* A quarter turn and the mirror image along the diagonal, which between them make up all
\* turns and mirror images of the grid.
Turn == [c \in Points |-> Turned(c)]
TurnBack == [c \in Points |-> <<Width - 1 - c[2], c[1]>>]
TurnDir == [d \in Dirs |-> <<d[2], -d[1]>>]
TurnDirBack == [d \in Dirs |-> <<-d[2], d[1]>>]

MirrorCell == [c \in Points |-> Mirrored(c)]
MirrorDir == [d \in Dirs |-> <<d[2], d[1]>>]

LEMMA PointParts ==
    /\ \A c \in Points : c[1] \in Int /\ c[2] \in Int /\ c = <<c[1], c[2]>>
    /\ \A a, b \in Int : <<a, b>> \in Points
    /\ \A c \in Points : c \in Cells <=> c[1] \in 0..Width - 1 /\ c[2] \in 0..Width - 1
<1>1. \A c \in Points : c[1] \in Int /\ c[2] \in Int /\ c = <<c[1], c[2]>>
      BY DEF Points
<1>2. \A a, b \in Int : <<a, b>> \in Points
      BY DEF Points
<1>3. \A c \in Points : c \in Cells <=> c[1] \in 0..Width - 1 /\ c[2] \in 0..Width - 1
      BY <1>1 DEF Cells
<1> QED BY <1>1, <1>2, <1>3

LEMMA DirParts ==
    /\ \A d \in Dirs : d[1] \in {-1, 0, 1} /\ d[2] \in {-1, 0, 1} /\ d = <<d[1], d[2]>> /\ d # <<0, 0>>
    /\ \A a, b \in {-1, 0, 1} : a # 0 \/ b # 0 => <<a, b>> \in Dirs
<1>1. -1..1 = {-1, 0, 1}
      OBVIOUS
<1>2. \A d \in Dirs : d[1] \in {-1, 0, 1} /\ d[2] \in {-1, 0, 1} /\ d = <<d[1], d[2]>> /\ d # <<0, 0>>
      BY <1>1 DEF Dirs
<1>3. ASSUME NEW a \in {-1, 0, 1}, NEW b \in {-1, 0, 1}, a # 0 \/ b # 0 PROVE <<a, b>> \in Dirs
  <2>1. <<a, b>> # <<0, 0>>
        BY <1>3
  <2> QED BY <2>1, <1>1 DEF Dirs
<1> QED BY <1>2, <1>3

LEMMA TurnIsMotion == Motion(Turn, TurnBack, TurnDir, TurnDirBack, 1)
<1>1. ASSUME NEW c \in Points
      PROVE  /\ Turn[c] = <<c[2], Width - 1 - c[1]>> /\ Turn[c] \in Points
             /\ TurnBack[c] = <<Width - 1 - c[2], c[1]>> /\ TurnBack[c] \in Points
  <2>1. Width - 1 - c[1] \in Int /\ Width - 1 - c[2] \in Int
        BY PointParts, WidthAssumption
  <2> QED BY <2>1, PointParts DEF Turn, TurnBack, Turned
<1>2. \A c \in Points : Turn[TurnBack[c]] = c /\ TurnBack[Turn[c]] = c
  <2> SUFFICES ASSUME NEW c \in Points PROVE Turn[TurnBack[c]] = c /\ TurnBack[Turn[c]] = c
      OBVIOUS
  <2>1. /\ Turn[TurnBack[c]] = <<c[1], Width - 1 - (Width - 1 - c[2])>>
        /\ TurnBack[Turn[c]] = <<Width - 1 - (Width - 1 - c[1]), c[2]>>
        BY <1>1
  <2>2. /\ Width - 1 - (Width - 1 - c[2]) = c[2]
        /\ Width - 1 - (Width - 1 - c[1]) = c[1]
        BY PointParts, WidthAssumption
  <2> QED BY <2>1, <2>2, PointParts
<1>3. \A c \in Points : c \in Cells <=> Turn[c] \in Cells
  <2> SUFFICES ASSUME NEW c \in Points PROVE c \in Cells <=> Turn[c] \in Cells
      OBVIOUS
  <2>1. Turn[c][1] = c[2] /\ Turn[c][2] = Width - 1 - c[1] /\ Turn[c] \in Points
        BY <1>1
  <2>2. c[1] \in 0..Width - 1 <=> Width - 1 - c[1] \in 0..Width - 1
        BY PointParts, WidthAssumption
  <2> QED BY <2>1, <2>2, PointParts
<1>4. \A d \in Dirs : TurnDir[d] \in Dirs /\ TurnDirBack[d] \in Dirs
  <2> SUFFICES ASSUME NEW d \in Dirs PROVE TurnDir[d] \in Dirs /\ TurnDirBack[d] \in Dirs
      OBVIOUS
  <2>1. /\ d[1] \in {-1, 0, 1} /\ d[2] \in {-1, 0, 1} /\ (d[1] # 0 \/ d[2] # 0)
        BY DirParts
  <2>2. -d[1] \in {-1, 0, 1} /\ -d[2] \in {-1, 0, 1} /\ (-d[1] # 0 <=> d[1] # 0) /\ (-d[2] # 0 <=> d[2] # 0)
    <3>1. \A a \in {-1, 0, 1} : -a \in {-1, 0, 1} /\ (-a # 0 <=> a # 0)
          OBVIOUS
    <3> QED BY <2>1, <3>1
  <2> QED BY <2>1, <2>2, DirParts DEF TurnDir, TurnDirBack
<1>5. \A d \in Dirs : TurnDir[TurnDirBack[d]] = d
  <2> SUFFICES ASSUME NEW d \in Dirs PROVE TurnDir[TurnDirBack[d]] = d
      OBVIOUS
  <2>1. TurnDirBack[d] = <<-d[2], d[1]>>
        BY DEF TurnDirBack
  <2>2. TurnDir[TurnDirBack[d]] = <<d[1], -(-d[2])>>
    <3>1. TurnDirBack[d][1] = -d[2] /\ TurnDirBack[d][2] = d[1]
          BY <2>1
    <3>2. TurnDir[TurnDirBack[d]] = <<TurnDirBack[d][2], -TurnDirBack[d][1]>>
          BY <1>4 DEF TurnDir
    <3> QED BY <3>1, <3>2
  <2>3. -(-d[2]) = d[2] /\ d = <<d[1], d[2]>>
        BY DirParts
  <2> QED BY <2>2, <2>3
<1>6. ASSUME NEW c \in Points, NEW e \in Points, NEW n \in Int
      PROVE  Turn[At(c, e, n)] = At(Turn[c], <<e[2], -e[1]>>, n)
  <2>1. PICK a \in Int, b \in Int : a = n * e[1] /\ b = n * e[2]
        BY PointParts
  <2>2. At(c, e, n) = <<c[1] + a, c[2] + b>> /\ At(c, e, n) \in Points
        BY <2>1, PointTypes DEF At
  <2>3. Turn[At(c, e, n)] = <<c[2] + b, Width - 1 - (c[1] + a)>>
    <3>1. At(c, e, n)[1] = c[1] + a /\ At(c, e, n)[2] = c[2] + b
          BY <2>2
    <3>2. Turn[At(c, e, n)] = <<At(c, e, n)[2], Width - 1 - At(c, e, n)[1]>>
          BY <1>1, <2>2
    <3> QED BY <3>1, <3>2
  <2>4. n * (-e[1]) = -a
        BY <2>1, PointParts
  <2>5. At(Turn[c], <<e[2], -e[1]>>, n) = <<c[2] + b, Width - 1 - c[1] + (-a)>>
        BY <1>1, <2>1, <2>4 DEF At
  <2>6. Width - 1 - (c[1] + a) = Width - 1 - c[1] + (-a)
        BY PointParts, WidthAssumption
  <2> QED BY <2>3, <2>5, <2>6
<1>7. ASSUME NEW c \in Points, NEW d \in Dirs, NEW n \in Int
      PROVE  /\ Turn[At(c, d, n)] = At(Turn[c], TurnDir[d], n)
             /\ Turn[At(c, Normal(d), n)] = At(Turn[c], Normal(TurnDir[d]), 1 * n)
  <2>1. TurnDir[d] = <<d[2], -d[1]>>
        BY DEF TurnDir
  <2>2. Normal(d) = <<-d[2], d[1]>> /\ Normal(TurnDir[d]) = <<-(-d[1]), d[2]>>
        BY <2>1 DEF Normal
  <2>3. -(-d[1]) = d[1] /\ -(-d[2]) = d[2] /\ 1 * n = n
        BY DirParts
  <2>4. Normal(TurnDir[d]) = <<Normal(d)[2], -Normal(d)[1]>>
        BY <2>2, <2>3
  <2>5. d \in Points /\ Normal(d) \in Points
        BY PointTypes
  <2> QED BY <1>6, <2>1, <2>3, <2>4, <2>5
<1> QED BY <1>1, <1>2, <1>3, <1>4, <1>5, <1>7 DEF Motion

LEMMA MirrorIsMotion == Motion(MirrorCell, MirrorCell, MirrorDir, MirrorDir, -1)
<1>1. \A c \in Points : MirrorCell[c] = <<c[2], c[1]>> /\ MirrorCell[c] \in Points
      BY PointParts DEF MirrorCell, Mirrored
<1>2. \A c \in Points : MirrorCell[MirrorCell[c]] = c
      BY <1>1, PointParts
<1>3. \A c \in Points : c \in Cells <=> MirrorCell[c] \in Cells
      BY <1>1, PointParts
<1>4. \A d \in Dirs : MirrorDir[d] = <<d[2], d[1]>> /\ MirrorDir[d] \in Dirs
      BY DirParts DEF MirrorDir
<1>5. \A d \in Dirs : MirrorDir[MirrorDir[d]] = d
      BY <1>4, DirParts
<1>6. ASSUME NEW c \in Points, NEW d \in Dirs, NEW n \in Int
      PROVE  /\ MirrorCell[At(c, d, n)] = At(MirrorCell[c], MirrorDir[d], n)
             /\ MirrorCell[At(c, Normal(d), n)] = At(MirrorCell[c], Normal(MirrorDir[d]), -1 * n)
  <2>1. PICK a \in Int, b \in Int : a = n * d[1] /\ b = n * d[2]
        BY DirParts
  <2>2. n * (-d[2]) = -b /\ (-1 * n) * (-d[1]) = a /\ (-1 * n) * d[2] = -b
        BY <2>1, DirParts
  <2>3. At(c, d, n) = <<c[1] + a, c[2] + b>> /\ At(c, d, n) \in Points
        BY <2>1, PointTypes DEF At
  <2>4. At(c, Normal(d), n) = <<c[1] + (-b), c[2] + a>> /\ At(c, Normal(d), n) \in Points
        BY <2>1, <2>2, PointTypes DEF At, Normal
  <2>5. At(MirrorCell[c], MirrorDir[d], n) = <<c[2] + b, c[1] + a>>
        BY <1>1, <1>4, <2>1 DEF At
  <2>6. At(MirrorCell[c], Normal(MirrorDir[d]), -1 * n) = <<c[2] + a, c[1] + (-b)>>
        BY <1>1, <1>4, <2>2 DEF At, Normal
  <2> QED BY <1>1, <2>3, <2>4, <2>5, <2>6
<1> QED BY <1>1, <1>2, <1>3, <1>4, <1>5, <1>6 DEF Motion

\* The elevations of cells without support are not read.
LEMMA OnlySupportRead ==
    ASSUME NEW elev, NEW other, NEW support, NEW p \in Tunings,
           \A c \in support : other[c] = elev[c]
    PROVE  TransitionCells(other, support, p) = TransitionCells(elev, support, p)
<1>1. ASSUME NEW c \in support, NEW d \in Dirs
      PROVE  IsRun(other, support, c, d, p) <=> IsRun(elev, support, c, d, p)
  <2> DEFINE m == p.seq_length - 1
  <2>1. SUFFICES ASSUME \A n \in 0..m : At(c, d, n) \in support
                 PROVE  IsRun(other, support, c, d, p) <=> IsRun(elev, support, c, d, p)
        BY DEF IsRun
  <2>2. m \in Nat
        BY TuningTypes
  <2>3. \A n \in 1..m : Rise(other, c, d, n) = Rise(elev, c, d, n)
    <3> SUFFICES ASSUME NEW n \in 1..m PROVE Rise(other, c, d, n) = Rise(elev, c, d, n)
        OBVIOUS
    <3>1. n \in 0..m /\ n - 1 \in 0..m
          BY <2>2
    <3> QED BY <3>1, <2>1 DEF Rise
  <2>4. other[At(c, d, m)] - other[c] = elev[At(c, d, m)] - elev[c]
    <3>1. m \in 0..m
          BY <2>2
    <3> QED BY <3>1, <2>1
  <2>5. SequenceMonotonic(other, c, d, p) <=> SequenceMonotonic(elev, c, d, p)
    <3> DEFINE Steps(h) == {n \in 1..m : Abs(Rise(h, c, d, n)) > p.flat_eps}
               High(h) == {n \in Steps(h) : Abs(Rise(h, c, d, n)) >= p.min_step_rise}
    <3>1. Steps(other) = Steps(elev)
          BY <2>3
    <3>2. High(other) = High(elev)
          BY <2>3, <3>1
    <3>3. \A n \in Steps(elev) : Rise(other, c, d, n) = Rise(elev, c, d, n)
          BY <2>3
    <3>4. SequenceMonotonic(other, c, d, p) <=>
            /\ Abs(other[At(c, d, m)] - other[c]) >= p.min_seq_rise
            /\ \A n \in Steps(other) : /\ Rise(other, c, d, n) > 0 <=> other[At(c, d, m)] - other[c] > 0
                                       /\ Abs(Rise(other, c, d, n)) <= p.max_step_rise
            /\ Cardinality(High(other)) >= p.min_significant_steps
          BY DEF SequenceMonotonic
    <3>5. SequenceMonotonic(elev, c, d, p) <=>
            /\ Abs(elev[At(c, d, m)] - elev[c]) >= p.min_seq_rise
            /\ \A n \in Steps(elev) : /\ Rise(elev, c, d, n) > 0 <=> elev[At(c, d, m)] - elev[c] > 0
                                      /\ Abs(Rise(elev, c, d, n)) <= p.max_step_rise
            /\ Cardinality(High(elev)) >= p.min_significant_steps
          BY DEF SequenceMonotonic
    <3> HIDE DEF Steps, High, m
    <3> QED BY <3>1, <3>2, <3>3, <3>4, <3>5, <2>4
  <2>6. ASSUME NEW n \in 0..m
        PROVE  HasLateralWidth(other, support, At(c, d, n), d, p)
                 <=> HasLateralWidth(elev, support, At(c, d, n), d, p)
        BY <2>1 DEF HasLateralWidth
  <2> QED BY <2>5, <2>6 DEF IsRun
<1>2. TransitionCells(other, support, p) \subseteq TransitionCells(elev, support, p)
      BY <1>1 DEF TransitionCells
<1>3. TransitionCells(elev, support, p) \subseteq TransitionCells(other, support, p)
      BY <1>1 DEF TransitionCells
<1> QED BY <1>2, <1>3

\* In the search the marks are those of the elevations it works with: the one elevation
\* that is set after the marks were made is of a cell without support.
MarksCurrent ==
    phase = "search" /\ stairEnable =>
        planarTransitionCell = TransitionCells(planarVoxelElev, planarSupportCell, Tuning)

LEMMA MarksTurn == TypeOK /\ MarksCurrent => MarksTurnWithGrid
<1> SUFFICES ASSUME TypeOK, MarksCurrent, phase = "search", stairEnable
             PROVE  MarksTurnWithGrid
    BY DEF MarksTurnWithGrid
<1> DEFINE M == TransitionCells(planarVoxelElev, planarSupportCell, Tuning)
<1>1. /\ planarVoxelElev \in [Cells -> Int] /\ planarSupportCell \in SUBSET Cells
      /\ Tuning \in Tunings /\ planarTransitionCell = M
      BY TerrainAssumption DEF TypeOK, MarksCurrent
<1>2. \A c \in Cells : Turn[c] = Turned(c) /\ MirrorCell[c] = Mirrored(c)
      BY PointTypes DEF Turn, MirrorCell
<1>3. TransitionCells([c \in Cells |-> planarVoxelElev[Turned(c)]],
                      {c \in Cells : Turned(c) \in planarSupportCell}, Tuning)
        = {c \in Cells : Turned(c) \in planarTransitionCell}
  <2>1. TransitionCells([c \in Cells |-> planarVoxelElev[Turn[c]]],
                        {c \in Cells : Turn[c] \in planarSupportCell}, Tuning)
          = {c \in Cells : Turn[c] \in M}
    <3> HIDE DEF M
    <3> QED BY <1>1, TurnIsMotion, MarksMove DEF M
  <2>2. /\ [c \in Cells |-> planarVoxelElev[Turn[c]]] = [c \in Cells |-> planarVoxelElev[Turned(c)]]
        /\ {c \in Cells : Turn[c] \in planarSupportCell} = {c \in Cells : Turned(c) \in planarSupportCell}
        BY <1>2
  <2>3. {c \in Cells : Turn[c] \in M} = {c \in Cells : Turned(c) \in M}
    <3> HIDE DEF M
    <3> QED BY <1>2
  <2> HIDE DEF M
  <2> QED BY <2>1, <2>2, <2>3, <1>1
<1>4. TransitionCells([c \in Cells |-> planarVoxelElev[Mirrored(c)]],
                      {c \in Cells : Mirrored(c) \in planarSupportCell}, Tuning)
        = {c \in Cells : Mirrored(c) \in planarTransitionCell}
  <2>1. TransitionCells([c \in Cells |-> planarVoxelElev[MirrorCell[c]]],
                        {c \in Cells : MirrorCell[c] \in planarSupportCell}, Tuning)
          = {c \in Cells : MirrorCell[c] \in M}
    <3> HIDE DEF M
    <3>1. PICK g : g = -1
          OBVIOUS
    <3>2. Motion(MirrorCell, MirrorCell, MirrorDir, MirrorDir, g)
          BY <3>1, MirrorIsMotion
    <3> QED BY <1>1, <3>2, MarksMove DEF M
  <2>2. /\ [c \in Cells |-> planarVoxelElev[MirrorCell[c]]] = [c \in Cells |-> planarVoxelElev[Mirrored(c)]]
        /\ {c \in Cells : MirrorCell[c] \in planarSupportCell} = {c \in Cells : Mirrored(c) \in planarSupportCell}
        BY <1>2
  <2>3. {c \in Cells : MirrorCell[c] \in M} = {c \in Cells : Mirrored(c) \in M}
    <3> HIDE DEF M
    <3> QED BY <1>2
  <2> HIDE DEF M
  <2> QED BY <2>1, <2>2, <2>3, <1>1
<1> QED BY <1>3, <1>4 DEF MarksTurnWithGrid

\* Stairs are stairs from wherever they are seen: no direction of the grid is treated
\* differently from another.
THEOREM MarksAlwaysTurnWithGrid == Spec => []MarksTurnWithGrid
<1>1. Init => TypeOK /\ MarksCurrent
      BY InitType DEF Init, MarksCurrent
<1>2. TypeOK /\ MarksCurrent /\ [Next]_vars => TypeOK' /\ MarksCurrent'
  <2> SUFFICES ASSUME TypeOK, MarksCurrent, [Next]_vars PROVE MarksCurrent'
      BY NextType
  <2>1. CASE LaserCloudHandler \/ TerrainCloudLocalHandler
        BY <2>1 DEF LaserCloudHandler, TerrainCloudLocalHandler, MarksCurrent
  <2>2. CASE EstimateGround \/ Publish
        BY <2>2 DEF EstimateGround, Publish, MarksCurrent
  <2>3. CASE DetectTransitions
    <3> SUFFICES ASSUME stairEnable'
                 PROVE  planarTransitionCell' = TransitionCells(planarVoxelElev', planarSupportCell', Tuning)
        BY DEF MarksCurrent
    <3>1. /\ planarSupportCell' = SupportCells(planarVoxelElev, [c \in Cells |-> Over(terrainCloud, c)], Tuning)
          /\ planarTransitionCell' = TransitionCells(planarVoxelElev, planarSupportCell', Tuning)
          BY <2>3 DEF DetectTransitions, params
    <3>2. ASSUME NEW c \in planarSupportCell' PROVE planarVoxelElev'[c] = planarVoxelElev[c]
      <4>1. c \in Cells /\ Over(terrainCloud, c) # {}
            BY <3>1 DEF SupportCells
      <4>2. Occupied(c)
            BY <4>1 DEF Occupied
      <4> QED BY <4>1, <4>2, <2>3 DEF DetectTransitions, TypeOK
    <3>3. Tuning \in Tunings
          BY TerrainAssumption
    <3> QED BY <3>1, <3>2, <3>3, OnlySupportRead
  <2>4. CASE VisitFront \/ (\E c \in Cells : ExamineNeighbour(c)) \/ UNCHANGED vars
    <3>1. UNCHANGED <<stairEnable, phase, planarVoxelElev, planarSupportCell, planarTransitionCell>>
          BY <2>4 DEF VisitFront, ExamineNeighbour, vars, params, estimate
    <3> QED BY <3>1 DEF MarksCurrent
  <2> QED BY <2>1, <2>2, <2>3, <2>4 DEF Next, Loop
<1>3. TypeOK /\ MarksCurrent => MarksTurnWithGrid
      BY MarksTurn
<1> QED BY <1>1, <1>2, <1>3, PTL DEF Spec

-----------------------------------------------------------------------------
(***************************************************************************)
(* The search goes on, and not for ever.                                   *)
(***************************************************************************)
Unvisited == {c \in Cells : planarVoxelConn[c] # 2}

LEMMA CellsFinite == IsFiniteSet(Cells)
<1>1. 0 \in Int /\ Width - 1 \in Int
      BY WidthAssumption
<1>2. IsFiniteSet(0..Width - 1)
      BY <1>1, FS_Interval
<1> QED BY <1>2, FS_Product DEF Cells

\* Every turn of the search's loops leaves fewer cells to visit, or as many and fewer
\* neighbours of the newest to look at; both are finite, so the while over planarVoxelQueue ends.
THEOREM SearchAlwaysAdvances ==
    Spec => [][phase = "search" /\ phase' = "search" =>
                 /\ IsFiniteSet(Unvisited) /\ IsFiniteSet(todo)
                 /\ \/ Unvisited' \subseteq Unvisited /\ Unvisited' # Unvisited
                    \/ Unvisited' = Unvisited /\ todo' \subseteq todo /\ todo' # todo]_vars
<1> DEFINE Advance == /\ IsFiniteSet(Unvisited) /\ IsFiniteSet(todo)
                      /\ \/ Unvisited' \subseteq Unvisited /\ Unvisited' # Unvisited
                         \/ Unvisited' = Unvisited /\ todo' \subseteq todo /\ todo' # todo
<1>1. Bookkeeping /\ [Next]_vars => [phase = "search" /\ phase' = "search" => Advance]_vars
  <2> SUFFICES ASSUME Bookkeeping, Next, phase = "search", phase' = "search" PROVE Advance
      OBVIOUS
  <2>1. /\ planarVoxelConn \in [Cells -> -1..2] /\ planarVoxelQueue \in Seq(Cells) /\ todo \subseteq Cells
        BY DEF Bookkeeping, TypeOK
  <2>2. IsFiniteSet(Unvisited) /\ IsFiniteSet(todo)
        BY <2>1, CellsFinite, FS_Subset DEF Unvisited
  <2>3. VisitFront \/ \E c \in Cells : ExamineNeighbour(c)
        BY DEF Next, Loop, LaserCloudHandler, TerrainCloudLocalHandler, EstimateGround, DetectTransitions,
           Publish
  <2>4. CASE VisitFront
    <3> DEFINE f == Head(planarVoxelQueue)
    <3>1. /\ planarVoxelQueue # <<>> /\ planarVoxelConn' = [planarVoxelConn EXCEPT ![f] = 2]
          BY <2>4 DEF VisitFront
    <3>2. f = planarVoxelQueue[1] /\ 1 \in 1..Len(planarVoxelQueue) /\ f \in Cells
          BY <2>1, <3>1
    <3>3. planarVoxelConn[f] = 1
          BY <3>2 DEF Bookkeeping, MarksExact
    <3> HIDE DEF f
    <3>4. planarVoxelConn'[f] = 2 /\ \A c \in Cells : c # f => planarVoxelConn'[c] = planarVoxelConn[c]
          BY <2>1, <3>1, <3>2
    <3>5. Unvisited' \subseteq Unvisited
          BY <3>3, <3>4 DEF Unvisited
    <3>6. f \in Unvisited /\ f \notin Unvisited'
          BY <3>2, <3>3, <3>4 DEF Unvisited
    <3> QED BY <2>2, <3>5, <3>6
  <2>5. ASSUME NEW c \in Cells, ExamineNeighbour(c) PROVE Advance
    <3>1. c \in todo /\ todo' = todo \ {c}
          BY <2>5 DEF ExamineNeighbour
    <3>2. planarVoxelConn[c] = 0
          BY <3>1 DEF Bookkeeping, TodoOpen
    <3>3. \/ planarVoxelConn' = [planarVoxelConn EXCEPT ![c] = 1]
          \/ planarVoxelConn' = [planarVoxelConn EXCEPT ![c] = -1]
          \/ planarVoxelConn' = planarVoxelConn
          BY <2>5 DEF ExamineNeighbour, JoinCell, DropCeiling, LeaveOpen
    <3>4. \A b \in Cells : planarVoxelConn'[b] # 2 <=> planarVoxelConn[b] # 2
          BY <2>1, <3>2, <3>3
    <3>5. Unvisited' = Unvisited
          BY <3>4 DEF Unvisited
    <3> QED BY <2>2, <3>1, <3>5
  <2> QED BY <2>3, <2>4, <2>5
<1> QED BY <1>1, BookkeepingInit, BookkeepingNext, PTL DEF Spec

\* The loops over dX and dY have exactly one next neighbour as long as one is left: the search
\* neither stops before its end nor depends on anything but the order of the loops.
THEOREM NeighbourAlwaysFollows ==
    Spec => [](todo # {} => \E c \in todo : IsNext(c) /\ \A d \in todo : IsNext(d) => d = c)
<1>1. ASSUME Bookkeeping, todo # {}
      PROVE  \E c \in todo : IsNext(c) /\ \A d \in todo : IsNext(d) => d = c
  <2>1. /\ todo \subseteq Cells /\ \A c \in todo : c[1] \in 0..Width - 1 /\ c[2] \in 0..Width - 1
        /\ Width \in Nat /\ \A c, d \in todo : c[1] = d[1] /\ c[2] = d[2] => c = d
    <3>1. todo \subseteq Cells
          BY <1>1 DEF Bookkeeping, TypeOK
    <3> QED BY <3>1, WidthAssumption DEF Cells
  <2>2. IsFiniteSet(0..Width - 1)
    <3>1. 0 \in Int /\ Width - 1 \in Int
          BY <2>1
    <3> QED BY <3>1, FS_Interval
  <2> DEFINE Rows == {c[1] : c \in todo}
  <2>3. PICK x \in Rows : \A y \in Rows : x <= y
    <3>1. Rows \in SUBSET Int /\ Rows # {} /\ Rows \subseteq 0..Width - 1
          BY <1>1, <2>1
    <3>2. IsFiniteSet(Rows)
      <4> HIDE DEF Rows
      <4> QED BY <2>2, <3>1, FS_Subset
    <3> HIDE DEF Rows
    <3> QED BY <3>1, <3>2, Lowest
  <2> DEFINE Columns == {c[2] : c \in {b \in todo : b[1] = x}}
  <2>4. PICK y \in Columns : \A z \in Columns : y <= z
    <3>1. Columns \in SUBSET Int /\ Columns # {} /\ Columns \subseteq 0..Width - 1
          BY <2>1
    <3>2. IsFiniteSet(Columns)
      <4> HIDE DEF Columns
      <4> QED BY <2>2, <3>1, FS_Subset
    <3> HIDE DEF Columns
    <3> QED BY <3>1, <3>2, Lowest
  <2>5. PICK c \in todo : c[1] = x /\ c[2] = y
        OBVIOUS
  <2>6. ASSUME NEW b \in todo PROVE c[1] < b[1] \/ (c[1] = b[1] /\ c[2] <= b[2])
    <3>1. c[1] \in Int /\ b[1] \in Int /\ c[1] <= b[1]
          BY <2>1, <2>3, <2>5
    <3>2. b[1] = x => c[2] <= b[2]
          BY <2>4, <2>5
    <3> QED BY <2>5, <3>1, <3>2
  <2>7. ASSUME NEW d \in todo, IsNext(d) PROVE d = c
    <3>1. d[1] < c[1] \/ (d[1] = c[1] /\ d[2] <= c[2])
          BY <2>7 DEF IsNext
    <3>2. c[1] < d[1] \/ (c[1] = d[1] /\ c[2] <= d[2])
          BY <2>6
    <3>3. {c[1], c[2], d[1], d[2]} \subseteq Int
          BY <2>1
    <3>4. c[1] = d[1] /\ c[2] = d[2]
          BY <3>1, <3>2, <3>3
    <3> QED BY <2>1, <3>4
  <2> QED BY <2>6, <2>7 DEF IsNext
<1>2. Bookkeeping => (todo # {} => \E c \in todo : IsNext(c) /\ \A d \in todo : IsNext(d) => d = c)
      BY <1>1
<1> QED BY <1>2, BookkeepingInit, BookkeepingNext, PTL DEF Spec
=============================================================================
