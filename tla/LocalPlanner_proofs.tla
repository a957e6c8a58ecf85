------------------------ MODULE LocalPlanner_proofs ------------------------
(***************************************************************************)
(* Proofs about LocalPlanner, for every fan of paths, every finite clouds  *)
(* of obstacles and every value of the node's parameters.                  *)
(***************************************************************************)
EXTENDS LocalPlanner, Plane_proofs, FiniteSetTheorems, WellFoundedInduction, TLAPS

-----------------------------------------------------------------------------
(***************************************************************************)
(* Lemmas: the plane.                                                      *)
(***************************************************************************)

\* The frame of the vehicle: distances seen from it are distances in the map.
LEMMA VehicleFrame ==
    ASSUME NEW v \in PoseSet, NEW p \in PointSet
    PROVE  /\ Relative(p, v) \in PointSet
           /\ Dist(Relative(p, v)) = Apart(p, v)
           /\ [x |-> p.x - v.x, y |-> p.y - v.y] \in PointSet
<1> DEFINE r == [x |-> p.x - v.x, y |-> p.y - v.y]
<1>1. r \in PointSet /\ v.yaw \in Quarters
  BY DEF PointSet, PoseSet
<1>2. v.yaw \in Int
  BY <1>1 DEF Quarters
<1>3. Relative(p, v) = Turned(r, v.yaw)
  BY DEF Relative
<1>4. Dist(Turned(r, v.yaw)) = Dist(r)
  BY <1>1, Turning
<1> QED BY <1>1, <1>2, <1>3, <1>4, PlaneTypes DEF Apart

-----------------------------------------------------------------------------
(***************************************************************************)
(* Lemmas: numbers and weights.                                            *)
(***************************************************************************)

\* Each point of the boundary counts for pointPerPathThre others.
LEMMA WeightMonotonic ==
    ASSUME NEW s, NEW a, NEW b, NEW t \in SUBSET s, NEW c \in SUBSET a, NEW e \in SUBSET b,
           IsFiniteSet(s), IsFiniteSet(a), IsFiniteSet(b)
    PROVE  /\ Weight(s, a, b) \in Nat /\ Weight(t, c, e) \in Nat
           /\ Weight(t, c, e) <= Weight(s, a, b)
<1>1. /\ Cardinality(s) \in Nat /\ Cardinality(t) \in Nat /\ Cardinality(t) <= Cardinality(s)
      /\ Cardinality(a) \in Nat /\ Cardinality(c) \in Nat /\ Cardinality(c) <= Cardinality(a)
      /\ Cardinality(b) \in Nat /\ Cardinality(e) \in Nat /\ Cardinality(e) <= Cardinality(b)
  BY FS_Subset, FS_CardinalityType
<1>2. PointPerPathThre \in Nat
  BY NumbersAssumption
<1>3. /\ PointPerPathThre * Cardinality(e) <= PointPerPathThre * Cardinality(b)
      /\ PointPerPathThre * Cardinality(e) \in Nat /\ PointPerPathThre * Cardinality(b) \in Nat
  BY <1>1, <1>2, SMT
<1> QED BY <1>1, <1>3 DEF Weight

LEMMA NoWeight == Weight({}, {}, {}) = 0
<1>1. Cardinality({}) = 0
  BY FS_EmptySet
<1>2. PointPerPathThre \in Nat
  BY NumbersAssumption
<1> QED BY <1>1, <1>2, SMT DEF Weight

-----------------------------------------------------------------------------
(***************************************************************************)
(* The inductive invariant.  That only close obstacles stop the vehicle is *)
(* known one step early: when the range has been shrunk below the smallest *)
(* one, the range tried last was less than a step above it.                *)
(***************************************************************************)

\* Everything heard is finite.
FiniteInv == IsFiniteSet(cloud) /\ IsFiniteSet(addedObstacles) /\ IsFiniteSet(boundaryCloud)

\* The scale remembered by the search is the parameter.
DefaultKept == defPathScale = PathScale

EnoughCloseBy ==
    /\ checkObstacle
    /\ Weight(CloseBy(cloud), CloseBy(addedObstacles), CloseBy(boundaryCloud))
         >= PointPerPathThre

\* A search that is about to fail has close obstacles to show.
FailureExplained == searching /\ pathRange < MinPathRange => EnoughCloseBy

\* No path has been found while the search goes on.
NotYetFound == searching => ~pathFound

IInv == /\ TypeOK /\ FiniteInv /\ DefaultKept /\ ScaleRestored
        /\ IgnoredOnlyUnattended /\ FailureExplained /\ NotYetFound

\* The parameters, one by one.
LEMMA Numbers ==
    /\ SpeedUnit \in Nat \ {0} /\ StartSpeed \in 0..SpeedUnit /\ AdjacentRange \in Nat
    /\ MinPathRange \in Nat /\ GoalClearRange \in Nat /\ MinPathScale \in Nat \ {0}
    /\ PathScale \in Nat /\ PathScale >= MinPathScale /\ PathScaleStep \in Nat \ {0}
    /\ PathRangeStep \in Nat \ {0} /\ PointPerPathThre \in Nat \ {0}
    /\ JoyToSpeedDelay \in Nat /\ JoyToCheckObstacleDelay \in Nat
    /\ MaxDelay \in Nat /\ MaxDelay >= JoyToCheckObstacleDelay
    /\ StartAutonomy \in BOOLEAN /\ TwoWayDrive \in BOOLEAN
<1>1. MaxDelay \in Nat /\ MaxDelay >= JoyToCheckObstacleDelay
  BY NumbersAssumption DEF MaxDelay, Larger
<1> QED BY <1>1, NumbersAssumption, FlagsAssumption

\* Some quarter is within an eighth of any direction.
LEMMA SomeQuarter == \A h \in Headings : \E d \in Quarters : AngDiff(h - d) <= 1
<1> SUFFICES ASSUME NEW h \in Headings PROVE \E d \in Quarters : AngDiff(h - d) <= 1
  OBVIOUS
<1>1. h = -4 \/ h = -3 \/ h = -2 \/ h = -1 \/ h = 0 \/ h = 1 \/ h = 2 \/ h = 3 \/ h = 4
  BY DEF Headings
<1>2. PICK d \in Quarters : h - d = 0 \/ h - d = 1 \/ h - d = -1 \/ h - d = -8 \/ h - d = -7
  <2>1. h \in -1..1 => \E d \in Quarters : h - d = 0 \/ h - d = 1 \/ h - d = -1
    BY DEF Quarters
  <2>2. h \in 2..4 => \E d \in Quarters : h - d = 0 \/ h - d = 1 \/ h - d = -1
    BY DEF Quarters
  <2>3. h \in {-3, -2} => \E d \in Quarters : h - d = 0 \/ h - d = 1 \/ h - d = -1
    BY DEF Quarters
  <2>4. h = -4 => \E d \in Quarters : h - d = -8
    BY DEF Quarters
  <2> QED BY <1>1, <2>1, <2>2, <2>3, <2>4
<1>3. \A n \in Int : n = 0 \/ n = 1 \/ n = -1 \/ n = -8 \/ n = -7 => AngDiff(n) <= 1
  <2>1. \A n \in Int : Abs(n) \in Nat /\ (Abs(n) = n \/ Abs(n) + n = 0)
    BY DEF Abs
  <2> QED BY <2>1 DEF AngDiff
<1>4. h - d \in Int
  BY DEF Headings, Quarters
<1> QED BY <1>2, <1>3, <1>4

\* When no quarter can be selected, enough obstacles lie within the range.
LEMMA BlockedWithinRange ==
    ASSUME TypeOK, FiniteInv, Selectable = {}, pathRange <= MinPathRange + PathRangeStep
    PROVE  EnoughCloseBy
<1>1. joyDir \in Headings /\ pose \in PoseSet /\ pathRange \in Int
      /\ cloud \subseteq PointSet /\ addedObstacles \subseteq PointSet
      /\ boundaryCloud \subseteq PointSet
  BY DEF TypeOK
<1>2. PICK d \in Quarters : AngDiff(joyDir - d) <= 1
  BY <1>1, SomeQuarter
<1>3. 0 \in Ends /\ 1 <= DirThre /\ DirThre \in Int
  BY PathsAssumption
<1>4. AngDiff(joyDir - d) <= DirThre /\ AngDiff(joyDir - 0 - d) <= 1
  <2>1. joyDir - d \in Int /\ joyDir - 0 - d = joyDir - d
    BY <1>1 DEF Headings, Quarters
  <2>2. \A n \in Int : AngDiff(n) \in Int
    BY DEF AngDiff, Abs
  <2> QED BY <1>2, <1>3, <2>1, <2>2
<1>5. ~(ClearPathList(d, 0) < PointPerPathThre)
  BY <1>3, <1>4 DEF Selectable, Scoring
<1> DEFINE s == Blocking(cloud, d, 0)
           a == Blocking(addedObstacles, d, 0)
           b == Blocking(boundaryCloud, d, 0)
<1>6. ASSUME NEW ps \in SUBSET PointSet PROVE Blocking(ps, d, 0) \subseteq CloseBy(ps)
  <2> SUFFICES ASSUME NEW p \in Blocking(ps, d, 0) PROVE p \in CloseBy(ps)
    OBVIOUS
  <2>1. p \in ps /\ p \in PointSet /\ Dist(Relative(p, pose)) < pathRange
    BY <1>6 DEF Blocking, Considered
  <2>2. Dist(Relative(p, pose)) = Apart(p, pose) /\ Dist(Relative(p, pose)) \in Nat
    BY <1>1, <2>1, VehicleFrame, PlaneTypes
  <2>3. Apart(p, pose) < MinPathRange + PathRangeStep
    BY <1>1, <2>1, <2>2, Numbers
  <2> QED BY <2>1, <2>3 DEF CloseBy
<1>7. s \subseteq CloseBy(cloud) /\ a \subseteq CloseBy(addedObstacles)
      /\ b \subseteq CloseBy(boundaryCloud)
  BY <1>1, <1>6
<1>8. /\ IsFiniteSet(CloseBy(cloud)) /\ IsFiniteSet(CloseBy(addedObstacles))
      /\ IsFiniteSet(CloseBy(boundaryCloud))
  <2>1. CloseBy(cloud) \in SUBSET cloud /\ CloseBy(addedObstacles) \in SUBSET addedObstacles
        /\ CloseBy(boundaryCloud) \in SUBSET boundaryCloud
    BY DEF CloseBy
  <2> QED BY <2>1, FS_Subset DEF FiniteInv
<1>9. ClearPathList(d, 0) = Weight(s, a, b)
  BY DEF ClearPathList, Weight
<1>10. Weight(s, a, b) \in Nat
       /\ Weight(CloseBy(cloud), CloseBy(addedObstacles), CloseBy(boundaryCloud)) \in Nat
       /\ Weight(s, a, b)
            <= Weight(CloseBy(cloud), CloseBy(addedObstacles), CloseBy(boundaryCloud))
  BY <1>7, <1>8, WeightMonotonic
<1>11. checkObstacle
  <2> SUFFICES ASSUME ~checkObstacle PROVE FALSE
    OBVIOUS
  <2>1. s = {} /\ a = {} /\ b = {}
    BY DEF Blocking, Considered
  <2>2. Weight(s, a, b) = 0
    BY <2>1, NoWeight
  <2> QED BY <1>5, <1>9, <2>2, Numbers
<1> HIDE DEF s, a, b
<1> QED BY <1>5, <1>9, <1>10, <1>11, Numbers DEF EnoughCloseBy

-----------------------------------------------------------------------------
(***************************************************************************)
(* The actions.                                                            *)
(***************************************************************************)

LEMMA InitInv == Init => IInv
<1> SUFFICES ASSUME Init PROVE IInv
  OBVIOUS
<1>1. pose \in PoseSet /\ goal \in PointSet /\ Origin \in PointSet
  <2>1. 0 \in Quarters
    BY DEF Quarters
  <2> QED BY <2>1, MessagesAssumption DEF Init, PoseSet, PointSet, Origin
<1>2. path \in Seq(PointSet) /\ Len(path) > 0
  <2>1. path = <<Origin>>
    BY DEF Init
  <2> QED BY <1>1, <2>1
<1>3. /\ pathScale \in MinPathScale..PathScale /\ defPathScale \in MinPathScale..PathScale
      /\ joySpeed \in 0..SpeedUnit /\ joyAge \in 0..(MaxDelay + 1)
  BY Numbers DEF Init
<1>4. joyDir \in Headings /\ joySpeedRaw \in Nat /\ pathRange \in Int /\ relativeGoalDis \in Nat
  BY Numbers DEF Init, Headings
<1>5. TypeOK
  BY <1>1, <1>2, <1>3, <1>4, Numbers DEF Init, TypeOK
<1>6. FiniteInv
  BY FS_EmptySet DEF Init, FiniteInv
<1> QED BY <1>5, <1>6 DEF Init, IInv, DefaultKept, ScaleRestored, IgnoredOnlyUnattended,
                          FailureExplained, NotYetFound

\* The messages, and time: nothing the search is in the middle of changes.
LEMMA HandlersInv ==
    IInv /\ (OdometryHandler \/ TerrainCloudHandler \/ JoystickHandler \/ GoalHandler
             \/ SpeedHandler \/ BoundaryHandler \/ AddedObstaclesHandler
             \/ CheckObstacleHandler \/ Tick) => IInv'
<1> SUFFICES ASSUME IInv, OdometryHandler \/ TerrainCloudHandler \/ JoystickHandler
                          \/ GoalHandler \/ SpeedHandler \/ BoundaryHandler
                          \/ AddedObstaclesHandler \/ CheckObstacleHandler \/ Tick
             PROVE  IInv'
  OBVIOUS
<1>0. TypeOK /\ FiniteInv /\ DefaultKept /\ ScaleRestored /\ IgnoredOnlyUnattended
  BY DEF IInv
<1>1. ~searching /\ UNCHANGED planning
  BY DEF OdometryHandler, TerrainCloudHandler, JoystickHandler, GoalHandler, SpeedHandler,
         BoundaryHandler, AddedObstaclesHandler, CheckObstacleHandler, Tick
<1>2. DefaultKept' /\ ScaleRestored' /\ FailureExplained' /\ NotYetFound'
  BY <1>0, <1>1 DEF DefaultKept, ScaleRestored, FailureExplained, NotYetFound, planning, search
<1> USE <1>0, <1>1, <1>2
<1>3. CASE OdometryHandler
  <2>1. pose' \in PoseSet
    BY <1>3, MessagesAssumption DEF OdometryHandler
  <2> QED BY <1>3, <2>1 DEF OdometryHandler, TypeOK, FiniteInv, IgnoredOnlyUnattended, IInv,
                            heard, joy, planning, search
<1>4. CASE TerrainCloudHandler
  <2>1. cloud' \subseteq PointSet /\ IsFiniteSet(cloud')
    <3>1. PICK c \in Clouds : cloud' = {p \in c : Apart(p, pose) < AdjacentRange}
      BY <1>4 DEF TerrainCloudHandler
    <3>2. c \subseteq PointSet /\ IsFiniteSet(c) /\ cloud' \in SUBSET c
      BY <3>1, MessagesAssumption
    <3> QED BY <3>2, FS_Subset
  <2>2. newTerrainCloud' \in BOOLEAN
    BY <1>4 DEF TerrainCloudHandler
  <2> QED BY <1>4, <2>1, <2>2 DEF TerrainCloudHandler, TypeOK, FiniteInv,
                                  IgnoredOnlyUnattended, IInv, joy, planning, search
<1>5. CASE JoystickHandler
  <2>1. PICK m \in JoyMsgs :
          /\ joySpeedRaw' = RawSpeed(m)
          /\ joySpeed' = IF m.axis4 < 0 /\ ~TwoWayDrive THEN 0 ELSE JoySpeed(m)
          /\ joyDir' = IF JoySpeed(m) > 0 THEN JoyDir(m) ELSE joyDir
          /\ autonomyMode' = m.waypoint /\ checkObstacle' = ~m.ignore
          /\ ignoreButton' = m.ignore
    BY <1>5 DEF JoystickHandler
  <2>2. /\ m.axis3 \in Int /\ m.axis4 \in Int /\ m.waypoint \in BOOLEAN
        /\ m.ignore \in BOOLEAN
    BY MessagesAssumption DEF JoySet
  <2>3. RawSpeed(m) \in Nat
    BY <2>2 DEF RawSpeed, Larger, Abs
  <2>4. JoySpeed(m) \in 0..SpeedUnit
    BY <2>3, Numbers DEF JoySpeed, Smaller
  <2>5. joySpeed' \in 0..SpeedUnit
    BY <2>1, <2>4, Numbers
  <2>6. JoyDir(m) \in Headings
    <3>1. [x |-> m.axis4, y |-> m.axis3] \in PointSet
      BY <2>2 DEF PointSet
    <3>2. Bearing([x |-> m.axis4, y |-> m.axis3]) \in Headings
      BY <3>1, PlaneTypes
    <3>3. Sign(m.axis4) = 1 \/ Sign(m.axis4) = 0 \/ Sign(m.axis4) = -1
      BY DEF Sign
    <3>4. \A h \in Headings : 1 * h \in Headings /\ 0 * h \in Headings /\ (-1) * h \in Headings
      BY DEF Headings
    <3> QED BY <3>2, <3>3, <3>4 DEF JoyDir
  <2>7. joyDir' \in Headings
    BY <2>1, <2>6 DEF TypeOK
  <2>8. joyAge' \in 0..(MaxDelay + 1)
    BY <1>5, Numbers DEF JoystickHandler
  <2>9. IgnoredOnlyUnattended'
    BY <2>1, <2>2 DEF IgnoredOnlyUnattended
  <2>10. TypeOK'
    BY <1>5, <2>1, <2>2, <2>3, <2>5, <2>7, <2>8
       DEF JoystickHandler, TypeOK, heard, planning, search
  <2> QED BY <1>5, <2>9, <2>10 DEF JoystickHandler, FiniteInv, IInv, heard
<1>6. CASE GoalHandler
  <2>1. goal' \in PointSet
    BY <1>6, MessagesAssumption DEF GoalHandler
  <2> QED BY <1>6, <2>1 DEF GoalHandler, TypeOK, FiniteInv, IgnoredOnlyUnattended, IInv, joy,
                            planning, search
<1>7. CASE SpeedHandler
  <2>1. joySpeed' \in 0..SpeedUnit
    <3>1. PICK s \in SpeedMsgs : joySpeed' = Larger(0, Smaller(s, SpeedUnit))
      BY <1>7 DEF SpeedHandler
    <3>2. s \in Int
      BY MessagesAssumption
    <3> QED BY <3>1, <3>2, Numbers DEF Larger, Smaller
  <2>2. TypeOK' /\ FiniteInv' /\ IgnoredOnlyUnattended'
    BY <1>7, <2>1 DEF SpeedHandler, TypeOK, FiniteInv, IgnoredOnlyUnattended, heard, planning,
                      search
  <2> QED BY <2>2 DEF IInv
<1>8. CASE BoundaryHandler
  <2>1. boundaryCloud' \subseteq PointSet /\ IsFiniteSet(boundaryCloud')
    BY <1>8, MessagesAssumption DEF BoundaryHandler
  <2> QED BY <1>8, <2>1 DEF BoundaryHandler, TypeOK, FiniteInv, IgnoredOnlyUnattended, IInv,
                            joy, planning, search
<1>9. CASE AddedObstaclesHandler
  <2>1. addedObstacles' \subseteq PointSet /\ IsFiniteSet(addedObstacles')
    BY <1>9, MessagesAssumption DEF AddedObstaclesHandler
  <2> QED BY <1>9, <2>1 DEF AddedObstaclesHandler, TypeOK, FiniteInv, IgnoredOnlyUnattended,
                            IInv, joy, planning, search
<1>10. CASE CheckObstacleHandler
  <2>1. checkObstacle' \in BOOLEAN /\ autonomyMode' = autonomyMode /\ autonomyMode
        /\ joyAge' = joyAge /\ joyAge > JoyToCheckObstacleDelay
    BY <1>10 DEF CheckObstacleHandler
  <2>2. TypeOK' /\ FiniteInv' /\ IgnoredOnlyUnattended'
    BY <1>10, <2>1 DEF CheckObstacleHandler, TypeOK, FiniteInv, IgnoredOnlyUnattended, heard,
                       planning, search
  <2> QED BY <2>2 DEF IInv
<1>11. CASE Tick
  <2>1. joyAge \in 0..(MaxDelay + 1) /\ joyAge' = Older(joyAge, MaxDelay)
    BY <1>11 DEF Tick, TypeOK
  <2>2. joyAge' \in 0..(MaxDelay + 1) /\ joyAge' >= joyAge
    BY <2>1, Numbers DEF Older
  <2>3. joyAge > JoyToCheckObstacleDelay => joyAge' > JoyToCheckObstacleDelay
    BY <2>1, <2>2, Numbers
  <2>4. IgnoredOnlyUnattended'
    BY <1>11, <2>3 DEF Tick, IgnoredOnlyUnattended
  <2>5. TypeOK'
    BY <1>11, <2>2 DEF Tick, TypeOK, heard, planning, search
  <2> QED BY <1>11, <2>4, <2>5 DEF Tick, FiniteInv, IInv, heard
<1> QED BY <1>3, <1>4, <1>5, <1>6, <1>7, <1>8, <1>9, <1>10, <1>11

\* The search begins with at least the smallest range.
LEMMA BeginInv == IInv /\ BeginPlanning => IInv'
<1> SUFFICES ASSUME IInv, BeginPlanning PROVE IInv'
  OBVIOUS
<1>0. TypeOK /\ FiniteInv /\ DefaultKept /\ ScaleRestored /\ IgnoredOnlyUnattended
  BY DEF IInv
<1>1. joySpeed \in Nat /\ joySpeed <= SpeedUnit /\ pathScale = PathScale
  <2>1. joySpeed \in 0..SpeedUnit
    BY <1>0 DEF TypeOK
  <2> QED BY <1>0, <2>1, Numbers DEF BeginPlanning, ScaleRestored
<1>2. \A n \in Nat : SpeedPart(n) \in 0..n
  BY <1>1, PartBound, Numbers DEF SpeedPart
<1>3. pathRange' \in Int /\ pathRange' >= MinPathRange
  <2>1. PICK r \in {SpeedPart(AdjacentRange), AdjacentRange} : pathRange' = Larger(MinPathRange, r)
    BY DEF BeginPlanning
  <2>2. r \in Int
    BY <1>2, <2>1, Numbers
  <2> QED BY <2>1, <2>2, Numbers DEF Larger
<1>4. pathScale' \in MinPathScale..PathScale
  <2>1. PICK r \in {SpeedPart(pathScale), pathScale} : pathScale' = Larger(MinPathScale, r)
    BY DEF BeginPlanning
  <2>2. r \in 0..PathScale
    BY <1>1, <1>2, <2>1, Numbers
  <2> QED BY <2>1, <2>2, Numbers DEF Larger
<1>5. relativeGoalDis' \in Nat /\ joyDir' \in Headings
  <2>1. RelativeGoal \in PointSet
    BY <1>0, VehicleFrame DEF RelativeGoal, TypeOK
  <2>2. Dist(RelativeGoal) \in Nat /\ Bearing(RelativeGoal) \in Headings
    BY <2>1, PlaneTypes
  <2>3. GoalDir \in Headings
    BY <2>2 DEF GoalDir, Headings, Larger, Smaller
  <2>4. CASE autonomyMode
    BY <2>2, <2>3, <2>4 DEF BeginPlanning
  <2>5. CASE ~autonomyMode
    BY <1>0, <2>5, Numbers DEF BeginPlanning, TypeOK
  <2> QED BY <2>4, <2>5
<1>6. searching' = TRUE /\ newTerrainCloud' = FALSE /\ pathFound' = FALSE
      /\ defPathScale' = pathScale
      /\ UNCHANGED <<pose, heard, joySpeed, joySpeedRaw, autonomyMode, checkObstacle, joyAge,
                     ignoreButton, path>>
  BY DEF BeginPlanning
<1>7. TypeOK'
  <2>1. PathScale \in MinPathScale..PathScale
    BY Numbers
  <2> QED BY <1>0, <1>1, <1>3, <1>4, <1>5, <1>6, <2>1 DEF TypeOK, heard
<1>8. FailureExplained'
  BY <1>3, Numbers DEF FailureExplained
<1> QED BY <1>0, <1>1, <1>6, <1>7, <1>8
        DEF IInv, FiniteInv, DefaultKept, ScaleRestored, IgnoredOnlyUnattended, NotYetFound, heard

\* A smaller scale still reaches the smallest range.
LEMMA ShrunkInReach ==
    ASSUME IInv, SearchShrink, pathScale >= MinPathScale + PathScaleStep
    PROVE  pathRange' \in Int /\ pathRange' >= MinPathRange
<1>1. pathScale \in MinPathScale..PathScale /\ defPathScale = PathScale
  BY DEF IInv, TypeOK, DefaultKept
<1>2. pathScale' = pathScale - PathScaleStep
      /\ pathRange' = (AdjacentRange * pathScale') \div defPathScale
  BY DEF SearchShrink
<1>3. pathScale' \in Nat /\ pathScale' >= MinPathScale
  BY <1>1, <1>2, Numbers
<1> DEFINE u == AdjacentRange * pathScale'
           v == AdjacentRange * MinPathScale
           w == MinPathRange * PathScale
<1>4. u >= v /\ u \in Nat
  BY <1>3, Numbers, ProductMonotonic
<1>5. v \in Nat /\ w \in Nat
  BY Numbers, SMT
<1>6. v >= w
  BY ReachAssumption
<1>7. u >= w
  <2> HIDE DEF u, v, w
  <2> QED BY <1>4, <1>5, <1>6
<1>8. PathScale \in Nat \ {0} /\ MinPathRange \in Nat
  BY Numbers
<1>9. u \div PathScale \in Int /\ u \div PathScale >= MinPathRange
  <2> HIDE DEF u
  <2> QED BY <1>4, <1>7, <1>8, QuotientBound DEF w
<1> QED BY <1>1, <1>2, <1>9

\* A step of the search.
LEMMA ShrinkInv == IInv /\ SearchShrink => IInv'
<1> SUFFICES ASSUME IInv, SearchShrink PROVE IInv'
  OBVIOUS
<1>0. TypeOK /\ FiniteInv /\ DefaultKept /\ IgnoredOnlyUnattended
  BY DEF IInv
<1>1. /\ searching /\ pathRange >= MinPathRange /\ Selectable = {}
      /\ UNCHANGED <<pose, heard, newTerrainCloud, joy, defPathScale, relativeGoalDis,
                     searching, pathFound, path>>
  BY DEF SearchShrink, Searchable
<1>2. pathScale \in MinPathScale..PathScale /\ pathRange \in Int /\ defPathScale = PathScale
  BY <1>0 DEF TypeOK, DefaultKept
<1>3. EnoughCloseBy => EnoughCloseBy'
  BY <1>1 DEF EnoughCloseBy, CloseBy, Weight, heard, joy
<1>4. CASE pathScale >= MinPathScale + PathScaleStep
  <2>1. pathScale' = pathScale - PathScaleStep
        /\ pathRange' = (AdjacentRange * pathScale') \div defPathScale
    BY <1>4 DEF SearchShrink
  <2>2. pathScale' \in MinPathScale..PathScale /\ pathScale' \in Nat
        /\ pathScale' >= MinPathScale
    BY <1>2, <1>4, <2>1, Numbers
  <2>5. pathRange' \in Int /\ pathRange' >= MinPathRange
    BY <1>4, ShrunkInReach
  <2>6. TypeOK'
    BY <1>0, <1>1, <2>2, <2>5 DEF TypeOK, heard, joy
  <2>7. FailureExplained'
    BY <2>5, Numbers DEF FailureExplained
  <2> QED BY <1>0, <1>1, <2>6, <2>7
          DEF IInv, FiniteInv, DefaultKept, ScaleRestored, IgnoredOnlyUnattended, NotYetFound,
              heard, joy
<1>5. CASE ~(pathScale >= MinPathScale + PathScaleStep)
  <2>1. pathScale' = pathScale /\ pathRange' = pathRange - PathRangeStep
    BY <1>5 DEF SearchShrink
  <2>2. TypeOK'
    <3>1. pathRange' \in Int
      BY <1>2, <2>1, Numbers
    <3> QED BY <1>0, <1>1, <2>1, <3>1 DEF TypeOK, heard, joy
  <2>3. FailureExplained'
    <3> SUFFICES ASSUME pathRange' < MinPathRange PROVE EnoughCloseBy'
      BY DEF FailureExplained
    <3>1. pathRange <= MinPathRange + PathRangeStep
      BY <1>2, <2>1, Numbers
    <3> QED BY <1>0, <1>1, <1>3, <3>1, BlockedWithinRange
  <2> QED BY <1>0, <1>1, <2>2, <2>3
          DEF IInv, FiniteInv, DefaultKept, ScaleRestored, IgnoredOnlyUnattended, NotYetFound,
              heard, joy
<1> QED BY <1>4, <1>5

\* The two ends of the search.
LEMMA EndInv == IInv /\ (SearchFound \/ SearchFail) => IInv'
<1> SUFFICES ASSUME IInv, SearchFound \/ SearchFail PROVE IInv'
  OBVIOUS
<1>0. TypeOK /\ FiniteInv /\ DefaultKept /\ IgnoredOnlyUnattended
  BY DEF IInv
<1>1. /\ searching' = FALSE /\ pathScale' = defPathScale
      /\ UNCHANGED <<pose, heard, newTerrainCloud, joy, defPathScale, pathRange,
                     relativeGoalDis>>
  BY DEF SearchFound, SearchFail
<1>2. path' \in Seq(PointSet) /\ Len(path') > 0
  <2>1. CASE SearchFail
    <3>1. path' = <<Origin>> /\ Origin \in PointSet
      BY <2>1 DEF SearchFail, Origin, PointSet
    <3> QED BY <3>1
  <2>2. CASE SearchFound
    <3>1. PICK d \in Selectable, n \in 1..Len(StartPath) : path' = StartPathOf(d, n)
      BY <2>2 DEF SearchFound
    <3>2. d \in Int /\ -d \in Int /\ pathScale \in Int
      <4>1. pathScale \in MinPathScale..PathScale /\ d \in Quarters
        BY <1>0 DEF TypeOK, Selectable
      <4> QED BY <4>1, Numbers DEF Quarters
    <3>3. n \in Nat /\ n >= 1 /\ \A i \in 1..n : StartPath[i] \in PointSet
      BY PathsAssumption
    <3>4. \A i \in 1..n : Turned(Scaled(pathScale, StartPath[i]), -d) \in PointSet
      BY <3>2, <3>3, PlaneTypes
    <3> QED BY <3>1, <3>3, <3>4 DEF StartPathOf
  <2> QED BY <2>1, <2>2
<1>3. pathFound' \in BOOLEAN
  BY <1>0 DEF SearchFound, SearchFail, TypeOK
<1>4. TypeOK'
  BY <1>0, <1>1, <1>2, <1>3 DEF TypeOK, heard, joy
<1> QED BY <1>0, <1>1, <1>4
        DEF IInv, FiniteInv, DefaultKept, ScaleRestored, IgnoredOnlyUnattended,
            FailureExplained, NotYetFound, heard, joy

LEMMA StutterInv == IInv /\ UNCHANGED vars => IInv'
<1> SUFFICES ASSUME IInv, UNCHANGED vars PROVE IInv'
  OBVIOUS
<1>1. TypeOK'
  BY DEF IInv, TypeOK, vars, heard, joy, planning, search
<1> QED BY <1>1 DEF IInv, FiniteInv, DefaultKept, ScaleRestored, IgnoredOnlyUnattended,
                    FailureExplained, NotYetFound, EnoughCloseBy, CloseBy, Weight, vars, heard, joy, planning,
                    search

-----------------------------------------------------------------------------
(***************************************************************************)
(* The theorems.                                                           *)
(***************************************************************************)

\* The invariant holds in every reachable state.
THEOREM Inductive == Spec => []IInv
<1>1. IInv /\ [Next]_vars => IInv'
  BY HandlersInv, BeginInv, ShrinkInv, EndInv, StutterInv DEF Next
<1> QED BY <1>1, InitInv, PTL DEF Spec

\* The node's variables keep their types.
THEOREM TypeCorrect == Spec => []TypeOK
<1>1. IInv => TypeOK
  BY DEF IInv
<1> QED BY <1>1, Inductive, PTL

\* The scale of the paths is the parameter again after every search.
THEOREM ScaleAlwaysRestored == Spec => []ScaleRestored
<1>1. IInv => ScaleRestored
  BY DEF IInv
<1> QED BY <1>1, Inductive, PTL

\* Obstacles are ignored only at the operator's button or in unattended waypoint mode.
THEOREM AlwaysIgnoredOnlyUnattended == Spec => []IgnoredOnlyUnattended
<1>1. IInv => IgnoredOnlyUnattended
  BY DEF IInv
<1> QED BY <1>1, Inductive, PTL

\* A search that finds no path does so because of obstacles close to the vehicle.
THEOREM AlwaysStopsForCloseObstacles == Spec => StopsForCloseObstacles
<1>1. IInv /\ [Next]_vars => (searching /\ ~searching' /\ ~pathFound' => EnoughCloseBy)
  <2> SUFFICES ASSUME IInv, [Next]_vars, searching, ~searching', ~pathFound'
               PROVE  EnoughCloseBy
    OBVIOUS
  <2>1. SearchFail
    BY DEF Next, OdometryHandler, TerrainCloudHandler, JoystickHandler, GoalHandler,
           SpeedHandler, BoundaryHandler, AddedObstaclesHandler, CheckObstacleHandler, Tick,
           BeginPlanning, SearchFound, SearchShrink, vars, planning
  <2>2. pathScale >= MinPathScale /\ pathRange \in Int
    <3>1. pathScale \in MinPathScale..PathScale /\ pathRange \in Int
      BY DEF IInv, TypeOK
    <3> QED BY <3>1, Numbers
  <2>3. pathRange < MinPathRange
    BY <2>1, <2>2, Numbers DEF SearchFail, Searchable
  <2> QED BY <2>3 DEF IInv, FailureExplained
<1>2. IInv /\ [Next]_vars
        => [searching /\ ~searching' /\ ~pathFound'
              => /\ checkObstacle
                 /\ Weight(CloseBy(cloud), CloseBy(addedObstacles), CloseBy(boundaryCloud))
                      >= PointPerPathThre]_vars
  BY <1>1 DEF EnoughCloseBy
<1> QED BY <1>2, Inductive, PTL DEF Spec, StopsForCloseObstacles

\* What touches a published point, in the map, blocks the path of its quarter.
LEMMA TouchingBlocks ==
    ASSUME TypeOK, NEW d \in Quarters, NEW e \in Ends, NEW i \in 1..Len(StartPath),
           NEW ps \in SUBSET PointSet
    PROVE  Touching(ps, d, Turned(Scaled(pathScale, StartPath[i]), -d)) \subseteq Blocking(ps, d, e)
<1> DEFINE c == Scaled(pathScale, StartPath[i])
           q == Turned(c, -d)
<1> SUFFICES ASSUME NEW p \in Touching(ps, d, q) PROVE p \in Blocking(ps, d, e)
  OBVIOUS
<1>1. pose \in PoseSet /\ pose.yaw \in Quarters /\ pathScale \in Int /\ pathRange \in Int
  BY Numbers DEF TypeOK, PoseSet
<1>2. StartPath[i] \in PointSet /\ StartPath[i] \in InPath(e)
  BY PathsAssumption DEF InPath
<1>3. c \in PointSet /\ q \in PointSet
  <2>1. -d \in Int
    BY DEF Quarters
  <2> QED BY <1>1, <1>2, <2>1, PlaneTypes
<1>4. p \in ps /\ p \in PointSet /\ Apart(p, pose) < AdjacentRange
      /\ Apart(p, Placed(q)) <= pathScale * SearchRadius
      /\ Considered([x |-> p.x - pose.x, y |-> p.y - pose.y])
      /\ InGrid(Turned(Relative(p, pose), d))
  BY DEF Touching
<1> DEFINE r == [x |-> p.x - pose.x, y |-> p.y - pose.y]
           t == Turned(q, -pose.yaw)
           u == Relative(p, pose)
<1>5. r \in PointSet /\ u \in PointSet /\ t \in PointSet /\ u = Turned(r, pose.yaw)
      /\ Dist(u) = Apart(p, pose) /\ Dist(r) = Apart(p, pose)
  <2>1. -pose.yaw \in Int
    BY <1>1 DEF Quarters
  <2> QED BY <1>1, <1>3, <1>4, <2>1, VehicleFrame, PlaneTypes DEF Relative, Apart
<1>6. Apart(p, Placed(q)) = Apart(r, t)
  <2>1. t.x \in Int /\ t.y \in Int /\ p.x \in Int /\ p.y \in Int /\ pose.x \in Int /\ pose.y \in Int
    BY <1>1, <1>4, <1>5 DEF PointSet, PoseSet
  <2>2. p.x - (pose.x + t.x) = (p.x - pose.x) - t.x /\ p.y - (pose.y + t.y) = (p.y - pose.y) - t.y
    BY <2>1
  <2>3. Placed(q) = [x |-> pose.x + t.x, y |-> pose.y + t.y]
    BY DEF Placed
  <2> HIDE DEF t
  <2> QED BY <2>2, <2>3 DEF Apart
<1>7. Apart(u, q) = Apart(r, t)
  <2>1. Turned(t, pose.yaw) = q
    BY <1>1, <1>3, Turning
  <2>2. Apart(Turned(r, pose.yaw), Turned(t, pose.yaw)) = Apart(r, t)
    BY <1>1, <1>5, Turning
  <2> QED BY <1>5, <2>1, <2>2
<1>8. Apart(Turned(u, d), c) = Apart(u, q)
  <2>1. Turned(q, d) = c
    BY <1>3, Turning
  <2>2. Apart(Turned(u, d), Turned(q, d)) = Apart(u, q)
    BY <1>3, <1>5, Turning
  <2> QED BY <2>1, <2>2
<1>9. Considered(u)
  BY <1>4, <1>5 DEF Considered
<1>10. InTheWay(u, d, e)
  BY <1>2, <1>4, <1>6, <1>7, <1>8 DEF InTheWay
<1> QED BY <1>4, <1>5, <1>9, <1>10 DEF Blocking

\* A published path is clear, in the map, of what the search looked at ahead of it.
THEOREM PathAlwaysClear == Spec => PathIsClear
<1> DEFINE ClearOf(d, i) ==
              Weight(Touching(cloud, d, path'[i]), Touching(addedObstacles, d, path'[i]),
                     Touching(boundaryCloud, d, path'[i])) < PointPerPathThre
           Clear == \E d \in Quarters : /\ path' = StartPathOf(d, Len(path'))
                                        /\ \A i \in 1..Len(path') : ClearOf(d, i)
<1>1. IInv /\ [Next]_vars => (searching /\ pathFound' => Clear)
  <2> SUFFICES ASSUME IInv, [Next]_vars, searching, pathFound' PROVE Clear
    OBVIOUS
  <2>0. TypeOK /\ FiniteInv /\ cloud \subseteq PointSet /\ addedObstacles \subseteq PointSet
        /\ boundaryCloud \subseteq PointSet
    BY DEF IInv, TypeOK
  <2>1. SearchFound
    BY DEF IInv, NotYetFound, Next, OdometryHandler, TerrainCloudHandler, JoystickHandler,
           GoalHandler, SpeedHandler, BoundaryHandler, AddedObstaclesHandler,
           CheckObstacleHandler, Tick, BeginPlanning, SearchFail, SearchShrink, vars, planning
  <2>2. PICK d \in Selectable, n \in 1..Len(StartPath) : path' = StartPathOf(d, n)
    BY <2>1 DEF SearchFound
  <2>3. d \in Quarters /\ n \in Nat /\ Len(StartPath) \in Nat
    BY PathsAssumption DEF Selectable
  <2>4. PICK e \in Ends : ClearPathList(d, e) < PointPerPathThre
    BY DEF Selectable, Scoring
  <2>5. Len(path') = n
    BY <2>2, <2>3 DEF StartPathOf
  <2> SUFFICES ASSUME NEW i \in 1..Len(path') PROVE ClearOf(d, i)
    BY <2>2, <2>3, <2>5
  <2>6. i \in 1..Len(StartPath) /\ path'[i] = Turned(Scaled(pathScale, StartPath[i]), -d)
    <3>1. i \in 1..n
      BY <2>5
    <3> QED BY <2>2, <2>3, <3>1 DEF StartPathOf
  <2> DEFINE s == Blocking(cloud, d, e)
             a == Blocking(addedObstacles, d, e)
             b == Blocking(boundaryCloud, d, e)
  <2>7. s \in SUBSET cloud /\ a \in SUBSET addedObstacles /\ b \in SUBSET boundaryCloud
    BY DEF Blocking
  <2>8. IsFiniteSet(s) /\ IsFiniteSet(a) /\ IsFiniteSet(b)
    BY <2>0, <2>7, FS_Subset DEF FiniteInv
  <2>9. /\ Touching(cloud, d, path'[i]) \in SUBSET s
        /\ Touching(addedObstacles, d, path'[i]) \in SUBSET a
        /\ Touching(boundaryCloud, d, path'[i]) \in SUBSET b
    BY <2>0, <2>3, <2>6, TouchingBlocks
  <2>10. ClearPathList(d, e) = Weight(s, a, b)
    BY DEF ClearPathList, Weight
  <2> HIDE DEF s, a, b
  <2> QED BY <2>4, <2>8, <2>9, <2>10, WeightMonotonic, Numbers
<1>2. IInv /\ [Next]_vars => [searching /\ pathFound' => Clear]_vars
  BY <1>1
<1> QED BY <1>2, Inductive, PTL DEF Spec, PathIsClear
-----------------------------------------------------------------------------
(***************************************************************************)
(* The search goes on, and not for ever.                                   *)
(***************************************************************************)
\* While a search goes on without a path, each round looks at smaller paths, or at paths of
\* the same scale and a smaller range, and neither falls further than one step below what the
\* search ends at: what the loop condition of the search (pathScale >= minPathScale &&
\* pathRange >= minPathRange) needs to end it.
THEOREM SearchAlwaysShrinks ==
    Spec => [][searching /\ searching' =>
                 /\ \/ pathScale' < pathScale
                    \/ pathScale' = pathScale /\ pathRange' < pathRange
                 /\ pathScale' >= MinPathScale /\ pathRange' >= MinPathRange - PathRangeStep]_vars
<1> DEFINE Lower == /\ \/ pathScale' < pathScale
                       \/ pathScale' = pathScale /\ pathRange' < pathRange
                    /\ pathScale' >= MinPathScale /\ pathRange' >= MinPathRange - PathRangeStep
<1>1. IInv /\ [Next]_vars => [searching /\ searching' => Lower]_vars
  <2> SUFFICES ASSUME IInv, Next, searching, searching' PROVE Lower
    OBVIOUS
  <2>1. SearchShrink
    BY DEF Next, OdometryHandler, TerrainCloudHandler, JoystickHandler, GoalHandler, SpeedHandler,
       BoundaryHandler, AddedObstaclesHandler, CheckObstacleHandler, Tick, BeginPlanning, SearchFound,
       SearchFail
  <2>2. /\ pathScale \in MinPathScale..PathScale /\ pathRange \in Int /\ defPathScale = PathScale
        /\ pathRange >= MinPathRange
    BY <2>1 DEF IInv, TypeOK, DefaultKept, SearchShrink, Searchable
  <2>3. CASE pathScale >= MinPathScale + PathScaleStep
    <3>1. pathScale' = pathScale - PathScaleStep
      BY <2>1, <2>3 DEF SearchShrink
    <3>2. pathScale' < pathScale /\ pathScale' >= MinPathScale
      BY <2>2, <2>3, <3>1, Numbers
    <3>3. pathRange' >= MinPathRange - PathRangeStep
      <4>1. pathRange' \in Int /\ pathRange' >= MinPathRange
        BY <2>1, <2>3, ShrunkInReach
      <4> QED BY <4>1, Numbers
    <3> QED BY <3>2, <3>3
  <2>4. CASE ~(pathScale >= MinPathScale + PathScaleStep)
    <3>1. pathScale' = pathScale /\ pathRange' = pathRange - PathRangeStep
      BY <2>1, <2>4 DEF SearchShrink
    <3> QED BY <2>2, <3>1, Numbers
  <2> QED BY <2>3, <2>4
<1> QED BY <1>1, Inductive, PTL DEF Spec

\* A set of positions has a first one.
LEMMA FirstPosition == ASSUME NEW S, S \subseteq Nat, S # {} PROVE \E m \in S : \A n \in S : m <= n
<1> DEFINE R == OpToRel(<, Nat)
<1>1. \A p, q \in Nat : p < q => <<p, q>> \in R
  BY DEF OpToRel
<1>2. IsWellFoundedOn(R, Nat)
  BY NatLessThanWellFounded
<1> HIDE DEF R
<1>3. PICK m \in S : \A n \in S : ~(<<n, m>> \in R)
  BY <1>2, WFMin
<1>4. ASSUME NEW n \in S PROVE m <= n
  <2>1. m \in Nat /\ n \in Nat
    OBVIOUS
  <2>2. ~(n < m)
    BY <1>1, <1>3, <2>1
  <2> QED BY <2>1, <2>2
<1> QED BY <1>4

\* A clear quarter always has a path to publish: the start path begins under the vehicle, so
\* the loop over its points never cuts the path down to none.
THEOREM StartAlwaysWithinReach ==
    Spec => [](searching /\ Searchable => \E n \in 1..Len(StartPath) : Reached(n))
<1>1. ASSUME IInv, Searchable PROVE \E n \in 1..Len(StartPath) : Reached(n)
  <2> DEFINE Out == {i \in 1..Len(StartPath) : ~WithinReach(StartPath[i])}
  <2>0. Len(StartPath) \in Nat /\ Len(StartPath) > 0
    BY PathsAssumption
  <2>1. CASE Out = {}
    <3>1. \A i \in 1..Len(StartPath) : WithinReach(StartPath[i])
      BY <2>1
    <3> QED BY <2>0, <3>1 DEF Reached
  <2>2. CASE Out # {}
    <3>1. Out \subseteq Nat
      BY <2>0
    <3>2. PICK m \in Out : \A i \in Out : m <= i
      <4> HIDE DEF Out
      <4> QED BY <2>2, <3>1, FirstPosition
    <3>3. WithinReach(StartPath[1])
      <4>1. Dist(StartPath[1]) = 0
        BY PathsAssumption DEF Dist, Larger, Abs
      <4>2. pathScale \in Int /\ pathRange >= 0 /\ relativeGoalDis >= 0
        BY <1>1, Numbers DEF IInv, TypeOK, Searchable
      <4> QED BY <4>1, <4>2 DEF WithinReach
    <3>4. m \in 2..Len(StartPath) /\ ~WithinReach(StartPath[m])
      BY <2>0, <3>2, <3>3
    <3>5. \A i \in 1..m - 1 : WithinReach(StartPath[i])
      BY <2>0, <3>2, <3>4
    <3>6. m - 1 \in 1..Len(StartPath) /\ (m - 1) + 1 = m
      BY <2>0, <3>4
    <3> HIDE DEF Out
    <3> QED BY <3>4, <3>5, <3>6 DEF Reached
  <2> QED BY <2>1, <2>2
<1>2. IInv => (searching /\ Searchable => \E n \in 1..Len(StartPath) : Reached(n))
  BY <1>1
<1> QED BY <1>2, Inductive, PTL
=============================================================================
