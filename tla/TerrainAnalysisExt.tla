------------------------ MODULE TerrainAnalysisExt --------------------------
(***************************************************************************)
(* The extended terrain map (terrainAnalysisExt.cpp): from the points kept *)
(* in the rolling voxels to elevations, traversable transitions, ground    *)
(* connected with the vehicle's, and the map that is published.            *)
(*                                                                         *)
(* The planar grid is centred on the vehicle, whose height is 0.  What the *)
(* voxels hold when a scan is processed is a choice (Clouds): a set of     *)
(* points with the cell they are over, the grid's or one next to it, and   *)
(* their height.  The breadth-first search is one step for each cell taken *)
(* from the queue and one for each neighbour that is still open.           *)
(***************************************************************************)
EXTENDS TraversableTerrain, Sequences

CONSTANTS
    Clouds,         \* what the voxels may hold
    LocalMaps,      \* maps terrain_analysis may publish
    Tuning,         \* the record of traversable_terrain.hpp
    QuantileZ,      \* quantileZ in percent, 0 without useSorting
    Reach,          \* how many cells the search looks ahead, 10 in the code
    TerrainUnderVehicle, TerrainConnThre, CeilingFilteringThre,
    LocalRadius     \* localTerrainMapRadius, in cells

Positions == (-1..Width) \X (-1..Width)
MapPoints == [at : Positions, z : Int, intensity : Int]

ASSUME TerrainAssumption ==
    /\ Width > 0 /\ Tuning \in Tunings
    /\ Clouds \subseteq [Positions -> SUBSET Int] /\ LocalMaps \subseteq SUBSET MapPoints
    /\ \A K \in Clouds, a \in Positions : IsFiniteSet(K[a])
    /\ QuantileZ \in 0..100 /\ Reach \in Nat /\ LocalRadius \in Nat
    /\ TerrainUnderVehicle \in Int
    /\ TerrainConnThre \in Nat /\ CeilingFilteringThre \in Nat

VARIABLES
    stairEnable, checkTerrainConn,      \* parameters of these names, read at start
    newlaserCloud,                      \* a scan has come since the last turn of the loop
    terrainCloudLocal,                  \* the newest map of terrain_analysis
    phase,                              \* "idle": callbacks run; "detect", "search": the loop's body
    terrainCloud,                       \* the points it works on
    planarVoxelElev,                    \* each cell's elevation
    planarSupportCell, planarTransitionCell,
    planarVoxelConn,                    \* 0 open, 1 queued, 2 ground, -1 ceiling
    planarVoxelQueue,
    todo,                               \* neighbours of the newest ground cell to look at
    terrainMap,                         \* the map on its way to the planners
    visited                             \* history: the ground cells in the order they were found

params == <<stairEnable, checkTerrainConn>>
inputs == <<newlaserCloud, terrainCloudLocal>>
estimate == <<terrainCloud, planarVoxelElev, planarSupportCell, planarTransitionCell>>
search == <<planarVoxelConn, planarVoxelQueue, todo, visited>>
vars == <<params, inputs, estimate, search, phase, terrainMap>>

Centre == <<Width \div 2, Width \div 2>>

Near(a, b, r) == Abs(a[1] - b[1]) <= r /\ Abs(a[2] - b[2]) <= r

\* planarPointElev: a point counts for the cell it is over and for those around it.
Over(K, c) == UNION {{[at |-> a, z |-> h] : h \in K[a]} :
                        a \in (c[1] - 1..c[1] + 1) \X (c[2] - 1..c[2] + 1)}

Occupied(c) == Over(terrainCloud, c) # {}

\* The elevation of a cell is the height with a share QuantileZ of its points before it.
Elevation(points) ==
    LET id == Least((QuantileZ * Cardinality(points)) \div 100, Cardinality(points) - 1)
    IN IF points = {} THEN 0
       ELSE CHOOSE h \in {q.z : q \in points} :
                /\ Cardinality({q \in points : q.z < h}) <= id
                /\ Cardinality({q \in points : q.z <= h}) > id

Init ==
    /\ stairEnable \in BOOLEAN /\ checkTerrainConn \in BOOLEAN
    /\ newlaserCloud = FALSE /\ terrainCloudLocal = {}
    /\ phase = "idle" /\ terrainCloud = [a \in Positions |-> {}]
    /\ planarVoxelElev = [c \in Cells |-> 0]
    /\ planarSupportCell = {} /\ planarTransitionCell = {}
    /\ planarVoxelConn = [c \in Cells |-> 0] /\ planarVoxelQueue = <<>>
    /\ todo = {} /\ terrainMap = {} /\ visited = <<>>

-----------------------------------------------------------------------------
LaserCloudHandler ==
    /\ phase = "idle"
    /\ newlaserCloud' = TRUE
    /\ UNCHANGED <<params, terrainCloudLocal, estimate, search, phase, terrainMap>>

TerrainCloudLocalHandler ==
    /\ phase = "idle"
    /\ terrainCloudLocal' \in LocalMaps
    /\ UNCHANGED <<params, newlaserCloud, estimate, search, phase, terrainMap>>

-----------------------------------------------------------------------------
\* Slip: the marks of the scan before are kept.
EstimateGroundKeepsMarks ==
    /\ phase = "idle" /\ newlaserCloud
    /\ terrainCloud' \in Clouds
    /\ planarVoxelElev' = [c \in Cells |-> Elevation(Over(terrainCloud', c))]
    /\ planarSupportCell' = {} /\ planarTransitionCell' = {}
    /\ newlaserCloud' = FALSE /\ phase' = "detect"
    /\ terrainMap' = {} /\ visited' = <<>>
    /\ UNCHANGED <<params, terrainCloudLocal, planarVoxelConn, planarVoxelQueue, todo>>

\* A new cloud: the marks of the one before are cleared.
EstimateGround ==
    /\ phase = "idle" /\ newlaserCloud
    /\ terrainCloud' \in Clouds
    /\ planarVoxelElev' = [c \in Cells |-> Elevation(Over(terrainCloud', c))]
    /\ planarSupportCell' = {} /\ planarTransitionCell' = {}
    /\ planarVoxelConn' = [c \in Cells |-> 0]
    /\ newlaserCloud' = FALSE /\ phase' = "detect"
    /\ terrainMap' = {} /\ visited' = <<>>
    /\ UNCHANGED <<params, terrainCloudLocal, planarVoxelQueue, todo>>

\* DetectTraversableTransitions, and the search begins under the vehicle.
DetectTransitions ==
    /\ phase = "detect"
    /\ planarSupportCell' =
         IF stairEnable
         THEN SupportCells(planarVoxelElev, [c \in Cells |-> Over(terrainCloud, c)], Tuning) ELSE {}
    /\ planarTransitionCell' =
         IF stairEnable THEN TransitionCells(planarVoxelElev, planarSupportCell', Tuning) ELSE {}
    /\ IF checkTerrainConn
       THEN /\ planarVoxelElev' = IF Occupied(Centre) THEN planarVoxelElev
                                  ELSE [planarVoxelElev EXCEPT ![Centre] = TerrainUnderVehicle]
            /\ planarVoxelConn' = [planarVoxelConn EXCEPT ![Centre] = 1]
            /\ planarVoxelQueue' = <<Centre>>
       ELSE UNCHANGED <<planarVoxelElev, planarVoxelConn, planarVoxelQueue>>
    /\ phase' = "search"
    /\ UNCHANGED <<params, inputs, terrainCloud, todo, terrainMap, visited>>

-----------------------------------------------------------------------------
HeightBetween(a, b) == Abs(planarVoxelElev[a] - planarVoxelElev[b])

Linked(a, b) ==
    \/ HeightBetween(a, b) < TerrainConnThre
    \/ stairEnable /\ (a \in planarTransitionCell \/ b \in planarTransitionCell)

IsCeiling(a, b) == ~Linked(a, b) /\ HeightBetween(a, b) > CeilingFilteringThre

VisitFront ==
    /\ phase = "search" /\ todo = {} /\ planarVoxelQueue # <<>>
    /\ LET front == Head(planarVoxelQueue)
       IN /\ planarVoxelConn' = [planarVoxelConn EXCEPT ![front] = 2]
          /\ visited' = Append(visited, front)
          /\ todo' = {c \in Cells : Near(front, c, Reach) /\ Occupied(c)
                                    /\ planarVoxelConn'[c] = 0}
    /\ planarVoxelQueue' = Tail(planarVoxelQueue)
    /\ UNCHANGED <<params, inputs, estimate, phase, terrainMap>>

Front == visited[Len(visited)]

\* The order of the loops over dX and dY.
IsNext(c) == \A b \in todo : c[1] < b[1] \/ (c[1] = b[1] /\ c[2] <= b[2])

JoinCell(c) ==
    /\ Linked(Front, c)
    /\ planarVoxelQueue' = Append(planarVoxelQueue, c)
    /\ planarVoxelConn' = [planarVoxelConn EXCEPT ![c] = 1]

DropCeiling(c) ==
    /\ IsCeiling(Front, c)
    /\ planarVoxelConn' = [planarVoxelConn EXCEPT ![c] = -1]
    /\ UNCHANGED planarVoxelQueue

LeaveOpen(c) ==
    /\ ~Linked(Front, c) /\ ~IsCeiling(Front, c)
    /\ UNCHANGED <<planarVoxelConn, planarVoxelQueue>>

\* Slip: the loop does not move on from a cell that stays open.
ExamineNeighbourAgain(c) ==
    /\ phase = "search" /\ c \in todo /\ IsNext(c)
    /\ JoinCell(c) \/ DropCeiling(c) \/ LeaveOpen(c)
    /\ todo' = IF LeaveOpen(c) THEN todo ELSE todo \ {c}
    /\ UNCHANGED <<params, inputs, estimate, visited, phase, terrainMap>>

ExamineNeighbour(c) ==
    /\ phase = "search" /\ c \in todo /\ IsNext(c)
    /\ JoinCell(c) \/ DropCeiling(c) \/ LeaveOpen(c)
    /\ todo' = todo \ {c}
    /\ UNCHANGED <<params, inputs, estimate, visited, phase, terrainMap>>

-----------------------------------------------------------------------------
IsLocal(c) == (c[1] - Centre[1]) * (c[1] - Centre[1]) + (c[2] - Centre[2]) * (c[2] - Centre[2])
                <= LocalRadius * LocalRadius

\* The points beyond the local map's radius, over ground.
OwnPoints ==
    UNION {{[at |-> c, z |-> h,
             intensity |-> PointIntensity(h, c, planarVoxelElev, planarSupportCell,
                                          planarTransitionCell, Tuning)] :
                h \in {g \in terrainCloud[c] : Abs(g - planarVoxelElev[c]) < Tuning.vehicle_height}} :
            c \in {b \in Cells : ~IsLocal(b) /\ (planarVoxelConn[b] = 2 \/ ~checkTerrainConn)}}

Publish ==
    /\ phase = "search" /\ planarVoxelQueue = <<>> /\ todo = {}
    /\ terrainMap' = OwnPoints \cup {m \in terrainCloudLocal : IsLocal(m.at)}
    /\ phase' = "idle"
    /\ UNCHANGED <<params, inputs, estimate, search>>

Loop ==
    \/ EstimateGround \/ DetectTransitions \/ VisitFront \/ Publish
    \/ \E c \in Cells : ExamineNeighbour(c)

Next == LaserCloudHandler \/ TerrainCloudLocalHandler \/ Loop

Spec == Init /\ [][Next]_vars

\* The loop runs at 100 Hz whatever arrives.
FairSpec == Spec /\ WF_vars(Loop)

-----------------------------------------------------------------------------
(***************************************************************************)
(* Properties.                                                             *)
(***************************************************************************)
\* The types of the grid: marks are of cells, only support carries a transition.
TypeOK ==
    /\ {stairEnable, checkTerrainConn, newlaserCloud} \subseteq BOOLEAN
    /\ phase \in {"idle", "detect", "search"}
    /\ terrainCloudLocal \in LocalMaps \cup {{}}
    /\ terrainCloud \in [Positions -> SUBSET Int]
    /\ planarVoxelElev \in [Cells -> Int]
    /\ planarSupportCell \subseteq Cells /\ planarTransitionCell \subseteq planarSupportCell
    /\ planarVoxelConn \in [Cells -> -1..2]
    /\ planarVoxelQueue \in Seq(Cells) /\ visited \in Seq(Cells) /\ todo \subseteq Cells
    /\ terrainMap \subseteq MapPoints

\* A cell is queued once and taken once: the marks say exactly which cells those are, so
\* that the search ends after one visit to every cell.
MarksExact ==
    /\ \A c \in Cells :
         /\ planarVoxelConn[c] = 1 <=>
              \E i \in 1..Len(planarVoxelQueue) : planarVoxelQueue[i] = c
         /\ planarVoxelConn[c] = 2 <=> \E i \in 1..Len(visited) : visited[i] = c
    /\ \A i, j \in 1..Len(planarVoxelQueue) : planarVoxelQueue[i] = planarVoxelQueue[j] => i = j
    /\ \A i, j \in 1..Len(visited) : visited[i] = visited[j] => i = j

\* One of the first n ground cells found links c, or takes it for a ceiling.
LinkedFrom(c, n) == \E j \in 1..n : Near(visited[j], c, Reach) /\ Linked(visited[j], c)
CeilingFrom(c, n) == \E j \in 1..n : Near(visited[j], c, Reach) /\ IsCeiling(visited[j], c)

\* "check terrain connectivity to remove ceiling": ground other than the vehicle's is linked
\* with ground found before it; and when the search is over, whatever is linked with ground
\* is ground, except what ground found earlier had taken for a ceiling.
GroundConnected ==
    /\ \A i \in 2..Len(visited) : LinkedFrom(visited[i], i - 1)
    /\ planarVoxelQueue = <<>> /\ todo = {} =>
         \A i \in 1..Len(visited), c \in Cells :
            Near(visited[i], c, Reach) /\ Occupied(c) /\ Linked(visited[i], c) =>
               (\E k \in 1..Len(visited) : visited[k] = c) \/ CeilingFrom(c, i - 1)

\* Stairs are stairs from wherever they are seen: turning or mirroring the grid turns or
\* mirrors the marks.
Turned(c) == <<c[2], Width - 1 - c[1]>>
Mirrored(c) == <<c[2], c[1]>>

MarksTurnWithGrid ==
    phase = "search" /\ visited = <<>> /\ stairEnable =>
      /\ TransitionCells([c \in Cells |-> planarVoxelElev[Turned(c)]],
                         {c \in Cells : Turned(c) \in planarSupportCell}, Tuning)
           = {c \in Cells : Turned(c) \in planarTransitionCell}
      /\ TransitionCells([c \in Cells |-> planarVoxelElev[Mirrored(c)]],
                         {c \in Cells : Mirrored(c) \in planarSupportCell}, Tuning)
           = {c \in Cells : Mirrored(c) \in planarTransitionCell}

\* Every scan leads to a map: the loop takes it up, and the search comes to an end.
ScanAnswered == (newlaserCloud ~> phase = "search") /\ (phase = "search" ~> phase = "idle")
=============================================================================
