---------------------------- MODULE DynamicGraph ----------------------------
(***************************************************************************)
(* The visibility graph of the FAR planner (dynamic_graph.h/.cpp), as the  *)
(* main timer (MainLoopCallBack) maintains it, together with what the goal *)
(* callback and the planning timer do to it (graph_planner.h/.cpp).  The   *)
(* node spins on one thread: a callback runs to its end before the next    *)
(* one starts.  The main timer's callback is a sequence of phases here,    *)
(* and its loops over nodes take one step for each node; every other       *)
(* callback needs the idle phase.                                          *)
(*                                                                         *)
(* The model is one robot's own graph: no node is received from another    *)
(* robot, so every node is active and none is a boundary node.  What       *)
(* depends on positions (which nodes are near, which vertices match, which *)
(* lines are free) is chosen by the sensors.  Covered and frontier marks   *)
(* only weigh in such choices, and are left out with them.                 *)
(***************************************************************************)
EXTENDS NodeLists

CONSTANTS
    None,
    Views,              \* bound: [near, margin, matched] sets of nodes a scan may give
    Sight,              \* bound: sets {a, b} of nodes a free line may ever join
    Outline,            \* bound: sets {a, b} of nodes a contour may ever join
    VotesSize,          \* votes_size
    OdomVotesSize,      \* ceil(votes_size / 3)
    GoalVotesSize,      \* votes_size of the graph planner
    FinalizeThred,      \* finalize_thred
    DumperThred,        \* dumper_thred
    IsStaticEnv         \* is_static_env

ASSUME ParametersAssumption ==
    /\ None \notin Node
    /\ Views \subseteq [near : SUBSET Node, margin : SUBSET Node, matched : SUBSET Node]
    /\ VotesSize \in Nat \ {0} /\ OdomVotesSize \in 1..VotesSize /\ GoalVotesSize \in Nat \ {0}
    /\ FinalizeThred \in Nat \ {0} /\ DumperThred \in Nat
    /\ IsStaticEnv \in BOOLEAN

VARIABLES
    graph,              \* globalGraphNodes_
    currentGraph,       \* current_graph_ of the graph planner
    cur,                \* cur_internav_ptr_, and last_internav_ptr_
    goal,               \* goal_node_ptr_
    flagged,            \* trajectory nodes with is_goal set
    unreachable,        \* nodes with is_traversable unset
    connect,            \* connect_nodes
    poly,               \* poly_connects
    potEdges, edgeVotes,            \* potential_edges, edge_votes
    contour,            \* contour_connects
    potContours, contourVotes,      \* potential_contours, contour_votes
    traj, trajVotes,    \* trajectory_connects, trajectory_votes (-1: no entry)
    dumper,             \* clear_dumper_count
    outCount, reached,  \* out_contour_nodes_map_ (0: no entry)
    near, wide, margin, \* near_nav_nodes_, wide_near_nodes_, margin_near_nodes_
    matched,            \* nodes with is_contour_match set
    fresh,              \* new_nodes_
    again,              \* nodes that wide_near_nodes_ holds twice
    broken,             \* how often outside_break_nodes holds a node
    frozen,             \* is_stop_update_
    todo,               \* what the loop of this phase has not visited yet
    phase

edges    == <<connect, poly, potEdges, edgeVotes>>
contours == <<contour, potContours, contourVotes>>
trail    == <<traj, trajVotes>>
lists    == <<edges, contours, trail>>
out      == <<outCount, reached>>
planner  == <<currentGraph, goal, flagged, unreachable>>
scan     == <<near, wide, margin, matched, fresh, again, broken, frozen>>
vars     == <<graph, cur, planner, lists, dumper, out, scan, todo, phase>>

-----------------------------------------------------------------------------
IsOutsideGoal(n) == n \in Goals
IsStaticUnflagged(n) == n = Odom \/ n \in Goals                              \* slip
IsStaticNode(n)  == n = Odom \/ n \in Goals \/ n \in flagged

Unused(n) ==
    n \notin graph \cup currentGraph \cup UNION {reached[o] : o \in Node} \cup
             UNION {Mentioned(R) : R \in {connect, poly, potEdges, contour, potContours, traj}}

PolySize ==
    [p \in Pairs |-> IF Odom \in {p[1], p[2]} THEN OdomVotesSize ELSE VotesSize]
ContourSize == [p \in Pairs |-> VotesSize]
GoalSize    == [p \in Pairs |-> GoalVotesSize]

InSight(P) == {p \in P : {p[1], p[2]} \in Sight}
OnOutline(P) == {p \in P : {p[1], p[2]} \in Outline}

\* Neither end is the other: nothing is recorded or joined for a node with itself.
Between(A, B) == {p \in A \X B : p[1] # p[2]}

-----------------------------------------------------------------------------
Init ==
    /\ graph = {} /\ currentGraph = {} /\ cur = None
    /\ goal = None /\ flagged = {} /\ unreachable = {}
    /\ connect = {} /\ poly = {} /\ potEdges = {} /\ edgeVotes = NoVotes
    /\ contour = {} /\ potContours = {} /\ contourVotes = NoVotes
    /\ traj = {} /\ trajVotes = [p \in Pairs |-> -1]
    /\ dumper = [n \in Node |-> 0]
    /\ outCount = [n \in Node |-> 0] /\ reached = [n \in Node |-> {}]
    /\ near = {} /\ wide = {} /\ margin = {} /\ matched = {} /\ fresh = {} /\ again = {}
    /\ broken = [n \in Node |-> 0] /\ frozen = FALSE /\ todo = {} /\ phase = "idle"

\* UpdateCurInterNavNode, AddTrajectoryConnect: the trajectory goes on from the previous
\* trajectory node, unless the two are joined already.
UpdateCurInterNavNode(n) ==
    /\ cur' = n
    /\ LET new == IF cur \in {None, n} \/ EitherWay(<<n, cur>>, traj) THEN {} ELSE {<<n, cur>>}
       IN /\ traj' = Added(traj, new)
          /\ trajVotes' = [p \in Pairs |-> IF EitherWay(p, new) /\ trajVotes[p] = -1
                                           THEN 0 ELSE trajVotes[p]]

\* The nodes around the robot's own connections that the wide list takes in.
OdomNeighbours == Of(connect, Odom) \ Goals
WideNearSecondOnly(S) ==                                                     \* slip
    S \cup ((UNION {Of(connect, n) : n \in OdomNeighbours}) \ Goals)

WideNear(S) == S \cup OdomNeighbours
                 \cup ((UNION {Of(connect, n) : n \in OdomNeighbours}) \ Goals)

\* Nodes for vertices of the view that match no node, and for the trajectory: the first
\* one when there is none yet, later ones when others are near.
ExtractGraphNodes(view, around, S) ==
    /\ S \subseteq {n \in view : Unused(n)} \ ({Odom} \cup Goals)
    /\ Cardinality(S \cap NavPoints) <= 1
    /\ (S # {} /\ cur = None) => (S \cap NavPoints # {})
    /\ (S \cap NavPoints # {} /\ cur # None) => (around \cap NavPoints # {})

\* MainLoopCallBack begins: the robot's node, the nodes around it, the trajectory node
\* it is at, the matched vertices and the new nodes.  Without a freeze, corners are
\* re-evaluated next.
UpdateGlobalNearNodes ==
    /\ phase = "idle"
    /\ graph' = graph \cup {Odom}
    /\ \E v \in Views, stop \in BOOLEAN :
         /\ near' = (v.near \cap graph') \ Goals
         /\ margin' = (v.margin \cap graph') \ (Goals \cup v.near)
         /\ wide' = WideNear(near')
         /\ \/ UNCHANGED <<cur, trail>>
            \/ \E t \in near' \cap NavPoints : <<Odom, t>> \in potEdges /\ UpdateCurInterNavNode(t)
         /\ frozen' = stop
         /\ fresh' \in SUBSET (IF stop THEN {} ELSE v.near)
         /\ ExtractGraphNodes(v.near, near', fresh')
         /\ matched' = (v.matched \cap Corners \cap (near' \cup margin')) \cup (fresh' \cap Corners)
         /\ phase' = IF stop THEN "clear" ELSE "corners"
    /\ UNCHANGED <<planner, edges, contours, dumper, out, again, broken, todo>>

\* ReEvaluateCorner: a corner with no vertex is doubted where the scan should show one, a
\* trajectory node where the terrain around the robot is occupied.
Doubtful(bad, surround) ==
    /\ bad \cap matched = {}
    /\ bad \cap NavPoints \subseteq surround
    /\ IsStaticEnv => bad \cap NavPoints = {}

\* The loop over extend_match_nodes_, with SetNodeToClear and ReduceDumperCounter.  Around
\* new points a corner's votes start over.
ReEvaluateCorners ==
    /\ phase = "corners"
    /\ LET asked == {n \in near \cup margin : ~IsStaticNode(n) /\ n # cur} IN
       \E surround \in SUBSET (near \cap NavPoints), bad \in SUBSET asked :
         /\ Doubtful(bad, surround)
         /\ \E new \in SUBSET (bad \cap Corners) :
              /\ contourVotes' = ResetVotes(contourVotes, potContours, new, 3)
              /\ edgeVotes' = ResetVotes(edgeVotes, potEdges, new, 2)
         /\ dumper' = [n \in Node |-> IF n \in bad THEN dumper[n] + 1
                                      ELSE IF n \in asked /\ dumper[n] > 0 THEN dumper[n] - 1
                                      ELSE dumper[n]]
         /\ todo' = IF IsStaticEnv \/ cur = None THEN {} ELSE surround \cup {cur}
    /\ phase' = "clear"
    /\ UNCHANGED <<graph, cur, planner, connect, poly, potEdges, contour, potContours, trail,
                   out, scan>>

\* RecordValidTrajEdge and RemoveInValidTrajEdge for one trajectory node: terrain without
\* a path counts against a trajectory edge until it goes.
ReEvaluateTrajectory(s) ==
    /\ phase = "clear" /\ s \in todo
    /\ \E invalid \in SUBSET Of(traj, s) :
         LET worn == {t \in invalid : trajVotes[<<s, t>>] >= FinalizeThred} IN
         /\ traj' = Erased(traj, {s} \X worn)
         /\ trajVotes' = [p \in Pairs |->
               IF EitherWay(p, {s} \X worn) THEN -1
               ELSE IF EitherWay(p, {s} \X invalid) THEN trajVotes[p] + 1
               ELSE IF EitherWay(p, {s} \X Of(traj, s)) /\ trajVotes[p] > 0
                    THEN trajVotes[p] - 1
               ELSE trajVotes[p]]
    /\ todo' = todo \ {s}
    /\ UNCHANGED <<graph, cur, planner, edges, contours, dumper, out, scan, phase>>

\* ClearMergedNodesInGraph: nodes doubted for too long leave the graph and every list.
\* Contour pairs that only the cleared node blocked start over; nodes out of range that
\* lose a voted contour neighbour are watched for a while.  Nodes of the margin that
\* match a vertex then count as near.
Merged ==
    {n \in graph : ~IsStaticNode(n)
                   /\ dumper[n] > IF n \in NavPoints THEN 2 * DumperThred ELSE DumperThred}

\* ResetBlockedContourPairs
BlockedPairs(M) ==
    {p \in Pairs : /\ p[1] # p[2]
                   /\ \E m \in M : {p[1], p[2]} \subseteq Of(contour, m)
                   /\ contourVotes[p] # <<>> /\ ~IsVoteTrue(contourVotes[p], 3)}

\* AddNodeToOutrangeContourMap is called for these.
Orphaned(M) ==
    {n \in graph \ (M \cup near) :
        \E m \in M : <<m, n>> \in potContours /\ IsVoteTrue(contourVotes[<<n, m>>], 3)}

Watched(M, n) ==
    LET left == (IF n \in Orphaned(M) THEN FinalizeThred ELSE outCount[n]) - 1
    IN IF left <= 0 \/ n \in near \cup M THEN 0 ELSE left

ClearNodes(M) ==
    /\ graph' = graph \ M
    /\ connect' = Cleared(connect, M) /\ poly' = Cleared(poly, M)
    /\ potEdges' = Cleared(potEdges, M) /\ edgeVotes' = ClearedVotes(edgeVotes, potEdges, M)
    /\ contour' = Cleared(contour, M) /\ potContours' = Cleared(potContours, M)
    /\ contourVotes' = ClearedVotes([p \in Pairs |-> IF p \in BlockedPairs(M) THEN <<0>>
                                                     ELSE contourVotes[p]], potContours, M)
    /\ traj' = Cleared(traj, M)
    /\ trajVotes' = [p \in Pairs |-> IF p[1] \in M \/ (p[2] \in M /\ Flip(p) \in traj) THEN -1
                                     ELSE trajVotes[p]]
    /\ dumper' = [n \in Node |-> IF n \in M THEN 0 ELSE dumper[n]]
    /\ outCount' = [n \in Node |-> Watched(M, n)]
    /\ reached' = [n \in Node |-> IF outCount'[n] = 0 THEN {} ELSE reached[n]]

ClearMergedNodes ==
    /\ phase = "clear" /\ todo = {}
    /\ ClearNodes(Merged)
    /\ LET joining == (margin \cap matched) \ Merged IN
       /\ near' = (near \ Merged) \cup joining
       /\ wide' = (wide \ Merged) \cup joining
       /\ again' = joining \cap wide
    /\ margin' = {} /\ matched' = matched \ Merged
    /\ todo' = (wide' \cup fresh) \ {Odom}
    /\ phase' = "odom"
    /\ UNCHANGED <<cur, planner, fresh, broken, frozen>>

-----------------------------------------------------------------------------
\* IsNodeDirectConnect: one end moves freely, or is at a vertex of the scan.
IsDirect(p) == \E n \in {p[1], p[2]} : n = Odom \/ n \in NavPoints \/ n \in matched

\* IsPolygonEdgeVoteTrue
IsPolygonEdgeVoteTrue(v, p) ==
    HaveVotes(v, p) /\ IsVoteTrue(v[p], 2) /\ (IsDirect(p) \/ Len(v[p]) > 2)

OdomPair(p) == Odom \in {p[1], p[2]}

\* What IsValidConnect leaves of the robot's votes: none but the winning ones, and no
\* potential neighbour without them.
DropLost(lost, v, potential) ==
    /\ edgeVotes' = [p \in Pairs |-> IF EitherWay(p, lost) THEN <<>> ELSE v[p]]
    /\ potEdges' = Erased(potential, lost)

\* IsValidConnect for pairs <<node1, node2>>, of which the good ones come out connected.
\* A free line is a vote for the pair (a finalized corner without its vertex casts none),
\* any other line a vote against it.  A pair that won may still be refused for a shorter
\* edge in its direction, except for the robot's and for contour pairs.  Pairs of the
\* trajectory are connected whatever is seen, and so may be the robot with what its
\* trajectory node or a contour leads to.  No two nodes are at one place, except that the
\* robot may be near a trajectory node.
IsValidConnect(P, good) ==
    \E close \in SUBSET {p \in InSight(P) : OdomPair(p) /\ {p[1], p[2]} \cap NavPoints # {}} :
      \E free \in SUBSET (InSight(P) \ close) :
      \E voting \in SUBSET free :
        LET cast == P \ close
            v    == DeleteVote(RecordVote(edgeVotes, voting, PolySize), cast \ free, PolySize)
            won  == {p \in cast : IsPolygonEdgeVoteTrue(v, p)}
            must == close \cup {p \in won : OdomPair(p) \/ p \in contour}
                      \cup {p \in cast : Flip(p) \in traj}
            may  == must \cup won
                      \cup {p \in cast : OdomPair(p) /\ \E n \in {p[1], p[2]} \ {Odom} :
                               Of(contour, n) # {} \/ (cur # None /\ <<cur, n>> \in traj)}
        IN /\ \A p \in free \ voting : {p[1], p[2]} \cap (Corners \ matched) # {}
           /\ DropLost({p \in cast \ won : OdomPair(p)}, v,
                       Added(potEdges, FirstVote(edgeVotes, voting)))
           /\ must \subseteq good /\ good \subseteq may

\* Every caller joins good pairs and parts the others.
Joined(R, P, good) == Added(Erased(R, P \ good), good)

\* The robot's node is checked with every node of the wide list, and a second time with
\* those the list holds twice.
ConnectOdom ==
    /\ phase = "odom"
    /\ \E good \in SUBSET ({Odom} \X todo) :
         /\ IsValidConnect({Odom} \X todo, good)
         /\ poly' = Joined(poly, {Odom} \X todo, good)
         /\ connect' = Joined(connect, {Odom} \X todo, good)
    /\ again' = {}
    /\ IF again # {} THEN todo' = again /\ UNCHANGED <<wide, phase>>
       ELSE /\ todo' = {} /\ wide' = {}
            /\ phase' = IF frozen THEN "break" ELSE "fresh"
    /\ UNCHANGED <<graph, cur, planner, contours, trail, dumper, out, near, margin, matched,
                   fresh, broken, frozen>>

\* New nodes join the graph; a new trajectory node goes on from the previous one.
AddNewNodes ==
    /\ phase = "fresh"
    /\ graph' = graph \cup fresh
    /\ near' = near \cup fresh
    /\ IF fresh \cap NavPoints = {} THEN UNCHANGED <<cur, trail>>
       ELSE \E n \in fresh \cap NavPoints : UpdateCurInterNavNode(n)
    /\ unreachable' = unreachable \ fresh
    /\ fresh' = {}
    /\ todo' = {n \in graph : outCount[n] > 0}
    /\ phase' = "out"
    /\ UNCHANGED <<currentGraph, goal, flagged, edges, contours, dumper, out, wide, margin, matched, again,
                   broken, frozen>>

\* A watched node is matched with the end of a near contour, or with nothing; it votes
\* for what it matches and against what it matched before.
ConnectOutrange(o) ==
    /\ phase = "out" /\ o \in todo
    /\ \E m \in OnOutline({o} \X (near \cap matched)) \cup {<<o, o>>} :
         LET new == IF m[2] = o THEN {} ELSE {m}
             old == Between({o}, reached[o] \ {m[2]})
         IN /\ contourVotes' = DeleteVote(RecordVote(contourVotes, new, ContourSize), old, ContourSize)
            /\ potContours' = Added(potContours, FirstVote(contourVotes, new))
            /\ reached' = [reached EXCEPT ![o] = @ \cup {p[2] : p \in new}]
    /\ todo' = todo \ {o}
    /\ UNCHANGED <<graph, cur, planner, edges, contour, trail, dumper, outCount, scan, phase>>

\* The loop over the near nodes begins.
BeginReconnect ==
    /\ phase = "out" /\ todo = {}
    /\ todo' = near \ {Odom}
    /\ phase' = "near"
    /\ UNCHANGED <<graph, cur, planner, lists, dumper, out, scan>>

\* Slip: the edge of a contour pair always goes with it.
TopTwoDropsEdge(i, joined) ==
    LET true(c) == IsVoteTrue(contourVotes'[<<i, c>>], 3)
        above(c) == {d \in Node : true(d) /\ Ones(contourVotes'[<<i, d>>]) > Ones(contourVotes'[<<i, c>>])}
        top == {c \in Of(potContours', i) : true(c) /\ Cardinality(above(c)) < 2}
        dropped == {c \in Of(potContours', i) \ top : <<c, i>> \in contour}
    IN /\ contour' = Erased(Added(contour, {i} \X top), {i} \X dropped)
       /\ connect' = Erased(Added(joined, {i} \X top), {i} \X dropped)

\* Slip: neighbours are added, and none is dropped.
TopTwoDropsNone(i, joined) ==
    LET true(c) == IsVoteTrue(contourVotes'[<<i, c>>], 3)
        top == {c \in Of(potContours', i) : true(c)}
    IN /\ contour' = Added(contour, {i} \X top)
       /\ connect' = Added(joined, {i} \X top)

\* TopTwoContourConnector: the potential contour neighbours with the first and second
\* number of votes become contour neighbours, the others no longer are.  The edge of a
\* contour pair goes with it unless the pair sees each other.
TopTwoContourConnector(i, joined) ==
    LET true(c) == IsVoteTrue(contourVotes'[<<i, c>>], 3)
        above(c) == {d \in Node : true(d) /\ Ones(contourVotes'[<<i, d>>]) > Ones(contourVotes'[<<i, c>>])}
        top == {c \in Of(potContours', i) : true(c) /\ Cardinality(above(c)) < 2}
        dropped == {c \in Of(potContours', i) \ top : <<c, i>> \in contour}
    IN /\ contour' = Erased(Added(contour, {i} \X top), {i} \X dropped)
       /\ connect' = Erased(Added(joined, {i} \X top),
                            {i} \X {c \in dropped : <<i, c>> \notin poly'})

\* The nodes of i's list that are out of range are checked again with it.
OutsideNodes(i) == Of(connect, i) \ ({Odom} \cup near \cup Goals \cup Of(contour, i))

\* One near node: its edges to nodes out of range, its edges and contours to the near
\* nodes visited before it, its contours to the watched nodes; then its first two contours.
Reconnect(i) ==
    /\ phase = "near" /\ i \in todo
    /\ LET visited == near \ ({Odom} \cup todo)
           P    == {i} \X (OutsideNodes(i) \cup visited)
           seen == {p \in {i} \X visited : {p[1], p[2]} \subseteq matched}
           ends == {p \in Between({i}, {n \in graph : outCount[n] > 0}) : {p[1], p[2]} \subseteq matched}
       IN \E good \in SUBSET P, along \in SUBSET OnOutline(seen), toOut \in SUBSET OnOutline(ends) :
            /\ along \cap ends \subseteq toOut
            /\ IsValidConnect(P, good)
            /\ poly' = Joined(poly, P, good)
            /\ LET v == DeleteVote(RecordVote(contourVotes, along, ContourSize), seen \ along, ContourSize)
               IN /\ contourVotes' = DeleteVote(RecordVote(v, toOut, ContourSize), ends \ toOut, ContourSize)
                  /\ potContours' = Added(potContours, FirstVote(contourVotes, along) \cup FirstVote(v, toOut))
            /\ TopTwoContourConnector(i, Joined(connect, P, good))
            /\ broken' = [n \in Node |-> IF n \in OutsideNodes(i) /\ <<i, n>> \notin good
                                         THEN broken[n] + 1 ELSE broken[n]]
    /\ todo' = todo \ {i}
    /\ phase' = IF todo' = {} THEN "break" ELSE "near"
    /\ UNCHANGED <<graph, cur, planner, trail, dumper, out, near, wide, margin, matched, fresh,
                   again, frozen>>

NoNearNodes ==
    /\ phase = "near" /\ todo = {}
    /\ phase' = "break"
    /\ UNCHANGED <<graph, cur, planner, lists, dumper, out, scan, todo>>

\* Every near node is checked with the nodes whose edge to a near node broke, as often as
\* the list holds them.
ReconnectBroken ==
    /\ phase = "break"
    /\ LET S == {n \in Node : broken[n] > 0} IN
       /\ S # {}
       /\ \E good \in SUBSET (near \X S) :
            /\ IsValidConnect(near \X S, good)
            /\ poly' = Joined(poly, near \X S, good)
            /\ connect' = Joined(connect, near \X S, good)
       /\ broken' = [n \in Node |-> IF n \in S THEN broken[n] - 1 ELSE 0]
    /\ UNCHANGED <<graph, cur, planner, contours, trail, dumper, out, near, wide, margin,
                   matched, fresh, again, frozen, todo, phase>>

\* MainLoopCallBack hands the graph to the graph planner.
EndMainLoop ==
    /\ phase = "break" /\ \A n \in Node : broken[n] = 0
    /\ currentGraph' = graph
    /\ near' = {} /\ matched' = {}
    /\ phase' = "idle"
    /\ unreachable' = unreachable \cap (graph \cup currentGraph)
    /\ UNCHANGED <<graph, cur, goal, flagged, lists, dumper, out, wide, margin, fresh, again,
                   broken, frozen, todo>>

-----------------------------------------------------------------------------
\* GoalReset: a goal node of its own leaves the graph; the planner's copy of the graph
\* keeps it until the next update.
LeavingGoals == {goal} \cap Goals

GoalReset ==
    /\ connect' = Cleared(connect, LeavingGoals) /\ poly' = Cleared(poly, LeavingGoals)
    /\ potEdges' = Cleared(potEdges, LeavingGoals)
    /\ edgeVotes' = ClearedVotes(edgeVotes, potEdges, LeavingGoals)

\* WaypointCallBack, UpdateGoal: near trajectory nodes, each nearer than the one before,
\* are marked and the last is the goal; without one the goal is a node of its own.
WaypointCallBack ==
    /\ phase = "idle" /\ currentGraph # {}
    /\ GoalReset
    /\ \/ \E T \in SUBSET (currentGraph \cap NavPoints) :
            /\ goal' \in T
            /\ flagged' = (flagged \ {goal}) \cup T
            /\ graph' = graph \ LeavingGoals
            /\ UNCHANGED unreachable
       \/ \E g \in Goals :
            /\ Unused(g)
            /\ goal' = g
            /\ flagged' = flagged \ {goal}
            /\ graph' = (graph \ LeavingGoals) \cup {g}
            /\ unreachable' = unreachable \ {g}
    /\ UNCHANGED <<currentGraph, cur, contours, trail, dumper, out, scan, todo, phase>>

\* The nodes edges lead to from the robot's node.
Reachable(R) ==
    LET within[k \in Nat] ==
          IF k = 0 THEN {Odom} ELSE within[k - 1] \cup UNION {Of(R, n) : n \in within[k - 1]}
    IN within[Cardinality(Node)]

\* UpdateGraphTraverability, over the planner's copy of the graph.
UpdateGraphTraverability ==
    unreachable' = (unreachable \cup currentGraph') \ Reachable(connect')

\* UpdateGoalNavNodeConnects: every reachable node of the planner's copy may vote for the
\* goal, the robot's node with one vote at a time; the others vote against it.
UpdateGoalNavNodeConnects ==
    LET P == (currentGraph \ {goal}) \X {goal} IN
    \E free \in SUBSET {p \in InSight(P) : p[1] \notin unreachable} :
      LET v == DeleteVote(RecordVote(edgeVotes, free, GoalSize), P \ free, GoalSize)
          good == {p \in P : IsVoteTrue(edgeVotes'[Flip(p)], 3)}
      IN /\ edgeVotes' = [p \in Pairs |-> IF OdomPair(p) /\ EitherWay(p, free) THEN <<1>> ELSE v[p]]
         /\ potEdges' = Added(potEdges, FirstVote(edgeVotes, free))
         /\ poly' = Joined(poly, P, good) /\ connect' = Joined(connect, P, good)

\* PlanningCallBack: the goal is joined to the graph, then the planner's copy is renewed and
\* searched from the robot's node.  Without a goal there is only the search.
PlanningCallBack ==
    /\ phase = "idle" /\ currentGraph # {}
    /\ IF goal \in Goals THEN UpdateGoalNavNodeConnects ELSE UNCHANGED edges
    /\ currentGraph' = IF goal = None THEN currentGraph ELSE graph
    /\ UpdateGraphTraverability
    /\ phase' = IF goal = None THEN "idle" ELSE "path"
    /\ UNCHANGED <<graph, cur, goal, flagged, contours, trail, dumper, out, scan, todo>>

\* PathToGoal: the goal is kept, or it is reached or given up.
KeepGoal ==
    /\ phase = "path"
    /\ phase' = "idle"
    /\ UNCHANGED <<graph, cur, planner, lists, dumper, out, scan, todo>>

DropGoal ==
    /\ phase = "path"
    /\ GoalReset
    /\ graph' = graph \ LeavingGoals
    /\ flagged' = flagged \ {goal} /\ goal' = None
    /\ phase' = "idle"
    /\ UNCHANGED <<currentGraph, unreachable, cur, contours, trail, dumper, out, scan, todo>>

\* ResetEnvironmentAndGraph
ResetEnvironment ==
    /\ phase = "idle"
    /\ graph' = {} /\ currentGraph' = {} /\ cur' = None
    /\ goal' = None /\ flagged' = {} /\ unreachable' = {}
    /\ connect' = {} /\ poly' = {} /\ potEdges' = {} /\ edgeVotes' = NoVotes
    /\ contour' = {} /\ potContours' = {} /\ contourVotes' = NoVotes
    /\ traj' = {} /\ trajVotes' = [p \in Pairs |-> -1]
    /\ dumper' = [n \in Node |-> 0]
    /\ outCount' = [n \in Node |-> 0] /\ reached' = [n \in Node |-> {}]
    /\ UNCHANGED <<scan, todo, phase>>

Next ==
    \/ UpdateGlobalNearNodes \/ ReEvaluateCorners \/ ClearMergedNodes \/ ConnectOdom
    \/ AddNewNodes \/ BeginReconnect \/ NoNearNodes \/ ReconnectBroken \/ EndMainLoop
    \/ \E n \in Node : ReEvaluateTrajectory(n) \/ ConnectOutrange(n) \/ Reconnect(n)
    \/ WaypointCallBack \/ PlanningCallBack \/ KeepGoal \/ DropGoal \/ ResetEnvironment

Spec == Init /\ [][Next]_vars

-----------------------------------------------------------------------------
(***************************************************************************)
(* Properties.                                                             *)
(***************************************************************************)
Relations == {connect, poly, potEdges, contour, potContours, traj}

\* The types of the lists and the counters, and the length of the vote queues.
TypeOK ==
    /\ graph \subseteq Node /\ currentGraph \subseteq Node
    /\ cur \in NavPoints \cup {None} /\ goal \in NavPoints \cup Goals \cup {None}
    /\ flagged \subseteq NavPoints /\ unreachable \subseteq Node
    /\ \A R \in Relations : R \subseteq Pairs
    /\ edgeVotes \in [Pairs -> Votes] /\ contourVotes \in [Pairs -> Votes]
    /\ \A p \in Pairs : /\ Len(contourVotes[p]) <= VotesSize
                        /\ Len(edgeVotes[p]) <= VotesSize \/ Len(edgeVotes[p]) <= GoalVotesSize
    /\ trajVotes \in [Pairs -> -1..FinalizeThred]
    /\ dumper \in [Node -> Nat] /\ broken \in [Node -> Nat]
    /\ outCount \in [Node -> 0..FinalizeThred] /\ reached \in [Node -> SUBSET Node]
    /\ near \subseteq Node /\ wide \subseteq Node /\ margin \subseteq Node
    /\ matched \subseteq Corners /\ fresh \subseteq Corners \cup NavPoints /\ again \subseteq Node
    /\ frozen \in BOOLEAN /\ todo \subseteq Node
    /\ phase \in {"idle", "corners", "clear", "odom", "fresh", "out", "near", "break", "path"}

Mirrored(R) == \A p \in R : Flip(p) \in R

\* A list has a node exactly when the node's list has it back, and the two ends of a pair
\* hold the same votes: the code erases through one end's lists only, and reports "Critical!"
\* when the ends differ.
ListsMirrored ==
    /\ \A R \in Relations : Mirrored(R)
    /\ \A p \in Pairs : /\ edgeVotes[p] = edgeVotes[Flip(p)]
                        /\ contourVotes[p] = contourVotes[Flip(p)]
                        /\ trajVotes[p] = trajVotes[Flip(p)]

\* Every potential or trajectory neighbour has votes, and no one else has: the code
\* dereferences what find() returns for a list's node without looking.
VotesTracked ==
    \A p \in Pairs : /\ p \in potEdges <=> edgeVotes[p] # <<>>
                     /\ p \in potContours <=> contourVotes[p] # <<>>
                     /\ p \in traj <=> trajVotes[p] >= 0
                     /\ p \in contour => p \in potContours

\* A removed node is forgotten by all that the cycle and the planner follow: no neighbour
\* list, no list of the scan and no pointer to a node in use names a node the graph does not
\* have, except that two goals may name each other; the robot's node, the current trajectory
\* node and the goal are never removed while they are in use.  (What a watched node has
\* reached before is not purged: it is only asked for votes, and a removed node has none.)
RemovedForgotten ==
    /\ \A R \in Relations : \A p \in R :
         {p[1], p[2]} \subseteq graph \cup fresh \/ {p[1], p[2]} \subseteq Goals
    /\ {cur, goal} \ {None} \subseteq graph
    /\ flagged \subseteq graph
    /\ near \cup wide \cup margin \cup matched \subseteq graph \cup fresh
    /\ \A n \in Node : outCount[n] > 0 => n \in graph

\* Every edge has a reason the code can take back: the nodes see each other, or are
\* neighbours on a contour.
EdgesBacked == poly \subseteq connect /\ connect \subseteq poly \cup contour

\* No edge of the robot's node outlives a cycle without being checked again: before the
\* check they all lead to nodes it covers.
OdomEdgesRevalidated == phase = "odom" => Of(connect, Odom) \subseteq wide \cup fresh \cup Goals

\* Once a cycle has rebuilt the contours of the near nodes, each is backed by votes.
ContourVoted ==
    phase = "break" /\ ~frozen =>
        \A p \in contour : p[1] \in near => IsVoteTrue(contourVotes[p], 3)

\* "Update connectivity between goal node and navigation graph": the goal's edges lead to
\* nodes of the graph.
GoalConnectsToGraph ==
    phase = "path" /\ goal \in Goals => Of(connect, goal) \subseteq graph
=============================================================================
