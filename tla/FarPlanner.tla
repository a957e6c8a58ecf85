----------------------------- MODULE FarPlanner -----------------------------
(***************************************************************************)
(* The life of a goal in FAR planner: the callbacks of FARMaster           *)
(* (far_planner.cpp), run one at a time by one executor, and the choice of *)
(* the next waypoint in GraphPlanner (graph_planner.cpp), with the robot   *)
(* that drives to the newest waypoint meanwhile.                           *)
(*                                                                         *)
(* The visibility graph is kept by DynamicGraph and searched by            *)
(* UpdateGraphTraverability; here a view stands for what the graph says at *)
(* the moment, and Route for what the search returns.  A route is the      *)
(* nodes to pass, without the robot's own and with the goal at its end.    *)
(* Nodes are known by their places, and a goal is where it was set: the    *)
(* shift of a goal into free space is left out.                            *)
(***************************************************************************)
EXTENDS Integers, Sequences

CONSTANTS
    Places,         \* where the robot, a node or a goal can be
    Goals,          \* where the operator may set a goal
    Views,          \* what the visibility graph may say
    Modes,          \* "attempt": through unknown space as well; "free": not
    Route,          \* [view][mode][from][to]: the best route, empty if there is none
    Dist,           \* distance of two places
    Heading,        \* direction from one place to another: opposite ones have opposite signs
    Advance,        \* [view][from][to]: where driving towards a place leads next
    ConvergeDist,   \* converge_dist
    AdjustRadius,   \* adjust_radius
    MomentumDist,   \* momentum_dist
    MomentumThred,  \* momentum_thred
    MaxEvents,      \* bound: goals, commands, resets and changes of the view
    None

ASSUME PlacesAssumption ==
    /\ Goals \subseteq Places /\ None \notin Places /\ Modes = {"attempt", "free"}
    /\ Dist \in [Places -> [Places -> Nat]] /\ Heading \in [Places -> [Places -> Int]]
    /\ Advance \in [Views -> [Places -> [Places -> Places]]]
    /\ \A v \in Views, p \in Places : Advance[v][p][p] = p

\* A route ends at its goal; a route through free space is one that may be attempted.
ASSUME RouteAssumption ==
    /\ Route \in [Views -> [Modes -> [Places -> [Goals -> Seq(Places)]]]]
    /\ \A v \in Views, m \in Modes, p \in Places, g \in Goals :
         Route[v][m][p][g] # <<>> =>
            /\ Route[v][m][p][g][Len(Route[v][m][p][g])] = g
            /\ Route[v]["attempt"][p][g] # <<>>

ASSUME ParametersAssumption ==
    /\ ConvergeDist \in Nat /\ AdjustRadius \in Nat /\ MomentumDist \in Nat
    /\ MomentumThred \in Nat /\ MaxEvents \in Nat

VARIABLES
    autoswitch,         \* is_autoswitch, read once
    pos,                \* the robot's place, and robot_pos_
    waypoint,           \* the newest point on /way_point
    view,               \* what the graph says
    odom,               \* the place of odom_node_ptr_, None if it is NULL
    graphInit,          \* is_graph_init_
    running,            \* is_planner_running_
    resetEnv,           \* is_reset_env_
    due,                \* the timer that fires next, "main" or "planning"
    goal,               \* goal_node_ptr_ (is_goal_init_ says whether it is NULL)
    commandFree,        \* command_is_free_nav_
    freeNav,            \* is_free_nav_goal_
    recordedPath,       \* recorded_path_, empty unless is_global_path_init_
    lastOdom,           \* last_planning_odom_
    counter,            \* path_momentum_counter_
    stale,              \* history: the command has changed since recordedPath was recorded
    blind,              \* history: plans in a row that gave a waypoint and saw no route
    events

master   == <<graphInit, running, resetEnv, due>>
momentum == <<recordedPath, lastOdom, counter, stale, blind>>
vars == <<autoswitch, pos, waypoint, view, odom, master, goal, commandFree, freeNav, momentum,
          events>>

-----------------------------------------------------------------------------
Init ==
    /\ autoswitch \in BOOLEAN /\ pos \in Places /\ view \in Views
    /\ waypoint = None /\ odom = None /\ goal = None
    /\ graphInit = FALSE /\ running = FALSE /\ resetEnv = FALSE /\ due = "main"
    /\ commandFree = FALSE /\ freeNav = FALSE
    /\ recordedPath = <<>> /\ lastOdom = None /\ counter = 0
    /\ stale = FALSE /\ blind = 0 /\ events = 0

Event == events < MaxEvents /\ events' = events + 1

\* ResetGraphCallBack, JoyCommandCallBack
ResetGraphCallBack ==
    /\ Event
    /\ resetEnv' = TRUE
    /\ UNCHANGED <<autoswitch, pos, waypoint, view, odom, graphInit, running, due, goal,
                   commandFree, freeNav, momentum>>

\* What UpdateGoal does with the path of the goal before.
KeepPath   == UNCHANGED <<recordedPath, lastOdom>>                          \* slip
ForgetPath == recordedPath' = <<>> /\ lastOdom' = None

\* WaypointCallBack and UpdateGoal
WaypointCallBack(g) ==
    /\ Event
    /\ graphInit
    /\ goal' = g
    /\ freeNav' = commandFree
    /\ ForgetPath
    /\ counter' = 0 /\ blind' = 0
    /\ UNCHANGED <<autoswitch, pos, waypoint, view, odom, master, commandFree, stale>>

CountOn   == UNCHANGED counter                                              \* slip
CountDone == counter' = MomentumThred

\* AttemptStatusCallBack: "Planning Attemptable" is ticked or not.
AttemptStatusCallBack(attemptable) ==
    /\ Event
    /\ IF commandFree = attemptable
       THEN commandFree' = ~attemptable /\ CountDone /\ stale' = TRUE
       ELSE UNCHANGED <<commandFree, counter, stale>>
    /\ UNCHANGED <<autoswitch, pos, waypoint, view, odom, master, goal, freeNav, recordedPath,
                   lastOdom, blind>>

-----------------------------------------------------------------------------
\* ResetEnvironmentAndGraph: the robot stops where it is.
ResetEnvironment ==
    /\ resetEnv
    /\ resetEnv' = FALSE /\ running' = FALSE /\ graphInit' = FALSE
    /\ odom' = None /\ goal' = None /\ freeNav' = FALSE
    /\ recordedPath' = <<>> /\ lastOdom' = None /\ counter' = 0 /\ blind' = 0
    /\ waypoint' = pos
    /\ UNCHANGED <<pos, view, commandFree, stale, events>>

\* The rest of MainLoopCallBack: the odometry node moves, and the graph is updated with what
\* the robot sees now.
UpdateGraph ==
    /\ ~resetEnv
    /\ odom' = pos /\ graphInit' = TRUE
    /\ \/ UNCHANGED <<view, events>>
       \/ Event /\ view' \in Views \ {view}
    /\ UNCHANGED <<pos, waypoint, running, resetEnv, goal, commandFree, freeNav, momentum>>

\* The two timers have one period and one executor: they fire in turn.
MainLoopCallBack ==
    /\ due = "main" /\ due' = "planning"
    /\ UNCHANGED autoswitch
    /\ ResetEnvironment \/ UpdateGraph

-----------------------------------------------------------------------------
(***************************************************************************)
(* PlanningCallBack with a goal: PathToGoal, and the waypoint it publishes. *)
(* A graph of a single node cannot be met here (the goal is a node of its  *)
(* own), nor can the switch to an attempt after the last test: with        *)
(* is_autoswitch, is_free_nav_goal_ is false by then unless there is a     *)
(* free route.                                                             *)
(***************************************************************************)
Reached == Dist[odom][goal] < ConvergeDist

\* The recorded path may be followed some more cycles: a slip that counts one more, and the code.
MomentumLonger == recordedPath # <<>> /\ counter <= MomentumThred
HasMomentum    == recordedPath # <<>> /\ counter < MomentumThred

\* The modes a plan is made in: a slip that forgets to switch to an attempt, and the code.
ModeUnswitched ==
    commandFree /\ (Route[view]["free"][odom][goal] # <<>> \/ freeNav)
NavigatesFree ==
    commandFree /\ \/ Route[view]["free"][odom][goal] # <<>>
                   \/ freeNav /\ (autoswitch => HasMomentum)

Attempt == Route[view]["attempt"][odom][goal]
Planned == Route[view][IF NavigatesFree THEN "free" ELSE "attempt"][odom][goal]

\* NextNavWaypointFromPath: the first node that is not reached yet, or else the last.
NextNavWaypoint(path) ==
    LET ahead == {i \in 1..Len(path) :
                    i = Len(path) \/ Dist[path[i]][odom] >= ConvergeDist}
    IN path[CHOOSE i \in ahead : \A j \in ahead : i <= j]

Far(p, q) == Dist[p][q] > AdjustRadius

\* Momentum although there is a route: the robot has hardly moved, or would turn back.
HardlyMoved ==
    /\ Far(lastOdom, recordedPath[1]) /\ Far(odom, recordedPath[1])
    /\ Len(Planned) > 1 /\ Dist[odom][lastOdom] < MomentumDist
WouldTurnBack ==
    /\ Far(lastOdom, recordedPath[1]) /\ Far(odom, NextNavWaypoint(Planned))
    /\ Heading[lastOdom][recordedPath[1]] * Heading[odom][NextNavWaypoint(Planned)] < 0

CanPlan == graphInit /\ goal # None

ReachGoal ==
    /\ CanPlan /\ Reached
    /\ waypoint' = goal /\ running' = TRUE
    /\ goal' = None
    /\ UNCHANGED <<pos, view, odom, graphInit, resetEnv, commandFree, freeNav, momentum, events>>

\* Slip: the counter stays while nothing is planned.
SameCount == UNCHANGED counter
NextCount == counter' = counter + 1

FollowRecordedPath ==
    /\ CanPlan /\ ~Reached
    /\ HasMomentum
    /\ Planned # <<>> => HardlyMoved \/ WouldTurnBack
    /\ waypoint' = NextNavWaypoint(recordedPath) /\ running' = TRUE
    /\ freeNav' = NavigatesFree
    /\ NextCount
    /\ blind' = IF Attempt = <<>> THEN blind + 1 ELSE 0
    /\ UNCHANGED <<pos, view, odom, graphInit, resetEnv, goal, commandFree, recordedPath,
                   lastOdom, stale, events>>

\* RecordPathInfo
FollowNewPath ==
    /\ CanPlan /\ ~Reached
    /\ Planned # <<>>
    /\ HasMomentum => ~HardlyMoved /\ ~WouldTurnBack
    /\ waypoint' = NextNavWaypoint(Planned) /\ running' = TRUE
    /\ freeNav' = NavigatesFree
    /\ recordedPath' = Planned /\ lastOdom' = odom /\ counter' = 0
    /\ stale' = FALSE /\ blind' = 0
    /\ UNCHANGED <<pos, view, odom, graphInit, resetEnv, goal, commandFree, events>>

\* FAIL TO REACH GOAL
GiveUp ==
    /\ CanPlan /\ ~Reached
    /\ Planned = <<>> /\ ~HasMomentum
    /\ running' = FALSE /\ waypoint' = IF running THEN pos ELSE waypoint
    /\ freeNav' = NavigatesFree
    /\ goal' = None
    /\ UNCHANGED <<pos, view, odom, graphInit, resetEnv, commandFree, momentum, events>>

PlanNothing ==
    /\ ~CanPlan
    /\ UNCHANGED <<pos, waypoint, view, odom, graphInit, running, resetEnv, goal, commandFree,
                   freeNav, momentum, events>>

PlanningCallBack ==
    /\ due = "planning" /\ due' = "main"
    /\ UNCHANGED autoswitch
    /\ ReachGoal \/ FollowRecordedPath \/ FollowNewPath \/ GiveUp \/ PlanNothing

-----------------------------------------------------------------------------
\* The robot drives towards the newest waypoint, as far as the world lets it, between one
\* pair of timer callbacks and the next.
Drive ==
    /\ due = "main"
    /\ waypoint # None
    /\ pos' = Advance[view][pos][waypoint] /\ pos' # pos
    /\ UNCHANGED <<autoswitch, waypoint, view, odom, master, goal, commandFree, freeNav,
                   momentum, events>>

Next ==
    \/ ResetGraphCallBack
    \/ \E g \in Goals : WaypointCallBack(g)
    \/ \E b \in BOOLEAN : AttemptStatusCallBack(b)
    \/ MainLoopCallBack \/ PlanningCallBack \/ Drive

Spec == Init /\ [][Next]_vars

\* The two timers keep firing, and the base follows its waypoint.
FairSpec == Spec /\ WF_vars(MainLoopCallBack) /\ WF_vars(PlanningCallBack) /\ SF_vars(Drive)

-----------------------------------------------------------------------------
(***************************************************************************)
(* Properties.                                                             *)
(***************************************************************************)
\* The types of the fields, the robot and the histories; path_momentum_counter_ never
\* exceeds momentum_thred, and a path is recorded with the odometry it was planned from.
TypeOK ==
    /\ autoswitch \in BOOLEAN
    /\ pos \in Places /\ waypoint \in Places \cup {None} /\ view \in Views
    /\ odom \in Places \cup {None} /\ (graphInit => odom # None)
    /\ graphInit \in BOOLEAN /\ running \in BOOLEAN /\ resetEnv \in BOOLEAN
    /\ due \in {"main", "planning"}
    /\ goal \in Goals \cup {None}
    /\ commandFree \in BOOLEAN /\ freeNav \in BOOLEAN
    /\ recordedPath \in Seq(Places) /\ lastOdom \in Places \cup {None}
    /\ (recordedPath # <<>> => lastOdom # None)
    /\ counter \in 0..MomentumThred /\ blind \in Nat /\ stale \in BOOLEAN
    /\ events \in 0..MaxEvents

\* Momentum is bounded and leads to the present goal: a recorded path ends where the robot
\* is to go now, and no more than path_momentum_thred cycles in a row drive the robot
\* without any route in the graph.
MomentumSound ==
    /\ recordedPath # <<>> /\ goal # None => recordedPath[Len(recordedPath)] = goal
    /\ blind <= MomentumThred

\* The operator's choice of the mode takes effect at the next plan: a path recorded under
\* the other command is not followed any more.
CommandTakesEffect == [][FollowRecordedPath => ~stale]_vars

\* A goal is given up only when the graph has no route to it at all (with is_autoswitch:
\* "if such a path does not exist, the planner will consider unknown space together"), and
\* the robot is stopped, or rests, where it is.
GivesUpRightly ==
    [][GiveUp => (autoswitch => Attempt = <<>>) /\ waypoint' \in {pos, None}]_vars

\* Every goal is settled: reached, given up or taken back, however momentum, the two modes
\* and the robot's own motion play together.
GoalSettled == goal # None ~> goal = None
=============================================================================
