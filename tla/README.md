# A verification project for autonomy_stack_go2

TLA+ models of the parts of the Go2 autonomy stack that decide, the TLC runs that
check them on small instances, and proofs, checked by the TLA+ proof system, that hold
for every value of the parameters.

Paths below are relative to the repository's `src/` directory unless they say
otherwise. A module's definitions carry the names of the functions and variables they
model; `PROJECT.json` gives the source lines of each definition.

## 1. The system

### 1.1 From the sensors to the legs

    lidar, IMU --> point_lio / fast_lio --> sensor_scan_generation --> terrain_analysis(_ext)
                                                                           |
    operator's goal --> far_planner --/way_point--> localPlanner <---------+
                                                        | /path
    joystick, /speed, /stop --------------------> pathFollower
                                                        | /cmd_vel
    wireless remote ----------------------------> go2_cmd_vel_bridge --> sport service

    Unity <--TCP--> ROS-TCP-Endpoint <--> topics and services

Every arrow is a ROS 2 topic with a bounded queue. Nodes share no memory. Within a node
callbacks run one at a time (`rclpy.spin`, `rclcpp::spin`, or `spin_some` inside a
100 Hz loop), so a node's state is only exposed between callbacks, but the order of
callbacks is open, several messages may arrive between two turns of a loop, and a full
queue forgets its oldest message. The endpoint to Unity is the exception: its callbacks
run on the threads of a multi-threaded executor, beside two threads for every connection
and one for every service call, with one shared queue and one shared variable between them.

### 1.2 Inventory

| component | state it keeps | operations | talks to | what is hard | what makes it correct |
|---|---|---|---|---|---|
| `utilities/go2_cmd_vel_bridge` | mode, last keys, newest command and its time, sticks and their time, override flag; outside it the robot's joystick switch and velocity | command callback, wireless callback, 50 Hz stream timer, shutdown | subscribes `/cmd_vel`, `/wirelesscontroller`; requests to the sport service | two clocks, a toggle on key edges, bounded request history, a process that dies in autonomy | the operator always gets the robot back, a silent planner stops the robot |
| `local_planner/pathFollower` | pose, path and look-ahead index, joystick, speed and yaw rate, stop bits, direction, several time stamps | odometry, path, joystick, speed, stop handlers; 100 Hz control step | `/path` in, `/cmd_vel` out | paths replaced half driven, ramps whose step does not divide the speed, two writers of the speed | index inside the path, bounded and smooth speed, sideways or backwards only while braking, stop is rest |
| `local_planner/localPlanner` | pose, goal, clouds, boundary, joystick, mode and check flags, path scale | 9 handlers; the path search of every cloud | terrain maps and `/way_point` in, `/path` out | two nested shrinking loops over one variable, flags with two writers | search ends and restores its scale, published paths are clear, stops are explained |
| `terrain_analysis` | rolling voxel grid | cloud, joystick, clearing handlers; roll, decay, estimate | scans in, terrain map out | rolling indices, decay against clearing distance | each voxel holds the points of its own square |
| `terrain_analysis_ext` | the same, larger; planar grid with elevations, marks of support, transition and connectivity, a queue; newest local map | as above, then the search for connected ground | scans and the local map in, extended map out | a search that marks while it walks, in arrays that outlive the scan | published ground is connected with the vehicle's, every scan leads to a map |
| `terrain_analysis/traversable_terrain.hpp` | none (a pure algorithm) | support, transitions, release of points | called by both terrain nodes | order of rules, all eight directions | stairs are found in whatever direction; as docs/stair_navigation.md says |
| `sensor_scan_generation` | newest pose | one synchronised callback | scan and odometry in | pairing of messages | pose belongs to the scan |
| `waypoint_example` | index, waiting time | pose handler; loop | `/way_point`, `/speed` out | waiting, end of the list | every way-point is visited in order |
| `vehicle_simulator`, `visualization_tools` | pose; metrics | integrate and publish | stand-ins and plots | none that decides | |
| `far_planner` master (`far_planner.cpp`) | flags of initialisation, reset, running; stored graph | main timer, planning timer, 15 subscriptions | all its parts | two timers of one period, resets, goals in between | a failed goal stops the robot |
| `far_planner` dynamic graph | nodes and, for each, six neighbour lists and three maps of votes; near, wide and margin lists; watched nodes | near nodes, extraction, removal, re-evaluation, edges, contours, trajectory | called by master and graph planner | nodes point at each other and are removed while others still list them | lists are symmetric, tracked by votes, and free of removed nodes |
| `far_planner` graph planner | a copy of the graph, goal, recorded path, momentum counter | goal update, goal edges, reachability, path | called by the master's planning timer | a stale copy, search states left over, momentum against new routes, two modes | goal edges lead into the graph; a stale path is followed for a bounded time; every goal is settled |
| `far_planner` contour graph and detector; map, scan, terrain handlers; utilities | polygons; grids | image processing, geometry | called by the master | numerics | |
| `far_planner` graph messenger, `graph_decoder`, `visibility_graph_msg` | node tables | encode, decode, merge | graphs from files and other robots | identifiers, missing neighbours | a decoded graph is the encoded one |
| `boundary_handler` | none | once at start | files | geometry | |
| `slam/*` | filter and map state; sensor buffers | numerics; synchronisation of buffers | lidar, IMU | out-of-order sensor data | a scan is processed with the IMU data of its span |
| RViz plugins | the panel's joystick state | mouse and key handlers | `/joy`, `/way_point`, `/goal_point` | their messages override flags elsewhere | |
| `utilities/ROS-TCP-Endpoint` | the queue on offer, the number a header announced, numbers and pausers of waiting calls, tables of nodes | accept; read and dispatch; send; topic callback; service call either way | Unity over TCP | test-then-put on a shared queue, reconnect, calls that wait for answers | no answer goes to the wrong call, threads end with their connection, sleeping calls wake |
| `calibrate_imu`, `transform_sensors`, `unitree_pkgs` | little | run once; stateless; vendored | sensors | numerics | |
| launch files and scripts | none | start the nodes | | | |

`PROJECT.json` lists the same components with what is modelled of each, and the hazards
of the modelled code, each at its line.

## 2. Modules

    Plane -------- PathFollower ----- MCPathFollower      PathFollower_proofs
      |    \------ LocalPlanner ----- MCLocalPlanner      LocalPlanner_proofs
      +----------- Plane_proofs
    Arbiter ------ CmdVelBridge ------ MCCmdVelBridge     CmdVelBridge_proofs
    NodeLists ---- DynamicGraph ------ MCDynamicGraph       DynamicGraph_proofs
                   FarPlanner -------- MCFarPlanner       FarPlanner_proofs
                   TcpEndpoint ------- MCTcpEndpoint      TcpEndpoint_proofs
    TraversableTerrain --- TerrainAnalysisExt --- MCTerrainAnalysisExt     TerrainAnalysisExt_proofs

An `MC` module holds the values of one or more instances, a `.cfg` one instance. A
`_proofs` module holds theorems and their proofs. Definitions marked *slip* in the
modules are the code with one plausible mistake in it (a guard dropped, a reset left
out, a list cleared on one side only). No specification uses them: putting a slip in the
place of the definition it follows makes TLC refute the property it is meant for
(`mutants` in `PROJECT.json`), which shows that the property depends on the code.

### 2.1 CmdVelBridge

`utilities/go2_cmd_vel_bridge/go2_cmd_vel_bridge/cmd_vel_bridge.py` and
`sport_client.py`, with the sport service of the robot.

One action for each callback and branch: `CmdVelCallback`, `WirelessCallback` (with
`EnterAutonomyMode` and `ExitAutonomyMode`), the stream timer as `StreamIdle`,
`StreamSticks`, `StreamPlanner`, and `Shutdown`. `Kill` and `Restart` are the operating
system's, `PlannerPublish`, `RemotePublish` and `RobotTakes` belong to the neighbours.
Time is counted in periods of the stream timer; instead of the instants
`_last_cmd_time` and `_last_wireless_time` the model keeps their ages, which stop
counting above every threshold. The timer may run `MaxLate` periods late. Queues keep
the newest messages, as `KEEP_LAST` does, also the publisher's, which is why what the
robot *will* be told, `JoystickWillBe` and `MoveWillBe`, and not what has been
published, is the matter of the safety properties. A killed process loses an arbitrary
tail of what it had not sent, and so does one that is shut down: `main` destroys the node at
once after `shutdown()` has published, so the hand-back itself may be lost (or never leave, when
the context was gone before). `orphaned` remembers that something was lost, or that a process was
killed in autonomy; `RemoteRestored` promises nothing then, and `RemoteByDefault` shows what
follows.

`Arbiter` is what the bridge promises of the robot, without topics, queues and clocks: who
drives (the `remote`, in autonomy the `planner` or the `sticks`, or `nobody` once a process has
ended and its requests or its hand-back were lost), and what joystick setting and velocity the robot will obey when it has taken
every request under way. Autonomy takes over a resting robot, the planner drives within its limits,
and the robot is handed back at rest with its joystick on. `CmdVelBridge!Abstract` is
the refinement mapping: `Driver` reads the bridge's mode and its override, `WillMove` and
`JoystickWillBe` the robot and the requests under way. The property `ImplementsArbiter` is the
arbiter's specification under that mapping.

### 2.2 PathFollower

`base_autonomy/local_planner/src/pathFollower.cpp`, all of it. `ControlStep` is the body
of the loop after `spin_some`; each handler is an action. The plane is a grid with
headings in eighths of a turn (`Plane`); distances are in the larger of both axes. The
control step keeps the order of the code: look-ahead with `Passed`, the switch of
direction, the wanted speed near the path's end, slow-down on slopes, the ramp, the
safety overrides, the publication every `PubSkipNum + 1` steps with its dead band. Of a
yaw rate the sign is kept; of the published velocity the signed length and the signs of its two
components, which are the cosine and the sine of the direction error times the speed. `Init` lets
the node start in waypoint mode with `autonomySpeed`, as its parameters may say. The times the code compares are ages again, advanced by `Tick`.

### 2.3 LocalPlanner

`base_autonomy/local_planner/src/localPlanner.cpp` with `useTerrainAnalysis` on, as every
launch file has it, `checkRotObstacle` off and `useCost` off, as the parameters have it.
The handlers write the joystick, mode, goal, cloud and check variables;
`BeginPlanning` takes a cloud up, and each pass of the search is an action of its own
(`SearchFound`, `SearchShrink`, `SearchFail`), so that TLC sees every intermediate scale.
Path tables, which the code reads from files, are the constants `StartPath` and `Branch`;
`InPath` does for one group of paths what the correspondence file does for voxels, and `InGrid`
says which points have a voxel: those ahead of the path's start, in a grid that widens from the
search radius. What stands behind the vehicle never blocks a path. A
group is scored by whether it is clear and within the wanted directions: among groups
with a positive score the one with the largest is not singled out, any may win.

### 2.4 NodeLists and DynamicGraph

`route_planner/far_planner`: `dynamic_graph.cpp/.h`, and what `graph_planner.cpp/.h` and
`far_planner.cpp` do to the graph. A list every node keeps is a set of ordered pairs, so
that a list and the one that mirrors it are two facts and may disagree; queues of votes
are sequences. `NodeLists` has the operations the code builds everything from: add on both
sides, erase on both sides, clear by a node's own list, record, delete and reset votes.

`MainLoopCallBack` is cut into phases; its loops over nodes take one node in each step.
In the code no callback runs between them. The phases `corners`, `clear`, `odom`, `fresh`, `out`,
`near`, `break` follow `UpdateNavGraph` from top to bottom; a frozen graph
(`is_stop_update_`) skips those the code skips. `WaypointCallBack`, `PlanningCallBack` and
`ResetEnvironment` come when the main timer is idle. `PlanningCallBack` joins the goal
through `currentGraph`, the planner's own copy, before it renews the copy, as the code does.

What a scan shows is a choice: a view (nodes near, on the margin, matched with a vertex),
free lines (`Sight`) and contours (`Outline`) between nodes. `IsValidConnect` keeps what
follows: which votes are cast, who wins, which winners must be joined (the robot's pairs,
contour pairs, trajectory pairs) and which may be refused for a shorter edge. The model is
one robot's own graph: nodes of other robots, and with them inactive nodes, are out; so are
boundary nodes, terrain votes, and covered and frontier marks, which only weigh in choices
the model leaves open. `is_block_to_goal` is part of such a choice too. Two places keep removed
nodes and are meant to be outside `RemovedForgotten`: what a watched node has reached before
(`reached`, as in the code, is purged of nothing; a removed node has no votes to take), and
`idx_node_map_`, which loses the nodes the main timer clears but not the goals `ClearGoalNodeInGraph`
takes out; only the graph messages look nodes up in it, and they are not modelled.

### 2.5 FarPlanner

The life of a goal: the callbacks of `far_planner.cpp` and `PathToGoal` with what it calls in
`graph_planner.cpp`. The graph itself is `DynamicGraph`'s matter; here it is a *view*, and
`Route` says what the search returns in it, for either mode. Geometry is a set of places
with `Dist`, `Heading` and the robot's next place (`Advance`), given by the instance. The
planning callback is one action for each way `PathToGoal` can go: `ReachGoal`, `FollowNewPath`,
`FollowRecordedPath` (momentum: no route, the robot has hardly moved, or it would turn back),
`GiveUp`, `PlanNothing`. The goal, the command of the attempt box, the reset and a change of the
view come at any moment, bounded by `MaxEvents`. The timers have one period and one executor
(far_planner.cpp:66-68) and fire in turn (`due`); the robot drives between one pair of
callbacks and the next. `autoswitch` is the parameter of that name: it never changes, and
`Init` allows both values. `stale` and `blind` are history variables, read by properties only.

### 2.6 TcpEndpoint

`utilities/ROS-TCP-Endpoint/ros_tcp_endpoint`: `client.py`, `tcp_sender.py`, `thread_pauser.py`,
`server.py`, `unity_service.py`, `subscriber.py`. A step ends where another thread may see the
difference: testing `self.queue` and putting into it are two steps, as are putting a request and
falling asleep, setting `halt_event` and giving up the queue. `pending_srv_id` and its flag belong to
all connections, and each look at them is a step: the client thread tests the number, then the flag
(`TakeAsBody`), or finds none, then writes the number, then the flag (`TakeHeader`), so two readers may
both find none and write one after the other. Messages are kept up to what decides how they are handled; a service call
or answer from Unity is a header and a body, as on the wire. `serving` is the set of threads
that call ROS services for Unity. Exceptions the code does not catch end the thread
(`reader` goes to `finally`, or straight to `done` after a system command that is unknown or cannot be
decoded, `malformed`) or, in a callback, the executor (`raised`: no callback begins after).
`Unity` and `Disconnect` belong to the far end; a break may lose what was sent. `AnswerMatches` has two
parts. `OwnAnswers`: over a single connection a call gets the answer to its own request. `NothingLost`:
while the one connection lasts its reader does not end, and the numbers on their way through queue,
sender, Unity, stream and reader are those of the calls that are put and not answered, no more
and no fewer. Across two connections neither is claimed, nor promised by the code; that a call wakes
after a break of its connection is not either, and in the model, as in the code, it does not.

### 2.7 TraversableTerrain and TerrainAnalysisExt

`TraversableTerrain` is `terrain_analysis/include/terrain_analysis/traversable_terrain.hpp`, a pure
algorithm, one operator for each function and each test. Heights are integers; `wall_fill_thre`, a
share, is in percent. The code walks arrays and flags; the operators say which cells come out.

`TerrainAnalysisExt` is `terrain_analysis_ext/src/terrainAnalysisExt.cpp` from the points in the
voxels to the published map. The planar grid is always centred on the vehicle, whose height is taken
as 0. What the voxels hold when a scan is processed is a choice among `Clouds`, since their rolling,
decay and clearing are not modelled. `EstimateGround` clears the marks and finds the elevations,
`DetectTransitions` marks stairs and puts the vehicle's cell into the queue. The breadth-first search
is one step for each cell taken from the queue (`VisitFront`) and one for each neighbour that is
still open (`ExamineNeighbour`, in the order of the loops, with the three outcomes `JoinCell`,
`DropCeiling`, `LeaveOpen`). `Publish` merges its points with the newest local map. `stairEnable` and
`checkTerrainConn` are parameters that never change: `Init` allows both values. `visited` is a history
variable, read by properties only (its last element is the cell the loop holds in `front`).

## 3. Runs

| run | instance | states | checks |
|---|---|---|---|
| `bridge_safety` | 3 commands (rest, below the threshold, above the limit), 3 remote messages (both keys; one key and the sticks inside the dead zone; no key and a stick pushed), time-out 1, stale 2, late by 1, queues of 1 and 3 | 2 850 017 | `TypeOK`, `RemoteRestored`, `WatchdogHolds`, `ImplementsArbiter` |
| `bridge_liveness` | 1 command, time-out 0, stale 1, never late | 180 433 | `CommandLossStops`, `ExitReachesRobot` under `FairSpec` |
| `bridge_crash` | as `bridge_safety` | stops at the violation | `RemoteByDefault`, violated |
| `follower` | driving one way or both, started in either mode; speed up to 5 in steps of 2, 2 poses facing each other's back, 2 paths, 3 joystick messages, speeds -1 and 9, stop bits none or both | 102 080 | `TypeOK`, `PathPointInPath`, `SpeedBounded`, `BacksOnlyBraking`, `StopIsRest`, `SmoothSpeed`, `IdleComesToRest` under `FairSpec` |
| `planner` | 2 poses, 2 goals, 4 joystick messages, 4 clouds, boundaries and added obstacles, scales 2 and 1, ranges from 12 down to 3, a grid 5 long and 1 to 3 wide to either side | 237 952 | `TypeOK`, `ScaleRestored`, `IgnoredOnlyUnattended`, `PathIsClear`, `StopsForCloseObstacles`, `CloudAnswered` under `FairSpec` |
| `graph_contours` | robot, 3 corners, 1 trajectory node; queues of 2 votes, watched for 1 cycle | 64 621 | `TypeOK`, `ListsMirrored`, `VotesTracked`, `EdgesBacked`, `ContourVoted` |
| `graph_goals` | robot, 2 trajectory nodes, 2 goals; queues of 1 vote, dynamic environment | 623 256 | `RemovedForgotten`, `OdomEdgesRevalidated` |
| `graph_stale_goal` | as `graph_goals` | stops at the violation | `GoalConnectsToGraph`, violated |
| `goal` | a ring of 12 places, nodes at 4 corners, doors on two sides (closed, unknown or open), 2 opposite goals, momentum of 3 cycles, 3 events | 167 128 | `TypeOK`, `MomentumSound`, `CommandTakesEffect`, `GivesUpRightly`, `GoalSettled` under `FairSpec` |
| `endpoint` | 2 connections, 2 calls of a Unity service, 1 topic, 1 call from Unity, 2 executor threads, 1 message nobody asked for | 455 935 | `TypeOK`, `HandshakeFirst`, `WaitingTracked`, `AnswerMatches`, `ThreadsEnd`, `SleepEnds` under `FairSpec` |
| `endpoint_lost_wakeup` | 1 connection, 1 call, 1 thread | stops at the violation | `SleepIsHarmless`, violated |
| `terrain` | 5 by 5 cells, reach 2; floors that are level, climb or fall by 5 heights of step along either axis, whole, one strip, with a hole under the vehicle or a wall; diagonal stairs and bands of them; with and without `stairEnable` and `checkTerrainConn` | 29 332 | `GroundConnected`, `MarksTurnWithGrid`, `ScanAnswered` under `FairSpec` |

What they show:

* **The bridge.** Outside autonomy the robot will be at rest with its own joystick on,
  whatever the request history dropped; a planner's velocity outlives its silence by the
  time-out and the timer's lateness only; in all it is an arbiter
  that takes over and hands back a robot at rest only. With a fair executor both reach the robot. A process that dies in autonomy, though, is replaced by one that calls
  itself in remote mode and leaves the robot's joystick off (`bridge_crash`, a finding:
  the node's start message promises remote control by default).
* **The follower.** The look-ahead index never leaves the path; the speed may exceed its
  limit by less than one step of acceleration, and no more; a command that drives the
  vehicle sideways or, unasked, backwards comes from a step that takes speed away (it does happen: a
  path behind a moving vehicle turns `linear.x` negative while the speed runs down); `/stop` publishes rest; published speeds are smooth but for stops;
  an idle follower comes to rest although a ramp that steps over zero may never hit it.
* **The planner.** The search ends and puts its scale back however it ends; a published path
  keeps half a path's width from the obstacles ahead of its start it considered, at the scale reached;
  a stop is explained by obstacles near the vehicle; ignored obstacles end with the operator's
  return.
* **The graph.** Both lists of a pair agree at every step, although nodes are cleared by their own
  lists only; votes and potential neighbours agree, which every unchecked `find` in the code
  needs; an edge is backed by a free line or a contour; no list that is
  followed and no pointer to a node in use names a removed node;
  every edge of the robot is checked again in every cycle. A goal that replaces
  another before the next main cycle is joined to the removed one (`graph_stale_goal`, a
  finding), through the planner's copy of the graph.
* **The goal.** A recorded path always leads to the present goal and drives the robot without a
  route for `momentum_thred` cycles at most; a command of the operator ends it at once; a goal
  is given up only when no route is left (with `is_attempt_autoswitch`, none through unknown
  space either), and then the robot is told its own place. Every goal is settled, also
  when two routes are equally long and momentum and the turn-back test decide between them.
  That depends on the timers firing in turn: were a plan made several times on one odometry, the
  distance "hardly moved" would be measured from a place the robot has left, and the model has a
  swing between two equal routes that never ends. `is_attempt_autoswitch` is off as shipped
  (`config/default.yaml:18`), so the promise of `README.md`, that unknown space is considered when
  there is no free path, needs the parameter set.
* **The endpoint.** Whatever order two connections come and go in, each hears the handshake first,
  no older connection takes a newer one's queue, and a connection that breaks takes both of its
  threads and its queue along. The table of waiting calls is exact; over one connection
  every call gets its own answer, and while it lasts no request and no answer is lost. A call that
  sleeps before its answer is there wakes up; one whose answer comes between its request
  and its sleep does not (`endpoint_lost_wakeup`, a finding: the wait does not look whether the result
  is there).
* **The terrain.** Ground that is published is linked, cell by cell, with the vehicle's; when
  the search is over nothing linked with ground is left out, except what a cell visited earlier had
  taken for a ceiling: that stays dropped, although a way round may lead to it. Marks of stairs turn and mirror with
  the grid, so stairs are found in all eight directions alike; the comment at
  `traversable_terrain.hpp:144`, "for diagonals use a cardinal normal", is not what the code
  does, and such a normal breaks the property. Every scan leads to a map. What
  docs/stair_navigation.md says of the parameters holds for the minima of rises and steps and for the
  maximum (`StricterTuningMarksFewer`). Of `flatEps` it says that raising it lets fewer ripples pass
  (line 74): below `minStepRise` raising it takes no mark away (`RaisingFlatEpsKeepsMarks`). For the only
  effect of `flatEps` there is the veto of a step against the direction of the whole, which
  line 42 says a small step has not: raising it weakens that veto.

### 3.1 Bounds

* Queues: a depth of 1 already loses messages. The bridge's request history has 3 where the
  code has 10; three is the least for which the code's argument works (the two
  requests of leaving autonomy, and one `Move` behind them), and the theorem shows it for every
  depth from three.
* Times: thresholds of 1 or 2 periods, so that ages below, at and above each occur, with a timer
  that is on time and late.
* Speeds: 7 with steps of 2 never meets its target exactly; 9 is above the limit, -1 below
  zero. Paths include one shorter than the one it replaces; with the second pose the vehicle has turned
  its back on the path's end, on a slope. `twoWayDrive` is a variable that no step changes, so that one
  run covers both ways of driving.
* Search: full speed shrinks the scale once and the range twice before it fails; the clouds are
  nothing, a wall ahead, close points with one far to the side, and a single point, which
  by the code's threshold does not block.
* Graph: with one view a corner is seen, with the other it is in range and not seen, and a
  neighbour is out of range: enough for corners to be doubted, cleared and made again, and for
  neighbours to be watched, matched and dropped. `DumperThred` 0 clears at the first doubt (the
  second of a trajectory node), queues of two votes hold agreement and disagreement.
  Without goals of their own the reachability flags are read by no step, so `graph_contours` drops them
  from the view of a state.
* Goals: the ring has two routes between opposite corners, so that ties, momentum against a nearer
  route, and a door found closed half-way all occur; three events are a goal, a change of the view or
  of the command, and another goal. Places are 12 so that a robot can be within converge distance
  of a corner, beyond it, and half-way.
* Endpoint: two connections overlap or follow one another; two calls can wait together and be
  answered in either order; two threads can both be asleep. A request can be in the queue, in the sender's
  hand, with Unity, in the stream and in the reader's hand while another is anywhere else.
* Terrain: five cells a row hold a run of four, the length the launch files set, in every direction,
  with room beside it. The diagonal flight climbs 6 to each neighbour, within the support
  band, and so 12 a step along the diagonal, which counts: diagonal runs are found. Steps of 9 lie between
  `flatEps` and `minStepRise`, of 15 within the limits, of 30 above `maxStepRise` and above the ceiling's threshold, of 250 above the vehicle. A reach of 2
  makes cells meet over a gap. Between two turns of the loop nothing reads the grid, and the next turn
  begins by clearing it, so the view of an idle state leaves it out; what `GroundConnected` says of
  such a state it has said of the state before `Publish`, which changes none of its variables.
* `CHECK_DEADLOCK FALSE` stands in the bridge's instances, where the process may have
  ended, every request taken, and nobody starts it again, and in those of the endpoint, where Unity
  may have gone for good with every event of the bounds used. It also stands in `goal`: with the
  bounds used up the timers change nothing any more, so the state has no step but stuttering.

### 3.2 Fairness

* `CmdVelBridge!FairSpec`: weak fairness of the stream callback, of both message callbacks, of
  the clock and of the robot's taking of requests. `rclpy.spin` serves whatever is ready, and the
  timer is ready once per period. Nothing is assumed of the planner, the
  operator or the life of the process.
* `PathFollower!FairSpec`: weak fairness of `ControlStep`, the body of the loop that runs at
  100 Hz whatever arrives.
* `LocalPlanner!FairSpec`: weak fairness of taking up a cloud, at each turn of the
  loop, and of the steps of the search, a plain loop in the code.
* `FarPlanner!FairSpec`: weak fairness of both timers, and strong fairness of `Drive`, which is
  enabled only between two pairs of callbacks: while the goal is open the base makes
  progress towards its newest way-point, if it is not there and nothing is in the way.
* `TcpEndpoint!FairSpec`: weak fairness of each client thread, each sender thread and each running
  callback (threads of an operating system), and of Unity's answer to a request it has
  received. Nothing is assumed of connections: they may come, break and stay away.
* `TerrainAnalysisExt!FairSpec`: weak fairness of the steps of the loop's body, a loop at 100 Hz
  (terrainAnalysisExt.cpp:285) whatever arrives.
* `DynamicGraph` states safety only, and no fairness.

## 4. Proofs

| module | theorems | assumptions |
|---|---|---|
| `CmdVelBridge_proofs` | `Inductive`, `TypeCorrect`, `RemoteRestoredAlways`, `WatchdogAlwaysHolds`, `AutonomyAlwaysStartsAtRest`, `BridgeImplementsArbiter` | `ValuesAssumption`, `TimesAssumption`, `ThresholdsAssumption`, `DepthAssumption` (a request history of at least 3) |
| `PathFollower_proofs` | `Inductive`, `TypeCorrect`, `PathPointAlwaysInPath`, `SpeedAlwaysBounded`, `BacksAlwaysBraking`, `StopAlwaysRest`, `SpeedAlwaysSmooth` | the three assumptions of `PathFollower` |
| `LocalPlanner_proofs` | `Inductive`, `TypeCorrect`, `ScaleAlwaysRestored`, `AlwaysIgnoredOnlyUnattended`, `AlwaysStopsForCloseObstacles`, `PathAlwaysClear`, `SearchAlwaysShrinks`, `StartAlwaysWithinReach` | those of `LocalPlanner`; for stops and shrinking, `ReachAssumption`: the smallest paths reach no further than the smallest range |
| `Plane_proofs` | lemmas on headings, turning, parts and quotients | |
| `FarPlanner_proofs` | `Inductive`, `TypeCorrect`, `MomentumAlwaysSound`, `CommandAlwaysTakesEffect`, `AlwaysGivesUpRightly` | `PlacesAssumption`, `RouteAssumption` (a route ends at its goal; a free route is one that may be attempted), `ParametersAssumption` |
| `DynamicGraph_proofs` | `Inductive`, `TypeCorrect`, `ListsAlwaysMirrored`, `VotesAlwaysTracked`, `EdgesAlwaysBacked`, `OdomEdgesAlwaysRevalidated`, `KnownInductive`, `RemovedAlwaysForgotten`, `ContoursAlwaysVoted` | `NodeAssumption`, `ParametersAssumption` (the robot's queues are no longer than the others) |
| `TcpEndpoint_proofs` | `TypeCorrect`, `HandshakeAlwaysFirst`, `WaitingAlwaysTracked`, `AnswersAlwaysMatch` | `EndpointAssumption`, `NoneAssumption` (`None` is no number, no item and no message) |
| `TerrainAnalysisExt_proofs` | `TypeCorrect`, `MarksAlwaysExact`, `GroundAlwaysConnected`, `MarksAlwaysTurnWithGrid`, `RaisingFlatEpsKeepsMarks`, `StricterTuningMarksFewer`, `SearchAlwaysAdvances`, `NeighbourAlwaysFollows` | `WidthAssumption`, `TerrainAssumption` |

**The bridge.** `RemoteRestored` is not inductive: to leave autonomy cleanly, the two
requests of `ExitAutonomyMode` must not be undone or dropped by what is published later. The
invariant `IInv` adds that in remote mode the bridge holds no command (`RemoteHoldsNothing`)
and, in `RestoredInv`, `AtRest`: while the process is up and outside autonomy, the zero velocity
is one of the last two requests of the history, with no `Move` after it, until the robot takes it
- so that the request published on entering autonomy again, or when the process ends, cannot push
it out of a history of three. Pushing onto a
bounded history is described once (`PushedContents`, `PublishedMove`, `PublishedJoystick`,
`PublishedBoth`, `Taken`), and each action cites the lemma of what it publishes.

**The arbiter.** `BridgeImplementsArbiter` is a refinement: initial states map to initial states,
and under `IInv` and `CommandLimited` (the command kept is within the limits)
every step of the bridge is a step of the arbiter or a stutter under the mapping. The heart is what a push onto the bounded request
history does to the last `Move` in it (`Greatest` gives that one its name), so that
`WillMove` after a publication is a matter of what was published.

**The goal.** `MomentumSound` is not inductive: a step adds to `blind` whatever it is. `IInv` keeps
it below the counter (`BlindCounted`), which a plan tests before it counts on. `CommandTakesEffect`
needs that momentum is spent once the command has changed (`StaleSpent`), `GivesUpRightly` that the
way-point of a planner that does not run is where the robot is (`AtRest`); it splits on the mode
a plan was made in, and uses that a free route may also be attempted. `NextNavWaypoint` chooses
the first node that is not reached: `Least` says that there is one, by well-founded induction.

**The follower.** `SpeedBounded` is inductive by itself. `BacksOnlyBraking` needs
`ForwardOnly`: without two-way driving the direction is forward and the speed above minus one
step, so that what the dead band lets through is positive; a command beside or behind is not
`Aligned`, and then the ramp aims at rest. A control step is split into what it aims at (`TargetBound`: between rest and the wanted
speed), the ramp (`RampedBound`), and the published command. `SmoothSpeed` relates two publications,
between which steps pass that publish nothing: `SpeedNear` bounds how far the speed may have come
from the one published last (`StepOfSpeed` for one step), or from rest since a stop.

**The graph.** Nothing in it is inductive alone. The code clears a node by walking the node's own
lists and erasing it from the neighbours it finds there, so it is erased everywhere only if lists are
mirrored; the queues of both ends stay equal only if a pair has queues exactly while it is a
potential pair; an edge outlives its last vote only through a contour. `IInv` joins these, and each
operation of `NodeLists` has a lemma (what adding, erasing, clearing, voting do to a mirrored relation)
that the actions cite. `EdgesBacked` follows a cycle through the choice of contours (`TopTwo`,
`JoinedBacked`); for `OdomEdgesRevalidated` the invariant says that until the check the robot's edges
lead into what the check covers (`OdomCovered`). `RemovedForgotten` needs a second invariant, `KInv`, on
top of the first: what a cycle remembers between its phases (outlines, trajectory, lines, goal, scan)
names known nodes, and doubts are only of nodes that may be cleared (`DoubtsOK`).

**The planner.** `FailureExplained` says of a search whose range has shrunk below the smallest,
and which is about to fail, that it has obstacles close by to show (`EnoughCloseBy`): the range
tried last was less than a step above the smallest, and the points that blocked every group lay
within it (`BlockedWithinRange`). `DefaultKept` says that `defPathScale` is the parameter.
`PathAlwaysClear` takes only types, finiteness and `NotYetFound` from `IInv`: the step that finds
a path selects a direction whose group is clear (`TouchingBlocks` turns "a point inside the grid,
as the path is turned, near the path" into "a point that blocks the group").

**Searches end.** `CloudAnswered` and `ScanAnswered` are liveness and stay with TLC; what they rest on is
proved for all parameters. Each round of the planner's search lowers the scale, or keeps it and lowers the
range, and neither goes further than a step below its minimum (`SearchAlwaysShrinks`, which needs
`ReachAssumption`: a smaller scale may not undo the bound on the range); a clear quarter always has at
least one point to publish, since the start path begins under the vehicle (`StartAlwaysWithinReach`).
Each turn of the terrain's search leaves fewer cells unvisited, or as many and fewer neighbours to
look at (`SearchAlwaysAdvances`, by `MarksExact`), and there is exactly one neighbour to look at next
(`NeighbourAlwaysFollows`). The last step, from a measure that falls to a search that ends, needs
fairness and is TLC's.

**The terrain.** `GroundConnected` speaks of the search's end; `IInv` follows it there. `Bookkeeping`
(types, and marks that say exactly what is queued and what was visited, `MarksExact`) keeps a cell from
being queued twice; `QueueLinked` says that what is queued is linked with ground already, `GroundLinked`
the same of the ground itself, `CeilingsSeen` that a dropped cell was a ceiling to some cell visited
before, and `VisitsSettle` that every neighbour of a visited cell that is linked with it is marked or
still to be looked at. That elevations have their type needs the choice in `Elevation` to exist: among
finitely many heights some rank is reached (`Highest`, `Lowest`). `MarksAlwaysTurnWithGrid` rests on
one lemma about motions: a bijection of the cells that takes each direction to a direction and a normal
to a normal or its opposite takes runs to runs; a quarter turn and a mirror are two. The two theorems on tuning
compare the transitions of two tunings on the same elevations.

**The endpoint.** Five invariants, one on top of the other. `TypeInv` adds to the types that whatever
a thread works on is there while it works on it (`HandHeld`, `ItemHeld`, `CallHasNumber`): a header
whose number is taken, an item that is sent. `GreetInv` is about connections: both threads
live with theirs, and a sender that ends has lost it (`ThreadsLinked`); until Unity has the handshake
it is first in the queue or held by the sender (`Greeting`), which whatever is put behind it
leaves alone (`BehindKeeps`); a queue on offer is being served (`Offered`). `WaitInv` is about calls:
`Numbered` says that every number given is below the next one, so that `BeginCall` brings a new one into
the table and `Resume`, which finds its call by number, takes the entry of that call alone out of it.
`StreamInv` is about what comes from Unity. `AnswerMatches` needs `Paired`, that the header of an answer
is followed by the answer (`PairedConcat`, `PairedTail`: appending and reading keep it), and `InStep`,
which follows the pair through the client thread: header in hand, number tested, number taken but
not yet the kind of message, both taken, answer in hand, number tested again. The pending number is shared by all connections, so
`InStep` holds only while there has been one (`OneAccepted`); a second one makes the premise
of `OwnAnswers` false for good. `KeptInv` is about what is on its way while that one connection is up. `InTurn` says
that the reader takes every answer for one: none comes to it outside its turn, the body of a
request is no answer, and an error is sent back only while a queue is on offer, so it never ends.
`Once` says that each number is in one place, once (`Apart`, `NoRepeats`; `NumbersConcat`,
`NumbersAppend` and `NumbersTail` say what appending and taking do to the numbers in a sequence). `Unused`
gives the new connection an empty start, and `Lasting` joins these: `ReaderKeeps`, `SenderKeeps`,
`UnityKeeps` and `CallbackKeeps` show that each step moves a number on or leaves it where it is,
`ResumeOnce` that it leaves the way exactly when its call is answered, `PutHasNoAnswer` that no
call is answered before it is put.

**Left to TLC.** Liveness under fairness, and everything that needs `ENABLED`: `CommandLossStops`,
`ExitReachesRobot`, `IdleComesToRest`, `CloudAnswered`, `GoalSettled`, `ThreadsEnd`, `SleepEnds`,
`ScanAnswered`. Of `SleepEnds` the safety part is proved (`NothingLost`: the answer a sleeping call waits
for is on its way), of `CloudAnswered` and `ScanAnswered` the measures that fall; that the threads then
take the steps is what the runs show.

## 5. Not modelled

Point-cloud and image processing, Kalman filters, calibration and the boundary file's geometry are
numerics on real numbers. Rendering, logging, markers and parameters read at start decide nothing.
Vendored code (the Unitree client, k-d trees, grids) stays out. In the modelled nodes: the laser handler
of the planner (it does nothing when the terrain map is used), the rotation test, the value of scores,
the frame an operator's clicks are in, and the interpolation of boundary lines, which reach the
planner as points. In FAR planner: the shift of a goal into free space (`ReEvaluateGoalPosition`), the
projection of way-points (`ProjectNavWaypoint`), concave nodes dropped from a path, a graph of a
single node (the goal is a node of its own), the branch graph_planner.cpp:241-251, which cannot be
reached (with `is_autoswitch` the mode is no longer free there), and the age of the pose: `robot_pos_`
is where the robot is. In the endpoint: a second registration that replaces a node, registrations
that change nothing the threads test, the list of topics, and errors in the parsing of names.
In `terrain_analysis_ext`: the rolling voxels with their decay and clearing, the joystick and
clearing handlers that feed them, and the vehicle's motion: a cloud is what they leave.
`terrain_analysis` itself, which adds a filter of moving obstacles, is not modelled; it calls the same header.

## 6. Plan

1. `NavStack`: planner, follower and bridge with their queues. Properties: both local nodes agree
   on the mode once messages are in; a blocked vehicle is stopped through all three.
2. `TerrainGrid`: rolling voxel indices of both terrain nodes, each voxel holding the points of its
   own square after any sequence of rolls, in the place of the choice of `Clouds`.
3. `GraphMsger` and `GraphDecoder`: encoding and decoding of a graph. `WaypointExample`; the
   synchronisation of lidar and IMU buffers.
4. An abstract specification of the endpoint's calls (put, answered, woken), with `TcpEndpoint` shown to
   implement it while its one connection lasts; `KeptInv` has what the mapping needs.
