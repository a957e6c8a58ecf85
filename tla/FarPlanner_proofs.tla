------------------------- MODULE FarPlanner_proofs -------------------------
(***************************************************************************)
(* Proofs about FarPlanner, for every graph the planner may see, every     *)
(* search that returns routes to the goal, and every value of the          *)
(* planner's parameters.                                                   *)
(***************************************************************************)
EXTENDS FarPlanner, TLAPS, WellFoundedInduction

-----------------------------------------------------------------------------
(***************************************************************************)
(* Lemmas about the operators.                                             *)
(***************************************************************************)

\* The bounds of the counters.
LEMMA Bounds == /\ 0 \in 0..MomentumThred /\ MomentumThred \in 0..MomentumThred
                /\ 0 \in 0..MaxEvents /\ <<>> \in Seq(Places)
BY ParametersAssumption

\* Each event is counted.
LEMMA EventCounted == TypeOK /\ Event => events' \in 0..MaxEvents
BY ParametersAssumption DEF TypeOK, Event

\* A set of natural numbers has a least one.
LEMMA Least == ASSUME NEW S, S \subseteq Nat, S # {} PROVE \E m \in S : \A n \in S : m <= n
<1> DEFINE R == OpToRel(<, Nat)
<1>1. IsWellFoundedOn(R, Nat)
  BY NatLessThanWellFounded
<1>2. \A p, q \in Nat : p < q => <<p, q>> \in R
  BY DEF OpToRel
<1> HIDE DEF R
<1>3. PICK m \in S : \A n \in S : ~(<<n, m>> \in R)
  BY <1>1, WFMin
<1>4. ASSUME NEW n \in S PROVE m <= n
  <2>1. m \in Nat /\ n \in Nat
    OBVIOUS
  <2>2. ~(n < m)
    BY <1>2, <1>3, <2>1
  <2> QED BY <2>1, <2>2
<1> QED BY <1>4

\* The next waypoint is a node of the path.
LEMMA NextNavWaypointType ==
    ASSUME NEW path \in Seq(Places), path # <<>>
    PROVE  NextNavWaypoint(path) \in Places
<1> DEFINE ahead == {i \in 1..Len(path) :
                       i = Len(path) \/ Dist[path[i]][odom] >= ConvergeDist}
           first == CHOOSE i \in ahead : \A j \in ahead : i <= j
<1>1. Len(path) \in 1..Len(path)
  OBVIOUS
<1>2. Len(path) \in ahead /\ ahead \subseteq Nat
  BY <1>1
<1>3. \E i \in ahead : \A j \in ahead : i <= j
  <2> HIDE DEF ahead
  <2> QED BY <1>2, Least
<1>4. first \in ahead
  <2> HIDE DEF ahead
  <2> QED BY <1>3
<1>5. first \in 1..Len(path)
  <2> HIDE DEF first
  <2> QED BY <1>4
<1>6. path[first] \in Places
  <2> HIDE DEF first
  <2> QED BY <1>5
<1> QED BY <1>6 DEF NextNavWaypoint

\* A plan is a sequence of places that ends at the goal.
LEMMA PlannedType ==
    ASSUME TypeOK, CanPlan
    PROVE  /\ goal \in Goals /\ odom \in Places
           /\ Planned \in Seq(Places) /\ Attempt \in Seq(Places)
           /\ Planned # <<>> => Planned[Len(Planned)] = goal
<1>1. goal \in Goals /\ odom \in Places
  BY DEF TypeOK, CanPlan
<1>2. view \in Views /\ {"free", "attempt"} = Modes
  BY PlacesAssumption DEF TypeOK
<1>3. \A m \in Modes : /\ Route[view][m][odom][goal] \in Seq(Places)
                       /\ Route[view][m][odom][goal] # <<>> =>
                            Route[view][m][odom][goal][Len(Route[view][m][odom][goal])] = goal
  BY <1>1, <1>2, RouteAssumption
<1> QED BY <1>1, <1>2, <1>3 DEF Planned, Attempt

-----------------------------------------------------------------------------
(***************************************************************************)
(* The inductive invariant.                                                *)
(***************************************************************************)

\* The recorded path leads to the present goal.
PathToPresentGoal ==
    recordedPath # <<>> /\ goal # None => recordedPath[Len(recordedPath)] = goal

\* Each plan without a route is counted.
BlindCounted == blind <= counter

\* Momentum is spent as soon as the command differs from that of the recorded path.
StaleSpent == stale /\ recordedPath # <<>> => counter = MomentumThred

\* While the planner does not run, the robot has no waypoint but where it is.
AtRest == ~running => waypoint \in {pos, None}

IInv == TypeOK /\ PathToPresentGoal /\ BlindCounted /\ StaleSpent /\ AtRest

LEMMA InitInv == Init => IInv
<1> SUFFICES ASSUME Init PROVE IInv
  OBVIOUS
<1>1. TypeOK
  BY Bounds DEF Init, TypeOK
<1> QED BY <1>1 DEF Init, IInv, PathToPresentGoal, BlindCounted, StaleSpent, AtRest

LEMMA ResetGraphInv == IInv /\ ResetGraphCallBack => IInv'
BY ParametersAssumption
   DEF ResetGraphCallBack, Event, momentum, IInv, TypeOK, PathToPresentGoal, BlindCounted,
       StaleSpent, AtRest

LEMMA WaypointInv == ASSUME NEW g \in Goals PROVE IInv /\ WaypointCallBack(g) => IInv'
BY ParametersAssumption
   DEF WaypointCallBack, ForgetPath, Event, master, IInv, TypeOK, PathToPresentGoal,
       BlindCounted, StaleSpent, AtRest

LEMMA AttemptStatusInv ==
    ASSUME NEW b \in BOOLEAN PROVE IInv /\ AttemptStatusCallBack(b) => IInv'
<1> SUFFICES ASSUME IInv, AttemptStatusCallBack(b) PROVE IInv'
  OBVIOUS
<1>1. TypeOK'
  <2>1. counter' \in 0..MomentumThred /\ events' \in 0..MaxEvents
    BY Bounds, EventCounted DEF AttemptStatusCallBack, CountDone, IInv, TypeOK
  <2>2. commandFree' \in BOOLEAN /\ stale' \in BOOLEAN
    BY DEF AttemptStatusCallBack, IInv, TypeOK
  <2> QED BY <2>1, <2>2 DEF AttemptStatusCallBack, master, IInv, TypeOK
<1>2. BlindCounted' /\ StaleSpent'
  BY ParametersAssumption
     DEF AttemptStatusCallBack, CountDone, IInv, TypeOK, BlindCounted, StaleSpent
<1>3. PathToPresentGoal' /\ AtRest'
  BY DEF AttemptStatusCallBack, master, IInv, PathToPresentGoal, AtRest
<1> QED BY <1>1, <1>2, <1>3 DEF IInv

LEMMA MainLoopInv == IInv /\ MainLoopCallBack => IInv'
<1> SUFFICES ASSUME IInv, MainLoopCallBack PROVE IInv'
  OBVIOUS
<1>1. CASE ResetEnvironment
  <2>1. TypeOK'
    BY <1>1, Bounds DEF MainLoopCallBack, ResetEnvironment, IInv, TypeOK
  <2> QED BY <1>1, <2>1 DEF ResetEnvironment, IInv, PathToPresentGoal, BlindCounted,
                            StaleSpent, AtRest
<1>2. CASE UpdateGraph
  <2>1. TypeOK'
    <3>1. events' \in 0..MaxEvents /\ view' \in Views
      BY <1>2, EventCounted DEF UpdateGraph, IInv, TypeOK
    <3>2. odom' \in Places /\ odom' # None
      BY <1>2, PlacesAssumption DEF UpdateGraph, IInv, TypeOK
    <3> QED BY <1>2, <3>1, <3>2 DEF MainLoopCallBack, UpdateGraph, momentum, IInv, TypeOK
  <2> QED BY <1>2, <2>1 DEF UpdateGraph, momentum, IInv, PathToPresentGoal, BlindCounted,
                            StaleSpent, AtRest
<1> QED BY <1>1, <1>2 DEF MainLoopCallBack

LEMMA PlanningInv == IInv /\ PlanningCallBack => IInv'
<1> SUFFICES ASSUME IInv, PlanningCallBack PROVE IInv'
  OBVIOUS
<1>1. CASE ReachGoal
  BY <1>1, PlacesAssumption
     DEF PlanningCallBack, ReachGoal, CanPlan, momentum, IInv, TypeOK, PathToPresentGoal,
         BlindCounted, StaleSpent, AtRest
<1>2. CASE FollowRecordedPath
  <2>1. recordedPath \in Seq(Places) /\ recordedPath # <<>> /\ counter < MomentumThred
    BY <1>2 DEF FollowRecordedPath, HasMomentum, IInv, TypeOK
  <2>2. waypoint' \in Places
    BY <1>2, <2>1, NextNavWaypointType DEF FollowRecordedPath
  <2>3. counter' = counter + 1 /\ blind' \in {blind + 1, 0}
    BY <1>2 DEF FollowRecordedPath, NextCount
  <2>4. counter' \in 0..MomentumThred /\ blind' \in Nat /\ BlindCounted'
    BY <2>1, <2>3, ParametersAssumption DEF IInv, TypeOK, BlindCounted
  <2>5. freeNav' \in BOOLEAN
    BY <1>2 DEF FollowRecordedPath, NavigatesFree
  <2>6. TypeOK'
    BY <1>2, <2>2, <2>4, <2>5 DEF PlanningCallBack, FollowRecordedPath, IInv, TypeOK
  <2>7. ~stale
    BY <2>1, ParametersAssumption DEF IInv, TypeOK, StaleSpent
  <2> QED BY <1>2, <2>4, <2>6, <2>7
          DEF FollowRecordedPath, IInv, PathToPresentGoal, StaleSpent, AtRest
<1>3. CASE FollowNewPath
  <2>1. CanPlan /\ TypeOK
    BY <1>3 DEF FollowNewPath, IInv
  <2>2. waypoint' \in Places
    BY <1>3, <2>1, PlannedType, NextNavWaypointType DEF FollowNewPath
  <2>3. freeNav' \in BOOLEAN
    BY <1>3 DEF FollowNewPath, NavigatesFree
  <2>4. recordedPath' \in Seq(Places) /\ lastOdom' \in Places /\ lastOdom' # None
    BY <1>3, <2>1, PlannedType, PlacesAssumption DEF FollowNewPath
  <2>5. TypeOK'
    BY <1>3, <2>2, <2>3, <2>4, Bounds
       DEF PlanningCallBack, FollowNewPath, IInv, TypeOK
  <2>6. PathToPresentGoal'
    BY <1>3, <2>1, PlannedType DEF FollowNewPath, PathToPresentGoal
  <2> QED BY <1>3, <2>5, <2>6 DEF FollowNewPath, IInv, BlindCounted, StaleSpent, AtRest
<1>4. CASE GiveUp
  <2>1. freeNav' \in BOOLEAN
    BY <1>4 DEF GiveUp, NavigatesFree
  <2>2. TypeOK'
    BY <1>4, <2>1 DEF PlanningCallBack, GiveUp, momentum, IInv, TypeOK
  <2>3. AtRest'
    BY <1>4 DEF GiveUp, IInv, AtRest
  <2> QED BY <1>4, <2>2, <2>3
          DEF GiveUp, momentum, IInv, PathToPresentGoal, BlindCounted, StaleSpent
<1>5. CASE PlanNothing
  BY <1>5 DEF PlanningCallBack, PlanNothing, momentum, IInv, TypeOK, PathToPresentGoal,
              BlindCounted, StaleSpent, AtRest
<1> QED BY <1>1, <1>2, <1>3, <1>4, <1>5 DEF PlanningCallBack

LEMMA DriveInv == IInv /\ Drive => IInv'
<1> SUFFICES ASSUME IInv, Drive PROVE IInv'
  OBVIOUS
<1>1. waypoint \in Places /\ pos' \in Places
  BY PlacesAssumption DEF Drive, IInv, TypeOK
<1>2. TypeOK'
  BY <1>1 DEF Drive, master, momentum, IInv, TypeOK
<1>3. running
  <2>1. waypoint # pos
    BY <1>1, PlacesAssumption DEF Drive, IInv, TypeOK
  <2> QED BY <2>1 DEF Drive, IInv, AtRest
<1> QED BY <1>2, <1>3 DEF Drive, master, momentum, IInv, PathToPresentGoal, BlindCounted,
                          StaleSpent, AtRest

THEOREM Inductive == Spec => []IInv
<1>1. IInv /\ [Next]_vars => IInv'
  <2>1. IInv /\ UNCHANGED vars => IInv'
    BY DEF vars, master, momentum, IInv, TypeOK, PathToPresentGoal, BlindCounted, StaleSpent,
           AtRest
  <2> QED BY <2>1, ResetGraphInv, WaypointInv, AttemptStatusInv, MainLoopInv, PlanningInv,
             DriveInv DEF Next
<1> QED BY <1>1, InitInv, PTL DEF Spec

-----------------------------------------------------------------------------
(***************************************************************************)
(* The properties.                                                         *)
(***************************************************************************)

\* The fields of the planner keep their types, and momentum its bound.
THEOREM TypeCorrect == Spec => []TypeOK
<1>1. IInv => TypeOK
  BY DEF IInv
<1> QED BY <1>1, Inductive, PTL

\* Momentum leads to the present goal, and never drives the robot without any route for more
\* than momentum_thred cycles in a row.
THEOREM MomentumAlwaysSound == Spec => []MomentumSound
<1>1. IInv => MomentumSound
  BY ParametersAssumption
     DEF IInv, TypeOK, PathToPresentGoal, BlindCounted, MomentumSound
<1> QED BY <1>1, Inductive, PTL

\* No path recorded under the other command is followed.
THEOREM CommandAlwaysTakesEffect == Spec => CommandTakesEffect
<1>1. IInv /\ [Next]_vars => [FollowRecordedPath => ~stale]_vars
  BY ParametersAssumption DEF IInv, TypeOK, StaleSpent, FollowRecordedPath, HasMomentum
<1> QED BY <1>1, Inductive, PTL DEF Spec, CommandTakesEffect

\* A goal is given up only without a route, with the robot at rest.
THEOREM AlwaysGivesUpRightly == Spec => GivesUpRightly
<1>1. IInv /\ [Next]_vars
        => [GiveUp => (autoswitch => Attempt = <<>>) /\ waypoint' \in {pos, None}]_vars
  <2> SUFFICES ASSUME IInv, GiveUp
               PROVE  (autoswitch => Attempt = <<>>) /\ waypoint' \in {pos, None}
    OBVIOUS
  <2>1. waypoint' \in {pos, None}
    BY DEF GiveUp, IInv, AtRest
  <2>2. ASSUME autoswitch PROVE Attempt = <<>>
    <3>1. NavigatesFree => Planned # <<>>
      BY <2>2 DEF GiveUp, NavigatesFree, Planned
    <3>2. ~NavigatesFree
      BY <3>1 DEF GiveUp
    <3> QED BY <3>2 DEF GiveUp, Planned, Attempt
  <2> QED BY <2>1, <2>2
<1> QED BY <1>1, Inductive, PTL DEF Spec, GivesUpRightly
=============================================================================
