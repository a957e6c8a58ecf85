---------------------------- MODULE PathFollower ----------------------------
(***************************************************************************)
(* The path follower (local_planner/src/pathFollower.cpp): five message    *)
(* handlers and the 100 Hz control step that turns the newest path, pose,  *)
(* joystick and stop messages into the velocity published on /cmd_vel.     *)
(*                                                                         *)
(* Speeds are integers; one control step changes the speed by MaxAccel,    *)
(* which need not divide a target, as maxAccel / 100.0 does not.  Of a yaw *)
(* rate only the sign is kept.  The code compares two pairs of instants    *)
(* with thresholds; the model keeps their distances, saturated.            *)
(***************************************************************************)
EXTENDS Plane, Sequences

CONSTANTS
    Poses,          \* poses odometry may report
    Paths,          \* paths the local planner may send, in its vehicle frame
    JoyMsgs,        \* joystick messages
    SpeedMsgs,      \* speeds on /speed, in units of speed
    StopMsgs,       \* sets of /stop bits
    NoRotAtStop, NoRotAtGoal, UseInclRateToSlow, UseInclToStop,
    MaxSpeed, MaxAccel, NoRotSpeed,
    AutonomySpeed,  \* speed a node started in waypoint mode begins with
    LookAheadDis, StopDisThre, SlowDwnDisThre, GoalCloseDis,
    SwitchTimeThre, JoyToSpeedDelay, SlowTime1, SlowTime2, StopTime,
    PubSkipNum

Turns == -1..1                      \* sign of a yaw rate or of a velocity
StopBits == {"fwd", "bwd", "left", "right"}     \* bits 1, 2, 4, 8 of /stop
PoseSet == [x : Int, y : Int, yaw : Quarters, tilted : BOOLEAN, rocking : BOOLEAN]
JoySet == [axis0 : Int, axis3 : Int, axis4 : Int, waypoint : BOOLEAN, manual : BOOLEAN]

ASSUME MessagesAssumption ==
    /\ Poses \subseteq PoseSet /\ Poses # {}
    /\ Paths \subseteq Seq(PointSet) /\ \A p \in Paths : Len(p) > 0
    /\ JoyMsgs \subseteq JoySet
    /\ SpeedMsgs \subseteq Int
    /\ StopMsgs \subseteq SUBSET StopBits

ASSUME FlagsAssumption ==
    {NoRotAtStop, NoRotAtGoal, UseInclRateToSlow, UseInclToStop} \subseteq BOOLEAN

ASSUME NumbersAssumption ==
    /\ MaxSpeed \in Nat \ {0} /\ MaxAccel \in Nat \ {0} /\ SlowDwnDisThre \in Nat \ {0}
    /\ AutonomySpeed \in Int
    /\ {NoRotSpeed, LookAheadDis, StopDisThre, GoalCloseDis} \subseteq Nat
    /\ {SwitchTimeThre, JoyToSpeedDelay, SlowTime1, SlowTime2, StopTime, PubSkipNum}
          \subseteq Nat

VARIABLES
    pose, poseRec,              \* newest pose; pose when the path arrived
    path, pathPointID, pathInit,
    joySpeed, joySpeedRaw, joyYaw, joyManual,
    autonomyMode, manualMode,
    safetyStop,
    vehicleSpeed, vehicleYawRate, navFwd, pubSkipCount,
    joyAge,                     \* now - joyTime
    switchAge,                  \* now - switchTime
    inclAge, rockAge,           \* odomTime - stopInitTime, odomTime - slowInitTime
    cmdVel,                     \* the newest message on /cmd_vel
    twoWayDrive                 \* the parameter of that name, read at start

odom    == <<pose, inclAge, rockAge>>
route   == <<poseRec, path, pathPointID, pathInit>>
joy     == <<joySpeed, joySpeedRaw, joyYaw, joyManual, autonomyMode, manualMode, joyAge>>
control == <<vehicleSpeed, vehicleYawRate, navFwd, switchAge, pubSkipCount, cmdVel>>
vars    == <<odom, route, joy, safetyStop, control, twoWayDrive>>

-----------------------------------------------------------------------------
\* The vehicle in the frame the path was received in.
VehicleRel == Relative(pose, poseRec)
ToPoint(i) == [x |-> path[i].x - VehicleRel.x, y |-> path[i].y - VehicleRel.y]

DirDiff(i)  == WrapOnce(WrapOnce(pose.yaw - poseRec.yaw - Bearing(ToPoint(i))))

\* A point is passed when the vehicle is within the look-ahead distance of it.
Passed(i) == Dist(ToPoint(i)) < LookAheadDis

\* Part num/den of a speed, towards zero.
PartOf(v, num, den) == Sign(v) * ((Abs(v) * num) \div den)

-----------------------------------------------------------------------------
\* A speed asked for by a topic or a parameter, within the limits.
ClampedSpeed(s) == Larger(0, Smaller(s, MaxSpeed))

\* The parameter autonomyMode starts the node in waypoint mode, with autonomySpeed.
StartSpeed == IF autonomyMode THEN ClampedSpeed(AutonomySpeed) ELSE 0

\* Initially nothing has been heard: no path, joystick at rest, one step to go.
Init ==
    /\ pose \in {[x |-> 0, y |-> 0, yaw |-> 0, tilted |-> FALSE, rocking |-> FALSE]}
    /\ poseRec = pose
    /\ path = <<>> /\ pathPointID = 1 /\ pathInit = FALSE
    /\ autonomyMode \in BOOLEAN /\ manualMode = FALSE
    /\ joySpeed = StartSpeed /\ joySpeedRaw = 0 /\ joyYaw = 0
    /\ joyManual = [fwd |-> 0, left |-> 0, yaw |-> 0]
    /\ safetyStop = {}
    /\ vehicleSpeed = 0 /\ vehicleYawRate = 0 /\ navFwd = TRUE /\ pubSkipCount = 0
    /\ joyAge = JoyToSpeedDelay + 1 /\ switchAge = SwitchTimeThre + 1
    /\ inclAge = StopTime + 1 /\ rockAge = SlowTime1 + SlowTime2 + 1
    /\ cmdVel = [speed |-> 0, x |-> 0, y |-> 0, turn |-> 0, manual |-> FALSE]
    /\ twoWayDrive \in BOOLEAN

\* odomHandler: the newest pose, and how long ago the vehicle was last inclined.
OdomHandler ==
    /\ \E p \in Poses :
         /\ pose' = p
         /\ inclAge' = IF p.tilted /\ UseInclToStop THEN 0 ELSE Older(inclAge, StopTime)
         /\ rockAge' = IF p.rocking /\ UseInclRateToSlow THEN 0
                       ELSE Older(rockAge, SlowTime1 + SlowTime2)
    /\ UNCHANGED <<route, joy, safetyStop, control, twoWayDrive>>

\* Slip: a new path keeps the progress made on the old one.
PathHandlerKeepsProgress ==
    /\ path' \in Paths
    /\ poseRec' = pose
    /\ pathInit' = TRUE
    /\ UNCHANGED <<pathPointID, odom, joy, safetyStop, control, twoWayDrive>>

\* pathHandler: the path counts from where the vehicle is when it arrives.
PathHandler ==
    /\ path' \in Paths
    /\ poseRec' = pose
    /\ pathPointID' = 1
    /\ pathInit' = TRUE
    /\ UNCHANGED <<odom, joy, safetyStop, control, twoWayDrive>>

\* The speed a joystick message asks for.
RawSpeed(m) == Larger(Abs(m.axis3), Abs(m.axis4))
Reversing(m) == m.axis4 < 0 /\ ~twoWayDrive
JoySpeedUnclamped(m) == IF m.axis4 = 0 \/ Reversing(m) THEN 0 ELSE RawSpeed(m)   \* slip
JoySpeed(m) == IF m.axis4 = 0 \/ Reversing(m) THEN 0 ELSE Smaller(RawSpeed(m), MaxSpeed)
JoyYaw(m) == IF Reversing(m) \/ (m.axis4 = 0 /\ NoRotAtStop) THEN 0 ELSE Sign(m.axis3)

\* joystickHandler
JoystickHandler ==
    /\ \E m \in JoyMsgs :
         /\ joySpeedRaw' = RawSpeed(m)
         /\ joySpeed' = JoySpeed(m)
         /\ joyYaw' = JoyYaw(m)
         /\ joyManual' = [fwd |-> m.axis4, left |-> m.axis3, yaw |-> Sign(m.axis0)]
         /\ autonomyMode' = m.waypoint
         /\ manualMode' = m.manual
    /\ joyAge' = 0
    /\ UNCHANGED <<odom, route, safetyStop, control, twoWayDrive>>

\* speedHandler: /speed counts in waypoint mode once the joystick has been at rest.
SpeedHandler ==
    /\ \E s \in SpeedMsgs :
         joySpeed' = IF autonomyMode /\ joyAge > JoyToSpeedDelay /\ joySpeedRaw = 0
                     THEN ClampedSpeed(s) ELSE joySpeed
    /\ UNCHANGED <<odom, route, joySpeedRaw, joyYaw, joyManual, autonomyMode, manualMode,
                   joyAge, safetyStop, control, twoWayDrive>>

\* stopHandler
StopHandler ==
    /\ safetyStop' \in StopMsgs
    /\ UNCHANGED <<odom, route, joy, control, twoWayDrive>>

-----------------------------------------------------------------------------
(***************************************************************************)
(* The control step, from the look-ahead point to the published command.   *)
(***************************************************************************)

\* The look-ahead point: the first from pathPointID on that is not passed, or the
\* last point of the path.
LookAhead(i) ==
    /\ i \in pathPointID..Len(path)
    /\ i = Len(path) \/ ~Passed(i)
    /\ \A j \in pathPointID..(i - 1) : Passed(j)

\* With twoWayDrive the vehicle turns its driving direction, at most once in
\* switchTimeThre.
SwitchesDirection(d) ==
    /\ twoWayDrive
    /\ switchAge > SwitchTimeThre
    /\ IF navFwd THEN Abs(d) > 2 ELSE Abs(d) < 2

\* Direction error of the end the vehicle drives with.
DriveDiff(d, fwd) == IF fwd THEN d ELSE IF d + 4 > 4 THEN d - 4 ELSE d + 4

\* joySpeed2 before the path is looked at.
WantedSpeed(fwd) == IF fwd THEN joySpeed ELSE -joySpeed

\* Slip: the length of the path is not looked at.
SpeedOnAnyPath(fwd) == WantedSpeed(fwd)

\* The path's end slows the vehicle down, a path of one point stops it.
SpeedOnPath(fwd) ==
    LET endDis == Dist(ToPoint(Len(path))) IN
    IF Len(path) <= 1 THEN 0
    ELSE IF endDis * MaxSpeed < joySpeed * SlowDwnDisThre
         THEN PartOf(WantedSpeed(fwd), endDis, SlowDwnDisThre)
         ELSE WantedSpeed(fwd)

\* Recent rocking slows the vehicle to slowRate1, then slowRate2.
SlowedSpeed(v) ==
    IF rockAge < SlowTime1 THEN PartOf(v, 1, 4)
    ELSE IF rockAge < SlowTime1 + SlowTime2 THEN PartOf(v, 1, 2) ELSE v

\* Slip: close to the goal the vehicle drives in any direction.
AlignedNearGoal(d, dis) == (Abs(d) < 1 \/ dis < GoalCloseDis) /\ dis > StopDisThre

\* dirDiffThre is below an eighth of a turn, omniDirDiffThre below a quarter.
Aligned(d, dis) ==
    /\ Abs(d) < 1 \/ (dis < GoalCloseDis /\ Abs(d) < 2)
    /\ dis > StopDisThre

RampedAtOnce(v, target, aligned) == IF aligned THEN target ELSE 0    \* slip: no ramp

\* One step of acceleration towards the target, or towards rest.
Ramped(v, target, aligned) ==
    LET goal == IF aligned THEN target ELSE 0 IN
    IF v < goal THEN v + MaxAccel ELSE IF v > goal THEN v - MaxAccel ELSE v

\* Recent inclination stops the vehicle.
Inclined == inclAge < StopTime

\* /stop cuts the speed and the rotation it forbids.
SafeSpeed(v) ==
    IF ("fwd" \in safetyStop /\ v > 0) \/ ("bwd" \in safetyStop /\ v < 0) THEN 0 ELSE v
SafeTurn(w) ==
    IF ("left" \in safetyStop /\ w > 0) \/ ("right" \in safetyStop /\ w < 0) THEN 0 ELSE w

\* Yaw rate before the stops: against the direction error, or the joystick's.
WantedTurn(d, dis, fwd) ==
    IF WantedSpeed(fwd) = 0 /\ ~autonomyMode THEN joyYaw
    ELSE IF Len(path) <= 1 \/ (dis < StopDisThre /\ NoRotAtGoal) THEN 0 ELSE -Sign(d)

\* The signs of the cosine and the sine of a direction error.
CosSign(d) == Sign(2 - Abs(d))
SinSign(d) == IF Abs(d) = 4 THEN 0 ELSE Sign(d)

\* The published velocity: its signed length along the direction of driving, and the
\* signs of its components x (ahead) and y (to the left).  A speed within one step of
\* acceleration is published as rest; manual mode publishes the joystick instead.
Command(v, d, w) ==
    LET speed == IF Abs(v) <= MaxAccel THEN 0 ELSE v IN
    IF manualMode
    THEN [speed |-> joyManual.fwd, x |-> Sign(joyManual.fwd), y |-> Sign(joyManual.left),
          turn |-> joyManual.yaw, manual |-> TRUE]
    ELSE [speed |-> speed, x |-> CosSign(d) * Sign(speed),
          y |-> -(SinSign(d) * Sign(speed)), turn |-> w, manual |-> FALSE]

\* Slip: the command is published before the stops are applied to the speed.
ControlStepPublishesFirst ==
    /\ pathInit
    /\ \E i \in 1..Len(path) : \E diff \in {DirDiff(i)} : \E fwd \in BOOLEAN :
         /\ LookAhead(i) /\ fwd = (navFwd # SwitchesDirection(diff))
         /\ pathPointID' = i
         /\ LET dis == Dist(ToPoint(i))
                d   == DriveDiff(diff, fwd)
                v   == Ramped(vehicleSpeed, SlowedSpeed(SpeedOnPath(fwd)), Aligned(d, dis))
            IN /\ navFwd' = fwd
               /\ vehicleSpeed' = SafeSpeed(v)
               /\ vehicleYawRate' = SafeTurn(WantedTurn(d, dis, fwd))
               /\ IF pubSkipCount > 0
                  THEN pubSkipCount' = pubSkipCount - 1 /\ UNCHANGED cmdVel
                  ELSE pubSkipCount' = PubSkipNum /\ cmdVel' = Command(v, d, vehicleYawRate')
               /\ switchAge' = IF fwd # navFwd THEN 0 ELSE switchAge
    /\ UNCHANGED <<odom, poseRec, path, pathInit, joy, safetyStop, twoWayDrive>>

\* One iteration of the loop of main() once a path has arrived.
ControlStep ==
    /\ pathInit
    /\ \E i \in 1..Len(path) : \E diff \in {DirDiff(i)} : \E fwd \in BOOLEAN :
         /\ LookAhead(i) /\ fwd = (navFwd # SwitchesDirection(diff))
         /\ pathPointID' = i
         /\ LET dis == Dist(ToPoint(i))
                d   == DriveDiff(diff, fwd)
                v   == Ramped(vehicleSpeed, SlowedSpeed(SpeedOnPath(fwd)), Aligned(d, dis))
                w   == IF Abs(v) > NoRotSpeed THEN 0 ELSE WantedTurn(d, dis, fwd)
            IN /\ navFwd' = fwd
               /\ vehicleSpeed' = SafeSpeed(IF Inclined THEN 0 ELSE v)
               /\ vehicleYawRate' = SafeTurn(IF Inclined THEN 0 ELSE w)
               /\ IF pubSkipCount > 0
                  THEN pubSkipCount' = pubSkipCount - 1 /\ UNCHANGED cmdVel
                  ELSE /\ pubSkipCount' = PubSkipNum
                       /\ cmdVel' = Command(vehicleSpeed', d, vehicleYawRate')
               /\ switchAge' = IF fwd # navFwd THEN 0 ELSE switchAge
    /\ UNCHANGED <<odom, poseRec, path, pathInit, joy, safetyStop, twoWayDrive>>

\* The node's clock advances.
Tick ==
    /\ joyAge' = Older(joyAge, JoyToSpeedDelay)
    /\ switchAge' = Older(switchAge, SwitchTimeThre)
    /\ UNCHANGED <<odom, route, joySpeed, joySpeedRaw, joyYaw, joyManual, autonomyMode,
                   manualMode, safetyStop, vehicleSpeed, vehicleYawRate, navFwd,
                   pubSkipCount, cmdVel, twoWayDrive>>

Next ==
    \/ OdomHandler \/ PathHandler \/ JoystickHandler \/ SpeedHandler \/ StopHandler
    \/ ControlStep \/ Tick

Spec == Init /\ [][Next]_vars

\* The loop runs at 100 Hz whatever is heard.
FairSpec == Spec /\ WF_vars(ControlStep)

-----------------------------------------------------------------------------
(***************************************************************************)
(* Properties.                                                             *)
(***************************************************************************)

\* The types of the node's variables.
TypeOK ==
    /\ pose \in PoseSet /\ poseRec \in PoseSet
    /\ path \in Seq(PointSet) /\ pathPointID \in Nat \ {0} /\ pathInit \in BOOLEAN
    /\ joySpeed \in 0..MaxSpeed /\ joySpeedRaw \in Nat /\ joyYaw \in Turns
    /\ joyManual \in [fwd : Int, left : Int, yaw : Turns]
    /\ autonomyMode \in BOOLEAN /\ manualMode \in BOOLEAN
    /\ safetyStop \in SUBSET StopBits
    /\ vehicleSpeed \in Int /\ vehicleYawRate \in Turns /\ navFwd \in BOOLEAN
    /\ pubSkipCount \in 0..PubSkipNum
    /\ joyAge \in 0..(JoyToSpeedDelay + 1) /\ switchAge \in 0..(SwitchTimeThre + 1)
    /\ inclAge \in 0..(StopTime + 1) /\ rockAge \in 0..(SlowTime1 + SlowTime2 + 1)
    /\ cmdVel \in [speed : Int, x : Turns, y : Turns, turn : Turns, manual : BOOLEAN]
    /\ twoWayDrive \in BOOLEAN

\* The look-ahead index stays inside the path, also when a shorter path replaces a
\* longer one half driven: path.poses[pathPointID] is never read beyond its end.
PathPointInPath == pathInit => pathPointID <= Len(path)

\* The speed may pass its target, and so maxSpeed, by less than one step of
\* acceleration, whatever sequence of paths, stops and speeds led there.
SpeedBounded == Abs(vehicleSpeed) < MaxSpeed + MaxAccel

\* The command drives the leading end ahead: the front, or with twoWayDrive the end
\* the sign of the speed tells.
DrivesAhead == IF twoWayDrive THEN cmdVel.x = Sign(cmdVel.speed) ELSE cmdVel.x > 0

\* A path that comes to lie beside or behind a moving vehicle is driven sideways or
\* backwards, linear.x being the cosine of the direction error times the speed, but
\* only while the vehicle brakes: no step that publishes such a command holds or gains
\* speed.
BacksOnlyBraking ==
    [][~cmdVel'.manual /\ cmdVel' # cmdVel /\ cmdVel'.speed # 0 /\ ~DrivesAhead'
         => Abs(vehicleSpeed') < Abs(vehicleSpeed)]_vars

\* With both motion bits of /stop set nothing but rest is published, unless the
\* operator drives in manual mode.
StopIsRest ==
    [][{"fwd", "bwd"} \subseteq safetyStop /\ ~manualMode /\ cmdVel' # cmdVel
         => cmdVel'.speed = 0]_vars

\* Published speeds change by no more than the steps between two publications
\* allow, except that a stop, or the dead band, may publish rest at once; after a
\* stop between two publications the speed is that of the steps left.
SmoothSpeed ==
    [][~cmdVel.manual /\ ~cmdVel'.manual /\ cmdVel'.speed # 0
         => \/ Abs(cmdVel'.speed - cmdVel.speed) <= (PubSkipNum + 2) * MaxAccel
            \/ Abs(cmdVel'.speed) <= PubSkipNum * MaxAccel]_vars

\* The local planner found no path, or no speed is asked for.
Idle == pathInit /\ ~manualMode /\ (Len(path) = 1 \/ joySpeed = 0)

\* An idle vehicle is brought to rest.
IdleComesToRest == Idle ~> (cmdVel.speed = 0 \/ ~Idle)
=============================================================================
