---------------------------- MODULE CmdVelBridge ----------------------------
(***************************************************************************)
(* The bridge between the planner's /cmd_vel and the Go2 sport service     *)
(* (go2_cmd_vel_bridge/cmd_vel_bridge.py): one rclpy node, three callbacks *)
(* on one thread, and a process that may be stopped, killed and restarted  *)
(* under a robot that keeps its own state.                                 *)
(*                                                                         *)
(* Time is counted in periods of the stream timer.  The code stores two    *)
(* instants and compares their distance to `now' with a threshold; the     *)
(* model stores that distance, saturated where it exceeds every threshold. *)
(***************************************************************************)
EXTENDS Integers, Sequences

CONSTANTS
    PlannerCmds,    \* velocities the planner may publish on /cmd_vel
    RemoteMsgs,     \* wireless controller messages: keys and sticks
    MaxVel,         \* max_linear_x, max_linear_y, max_angular_z
    ZeroThreshold,  \* zero_threshold
    Deadzone,       \* STICK_DEADZONE
    CmdTimeout,     \* cmd_vel_timeout, in stream periods
    StaleTimeout,   \* WIRELESS_STALE_TIMEOUT, in stream periods
    MaxLate,        \* bound: how many periods late the timer callback may run
    InDepth,        \* QoS depth of the two subscriptions
    SportDepth      \* QoS depth of the sport request publisher

Axes == {"x", "y", "z"}
SticksOf == {"lx", "ly", "rx"}
Velocities == [Axes -> Int]
Keys == {"L2", "R2"}
RemoteMessages == [keys : SUBSET Keys, sticks : [SticksOf -> Int]]

ASSUME ValuesAssumption ==
    /\ PlannerCmds \subseteq Velocities
    /\ RemoteMsgs \subseteq RemoteMessages
    /\ MaxVel \in [Axes -> Nat]

ASSUME TimesAssumption ==
    /\ CmdTimeout \in Nat /\ StaleTimeout \in Nat /\ MaxLate \in Nat

ASSUME ThresholdsAssumption ==
    /\ ZeroThreshold \in Nat \ {0} /\ Deadzone \in Nat

ASSUME DepthAssumption ==
    /\ InDepth \in Nat \ {0}
    /\ SportDepth \in Nat /\ SportDepth >= 3

VARIABLES
    up,             \* the process runs
    autonomyMode, lastKeys, active, last, sticks, stickOverride,
    cmdAge,         \* now - _last_cmd_time
    wirelessAge,    \* now - _last_wireless_time
    late,           \* periods since the stream timer last ran
    cmdQ, wirelessQ,\* messages waiting for their callbacks
    sport,          \* sport requests published and not yet taken by the robot
    robot,          \* the sport service: native joystick on?, velocity obeyed
    orphaned        \* history: a process ended and its requests, or the hand-back, were lost

mode    == <<autonomyMode, lastKeys, stickOverride, sticks>>
command == <<active, last>>
queues  == <<cmdQ, wirelessQ>>
outside == <<robot, orphaned>>
vars    == <<up, mode, command, cmdAge, wirelessAge, late, queues, sport, outside>>

-----------------------------------------------------------------------------
Zero   == [a \in Axes |-> 0]
Centre == [s \in SticksOf |-> 0]
Abs(n) == IF n < 0 THEN -n ELSE n

\* clamp(): each axis into [-limit, limit]
Clamp(v) == [a \in Axes |-> IF v[a] > MaxVel[a] THEN MaxVel[a]
                            ELSE IF v[a] < -MaxVel[a] THEN -MaxVel[a] ELSE v[a]]

IsZero(v) == \A a \in Axes : Abs(v[a]) < ZeroThreshold

ApplyDeadzone(n) == IF Abs(n) <= Deadzone THEN 0 ELSE n

SticksActive(s) == \E k \in SticksOf : Abs(s[k]) > Deadzone

\* Unitree convention: ly forward, lx lateral, rx yaw; no clamp.
SticksToVelocity(s) ==
    [a \in Axes |-> IF a = "x" THEN ApplyDeadzone(s["ly"])
                    ELSE IF a = "y" THEN -ApplyDeadzone(s["lx"]) ELSE -ApplyDeadzone(s["rx"])]

L2R2Pressed(keys) == Keys \subseteq keys

StickOverrideActive == wirelessAge <= StaleTimeout /\ SticksActive(sticks)

TimedOut == cmdAge > CmdTimeout

\* Requests of sport_client.py.
Move(v)           == [api |-> "Move", vel |-> v]
SwitchJoystick(b) == [api |-> "SwitchJoystick", on |-> b]

\* Slip: a publisher that keeps all instead of the last.
PushKeepAll(q, m, depth) == Append(q, m)

\* KEEP_LAST history: a full queue forgets its oldest message.
Push(q, m, depth) == IF Len(q) < depth THEN Append(q, m) ELSE Append(Tail(q), m)

Publish(m)      == sport' = Push(sport, m, SportDepth)
Publish2(m, n)  == sport' = Push(Push(sport, m, SportDepth), n, SportDepth)

\* Ages stop counting one above the largest value anything compares them to.
Older(age, limit) == IF age > limit + MaxLate + 1 THEN age ELSE age + 1

-----------------------------------------------------------------------------
Init ==
    /\ up = TRUE
    /\ autonomyMode = FALSE /\ lastKeys = {} /\ stickOverride = FALSE
    /\ sticks = Centre /\ active = FALSE /\ last = Zero
    /\ cmdAge = 0 /\ wirelessAge = 0 /\ late = 0
    /\ cmdQ = <<>> /\ wirelessQ = <<>> /\ sport = <<>>
    /\ robot = [joystick |-> TRUE, move |-> Zero]
    /\ orphaned = FALSE

\* The planner (pathFollower) publishes; the subscription keeps the newest.
PlannerPublish ==
    /\ up
    /\ \E c \in PlannerCmds : cmdQ' = Push(cmdQ, c, InDepth)
    /\ UNCHANGED <<up, mode, command, cmdAge, wirelessAge, late, wirelessQ, sport, outside>>

\* The operator's remote publishes its keys and sticks.
RemotePublish ==
    /\ up
    /\ \E m \in RemoteMsgs : wirelessQ' = Push(wirelessQ, m, InDepth)
    /\ UNCHANGED <<up, mode, command, cmdAge, wirelessAge, late, cmdQ, sport, outside>>

\* _cmd_vel_callback
CmdVelCallback ==
    /\ up /\ cmdQ # <<>>
    /\ cmdQ' = Tail(cmdQ)
    /\ IF autonomyMode
       THEN /\ cmdAge' = 0
            /\ last' = Clamp(Head(cmdQ))
            /\ active' = ~IsZero(Clamp(Head(cmdQ)))
       ELSE UNCHANGED <<cmdAge, command>>
    /\ UNCHANGED <<up, mode, wirelessAge, late, wirelessQ, sport, outside>>

\* _enter_autonomy_mode
EnterAutonomyMode ==
    /\ autonomyMode' = TRUE
    /\ Publish(SwitchJoystick(FALSE))
    /\ cmdAge' = 0
    /\ stickOverride' = FALSE
    /\ UNCHANGED <<command, orphaned>>

\* Slips: leaving autonomy without stopping the robot,
\* or without giving the joystick back.
ExitStillMoving ==
    /\ autonomyMode' = FALSE
    /\ active' = FALSE /\ last' = Zero /\ stickOverride' = FALSE
    /\ Publish(SwitchJoystick(TRUE))
    /\ orphaned' = FALSE
    /\ UNCHANGED cmdAge
ExitKeepsJoystick ==
    /\ autonomyMode' = FALSE
    /\ active' = FALSE /\ last' = Zero /\ stickOverride' = FALSE
    /\ Publish(Move(Zero))
    /\ orphaned' = FALSE
    /\ UNCHANGED cmdAge

\* _exit_autonomy_mode
ExitAutonomyMode ==
    /\ autonomyMode' = FALSE
    /\ active' = FALSE /\ last' = Zero /\ stickOverride' = FALSE
    /\ Publish2(Move(Zero), SwitchJoystick(TRUE))
    /\ orphaned' = FALSE
    /\ UNCHANGED cmdAge

\* edge_pressed(now, prev) of the two keys
ToggleEdge(keys) == L2R2Pressed(keys) /\ ~L2R2Pressed(lastKeys)

\* _wireless_callback: toggle on the rising edge of L2+R2, then remember.
WirelessCallback ==
    /\ up /\ wirelessQ # <<>>
    /\ LET msg == Head(wirelessQ) IN
       /\ IF ~ToggleEdge(msg.keys)
          THEN UNCHANGED <<autonomyMode, command, stickOverride, cmdAge, sport, orphaned>>
          ELSE IF autonomyMode THEN ExitAutonomyMode ELSE EnterAutonomyMode
       /\ lastKeys' = msg.keys
       /\ sticks' = msg.sticks
    /\ wirelessAge' = 0
    /\ wirelessQ' = Tail(wirelessQ)
    /\ UNCHANGED <<up, late, cmdQ, robot>>

\* Slip: rest is published outside autonomy mode, too.
StreamHoldsZero ==
    /\ up /\ late > 0 /\ ~autonomyMode
    /\ late' = 0
    /\ Publish(Move(Zero))
    /\ UNCHANGED <<up, mode, command, cmdAge, wirelessAge, queues, outside>>

\* _stream_callback outside autonomy mode returns at once.
StreamIdle ==
    /\ up /\ late > 0 /\ ~autonomyMode
    /\ late' = 0
    /\ UNCHANGED <<up, mode, command, cmdAge, wirelessAge, queues, sport, outside>>

\* _stream_callback while the sticks drive: no clamp, no watchdog.
StreamSticks ==
    /\ up /\ late > 0 /\ autonomyMode /\ StickOverrideActive
    /\ late' = 0
    /\ stickOverride' = TRUE
    /\ Publish(Move(SticksToVelocity(sticks)))
    /\ UNCHANGED <<up, autonomyMode, lastKeys, sticks, command, cmdAge, wirelessAge,
                   queues, outside>>

\* Slips: publish only while there is a command to publish; hold zero only for an
\* inactive command, never for a stale one.
StreamPlannerWhenActive ==
    /\ up /\ late > 0 /\ autonomyMode /\ ~StickOverrideActive
    /\ late' = 0
    /\ stickOverride' = FALSE
    /\ IF ~active \/ TimedOut
       THEN active' = FALSE /\ last' = Zero /\ UNCHANGED sport
       ELSE UNCHANGED command /\ Publish(Move(last))
    /\ UNCHANGED <<up, autonomyMode, lastKeys, sticks, cmdAge, wirelessAge, queues, outside>>
StreamPlannerNoTimeout ==
    /\ up /\ late > 0 /\ autonomyMode /\ ~StickOverrideActive
    /\ late' = 0
    /\ stickOverride' = FALSE
    /\ last' = IF active THEN last ELSE Zero
    /\ Publish(Move(last'))
    /\ UNCHANGED <<up, autonomyMode, lastKeys, sticks, active, cmdAge, wirelessAge, queues, outside>>

\* _stream_callback while the planner drives: hold zero when there is no live
\* command, and keep publishing Move at a fixed rate.
StreamPlanner ==
    /\ up /\ late > 0 /\ autonomyMode /\ ~StickOverrideActive
    /\ late' = 0
    /\ stickOverride' = FALSE
    /\ IF ~active \/ TimedOut THEN active' = FALSE /\ last' = Zero
                              ELSE UNCHANGED command
    /\ Publish(Move(last'))
    /\ UNCHANGED <<up, autonomyMode, lastKeys, sticks, cmdAge, wirelessAge, queues, outside>>

StreamCallback == StreamIdle \/ StreamSticks \/ StreamPlanner

\* One stream period passes; the executor runs the timer at most MaxLate late.
Tick ==
    /\ up /\ late < MaxLate + 1
    /\ late' = late + 1
    /\ cmdAge' = Older(cmdAge, CmdTimeout)
    /\ wirelessAge' = Older(wirelessAge, StaleTimeout)
    /\ UNCHANGED <<up, mode, command, queues, sport, outside>>

\* What is left of a process that ended: its fields at their initial values.
Stopped ==
    /\ up' = FALSE
    /\ autonomyMode' = FALSE /\ lastKeys' = {} /\ stickOverride' = FALSE
    /\ sticks' = Centre /\ active' = FALSE /\ last' = Zero
    /\ cmdAge' = 0 /\ wirelessAge' = 0 /\ late' = 0
    /\ cmdQ' = <<>> /\ wirelessQ' = <<>>

\* What shutdown() leaves in the request history: rest first, in autonomy mode only.
HandBackRequests ==
    LET stopped == IF autonomyMode THEN Push(sport, Move(Zero), SportDepth) ELSE sport
    IN Push(stopped, SwitchJoystick(TRUE), SportDepth)

\* shutdown(), run by main() when spin returns or raises.  The node is destroyed at
\* once: what the middleware has not sent by then, of these requests or of the ones
\* before them, is lost, and so is everything published after the context is gone.
Shutdown ==
    /\ up
    /\ \E k \in 0..Len(HandBackRequests) :
         /\ sport' = SubSeq(HandBackRequests, 1, k)
         /\ orphaned' = (k < Len(HandBackRequests) \/ (orphaned /\ ~autonomyMode))
    /\ Stopped
    /\ UNCHANGED robot

\* The process dies without running its finally clause: requests the middleware
\* had not sent yet may be lost with it.
Kill ==
    /\ up
    /\ \E k \in 0..Len(sport) :
         /\ sport' = SubSeq(sport, 1, k)
         /\ orphaned' = (orphaned \/ autonomyMode \/ k < Len(sport))
    /\ Stopped
    /\ UNCHANGED robot

\* __init__: the fields already hold their initial values; nothing is published.
\* The new process has a publisher of its own; what the old one's publisher still
\* had to send is delivered, or lost with it, before this one starts.
Restart ==
    /\ ~up /\ sport = <<>>
    /\ up' = TRUE
    /\ UNCHANGED <<mode, command, cmdAge, wirelessAge, late, queues, sport, outside>>

\* The sport service takes the oldest request.
RobotTakes ==
    /\ sport # <<>>
    /\ sport' = Tail(sport)
    /\ robot' = LET r == Head(sport) IN
                IF r.api = "Move" THEN [robot EXCEPT !.move = r.vel]
                                  ELSE [robot EXCEPT !.joystick = r.on]
    /\ UNCHANGED <<up, mode, command, cmdAge, wirelessAge, late, queues, orphaned>>

Next ==
    \/ PlannerPublish \/ RemotePublish
    \/ CmdVelCallback \/ WirelessCallback \/ StreamIdle \/ StreamSticks \/ StreamPlanner
    \/ Tick \/ Kill \/ Shutdown \/ Restart \/ RobotTakes

Spec == Init /\ [][Next]_vars

(***************************************************************************)
(* Fairness: the executor serves a due timer and every waiting message,    *)
(* time passes, and the robot reads its requests.  Nothing is assumed of   *)
(* the planner, the operator or the process's own life.                    *)
(***************************************************************************)
FairSpec ==
    /\ Spec
    /\ WF_vars(StreamCallback) /\ WF_vars(Tick) /\ WF_vars(RobotTakes)
    /\ WF_vars(CmdVelCallback) /\ WF_vars(WirelessCallback)
-----------------------------------------------------------------------------
(***************************************************************************)
(* Properties.                                                             *)
(***************************************************************************)
Requests == [api : {"Move"}, vel : Velocities]
              \cup [api : {"SwitchJoystick"}, on : BOOLEAN]

\* The types of the bridge's fields, its queues and the robot's state.
TypeOK ==
    /\ up \in BOOLEAN
    /\ autonomyMode \in BOOLEAN /\ stickOverride \in BOOLEAN /\ active \in BOOLEAN
    /\ lastKeys \in SUBSET Keys
    /\ sticks \in [SticksOf -> Int] /\ last \in Velocities
    /\ late \in 0 .. MaxLate + 1
    /\ cmdAge \in 0 .. CmdTimeout + MaxLate + 2
    /\ wirelessAge \in 0 .. StaleTimeout + MaxLate + 2
    /\ cmdQ \in Seq(Velocities)
    /\ wirelessQ \in Seq(RemoteMessages)
    /\ sport \in Seq(Requests) /\ Len(sport) <= SportDepth
    /\ robot \in [joystick : BOOLEAN, move : Velocities]
    /\ orphaned \in BOOLEAN

\* What the robot does once it has taken every request published so far: the
\* newest request of a kind decides, or the robot's state if there is none.
JoystickWillBe(b) ==
    \/ \E i \in 1..Len(sport) :
         /\ sport[i] = SwitchJoystick(b)
         /\ \A j \in (i + 1)..Len(sport) : sport[j].api # "SwitchJoystick"
    \/ /\ robot.joystick = b
       /\ \A j \in 1..Len(sport) : sport[j].api # "SwitchJoystick"

MoveWillBe(v) ==
    \/ \E i \in 1..Len(sport) :
         /\ sport[i] = Move(v)
         /\ \A j \in (i + 1)..Len(sport) : sport[j].api # "Move"
    \/ /\ robot.move = v
       /\ \A j \in 1..Len(sport) : sport[j].api # "Move"

\* Outside autonomy mode the operator has the robot back: whatever the bounded
\* request history dropped, the robot ends at rest with its native joystick on
\* (unless a process ended without handing it back: see RemoteByDefault).
RemoteRestored ==
    ~autonomyMode /\ ~orphaned => JoystickWillBe(TRUE) /\ MoveWillBe(Zero)

\* No wireless message since the timer last ran asks for motion.
SticksQuiet ==
    \/ wirelessAge > StaleTimeout + late
    \/ wirelessAge > late /\ ~SticksActive(sticks)

\* The watchdog of _stream_callback: however callbacks interleave, a planner
\* velocity does not survive the planner's silence by more than the time-out and
\* the timer's lateness.
WatchdogHolds ==
    up /\ autonomyMode /\ cmdAge > CmdTimeout + late /\ SticksQuiet
        => MoveWillBe(Zero)

\* Autonomy begins at rest: nothing commanded in an earlier autonomy session, or
\* heard in remote mode, moves the robot when L2+R2 re-enters autonomy.
AutonomyStartsAtRest ==
    [][~autonomyMode /\ autonomyMode'
         => ~active' /\ last' = Zero /\ (orphaned \/ MoveWillBe(Zero)')]_vars

\* "Remote control by default": whenever the bridge runs outside autonomy mode the
\* robot obeys its own joystick, also when the process replaces one that ended.
RemoteByDefault == up /\ ~autonomyMode => JoystickWillBe(TRUE)

\* The planner has been silent for too long and the operator does not drive.
Abandoned ==
    up /\ autonomyMode /\ cmdAge > CmdTimeout /\ ~StickOverrideActive

\* A silent planner stops the robot: the zero velocity gets out, and through.
CommandLossStops == Abandoned ~> (robot.move = Zero \/ ~Abandoned)

\* Leaving autonomy reaches the robot: it rests and obeys its joystick, unless the
\* operator toggles again or the process dies first.
ExitReachesRobot ==
    (up /\ ~autonomyMode /\ ~orphaned)
       ~> (autonomyMode \/ orphaned \/ (robot.joystick /\ robot.move = Zero))

-----------------------------------------------------------------------------
(***************************************************************************)
(* The bridge implements Arbiter.                                          *)
(***************************************************************************)
\* The planner's limits.
Limited == {v \in Velocities : \A a \in Axes : -MaxVel[a] <= v[a] /\ v[a] <= MaxVel[a]}

Driver == IF orphaned THEN "nobody"
          ELSE IF ~autonomyMode THEN "remote"
          ELSE IF stickOverride THEN "sticks" ELSE "planner"

\* The velocity of the newest Move under way, or else the one the robot obeys.
WillMove ==
    LET moves == {i \in 1..Len(sport) : sport[i].api = "Move"} IN
    IF moves = {} THEN robot.move
    ELSE sport[CHOOSE i \in moves : \A j \in moves : j <= i].vel

Abstract == INSTANCE Arbiter WITH
    Rest <- Zero, driver <- Driver, joystick <- JoystickWillBe(TRUE), move <- WillMove

\* Queues that drop their oldest message, late timers, toggles and restarts show nothing but
\* Arbiter's steps: the remote keeps a resting robot until autonomy takes over, the planner
\* never drives beyond its limits, and only the end of autonomy gives a lost robot back.
ImplementsArbiter == Abstract!Spec
=============================================================================
