------------------------ MODULE CmdVelBridge_proofs ------------------------
(***************************************************************************)
(* Proofs about CmdVelBridge, and that it implements Arbiter: for every set*)
(* of commands and messages, every time-out, every lateness of the timer   *)
(* and every queue depth.                                                  *)
(***************************************************************************)
EXTENDS CmdVelBridge, WellFoundedInduction, TLAPS

-----------------------------------------------------------------------------
(***************************************************************************)
(* Lemmas about the operators.                                             *)
(***************************************************************************)

\* A velocity stays a velocity through clamp() and sticks_to_velocity().
LEMMA VelocityTypes ==
    /\ Zero \in Velocities
    /\ Centre \in [SticksOf -> Int]
    /\ \A v \in Velocities : Clamp(v) \in Velocities
    /\ \A s \in [SticksOf -> Int] : SticksToVelocity(s) \in Velocities
<1>1. Zero \in Velocities /\ Centre \in [SticksOf -> Int]
  BY DEF Zero, Centre, Velocities
<1>2. ASSUME NEW v \in Velocities PROVE Clamp(v) \in Velocities
  <2>1. ASSUME NEW a \in Axes PROVE v[a] \in Int /\ MaxVel[a] \in Int
    BY <1>2, ValuesAssumption DEF Velocities
  <2> QED BY <2>1 DEF Clamp, Velocities
<1>3. ASSUME NEW s \in [SticksOf -> Int] PROVE SticksToVelocity(s) \in Velocities
  <2>1. s["lx"] \in Int /\ s["ly"] \in Int /\ s["rx"] \in Int
    BY <1>3 DEF SticksOf
  <2>2. \A n \in Int : ApplyDeadzone(n) \in Int
    BY DEF ApplyDeadzone
  <2> QED BY <2>1, <2>2 DEF SticksToVelocity, Velocities
<1> QED BY <1>1, <1>2, <1>3

\* Pushing a request appends it; a full history shifts by one place.
LEMMA PushContents ==
    ASSUME NEW q \in Seq(Requests), NEW m \in Requests, Len(q) <= SportDepth
    PROVE  /\ Push(q, m, SportDepth) \in Seq(Requests)
           /\ Len(Push(q, m, SportDepth)) \in 1..SportDepth
           /\ Len(q) < SportDepth =>
                /\ Len(Push(q, m, SportDepth)) = Len(q) + 1
                /\ \A i \in 1..Len(q) : Push(q, m, SportDepth)[i] = q[i]
           /\ Len(q) = SportDepth =>
                /\ Len(Push(q, m, SportDepth)) = SportDepth
                /\ \A i \in 1..(SportDepth - 1) : Push(q, m, SportDepth)[i] = q[i + 1]
           /\ Push(q, m, SportDepth)[Len(Push(q, m, SportDepth))] = m
<1> SportDepth \in Nat /\ SportDepth >= 3
  BY DepthAssumption
<1>1. CASE Len(q) < SportDepth
  BY <1>1 DEF Push
<1>2. CASE Len(q) = SportDepth
  <2>1. q # <<>> /\ Tail(q) \in Seq(Requests) /\ Len(Tail(q)) = SportDepth - 1
    BY <1>2
  <2>2. \A i \in 1..(SportDepth - 1) : Tail(q)[i] = q[i + 1]
    BY <1>2
  <2> QED BY <1>2, <2>1, <2>2 DEF Push
<1> QED BY <1>1, <1>2

\* Requests are requests, and a bounded queue stays bounded.
LEMMA RequestTypes ==
    /\ \A v \in Velocities : Move(v) \in Requests
    /\ \A b \in BOOLEAN : SwitchJoystick(b) \in Requests
BY DEF Move, SwitchJoystick, Requests

LEMMA PushInbox ==
    ASSUME NEW T, NEW q \in Seq(T), NEW m \in T
    PROVE  Push(q, m, InDepth) \in Seq(T)
<1>1. CASE Len(q) < InDepth
  BY <1>1 DEF Push
<1>2. CASE ~(Len(q) < InDepth)
  <2>1. q # <<>>
    BY <1>2, DepthAssumption
  <2> QED BY <1>2, <2>1 DEF Push
<1> QED BY <1>1, <1>2

LEMMA PublishTypes ==
    ASSUME TypeOK, NEW m \in Requests, NEW n \in Requests
    PROVE  /\ Publish(m) => sport' \in Seq(Requests) /\ Len(sport') <= SportDepth
           /\ Publish2(m, n) => sport' \in Seq(Requests) /\ Len(sport') <= SportDepth
<1>1. SportDepth \in Nat \ {0} /\ sport \in Seq(Requests) /\ Len(sport) <= SportDepth
  BY DepthAssumption DEF TypeOK
<1>2. /\ Push(sport, m, SportDepth) \in Seq(Requests)
      /\ Len(Push(sport, m, SportDepth)) <= SportDepth
  BY <1>1, PushContents
<1>3. /\ Push(Push(sport, m, SportDepth), n, SportDepth) \in Seq(Requests)
      /\ Len(Push(Push(sport, m, SportDepth), n, SportDepth)) <= SportDepth
  BY <1>1, <1>2, PushContents
<1> QED BY <1>2, <1>3 DEF Publish, Publish2

\* What shutdown() publishes fits the history.
LEMMA HandBackTypes ==
    ASSUME TypeOK
    PROVE  HandBackRequests \in Seq(Requests) /\ Len(HandBackRequests) <= SportDepth
<1>1. SportDepth \in Nat \ {0} /\ sport \in Seq(Requests) /\ Len(sport) <= SportDepth
  BY DepthAssumption DEF TypeOK
<1>2. Move(Zero) \in Requests /\ SwitchJoystick(TRUE) \in Requests
  BY RequestTypes, VelocityTypes
<1>3. ASSUME NEW q \in Seq(Requests), Len(q) <= SportDepth, NEW m \in Requests
      PROVE  Push(q, m, SportDepth) \in Seq(Requests) /\ Len(Push(q, m, SportDepth)) <= SportDepth
  <2>1. Push(q, m, SportDepth) \in Seq(Requests) /\ Len(Push(q, m, SportDepth)) \in 1..SportDepth
    BY <1>3, PushContents
  <2> QED BY <1>1, <2>1
<1>4. /\ Push(sport, SwitchJoystick(TRUE), SportDepth) \in Seq(Requests)
      /\ Len(Push(sport, SwitchJoystick(TRUE), SportDepth)) <= SportDepth
  BY <1>1, <1>2, <1>3
<1>5. PICK stopped \in Seq(Requests) : stopped = Push(sport, Move(Zero), SportDepth)
                                       /\ Len(stopped) <= SportDepth
  BY <1>1, <1>2, <1>3
<1>6. /\ Push(stopped, SwitchJoystick(TRUE), SportDepth) \in Seq(Requests)
      /\ Len(Push(stopped, SwitchJoystick(TRUE), SportDepth)) <= SportDepth
  BY <1>2, <1>3, <1>5
<1> QED BY <1>4, <1>5, <1>6 DEF HandBackRequests

\* A shutdown that loses nothing publishes what ending autonomy publishes.
LEMMA ShutdownDelivers ==
    ASSUME TypeOK, Shutdown, ~orphaned'
    PROVE  /\ autonomyMode => Publish2(Move(Zero), SwitchJoystick(TRUE))
           /\ ~autonomyMode => Publish(SwitchJoystick(TRUE)) /\ ~orphaned
<1>1. PICK k \in 0..Len(HandBackRequests) :
         /\ sport' = SubSeq(HandBackRequests, 1, k)
         /\ orphaned' = (k < Len(HandBackRequests) \/ (orphaned /\ ~autonomyMode))
  BY DEF Shutdown
<1>2. ~(k < Len(HandBackRequests)) /\ ~(orphaned /\ ~autonomyMode)
  BY <1>1, Zenon
<1>3. HandBackRequests \in Seq(Requests)
  BY HandBackTypes
<1>4. k = Len(HandBackRequests)
  BY <1>1, <1>2, <1>3
<1>5. sport' = HandBackRequests
  BY <1>1, <1>3, <1>4
<1> QED BY <1>2, <1>5 DEF HandBackRequests, Publish, Publish2

-----------------------------------------------------------------------------
(***************************************************************************)
(* Type correctness.                                                       *)
(***************************************************************************)
\* The initial values of the fields and queues.
LEMMA InitialTypes ==
    /\ {} \in SUBSET Keys
    /\ <<>> \in Seq(Velocities)
    /\ <<>> \in Seq(RemoteMessages)
    /\ <<>> \in Seq(Requests) /\ Len(<<>>) <= SportDepth
    /\ 0 \in 0 .. MaxLate + 1
    /\ 0 \in 0 .. CmdTimeout + MaxLate + 2
    /\ 0 \in 0 .. StaleTimeout + MaxLate + 2
<1>1. \A T : <<>> \in Seq(T) /\ Len(<<>>) = 0
  OBVIOUS
<1> QED BY <1>1, TimesAssumption, DepthAssumption

LEMMA TypeInit == Init => TypeOK
<1> SUFFICES ASSUME Init PROVE TypeOK
  OBVIOUS
<1>1. robot \in [joystick : BOOLEAN, move : Velocities]
  BY VelocityTypes DEF Init
<1>2. up \in BOOLEAN /\ autonomyMode \in BOOLEAN /\ stickOverride \in BOOLEAN
      /\ active \in BOOLEAN /\ orphaned \in BOOLEAN
  BY DEF Init
<1> QED BY <1>1, <1>2, VelocityTypes, InitialTypes DEF Init, TypeOK

LEMMA TypeStopped ==
    Stopped => /\ up' \in BOOLEAN
               /\ autonomyMode' \in BOOLEAN /\ stickOverride' \in BOOLEAN /\ active' \in BOOLEAN
               /\ lastKeys' \in SUBSET Keys
               /\ sticks' \in [SticksOf -> Int] /\ last' \in Velocities
               /\ late' \in 0 .. MaxLate + 1
               /\ cmdAge' \in 0 .. CmdTimeout + MaxLate + 2
               /\ wirelessAge' \in 0 .. StaleTimeout + MaxLate + 2
               /\ cmdQ' \in Seq(Velocities)
               /\ wirelessQ' \in Seq(RemoteMessages)
<1> SUFFICES ASSUME Stopped
             PROVE  /\ up' \in BOOLEAN
                    /\ autonomyMode' \in BOOLEAN /\ stickOverride' \in BOOLEAN
                    /\ active' \in BOOLEAN
                    /\ lastKeys' \in SUBSET Keys
                    /\ sticks' \in [SticksOf -> Int] /\ last' \in Velocities
                    /\ late' \in 0 .. MaxLate + 1
                    /\ cmdAge' \in 0 .. CmdTimeout + MaxLate + 2
                    /\ wirelessAge' \in 0 .. StaleTimeout + MaxLate + 2
                    /\ cmdQ' \in Seq(Velocities)
                    /\ wirelessQ' \in Seq(RemoteMessages)
  OBVIOUS
<1>1. up' \in BOOLEAN /\ autonomyMode' \in BOOLEAN /\ stickOverride' \in BOOLEAN
      /\ active' \in BOOLEAN
  BY DEF Stopped
<1> QED BY <1>1, VelocityTypes, InitialTypes DEF Stopped

LEMMA AgeTypes ==
    ASSUME NEW limit \in Nat, NEW age \in 0 .. limit + MaxLate + 2
    PROVE  Older(age, limit) \in 0 .. limit + MaxLate + 2
BY TimesAssumption DEF Older

\* Every action keeps the types.
LEMMA TypeNext == TypeOK /\ [Next]_vars => TypeOK'
<1> SUFFICES ASSUME TypeOK, [Next]_vars PROVE TypeOK'
  OBVIOUS
<1> USE DEF TypeOK
<1> USE TimesAssumption
<1>1. CASE PlannerPublish
  <2>1. PICK c \in PlannerCmds : cmdQ' = Push(cmdQ, c, InDepth)
    BY <1>1 DEF PlannerPublish
  <2>2. c \in Velocities
    BY ValuesAssumption
  <2>3. cmdQ' \in Seq(Velocities)
    BY <2>1, <2>2, PushInbox
  <2> QED BY <1>1, <2>3 DEF PlannerPublish, mode, command, outside
<1>2. CASE RemotePublish
  <2>1. PICK m \in RemoteMsgs : wirelessQ' = Push(wirelessQ, m, InDepth)
    BY <1>2 DEF RemotePublish
  <2>2. m \in RemoteMessages
    BY ValuesAssumption
  <2>3. wirelessQ' \in Seq(RemoteMessages)
    BY <2>1, <2>2, PushInbox
  <2> QED BY <1>2, <2>3 DEF RemotePublish, mode, command, outside
<1>3. CASE CmdVelCallback
  <2>1. Head(cmdQ) \in Velocities /\ cmdQ' \in Seq(Velocities)
    BY <1>3 DEF CmdVelCallback
  <2>2. Clamp(Head(cmdQ)) \in Velocities
    BY <2>1, VelocityTypes
  <2>3. last' \in Velocities
    BY <1>3, <2>2 DEF CmdVelCallback, command
  <2>4. active' \in BOOLEAN
    BY <1>3 DEF CmdVelCallback, command
  <2>5. cmdAge' \in 0 .. CmdTimeout + MaxLate + 2
    BY <1>3, InitialTypes DEF CmdVelCallback
  <2> QED BY <1>3, <2>1, <2>3, <2>4, <2>5 DEF CmdVelCallback, mode, outside
<1>4. CASE WirelessCallback
  <2> DEFINE msg == Head(wirelessQ)
  <2>0. msg \in RemoteMessages /\ wirelessQ' \in Seq(RemoteMessages)
    BY <1>4 DEF WirelessCallback
  <2>1. /\ msg.keys \in SUBSET Keys /\ msg.sticks \in [SticksOf -> Int]
        /\ wirelessQ' \in Seq(RemoteMessages)
    BY <2>0 DEF RemoteMessages
  <2>2. /\ lastKeys' \in SUBSET Keys /\ sticks' \in [SticksOf -> Int]
        /\ wirelessAge' \in 0 .. StaleTimeout + MaxLate + 2
        /\ UNCHANGED <<up, late, cmdQ, robot>>
    BY <1>4, <2>1, InitialTypes DEF WirelessCallback
  <2>3. CASE EnterAutonomyMode
    <3>1. sport' \in Seq(Requests) /\ Len(sport') <= SportDepth
      BY <2>3, RequestTypes, PublishTypes DEF EnterAutonomyMode
    <3>2. autonomyMode' \in BOOLEAN /\ stickOverride' \in BOOLEAN
      BY <2>3 DEF EnterAutonomyMode
    <3>3. cmdAge' \in 0 .. CmdTimeout + MaxLate + 2 /\ UNCHANGED <<command, orphaned>>
      BY <2>3, InitialTypes DEF EnterAutonomyMode
    <3> QED BY <2>1, <2>2, <3>1, <3>2, <3>3 DEF command
  <2>4. CASE ExitAutonomyMode
    <3>1. sport' \in Seq(Requests) /\ Len(sport') <= SportDepth
      BY <2>4, RequestTypes, PublishTypes, VelocityTypes DEF ExitAutonomyMode
    <3> QED BY <2>1, <2>2, <2>4, <3>1, VelocityTypes DEF ExitAutonomyMode
  <2>5. CASE UNCHANGED <<autonomyMode, command, stickOverride, cmdAge, sport, orphaned>>
    BY <2>1, <2>2, <2>5 DEF command
  <2> QED BY <1>4, <2>3, <2>4, <2>5 DEF WirelessCallback
<1>5. CASE StreamIdle
  BY <1>5 DEF StreamIdle, mode, command, queues, outside
<1>6. CASE StreamSticks
  <2>1. SticksToVelocity(sticks) \in Velocities
    BY VelocityTypes
  <2>2. sport' \in Seq(Requests) /\ Len(sport') <= SportDepth
    BY <1>6, <2>1, RequestTypes, PublishTypes DEF StreamSticks
  <2> QED BY <1>6, <2>2 DEF StreamSticks, command, queues, outside
<1>7. CASE StreamPlanner
  <2>1. last' \in Velocities /\ active' \in BOOLEAN
    BY <1>7, VelocityTypes DEF StreamPlanner, command
  <2>2. sport' \in Seq(Requests) /\ Len(sport') <= SportDepth
    BY <1>7, <2>1, RequestTypes, PublishTypes DEF StreamPlanner
  <2>3. stickOverride' \in BOOLEAN /\ late' \in 0 .. MaxLate + 1
    BY <1>7, InitialTypes DEF StreamPlanner
  <2>4. UNCHANGED <<up, autonomyMode, lastKeys, sticks, cmdAge, wirelessAge, queues, outside>>
    BY <1>7 DEF StreamPlanner
  <2> QED BY <2>1, <2>2, <2>3, <2>4 DEF queues, outside
<1>8. CASE Tick
  <2>1. late' \in 0 .. MaxLate + 1
    BY <1>8 DEF Tick
  <2>2. /\ cmdAge' \in 0 .. CmdTimeout + MaxLate + 2
        /\ wirelessAge' \in 0 .. StaleTimeout + MaxLate + 2
    BY <1>8, AgeTypes DEF Tick
  <2> QED BY <1>8, <2>1, <2>2 DEF Tick, mode, command, queues, outside
<1>9. CASE Shutdown
  <2>1. PICK k \in 0..Len(HandBackRequests) :
           /\ sport' = SubSeq(HandBackRequests, 1, k)
           /\ orphaned' = (k < Len(HandBackRequests) \/ (orphaned /\ ~autonomyMode))
    BY <1>9 DEF Shutdown
  <2>2. HandBackRequests \in Seq(Requests) /\ Len(HandBackRequests) <= SportDepth
    BY HandBackTypes
  <2>3. sport' \in Seq(Requests) /\ Len(sport') <= SportDepth
    BY <2>1, <2>2, DepthAssumption
  <2>4. orphaned' \in BOOLEAN
    BY <2>1
  <2> QED BY <1>9, <2>3, <2>4, TypeStopped DEF Shutdown
<1>10. CASE Kill
  <2>1. PICK k \in 0..Len(sport) : /\ sport' = SubSeq(sport, 1, k)
                                   /\ orphaned' = (orphaned \/ autonomyMode \/ k < Len(sport))
    BY <1>10 DEF Kill
  <2>2. sport' \in Seq(Requests) /\ Len(sport') <= SportDepth
    BY <2>1, DepthAssumption
  <2>3. orphaned' \in BOOLEAN
    BY <2>1
  <2> QED BY <1>10, <2>2, <2>3, TypeStopped DEF Kill
<1>11. CASE Restart
  BY <1>11 DEF Restart, mode, command, queues, outside
<1>12. CASE RobotTakes
  <2>1. Head(sport) \in Requests /\ sport' \in Seq(Requests) /\ Len(sport') <= SportDepth
    BY <1>12, DepthAssumption DEF RobotTakes
  <2>2. CASE Head(sport) \in [api : {"Move"}, vel : Velocities]
    BY <1>12, <2>1, <2>2 DEF RobotTakes, mode, command, queues
  <2>3. CASE Head(sport) \in [api : {"SwitchJoystick"}, on : BOOLEAN]
    BY <1>12, <2>1, <2>3 DEF RobotTakes, mode, command, queues
  <2> QED BY <2>1, <2>2, <2>3 DEF Requests
<1>13. CASE UNCHANGED vars
  BY <1>13 DEF vars, mode, command, queues, outside
<1> QED BY <1>1, <1>2, <1>3, <1>4, <1>5, <1>6, <1>7, <1>8, <1>9, <1>10, <1>11, <1>12, <1>13
        DEF Next

\* The fields, the queues and the robot keep their types, and the request history
\* never exceeds its depth.
THEOREM TypeCorrect == Spec => []TypeOK
BY TypeInit, TypeNext, PTL DEF Spec

-----------------------------------------------------------------------------
(***************************************************************************)
(* The inductive invariant.  RemoteRestored speaks of the newest request   *)
(* of each kind, and publishing one more may push out the oldest: what     *)
(* makes it inductive is that outside autonomy mode the bridge publishes   *)
(* nothing, so the zero velocity stays among the last two requests until   *)
(* the robot takes it, or the process ends.                                *)
(***************************************************************************)
AtRest ==
    \/ \E i \in 1..Len(sport) :
         /\ i >= Len(sport) - 1
         /\ sport[i] = Move(Zero)
         /\ \A j \in (i + 1)..Len(sport) : sport[j].api # "Move"
    \/ /\ robot.move = Zero
       /\ \A j \in 1..Len(sport) : sport[j].api # "Move"

RemoteHoldsNothing ==
    /\ ~up => ~autonomyMode
    /\ ~autonomyMode => ~active /\ last = Zero

RestoredInv ==
    ~autonomyMode /\ ~orphaned => /\ JoystickWillBe(TRUE) /\ MoveWillBe(Zero)
                                  /\ up => AtRest

IInv == TypeOK /\ RemoteHoldsNothing /\ RestoredInv /\ WatchdogHolds

LEMMA Apis ==
    /\ \A v : Move(v).api = "Move"
    /\ \A b : SwitchJoystick(b).api = "SwitchJoystick"
BY DEF Move, SwitchJoystick

\* What the history p holds after m is pushed on q.
Pushed(p, q, m) ==
    /\ p \in Seq(Requests) /\ Len(p) > 0 /\ p[Len(p)] = m
    /\ Len(q) < SportDepth => /\ Len(p) = Len(q) + 1
                              /\ \A i \in 1..Len(q) : p[i] = q[i]
    /\ Len(q) = SportDepth => /\ Len(p) = SportDepth
                              /\ \A i \in 1..(SportDepth - 1) : p[i] = q[i + 1]

LEMMA PushedContents ==
    ASSUME NEW q \in Seq(Requests), Len(q) <= SportDepth, NEW m \in Requests
    PROVE  Pushed(Push(q, m, SportDepth), q, m)
<1> DEFINE p == Push(q, m, SportDepth)
<1>1. p \in Seq(Requests) /\ Len(p) > 0
  BY PushContents, DepthAssumption
<1>2. p[Len(p)] = m
  BY PushContents
<1>3. Len(q) < SportDepth => Len(p) = Len(q) + 1 /\ \A i \in 1..Len(q) : p[i] = q[i]
  BY PushContents
<1>4. Len(q) = SportDepth => /\ Len(p) = SportDepth
                             /\ \A i \in 1..(SportDepth - 1) : p[i] = q[i + 1]
  BY PushContents
<1> QED BY <1>1, <1>2, <1>3, <1>4 DEF Pushed

\* Publishing a Move decides what the robot's velocity will be.
LEMMA PublishedMove ==
    ASSUME TypeOK, NEW v \in Velocities, Publish(Move(v))
    PROVE  MoveWillBe(v)'
<1>1. sport \in Seq(Requests) /\ Len(sport) <= SportDepth /\ SportDepth \in Nat \ {0}
  BY DepthAssumption DEF TypeOK
<1>2. Move(v) \in Requests
  BY RequestTypes
<1>3. /\ sport' \in Seq(Requests) /\ Len(sport') > 0
      /\ sport'[Len(sport')] = Move(v)
  <2>1. Pushed(sport', sport, Move(v))
    BY <1>1, <1>2, PushedContents DEF Publish
  <2> QED BY <2>1 DEF Pushed
<1>4. Len(sport') \in 1..Len(sport') /\ \A j \in (Len(sport') + 1)..Len(sport') : FALSE
  BY <1>3
<1> QED BY <1>3, <1>4 DEF MoveWillBe

\* Publishing SwitchJoystick decides the joystick's, and does not push out a zero
\* velocity that is among the last two requests.
LEMMA PublishedJoystick ==
    ASSUME TypeOK, NEW b \in BOOLEAN, Publish(SwitchJoystick(b)), robot' = robot
    PROVE  JoystickWillBe(b)' /\ (AtRest => MoveWillBe(Zero)')
<1> DEFINE n == Len(sport)
           m == SwitchJoystick(b)
<1>1. sport \in Seq(Requests) /\ n \in Nat /\ n <= SportDepth /\ SportDepth \in Nat \ {0}
      /\ SportDepth >= 3
  BY DepthAssumption DEF TypeOK
<1>2. m \in Requests /\ m.api = "SwitchJoystick"
  BY RequestTypes, Apis
<1>3. /\ sport' \in Seq(Requests) /\ Len(sport') > 0
      /\ sport'[Len(sport')] = m
      /\ n < SportDepth => /\ Len(sport') = n + 1
                           /\ \A i \in 1..n : sport'[i] = sport[i]
      /\ n = SportDepth => /\ Len(sport') = SportDepth
                           /\ \A i \in 1..(SportDepth - 1) : sport'[i] = sport[i + 1]
  <2>1. Pushed(sport', sport, m)
    BY <1>1, <1>2, PushedContents DEF Publish
  <2> QED BY <2>1 DEF Pushed
<1>4. JoystickWillBe(b)'
  <2>1. Len(sport') \in 1..Len(sport') /\ \A j \in (Len(sport') + 1)..Len(sport') : FALSE
    BY <1>3
  <2> QED BY <1>3, <2>1 DEF JoystickWillBe
<1>5. ASSUME AtRest PROVE MoveWillBe(Zero)'
  <2>1. CASE \E i \in 1..n : /\ i >= n - 1 /\ sport[i] = Move(Zero)
                             /\ \A j \in (i + 1)..n : sport[j].api # "Move"
    <3>1. PICK i \in 1..n : /\ i >= n - 1 /\ sport[i] = Move(Zero)
                            /\ \A j \in (i + 1)..n : sport[j].api # "Move"
      BY <2>1
    <3>2. CASE n < SportDepth
      <4>1. i \in 1..Len(sport') /\ sport'[i] = Move(Zero)
        BY <1>1, <1>3, <3>1, <3>2
      <4>2. \A j \in (i + 1)..Len(sport') : sport'[j].api # "Move"
        BY <1>1, <1>2, <1>3, <3>1, <3>2
      <4> QED BY <4>1, <4>2 DEF MoveWillBe
    <3>3. CASE n = SportDepth
      <4> DEFINE k == i - 1
      <4>1. k \in 1..Len(sport') /\ sport'[k] = Move(Zero)
        BY <1>1, <1>3, <3>1, <3>3
      <4>2. ASSUME NEW j \in (k + 1)..Len(sport') PROVE sport'[j].api # "Move"
        <5>1. CASE j = SportDepth
          BY <1>2, <1>3, <3>3, <5>1
        <5>2. CASE j # SportDepth
          <6>1. j \in 1..(SportDepth - 1) /\ j + 1 \in (i + 1)..n
            BY <1>1, <1>3, <3>1, <3>3, <5>2
          <6> QED BY <1>3, <3>1, <3>3, <6>1
        <5> QED BY <5>1, <5>2
      <4> HIDE DEF k
      <4> QED BY <4>1, <4>2 DEF MoveWillBe
    <3> QED BY <1>1, <3>2, <3>3
  <2>2. CASE robot.move = Zero /\ \A j \in 1..n : sport[j].api # "Move"
    <3>1. ASSUME NEW j \in 1..Len(sport') PROVE sport'[j].api # "Move"
      <4>1. CASE j = Len(sport')
        BY <1>2, <1>3, <4>1
      <4>2. CASE j # Len(sport') /\ n < SportDepth
        BY <1>1, <1>3, <2>2, <4>2
      <4>3. CASE j # Len(sport') /\ n = SportDepth
        <5>1. j \in 1..(SportDepth - 1) /\ j + 1 \in 1..n
          BY <1>1, <1>3, <4>3
        <5> QED BY <1>3, <2>2, <4>3, <5>1
      <4> QED BY <1>1, <4>1, <4>2, <4>3
    <3> QED BY <2>2, <3>1 DEF MoveWillBe
  <2> QED BY <1>5, <2>1, <2>2 DEF AtRest
<1> QED BY <1>4, <1>5

\* Leaving autonomy mode publishes both: the robot will rest with its joystick on.
LEMMA PublishedBoth ==
    ASSUME TypeOK, Publish2(Move(Zero), SwitchJoystick(TRUE))
    PROVE  (JoystickWillBe(TRUE) /\ MoveWillBe(Zero) /\ AtRest)'
<1> DEFINE q == Push(sport, Move(Zero), SportDepth)
           m == SwitchJoystick(TRUE)
<1>1. sport \in Seq(Requests) /\ Len(sport) <= SportDepth /\ SportDepth \in Nat \ {0}
      /\ SportDepth >= 3
  BY DepthAssumption DEF TypeOK
<1>2. Move(Zero) \in Requests /\ m \in Requests /\ m.api = "SwitchJoystick"
  BY RequestTypes, VelocityTypes, Apis
<1>3. q \in Seq(Requests) /\ Len(q) <= SportDepth /\ Len(q) > 0 /\ q[Len(q)] = Move(Zero)
  BY <1>1, <1>2, PushContents
<1>4. sport' = Push(q, m, SportDepth)
  BY DEF Publish2
<1> HIDE DEF q, m
<1>5. /\ sport' \in Seq(Requests) /\ Len(sport') > 0 /\ sport'[Len(sport')] = m
      /\ Len(q) < SportDepth => /\ Len(sport') = Len(q) + 1
                                /\ \A i \in 1..Len(q) : sport'[i] = q[i]
      /\ Len(q) = SportDepth => /\ Len(sport') = SportDepth
                                /\ \A i \in 1..(SportDepth - 1) : sport'[i] = q[i + 1]
  <2>1. Pushed(sport', q, m)
    BY <1>2, <1>3, <1>4, PushedContents
  <2> QED BY <2>1 DEF Pushed
<1> DEFINE k == Len(sport') - 1
<1>6. k \in 1..Len(sport') /\ sport'[k] = Move(Zero)
  <2>1. Len(q) \in Nat /\ (Len(q) < SportDepth \/ Len(q) = SportDepth)
    BY <1>1, <1>3
  <2>2. CASE Len(q) < SportDepth
    BY <1>3, <1>5, <2>1, <2>2
  <2>3. CASE Len(q) = SportDepth
    <3>1. SportDepth - 1 \in 1..(SportDepth - 1)
      BY <1>1
    <3>2. sport'[SportDepth - 1] = q[(SportDepth - 1) + 1]
      BY <1>5, <2>3, <3>1
    <3>3. (SportDepth - 1) + 1 = Len(q)
      BY <1>1, <2>3
    <3> QED BY <1>1, <1>3, <1>5, <2>3, <3>2, <3>3
  <2> QED BY <2>1, <2>2, <2>3
<1>7. ASSUME NEW j \in (k + 1)..Len(sport') PROVE sport'[j].api = "SwitchJoystick"
  <2>1. j = Len(sport')
    BY <1>5
  <2> QED BY <1>2, <1>5, <2>1
<1>8. k >= Len(sport') - 1 /\ Len(sport') \in 1..Len(sport')
      /\ \A j \in (Len(sport') + 1)..Len(sport') : FALSE
  BY <1>5
<1> HIDE DEF k
<1>9. AtRest'
  BY <1>6, <1>7, <1>8 DEF AtRest
<1>10. MoveWillBe(Zero)'
  BY <1>6, <1>7 DEF MoveWillBe
<1>11. JoystickWillBe(TRUE)'
  BY <1>5, <1>8 DEF JoystickWillBe, m
<1> QED BY <1>9, <1>10, <1>11

\* Taking the oldest request changes none of what the robot will do.
LEMMA Taken ==
    ASSUME TypeOK, RobotTakes
    PROVE  /\ \A v \in Velocities : MoveWillBe(v) => MoveWillBe(v)'
           /\ \A b \in BOOLEAN : JoystickWillBe(b) => JoystickWillBe(b)'
           /\ AtRest => AtRest'
<1> DEFINE n == Len(sport)
<1>1. /\ sport \in Seq(Requests) /\ n \in Nat /\ n > 0
      /\ sport' \in Seq(Requests) /\ Len(sport') = n - 1
      /\ \A i \in 1..(n - 1) : sport'[i] = sport[i + 1]
  BY DEF TypeOK, RobotTakes
<1>2. /\ sport[1].api = "Move" => robot' = [robot EXCEPT !.move = sport[1].vel]
      /\ sport[1].api # "Move" => robot' = [robot EXCEPT !.joystick = sport[1].on]
  BY <1>1 DEF RobotTakes
<1>3. robot \in [joystick : BOOLEAN, move : Velocities]
  BY DEF TypeOK
<1>4. /\ sport[1].api = "Move" => robot'.move = sport[1].vel /\ robot'.joystick = robot.joystick
      /\ sport[1].api # "Move" => robot'.joystick = sport[1].on /\ robot'.move = robot.move
  BY <1>2, <1>3
<1>5. sport[1] \in Requests /\ \A i \in 1..n : sport[i].api \in {"Move", "SwitchJoystick"}
  BY <1>1 DEF Requests
<1>6. ASSUME NEW i \in 1..n, NEW api, \A j \in (i + 1)..n : sport[j].api # api
      PROVE  \A j \in i..Len(sport') : sport'[j].api # api
  <2>1. ASSUME NEW j \in i..Len(sport') PROVE sport'[j].api # api
    <3>1. j \in 1..(n - 1) /\ j + 1 \in (i + 1)..n
      BY <1>1
    <3> QED BY <1>1, <1>6, <3>1
  <2> QED BY <2>1
<1>7. ASSUME NEW api, \A j \in 1..n : sport[j].api # api
      PROVE  \A j \in 1..Len(sport') : sport'[j].api # api
  <2>1. ASSUME NEW j \in 1..Len(sport') PROVE sport'[j].api # api
    <3>1. j \in 1..(n - 1) /\ j + 1 \in 1..n
      BY <1>1
    <3> QED BY <1>1, <1>7, <3>1
  <2> QED BY <2>1
<1>8. ASSUME NEW i \in 1..n, i > 1
      PROVE  /\ i - 1 \in 1..Len(sport') /\ sport'[i - 1] = sport[i]
             /\ i >= n - 1 => i - 1 >= Len(sport') - 1
  <2>1. i - 1 \in 1..(n - 1) /\ (i - 1) + 1 = i
    BY <1>1, <1>8
  <2> QED BY <1>1, <2>1
<1>9. ASSUME NEW v \in Velocities, MoveWillBe(v) PROVE MoveWillBe(v)'
  <2>1. CASE \E i \in 1..n : /\ sport[i] = Move(v)
                             /\ \A j \in (i + 1)..n : sport[j].api # "Move"
    <3>1. PICK i \in 1..n : /\ sport[i] = Move(v)
                            /\ \A j \in (i + 1)..n : sport[j].api # "Move"
      BY <2>1
    <3>2. \A j \in i..Len(sport') : sport'[j].api # "Move"
      BY <1>6, <3>1
    <3>3. CASE i = 1
      <4>1. sport[1].api = "Move" /\ sport[1].vel = v
        BY <3>1, <3>3 DEF Move
      <4> QED BY <1>4, <3>2, <3>3, <4>1 DEF MoveWillBe
    <3>4. CASE i > 1
      <4> DEFINE k == i - 1
      <4>1. k \in 1..Len(sport') /\ sport'[k] = Move(v)
        BY <1>8, <3>1, <3>4
      <4>2. \A j \in (k + 1)..Len(sport') : sport'[j].api # "Move"
        BY <3>2
      <4> HIDE DEF k
      <4> QED BY <4>1, <4>2 DEF MoveWillBe
    <3> QED BY <3>3, <3>4
  <2>2. CASE robot.move = v /\ \A j \in 1..n : sport[j].api # "Move"
    <3>1. sport[1].api # "Move"
      BY <1>1, <2>2
    <3>2. \A j \in 1..Len(sport') : sport'[j].api # "Move"
      BY <1>7, <2>2
    <3> QED BY <1>4, <2>2, <3>1, <3>2 DEF MoveWillBe
  <2> QED BY <1>9, <2>1, <2>2 DEF MoveWillBe
<1>10. ASSUME NEW b \in BOOLEAN, JoystickWillBe(b) PROVE JoystickWillBe(b)'
  <2>1. CASE \E i \in 1..n : /\ sport[i] = SwitchJoystick(b)
                             /\ \A j \in (i + 1)..n : sport[j].api # "SwitchJoystick"
    <3>1. PICK i \in 1..n : /\ sport[i] = SwitchJoystick(b)
                            /\ \A j \in (i + 1)..n : sport[j].api # "SwitchJoystick"
      BY <2>1
    <3>2. \A j \in i..Len(sport') : sport'[j].api # "SwitchJoystick"
      BY <1>6, <3>1
    <3>3. CASE i = 1
      <4>1. sport[1].api # "Move" /\ sport[1].on = b
        BY <3>1, <3>3 DEF SwitchJoystick
      <4>2. robot'.joystick = b
        BY <1>4, <4>1
      <4> QED BY <3>2, <3>3, <4>2 DEF JoystickWillBe
    <3>4. CASE i > 1
      <4> DEFINE k == i - 1
      <4>1. k \in 1..Len(sport') /\ sport'[k] = SwitchJoystick(b)
        BY <1>8, <3>1, <3>4
      <4>2. \A j \in (k + 1)..Len(sport') : sport'[j].api # "SwitchJoystick"
        BY <3>2
      <4> HIDE DEF k
      <4> QED BY <4>1, <4>2 DEF JoystickWillBe
    <3> QED BY <3>3, <3>4
  <2>2. CASE robot.joystick = b /\ \A j \in 1..n : sport[j].api # "SwitchJoystick"
    <3>1. sport[1].api = "Move"
      BY <1>1, <1>5, <2>2
    <3>2. \A j \in 1..Len(sport') : sport'[j].api # "SwitchJoystick"
      BY <1>7, <2>2
    <3> QED BY <1>4, <2>2, <3>1, <3>2 DEF JoystickWillBe
  <2> QED BY <1>10, <2>1, <2>2 DEF JoystickWillBe
<1>11. ASSUME AtRest PROVE AtRest'
  <2>1. CASE \E i \in 1..n : /\ i >= n - 1 /\ sport[i] = Move(Zero)
                             /\ \A j \in (i + 1)..n : sport[j].api # "Move"
    <3>1. PICK i \in 1..n : /\ i >= n - 1 /\ sport[i] = Move(Zero)
                            /\ \A j \in (i + 1)..n : sport[j].api # "Move"
      BY <2>1
    <3>2. \A j \in i..Len(sport') : sport'[j].api # "Move"
      BY <1>6, <3>1
    <3>3. CASE i = 1
      <4>1. sport[1].api = "Move" /\ sport[1].vel = Zero
        BY <3>1, <3>3 DEF Move
      <4> QED BY <1>4, <3>2, <3>3, <4>1 DEF AtRest
    <3>4. CASE i > 1
      <4> DEFINE k == i - 1
      <4>1. k \in 1..Len(sport') /\ sport'[k] = Move(Zero) /\ k >= Len(sport') - 1
        BY <1>8, <3>1, <3>4
      <4>2. \A j \in (k + 1)..Len(sport') : sport'[j].api # "Move"
        BY <3>2
      <4> HIDE DEF k
      <4> QED BY <4>1, <4>2 DEF AtRest
    <3> QED BY <3>3, <3>4
  <2>2. CASE robot.move = Zero /\ \A j \in 1..n : sport[j].api # "Move"
    <3>1. sport[1].api # "Move"
      BY <1>1, <2>2
    <3>2. \A j \in 1..Len(sport') : sport'[j].api # "Move"
      BY <1>7, <2>2
    <3> QED BY <1>4, <2>2, <3>1, <3>2 DEF AtRest
  <2> QED BY <1>11, <2>1, <2>2 DEF AtRest
<1> QED BY <1>9, <1>10, <1>11

LEMMA Untouched ==
    ASSUME UNCHANGED <<sport, robot>>
    PROVE  /\ \A v : MoveWillBe(v) => MoveWillBe(v)'
           /\ \A b : JoystickWillBe(b) => JoystickWillBe(b)'
           /\ AtRest => AtRest'
BY DEF MoveWillBe, JoystickWillBe, AtRest

\* The actions that leave the requests, the mode and the held command alone.
LEMMA QuietStep ==
    ASSUME IInv, UNCHANGED <<up, autonomyMode, active, last, sport, robot, orphaned>>
    PROVE  (RemoteHoldsNothing /\ RestoredInv)'
BY Untouched DEF IInv, RemoteHoldsNothing, RestoredInv

LEMMA InductiveInit == Init => IInv
<1> SUFFICES ASSUME Init PROVE IInv
  OBVIOUS
<1>1. /\ sport = <<>> /\ robot.joystick = TRUE /\ robot.move = Zero
      /\ ~autonomyMode /\ ~active /\ last = Zero
  BY DEF Init
<1>2. \A j \in 1..Len(sport) : FALSE
  BY <1>1
<1>3. JoystickWillBe(TRUE) /\ MoveWillBe(Zero) /\ AtRest
  BY <1>1, <1>2 DEF JoystickWillBe, MoveWillBe, AtRest
<1> QED BY <1>1, <1>3, TypeInit DEF IInv, RemoteHoldsNothing, RestoredInv, WatchdogHolds

\* The ages the watchdog compares are integers.
LEMMA AgesAreIntegers ==
    TypeOK => /\ cmdAge \in Int /\ wirelessAge \in Int /\ late \in Int
              /\ CmdTimeout \in Int /\ StaleTimeout \in Int /\ MaxLate \in Int
              /\ late >= 0
BY TimesAssumption DEF TypeOK

LEMMA InductiveNext == IInv /\ [Next]_vars => IInv'
<1> SUFFICES ASSUME IInv, [Next]_vars PROVE IInv'
  OBVIOUS
<1> TypeOK /\ RemoteHoldsNothing /\ RestoredInv /\ WatchdogHolds
  BY DEF IInv
<1>0. TypeOK'
  BY TypeNext
<1>1. CASE PlannerPublish \/ RemotePublish
  <2>1. UNCHANGED <<up, mode, command, cmdAge, wirelessAge, late, sport, outside>>
    BY <1>1 DEF PlannerPublish, RemotePublish
  <2>2. (RemoteHoldsNothing /\ RestoredInv)'
    BY <2>1, QuietStep DEF mode, command, outside
  <2>3. WatchdogHolds'
    BY <2>1, Untouched DEF WatchdogHolds, SticksQuiet, SticksActive, mode, outside
  <2> QED BY <1>0, <2>2, <2>3 DEF IInv
<1>2. CASE CmdVelCallback
  <2>1. UNCHANGED <<up, mode, wirelessAge, late, sport, outside>>
    BY <1>2 DEF CmdVelCallback
  <2>2. RemoteHoldsNothing'
    BY <1>2, <2>1 DEF CmdVelCallback, RemoteHoldsNothing, mode, command
  <2>3. RestoredInv'
    BY <2>1, Untouched DEF RestoredInv, mode, outside
  <2>4. WatchdogHolds'
    <3>1. CASE autonomyMode
      <4>1. cmdAge' = 0
        BY <1>2, <3>1 DEF CmdVelCallback
      <4> QED BY <1>0, <4>1, <2>1, AgesAreIntegers, TimesAssumption DEF WatchdogHolds, TypeOK
    <3>2. CASE ~autonomyMode
      BY <2>1, <3>2 DEF WatchdogHolds, mode
    <3> QED BY <3>1, <3>2
  <2> QED BY <1>0, <2>2, <2>3, <2>4 DEF IInv
<1>3. CASE WirelessCallback
  <2>0. /\ wirelessAge' = 0
        /\ UNCHANGED <<up, late, cmdQ, robot>>
    BY <1>3 DEF WirelessCallback
  <2>1. WatchdogHolds'
    <3>1. ~SticksQuiet'
      BY <2>0, AgesAreIntegers, TimesAssumption DEF SticksQuiet
    <3> QED BY <3>1 DEF WatchdogHolds
  <2>2. CASE UNCHANGED <<autonomyMode, command, stickOverride, cmdAge, sport, orphaned>>
    BY <1>0, <2>0, <2>1, <2>2, QuietStep DEF IInv, command
  <2>3. CASE EnterAutonomyMode
    <3>1. up /\ up'
      BY <1>3, <2>0 DEF WirelessCallback
    <3> QED BY <1>0, <2>1, <2>3, <3>1 DEF IInv, EnterAutonomyMode, RemoteHoldsNothing, RestoredInv
  <2>4. CASE ExitAutonomyMode
    <3>1. (JoystickWillBe(TRUE) /\ MoveWillBe(Zero) /\ AtRest)'
      BY <2>4, PublishedBoth DEF ExitAutonomyMode
    <3> QED BY <1>0, <2>1, <2>4, <3>1 DEF IInv, ExitAutonomyMode, RemoteHoldsNothing, RestoredInv
  <2> QED BY <1>3, <2>2, <2>3, <2>4 DEF WirelessCallback
<1>4. CASE StreamIdle
  <2>1. /\ ~autonomyMode
        /\ UNCHANGED <<up, mode, command, cmdAge, wirelessAge, queues, sport, outside>>
    BY <1>4 DEF StreamIdle
  <2>2. (RemoteHoldsNothing /\ RestoredInv)'
    BY <2>1, QuietStep DEF mode, command, outside
  <2>3. WatchdogHolds'
    BY <2>1 DEF WatchdogHolds, mode
  <2> QED BY <1>0, <2>2, <2>3 DEF IInv
<1>5. CASE StreamSticks
  <2>1. /\ autonomyMode /\ wirelessAge <= StaleTimeout /\ SticksActive(sticks) /\ late' = 0
        /\ UNCHANGED <<up, autonomyMode, sticks, wirelessAge>>
    BY <1>5 DEF StreamSticks, StickOverrideActive
  <2>2. ~SticksQuiet'
    BY <2>1, AgesAreIntegers DEF SticksQuiet, SticksActive
  <2> QED BY <1>0, <2>1, <2>2 DEF IInv, RemoteHoldsNothing, RestoredInv, WatchdogHolds
<1>6. CASE StreamPlanner
  <2>1. /\ autonomyMode /\ autonomyMode' /\ late' = 0 /\ UNCHANGED <<up, cmdAge>>
        /\ Publish(Move(last'))
    BY <1>6 DEF StreamPlanner
  <2>2. ASSUME cmdAge' > CmdTimeout + late' PROVE MoveWillBe(Zero)'
    <3>1. TimedOut
      BY <2>1, <2>2, AgesAreIntegers DEF TimedOut
    <3>2. last' = Zero
      BY <1>6, <3>1 DEF StreamPlanner
    <3>3. Publish(Move(Zero))
      BY <2>1, <3>2
    <3> QED BY <3>3, PublishedMove, VelocityTypes
  <2> QED BY <1>0, <2>1, <2>2 DEF IInv, RemoteHoldsNothing, RestoredInv, WatchdogHolds
<1>7. CASE Tick
  <2>1. /\ late < MaxLate + 1 /\ late' = late + 1
        /\ cmdAge' = Older(cmdAge, CmdTimeout)
        /\ wirelessAge' = Older(wirelessAge, StaleTimeout)
        /\ UNCHANGED <<up, mode, command, queues, sport, outside>>
    BY <1>7 DEF Tick
  <2>2. (RemoteHoldsNothing /\ RestoredInv)'
    BY <2>1, QuietStep DEF mode, command, outside
  <2>3. cmdAge' > CmdTimeout + late' => cmdAge > CmdTimeout + late
    BY <2>1, AgesAreIntegers DEF Older
  <2>4. wirelessAge' > StaleTimeout + late' => wirelessAge > StaleTimeout + late
    BY <2>1, AgesAreIntegers DEF Older
  <2>5. wirelessAge' > late' => wirelessAge > late
    BY <2>1, AgesAreIntegers, TimesAssumption DEF Older
  <2>6. SticksQuiet' => SticksQuiet
    BY <2>1, <2>4, <2>5 DEF SticksQuiet, SticksActive, mode
  <2>7. WatchdogHolds'
    BY <2>1, <2>3, <2>6, Untouched DEF WatchdogHolds, mode, outside
  <2> QED BY <1>0, <2>2, <2>7 DEF IInv
<1>8. CASE Shutdown
  <2>1. ~up' /\ ~autonomyMode' /\ ~active' /\ last' = Zero /\ robot' = robot
    BY <1>8 DEF Shutdown, Stopped
  <2>2. ASSUME ~orphaned' PROVE JoystickWillBe(TRUE)' /\ MoveWillBe(Zero)'
    <3>0. up /\ TypeOK
      BY <1>8 DEF Shutdown, IInv
    <3>1. CASE autonomyMode
      BY <1>8, <2>1, <2>2, <3>0, <3>1, ShutdownDelivers, PublishedBoth
    <3>2. CASE ~autonomyMode
      <4>1. Publish(SwitchJoystick(TRUE)) /\ ~orphaned
        BY <1>8, <2>2, <3>0, <3>2, ShutdownDelivers
      <4>2. JoystickWillBe(TRUE)' /\ (AtRest => MoveWillBe(Zero)')
        BY <2>1, <3>0, <4>1, PublishedJoystick
      <4> QED BY <3>0, <3>2, <4>1, <4>2 DEF IInv, RestoredInv
    <3> QED BY <3>1, <3>2
  <2> QED BY <1>0, <2>1, <2>2 DEF IInv, RemoteHoldsNothing, RestoredInv, WatchdogHolds
<1>9. CASE Kill
  <2>1. ~up' /\ ~autonomyMode' /\ ~active' /\ last' = Zero /\ robot' = robot
    BY <1>9 DEF Kill, Stopped
  <2>2. PICK k \in 0..Len(sport) : /\ sport' = SubSeq(sport, 1, k)
                                   /\ orphaned' = (orphaned \/ autonomyMode \/ k < Len(sport))
    BY <1>9 DEF Kill
  <2>3. ASSUME ~orphaned' PROVE JoystickWillBe(TRUE)' /\ MoveWillBe(Zero)'
    <3>0. ~orphaned /\ ~autonomyMode /\ ~(k < Len(sport))
      BY <2>2, <2>3, Zenon
    <3>1. k = Len(sport) /\ ~orphaned /\ ~autonomyMode
      BY <2>2, <3>0 DEF TypeOK
    <3>2. sport' = sport
      BY <2>2, <3>1 DEF TypeOK
    <3> QED BY <2>1, <3>1, <3>2, Untouched DEF RestoredInv
  <2> QED BY <1>0, <2>1, <2>3 DEF IInv, RemoteHoldsNothing, RestoredInv, WatchdogHolds
<1>10. CASE Restart
  <2>1. /\ sport = <<>> /\ sport' = sport
        /\ UNCHANGED <<mode, command, outside>>
    BY <1>10 DEF Restart
  <2>2. \A j \in 1..Len(sport) : FALSE
    BY <2>1
  <2>3. MoveWillBe(Zero) => AtRest
    BY <2>2 DEF MoveWillBe, AtRest
  <2>4. RestoredInv'
    BY <2>1, <2>3, Untouched DEF RestoredInv, mode, outside
  <2>5. RemoteHoldsNothing'
    BY <1>10, <2>1 DEF Restart, RemoteHoldsNothing, mode, command
  <2>6. ASSUME autonomyMode' PROVE FALSE
    <3>1. ~up /\ autonomyMode
      BY <1>10, <2>6 DEF Restart, mode
    <3> QED BY <3>1 DEF RemoteHoldsNothing
  <2>7. WatchdogHolds'
    BY <2>6 DEF WatchdogHolds
  <2> QED BY <1>0, <2>4, <2>5, <2>7 DEF IInv
<1>11. CASE RobotTakes
  <2>1. UNCHANGED <<up, mode, command, cmdAge, wirelessAge, late, queues, orphaned>>
    BY <1>11 DEF RobotTakes
  <2>2. (MoveWillBe(Zero) => MoveWillBe(Zero)') /\ (AtRest => AtRest')
        /\ (JoystickWillBe(TRUE) => JoystickWillBe(TRUE)')
    BY <1>11, Taken, VelocityTypes
  <2>3. WatchdogHolds'
    BY <2>1, <2>2 DEF WatchdogHolds, SticksQuiet, SticksActive, mode
  <2> QED BY <1>0, <2>1, <2>2, <2>3 DEF IInv, RemoteHoldsNothing, RestoredInv, mode, command
<1>12. CASE UNCHANGED vars
  <2>1. UNCHANGED <<up, mode, command, cmdAge, wirelessAge, late, sport, outside>>
    BY <1>12 DEF vars
  <2>2. (RemoteHoldsNothing /\ RestoredInv)'
    BY <2>1, QuietStep DEF mode, command, outside
  <2>3. WatchdogHolds'
    BY <2>1, Untouched DEF WatchdogHolds, SticksQuiet, SticksActive, mode, outside
  <2> QED BY <1>0, <2>2, <2>3 DEF IInv
<1> QED BY <1>1, <1>2, <1>3, <1>4, <1>5, <1>6, <1>7, <1>8, <1>9, <1>10, <1>11, <1>12 DEF Next

\* The inductive invariant holds always.
THEOREM Inductive == Spec => []IInv
BY InductiveInit, InductiveNext, PTL DEF Spec

\* Outside autonomy mode the robot will rest with its own joystick on, whatever the
\* request history forgot, unless a process died in autonomy mode.
THEOREM RemoteRestoredAlways == Spec => []RemoteRestored
<1>1. IInv => RemoteRestored
  BY DEF IInv, RestoredInv, RemoteRestored
<1> QED BY <1>1, Inductive, PTL

\* A planner velocity does not survive the planner's silence beyond the time-out.
THEOREM WatchdogAlwaysHolds == Spec => []WatchdogHolds
<1>1. IInv => WatchdogHolds
  BY DEF IInv
<1> QED BY <1>1, Inductive, PTL

\* No step enters autonomy mode with anything but rest commanded.
THEOREM AutonomyAlwaysStartsAtRest == Spec => AutonomyStartsAtRest
<1>1. IInv /\ [Next]_vars
        => (~autonomyMode /\ autonomyMode'
              => ~active' /\ last' = Zero /\ (orphaned \/ MoveWillBe(Zero)'))
  <2> SUFFICES ASSUME IInv, [Next]_vars, ~autonomyMode, autonomyMode'
               PROVE  ~active' /\ last' = Zero /\ (orphaned \/ MoveWillBe(Zero)')
    OBVIOUS
  <2>1. WirelessCallback /\ EnterAutonomyMode
    <3>1. CASE WirelessCallback
      BY <3>1 DEF WirelessCallback, ExitAutonomyMode
    <3>2. CASE UNCHANGED vars
      BY <3>2 DEF vars, mode
    <3>3. CASE Next /\ ~WirelessCallback
      BY <3>3 DEF Next, PlannerPublish, RemotePublish, CmdVelCallback, StreamIdle, StreamSticks,
                  StreamPlanner, Tick, Shutdown, Kill, Stopped, Restart, RobotTakes, mode
    <3> QED BY <3>1, <3>2, <3>3
  <2>2. up /\ robot' = robot /\ Publish(SwitchJoystick(FALSE)) /\ UNCHANGED <<active, last>>
    BY <2>1 DEF WirelessCallback, EnterAutonomyMode, command
  <2>3. ASSUME ~orphaned PROVE MoveWillBe(Zero)'
    BY <2>2, <2>3, PublishedJoystick DEF IInv, RestoredInv
  <2> QED BY <2>2, <2>3 DEF IInv, RemoteHoldsNothing
<1>2. IInv /\ [Next]_vars
        => [~autonomyMode /\ autonomyMode'
              => ~active' /\ last' = Zero /\ (orphaned \/ MoveWillBe(Zero)')]_vars
  BY <1>1
<1> QED BY <1>2, Inductive, PTL DEF Spec, AutonomyStartsAtRest

-----------------------------------------------------------------------------
(***************************************************************************)
(* What the robot will obey is one velocity and one setting.               *)
(***************************************************************************)

\* A set of indices has a greatest one.
LEMMA Greatest ==
    ASSUME NEW n \in Nat, NEW S, S \subseteq 1..n, S # {}
    PROVE  \E m \in S : \A i \in S : i <= m
<1> DEFINE R == OpToRel(<, Nat)
           T == {k \in 0..n : n - k \in S}
<1>1. IsWellFoundedOn(R, Nat)
  BY NatLessThanWellFounded
<1>2. \A p, q \in Nat : p < q => <<p, q>> \in R
  BY DEF OpToRel
<1>3. PICK s \in S : s \in 1..n
  OBVIOUS
<1>4. n - s \in 0..n /\ n - (n - s) = s
  BY <1>3
<1>5. T \subseteq Nat /\ T # {}
  <2>1. \E k \in 0..n : n - k = s
    BY <1>4
  <2>2. \E k \in 0..n : n - k \in S
    BY <2>1
  <2> QED BY <2>2
<1> HIDE DEF R
<1>6. PICK k \in T : \A j \in T : ~(<<j, k>> \in R)
  BY <1>1, <1>5, WFMin
<1>7. ASSUME NEW i \in S PROVE i <= n - k
  <2>1. i \in 1..n /\ k \in 0..n
    BY <1>6
  <2>2. n - i \in 0..n /\ n - (n - i) = i
    BY <2>1
  <2>3. n - i \in T
    BY <2>2
  <2>4. ~(n - i < k)
    BY <1>2, <1>5, <1>6, <2>3
  <2> QED BY <2>1, <2>4
<1> QED BY <1>6, <1>7

\* The newest request of a kind, if there is one.
LEMMA Newest ==
    ASSUME NEW q \in Seq(Requests), NEW k
    PROVE  \/ \A j \in 1..Len(q) : q[j].api # k
           \/ \E i \in 1..Len(q) : q[i].api = k /\ \A j \in (i + 1)..Len(q) : q[j].api # k
<1> DEFINE S == {i \in 1..Len(q) : q[i].api = k}
<1>1. CASE S = {}
  BY <1>1
<1>2. CASE S # {}
  <2>1. S \subseteq 1..Len(q) /\ Len(q) \in Nat
    OBVIOUS
  <2>2. PICK m \in S : \A i \in S : i <= m
    <3> HIDE DEF S
    <3> QED BY <1>2, <2>1, Greatest
  <2>3. ASSUME NEW j \in (m + 1)..Len(q) PROVE q[j].api # k
    <3>1. m \in 1..Len(q) /\ j \in 1..Len(q) /\ j > m
      BY <2>1, <2>2
    <3> QED BY <2>2, <3>1
  <2> QED BY <2>2, <2>3
<1> QED BY <1>1, <1>2

\* WillMove is the velocity the robot will obey, and no other is.
MoveDecided ==
    /\ \A v \in Velocities : MoveWillBe(v) => WillMove = v
    /\ WillMove \in Velocities /\ MoveWillBe(WillMove)

LEMMA WillMoveDecided == TypeOK => MoveDecided
<1> SUFFICES ASSUME TypeOK
             PROVE  /\ \A v \in Velocities : MoveWillBe(v) => WillMove = v
                    /\ WillMove \in Velocities /\ MoveWillBe(WillMove)
  BY DEF MoveDecided
<1> DEFINE moves == {i \in 1..Len(sport) : sport[i].api = "Move"}
           newest == CHOOSE i \in moves : \A j \in moves : j <= i
<1>1. sport \in Seq(Requests) /\ Len(sport) \in Nat /\ robot.move \in Velocities
  BY DEF TypeOK
<1>2. ASSUME NEW i \in moves PROVE sport[i].vel \in Velocities /\ sport[i] = Move(sport[i].vel)
  <2>1. sport[i] \in Requests /\ sport[i].api = "Move"
    BY <1>1
  <2>2. sport[i] \in [api : {"Move"}, vel : Velocities]
    BY <2>1 DEF Requests
  <2> QED BY <2>2 DEF Move
<1>3. CASE moves = {}
  <2>1. WillMove = robot.move /\ \A j \in 1..Len(sport) : sport[j].api # "Move"
    BY <1>3 DEF WillMove
  <2>2. ASSUME NEW v, MoveWillBe(v) PROVE v = robot.move
    <3>1. \A i \in 1..Len(sport) : sport[i] # Move(v)
      BY <2>1, Apis
    <3> QED BY <2>2, <3>1 DEF MoveWillBe
  <2> QED BY <1>1, <2>1, <2>2 DEF MoveWillBe
<1>4. CASE moves # {}
  <2>1. WillMove = sport[newest].vel
    BY <1>4 DEF WillMove
  <2>2. moves \subseteq 1..Len(sport)
    OBVIOUS
  <2>3. \E m \in moves : \A i \in moves : i <= m
    <3> HIDE DEF moves
    <3> QED BY <1>1, <1>4, <2>2, Greatest
  <2>4. newest \in moves /\ \A j \in moves : j <= newest
    <3> HIDE DEF moves
    <3> QED BY <2>3
  <2> HIDE DEF newest
  <2>5. sport[newest] = Move(WillMove) /\ WillMove \in Velocities
    BY <1>2, <2>1, <2>4
  <2>6. \A j \in (newest + 1)..Len(sport) : sport[j].api # "Move"
    <3> SUFFICES ASSUME NEW j \in (newest + 1)..Len(sport), sport[j].api = "Move" PROVE FALSE
      OBVIOUS
    <3>1. newest \in 1..Len(sport)
      BY <2>4
    <3>2. j \in 1..Len(sport) /\ ~(j <= newest)
      BY <1>1, <3>1
    <3> QED BY <2>4, <3>2
  <2>7. MoveWillBe(WillMove)
    BY <2>4, <2>5, <2>6 DEF MoveWillBe
  <2>8. ASSUME NEW v, MoveWillBe(v) PROVE v = WillMove
    <3>1. PICK i \in 1..Len(sport) : /\ sport[i] = Move(v)
                                     /\ \A j \in (i + 1)..Len(sport) : sport[j].api # "Move"
      BY <2>4, <2>8 DEF MoveWillBe
    <3>2. i \in moves
      BY <3>1, Apis
    <3>3. newest \in 1..Len(sport) /\ sport[newest].api = "Move" /\ i <= newest
      BY <2>4, <3>2
    <3>4. ~(i < newest)
      BY <1>1, <3>1, <3>3
    <3>5. i = newest
      BY <1>1, <3>3, <3>4
    <3> QED BY <2>5, <3>1, <3>5 DEF Move
  <2> QED BY <2>5, <2>7, <2>8
<1> QED BY <1>3, <1>4

\* The joystick will be on or off, and not both.
LEMMA JoystickDecided ==
    TypeOK => (JoystickWillBe(FALSE) <=> ~JoystickWillBe(TRUE))
<1> SUFFICES ASSUME TypeOK PROVE JoystickWillBe(FALSE) <=> ~JoystickWillBe(TRUE)
  OBVIOUS
<1>1. sport \in Seq(Requests) /\ Len(sport) \in Nat /\ robot.joystick \in BOOLEAN
  BY DEF TypeOK
<1>2. JoystickWillBe(FALSE) \/ JoystickWillBe(TRUE)
  <2>1. CASE \A j \in 1..Len(sport) : sport[j].api # "SwitchJoystick"
    BY <1>1, <2>1 DEF JoystickWillBe
  <2>2. CASE \E i \in 1..Len(sport) : /\ sport[i].api = "SwitchJoystick"
                                      /\ \A j \in (i + 1)..Len(sport) : sport[j].api # "SwitchJoystick"
    <3>1. PICK i \in 1..Len(sport) : /\ sport[i].api = "SwitchJoystick"
                                     /\ \A j \in (i + 1)..Len(sport) : sport[j].api # "SwitchJoystick"
      BY <2>2
    <3>2. sport[i] \in [api : {"SwitchJoystick"}, on : BOOLEAN]
      BY <1>1, <3>1 DEF Requests
    <3>3. sport[i] = SwitchJoystick(TRUE) \/ sport[i] = SwitchJoystick(FALSE)
      BY <3>2 DEF SwitchJoystick
    <3> QED BY <3>1, <3>3 DEF JoystickWillBe
  <2> QED BY <1>1, <2>1, <2>2, Newest
<1>3. ASSUME JoystickWillBe(FALSE), JoystickWillBe(TRUE) PROVE FALSE
  <2>1. CASE \A j \in 1..Len(sport) : sport[j].api # "SwitchJoystick"
    BY <1>3, <2>1, Apis DEF JoystickWillBe
  <2>2. CASE ~ \A j \in 1..Len(sport) : sport[j].api # "SwitchJoystick"
    <3>1. PICK i \in 1..Len(sport) :
                 /\ sport[i] = SwitchJoystick(TRUE)
                 /\ \A j \in (i + 1)..Len(sport) : sport[j].api # "SwitchJoystick"
      BY <1>3, <2>2 DEF JoystickWillBe
    <3>2. PICK k \in 1..Len(sport) :
                 /\ sport[k] = SwitchJoystick(FALSE)
                 /\ \A j \in (k + 1)..Len(sport) : sport[j].api # "SwitchJoystick"
      BY <1>3, <2>2 DEF JoystickWillBe
    <3>3. sport[i].api = "SwitchJoystick" /\ sport[k].api = "SwitchJoystick"
          /\ sport[i].on /\ ~sport[k].on
      BY <3>1, <3>2 DEF SwitchJoystick
    <3>4. i < k => k \in (i + 1)..Len(sport)
      BY <1>1
    <3>5. k < i => i \in (k + 1)..Len(sport)
      BY <1>1
    <3>6. ~(i < k) /\ ~(k < i)
      BY <3>1, <3>2, <3>3, <3>4, <3>5
    <3>7. i = k
      BY <3>6
    <3> QED BY <3>3, <3>7
  <2> QED BY <2>1, <2>2
<1> QED BY <1>2, <1>3

LEMMA WillMoveIs ==
    TypeOK => /\ \A v \in Velocities : MoveWillBe(v) => WillMove = v
              /\ WillMove \in Velocities /\ MoveWillBe(WillMove)
BY WillMoveDecided DEF MoveDecided

LEMMA WillMoveNext ==
    TypeOK' => /\ \A v \in Velocities : MoveWillBe(v)' => WillMove' = v
               /\ WillMove' \in Velocities
<1>1. TypeOK' => MoveDecided'
  BY WillMoveDecided, PTL
<1> QED BY <1>1 DEF MoveDecided

LEMMA JoystickDecidedNext == TypeOK' => (JoystickWillBe(FALSE)' <=> ~JoystickWillBe(TRUE)')
BY JoystickDecided, PTL

\* A step that keeps what will be keeps Arbiter's view of it.
LEMMA SameOutcome ==
    ASSUME TypeOK, TypeOK',
           \A v \in Velocities : MoveWillBe(v) => MoveWillBe(v)',
           \A b \in BOOLEAN : JoystickWillBe(b) => JoystickWillBe(b)'
    PROVE  WillMove' = WillMove /\ JoystickWillBe(TRUE)' = JoystickWillBe(TRUE)
<1>1. WillMove \in Velocities /\ MoveWillBe(WillMove)
  BY WillMoveIs
<1>2. MoveWillBe(WillMove) => \E v \in Velocities : v = WillMove /\ MoveWillBe(v)'
  BY <1>1
<1>3. PICK v \in Velocities : v = WillMove /\ MoveWillBe(v)'
  BY <1>1, <1>2
<1>4. WillMove' = WillMove
  BY <1>3, WillMoveNext
<1>5. JoystickWillBe(TRUE)' <=> JoystickWillBe(TRUE)
  BY JoystickDecided, JoystickDecidedNext
<1>6. JoystickWillBe(TRUE)' \in BOOLEAN /\ JoystickWillBe(TRUE) \in BOOLEAN
  BY DEF JoystickWillBe
<1>7. JoystickWillBe(TRUE)' = JoystickWillBe(TRUE)
  <2>1. CASE JoystickWillBe(TRUE)
    <3>1. JoystickWillBe(TRUE)' = TRUE
      BY <1>5, <1>6, <2>1
    <3>2. JoystickWillBe(TRUE) = TRUE
      BY <1>6, <2>1
    <3> QED BY <3>1, <3>2
  <2>2. CASE ~JoystickWillBe(TRUE)
    <3>1. JoystickWillBe(TRUE)' = FALSE
      BY <1>5, <1>6, <2>2
    <3>2. JoystickWillBe(TRUE) = FALSE
      BY <1>6, <2>2
    <3> QED BY <3>1, <3>2
  <2> QED BY <2>1, <2>2
<1> QED BY <1>4, <1>7

-----------------------------------------------------------------------------
(***************************************************************************)
(* The planner's command stays within its limits.                          *)
(***************************************************************************)
LEMMA ClampLimited == Zero \in Limited /\ \A v \in Velocities : Clamp(v) \in Limited
<1>1. \A a \in Axes : MaxVel[a] \in Int /\ 0 <= MaxVel[a]
  BY ValuesAssumption
<1>2. Zero \in Limited
  BY <1>1, VelocityTypes DEF Zero, Limited
<1>3. ASSUME NEW v \in Velocities PROVE Clamp(v) \in Limited
  <2>1. Clamp(v) \in Velocities
    BY VelocityTypes
  <2>2. ASSUME NEW a \in Axes PROVE -MaxVel[a] <= Clamp(v)[a] /\ Clamp(v)[a] <= MaxVel[a]
    <3>1. v[a] \in Int
      BY DEF Velocities
    <3> QED BY <1>1, <3>1 DEF Clamp
  <2> QED BY <2>1, <2>2 DEF Limited
<1> QED BY <1>2, <1>3

CommandLimited == last \in Limited

LEMMA LimitedNext == TypeOK /\ CommandLimited /\ [Next]_vars => CommandLimited'
<1> SUFFICES ASSUME TypeOK, CommandLimited, [Next]_vars PROVE CommandLimited'
  OBVIOUS
<1>1. CASE CmdVelCallback
  <2>1. Head(cmdQ) \in Velocities
    BY <1>1 DEF CmdVelCallback, TypeOK
  <2>2. last' \in {last, Clamp(Head(cmdQ))}
    BY <1>1 DEF CmdVelCallback, command
  <2> QED BY <2>1, <2>2, ClampLimited DEF CommandLimited
<1>2. CASE ~CmdVelCallback
  <2>1. last' \in {last, Zero}
    BY <1>2 DEF Next, PlannerPublish, RemotePublish, WirelessCallback, EnterAutonomyMode,
                ExitAutonomyMode, StreamIdle, StreamSticks, StreamPlanner, Tick, Shutdown, Kill,
                Stopped, Restart, RobotTakes, command, vars
  <2> QED BY <2>1, ClampLimited DEF CommandLimited
<1> QED BY <1>1, <1>2

-----------------------------------------------------------------------------
(***************************************************************************)
(* The refinement.                                                         *)
(***************************************************************************)
LEMMA ArbiterInit == Init => Abstract!Init
<1> SUFFICES ASSUME Init PROVE Abstract!Init
  OBVIOUS
<1>1. TypeOK /\ JoystickWillBe(TRUE) /\ MoveWillBe(Zero) /\ Driver = "remote"
  <2>1. IInv
    BY InductiveInit
  <2> QED BY <2>1 DEF Init, IInv, RestoredInv, Driver
<1>2. WillMove = Zero
  BY <1>1, WillMoveIs, VelocityTypes
<1> QED BY <1>1, <1>2 DEF Abstract!Init

\* The steps that publish nothing, or take what was published.
LEMMA ArbiterStutter ==
    ASSUME TypeOK, TypeOK', UNCHANGED <<autonomyMode, stickOverride, orphaned>>,
           UNCHANGED <<sport, robot>> \/ RobotTakes
    PROVE  UNCHANGED Abstract!vars
<1>1. /\ \A v \in Velocities : MoveWillBe(v) => MoveWillBe(v)'
      /\ \A b \in BOOLEAN : JoystickWillBe(b) => JoystickWillBe(b)'
  BY Untouched, Taken
<1>2. WillMove' = WillMove /\ JoystickWillBe(TRUE)' = JoystickWillBe(TRUE)
  BY <1>1, SameOutcome
<1>3. Driver' = Driver
  BY DEF Driver
<1> QED BY <1>2, <1>3 DEF Abstract!vars

LEMMA ArbiterLose == ASSUME TypeOK', orphaned' PROVE Abstract!Lose
<1>1. Driver' = "nobody"
  BY DEF Driver
<1>2. WillMove' \in Velocities
  BY WillMoveNext
<1>3. JoystickWillBe(TRUE)' \in BOOLEAN
  BY DEF JoystickWillBe
<1> QED BY <1>1, <1>2, <1>3 DEF Abstract!Lose

LEMMA ArbiterToggle ==
    ASSUME IInv, TypeOK', WirelessCallback, ~orphaned',
           EnterAutonomyMode \/ ExitAutonomyMode, autonomyMode' = ~autonomyMode
    PROVE  Abstract!Next
<1>1. TypeOK /\ robot' = robot
  BY DEF IInv, WirelessCallback
<1>2. CASE EnterAutonomyMode
  <2>1. /\ ~autonomyMode /\ autonomyMode' /\ ~orphaned /\ ~stickOverride' /\ up
        /\ Publish(SwitchJoystick(FALSE))
    BY <1>2 DEF EnterAutonomyMode, WirelessCallback
  <2>2. JoystickWillBe(TRUE) /\ MoveWillBe(Zero) /\ AtRest
    BY <2>1 DEF IInv, RestoredInv
  <2>3. JoystickWillBe(FALSE)' /\ MoveWillBe(Zero)'
    BY <1>1, <2>1, <2>2, PublishedJoystick
  <2>4. WillMove = Zero /\ WillMove' = Zero
    BY <1>1, <2>2, <2>3, WillMoveIs, WillMoveNext, VelocityTypes
  <2>5. JoystickWillBe(TRUE)' = FALSE
    <3>1. JoystickWillBe(TRUE)' \in BOOLEAN
      BY DEF JoystickWillBe
    <3> QED BY <2>3, <3>1, JoystickDecidedNext
  <2>6. Driver = "remote" /\ Driver' = "planner"
    BY <2>1 DEF Driver
  <2> QED BY <2>4, <2>5, <2>6 DEF Abstract!Next, Abstract!TakeOver
<1>3. CASE ExitAutonomyMode
  <2>1. /\ autonomyMode /\ ~autonomyMode'
        /\ Publish2(Move(Zero), SwitchJoystick(TRUE))
    BY <1>3 DEF ExitAutonomyMode
  <2>2. JoystickWillBe(TRUE)' /\ MoveWillBe(Zero)'
    BY <1>1, <2>1, PublishedBoth
  <2>3. WillMove' = Zero
    BY <2>2, WillMoveNext, VelocityTypes
  <2>4. Driver # "remote" /\ Driver' = "remote"
    BY <2>1 DEF Driver
  <2> QED BY <2>2, <2>3, <2>4 DEF Abstract!Next, Abstract!HandBack
<1> QED BY <1>2, <1>3

LEMMA ArbiterShutdown ==
    ASSUME IInv, TypeOK', Shutdown, ~orphaned' PROVE Abstract!Next \/ UNCHANGED Abstract!vars
<1>1. TypeOK /\ up /\ robot' = robot /\ ~autonomyMode'
  BY DEF IInv, Shutdown, Stopped
<1>2. Driver' = "remote"
  BY <1>1 DEF Driver
<1>3. CASE autonomyMode
  <2>1. JoystickWillBe(TRUE)' /\ MoveWillBe(Zero)'
    BY <1>1, <1>3, ShutdownDelivers, PublishedBoth
  <2>2. WillMove' = Zero
    BY <2>1, WillMoveNext, VelocityTypes
  <2>3. Driver # "remote"
    BY <1>3 DEF Driver
  <2> QED BY <1>2, <2>1, <2>2, <2>3 DEF Abstract!Next, Abstract!HandBack
<1>4. CASE ~autonomyMode
  <2>1. ~orphaned /\ Publish(SwitchJoystick(TRUE))
    BY <1>1, <1>4, ShutdownDelivers
  <2>2. JoystickWillBe(TRUE) /\ MoveWillBe(Zero) /\ AtRest
    BY <1>1, <1>4, <2>1 DEF IInv, RestoredInv
  <2>3. JoystickWillBe(TRUE)' /\ MoveWillBe(Zero)'
    BY <1>1, <2>1, <2>2, PublishedJoystick
  <2>4. WillMove = Zero /\ WillMove' = Zero
    BY <1>1, <2>2, <2>3, WillMoveIs, WillMoveNext, VelocityTypes
  <2>5. Driver = "remote"
    BY <1>4, <2>1 DEF Driver
  <2> QED BY <1>2, <2>2, <2>3, <2>4, <2>5 DEF Abstract!vars
<1> QED BY <1>3, <1>4

LEMMA ArbiterKill ==
    ASSUME IInv, TypeOK', Kill, ~orphaned' PROVE UNCHANGED Abstract!vars
<1>1. TypeOK /\ robot' = robot /\ ~autonomyMode'
  BY DEF IInv, Kill, Stopped
<1>2. PICK k \in 0..Len(sport) : /\ sport' = SubSeq(sport, 1, k)
                                 /\ orphaned' = (orphaned \/ autonomyMode \/ k < Len(sport))
  BY DEF Kill
<1>3. ~orphaned /\ ~autonomyMode /\ ~(k < Len(sport))
  BY <1>2, Zenon
<1>4. k = Len(sport)
  BY <1>1, <1>2, <1>3 DEF TypeOK
<1>5. sport' = sport
  BY <1>1, <1>2, <1>4 DEF TypeOK
<1>6. WillMove' = WillMove /\ JoystickWillBe(TRUE)' = JoystickWillBe(TRUE)
  BY <1>1, <1>5, Untouched, SameOutcome
<1>7. Driver' = Driver
  BY <1>1, <1>3 DEF Driver
<1> QED BY <1>6, <1>7 DEF Abstract!vars

LEMMA ArbiterStream ==
    ASSUME IInv, TypeOK', CommandLimited', ~orphaned', StreamSticks \/ StreamPlanner
    PROVE  Abstract!Next
<1>1. TypeOK /\ autonomyMode /\ autonomyMode' /\ ~orphaned
  BY DEF IInv, StreamSticks, StreamPlanner, outside
<1>2. Driver \in {"planner", "sticks"}
  BY <1>1 DEF Driver
<1>3. JoystickWillBe(TRUE)' \in BOOLEAN
  BY DEF JoystickWillBe
<1>4. CASE StreamSticks
  <2>1. stickOverride'
    BY <1>4 DEF StreamSticks
  <2>2. Driver' = "sticks"
    BY <1>1, <2>1 DEF Driver
  <2>3. WillMove' \in Velocities
    BY WillMoveNext
  <2> QED BY <1>2, <1>3, <2>2, <2>3
          DEF Abstract!Next, Abstract!SticksDrive, Abstract!InAutonomy
<1>5. CASE StreamPlanner
  <2>1. ~stickOverride' /\ Publish(Move(last'))
    BY <1>5 DEF StreamPlanner
  <2>2. last' \in Limited /\ last' \in Velocities
    BY DEF CommandLimited, Limited
  <2>3. PICK v \in Velocities : v = last'
    BY <2>2
  <2>4. MoveWillBe(v)'
    BY <1>1, <2>1, <2>3, PublishedMove
  <2>5. WillMove' = last'
    BY <2>3, <2>4, WillMoveNext
  <2>6. Driver' = "planner"
    BY <1>1, <2>1 DEF Driver
  <2> QED BY <1>2, <1>3, <2>2, <2>5, <2>6
          DEF Abstract!Next, Abstract!PlannerDrives, Abstract!InAutonomy
<1> QED BY <1>4, <1>5

LEMMA ArbiterNext ==
    IInv /\ IInv' /\ CommandLimited' /\ [Next]_vars => [Abstract!Next]_(Abstract!vars)
<1> SUFFICES ASSUME IInv, IInv', CommandLimited', [Next]_vars
             PROVE  Abstract!Next \/ UNCHANGED Abstract!vars
  OBVIOUS
<1>0. TypeOK /\ TypeOK'
  BY DEF IInv
<1>1. CASE orphaned'
  BY <1>0, <1>1, ArbiterLose DEF Abstract!Next
<1>2. CASE ~orphaned'
  <2>1. CASE PlannerPublish \/ RemotePublish \/ CmdVelCallback \/ StreamIdle \/ Tick \/ Restart
             \/ RobotTakes \/ UNCHANGED vars
    <3>1. UNCHANGED <<autonomyMode, stickOverride, orphaned>>
      BY <2>1 DEF PlannerPublish, RemotePublish, CmdVelCallback, StreamIdle, Tick, Restart,
                  RobotTakes, vars, mode, outside
    <3>2. UNCHANGED <<sport, robot>> \/ RobotTakes
      BY <2>1 DEF PlannerPublish, RemotePublish, CmdVelCallback, StreamIdle, Tick, Restart,
                  vars, outside
    <3> QED BY <1>0, <3>1, <3>2, ArbiterStutter
  <2>2. CASE WirelessCallback
    <3>1. CASE UNCHANGED <<autonomyMode, command, stickOverride, cmdAge, sport, orphaned>>
      <4>1. UNCHANGED <<autonomyMode, stickOverride, orphaned, sport, robot>>
        BY <2>2, <3>1 DEF WirelessCallback
      <4> QED BY <1>0, <4>1, ArbiterStutter
    <3>2. CASE ~autonomyMode /\ EnterAutonomyMode
      <4>1. autonomyMode' = ~autonomyMode
        BY <3>2 DEF EnterAutonomyMode
      <4> QED BY <1>0, <1>2, <2>2, <3>2, <4>1, ArbiterToggle
    <3>3. CASE autonomyMode /\ ExitAutonomyMode
      <4>1. autonomyMode' = ~autonomyMode
        BY <3>3 DEF ExitAutonomyMode
      <4> QED BY <1>0, <1>2, <2>2, <3>3, <4>1, ArbiterToggle
    <3> QED BY <2>2, <3>1, <3>2, <3>3 DEF WirelessCallback
  <2>3. CASE StreamSticks \/ StreamPlanner
    BY <1>0, <1>2, <2>3, ArbiterStream
  <2>4. CASE Shutdown
    BY <1>0, <1>2, <2>4, ArbiterShutdown
  <2>5. CASE Kill
    BY <1>0, <1>2, <2>5, ArbiterKill
  <2> QED BY <2>1, <2>2, <2>3, <2>4, <2>5 DEF Next
<1> QED BY <1>1, <1>2

\* Every behaviour of the bridge is one of Arbiter: who drives, and what the robot will obey.
THEOREM BridgeImplementsArbiter == Spec => ImplementsArbiter
<1>1. Init => CommandLimited
  BY ClampLimited DEF Init, CommandLimited
<1>2. IInv /\ CommandLimited /\ [Next]_vars => IInv' /\ CommandLimited'
  BY InductiveNext, LimitedNext DEF IInv
<1>3. IInv /\ CommandLimited /\ [Next]_vars => [Abstract!Next]_(Abstract!vars)
  BY <1>2, ArbiterNext
<1> QED BY <1>1, <1>2, <1>3, InductiveInit, ArbiterInit, PTL
        DEF Spec, ImplementsArbiter, Abstract!Spec
=============================================================================
