------------------------ MODULE PathFollower_proofs ------------------------
(***************************************************************************)
(* Proofs about PathFollower, for every set of poses, paths, joystick,     *)
(* speed and stop messages and every value of the node's parameters.       *)
(***************************************************************************)
EXTENDS PathFollower, Plane_proofs, TLAPS

-----------------------------------------------------------------------------
(***************************************************************************)
(* Lemmas about the operators.                                             *)
(***************************************************************************)

\* The parameters, one by one.
LEMMA Numbers ==
    /\ MaxSpeed \in Nat \ {0} /\ MaxAccel \in Nat \ {0} /\ SlowDwnDisThre \in Nat \ {0}
    /\ AutonomySpeed \in Int
    /\ SwitchTimeThre \in Nat /\ JoyToSpeedDelay \in Nat /\ SlowTime1 \in Nat
    /\ SlowTime2 \in Nat /\ StopTime \in Nat /\ PubSkipNum \in Nat
<1>1. /\ MaxSpeed \in Nat \ {0} /\ MaxAccel \in Nat \ {0} /\ SlowDwnDisThre \in Nat \ {0}
      /\ AutonomySpeed \in Int
  BY NumbersAssumption
<1>2. {SwitchTimeThre, JoyToSpeedDelay, SlowTime1, SlowTime2, StopTime, PubSkipNum}
         \subseteq Nat
  BY NumbersAssumption
<1> QED BY <1>1, <1>2

\* What lies between rest and a speed.
Between(u, v) == /\ u \in Int
                 /\ v >= 0 => 0 <= u /\ u <= v
                 /\ v <= 0 => v <= u /\ u <= 0

\* Slowing a speed down neither reverses nor raises it.
LEMMA PartOfBetween ==
    ASSUME NEW v \in Int, NEW n \in Nat, NEW d \in Nat \ {0}, n <= d
    PROVE  Between(PartOf(v, n, d), v)
<1> DEFINE q == (Abs(v) * n) \div d
<1>1. Abs(v) \in Nat
  BY DEF Abs
<1>2. q \in 0..Abs(v)
  BY <1>1, PartBound
<1>3. CASE v > 0
  BY <1>2, <1>3 DEF PartOf, Between, Sign, Abs
<1>4. CASE v < 0
  <2>1. PartOf(v, n, d) = -1 * q /\ Abs(v) = -v
    BY <1>4 DEF PartOf, Sign, Abs
  <2> QED BY <1>2, <1>4, <2>1 DEF Between
<1>5. CASE v = 0
  <2>1. PartOf(v, n, d) = 0 * q
    BY <1>5 DEF PartOf, Sign
  <2> QED BY <1>2, <1>5, <2>1 DEF Between
<1> QED BY <1>3, <1>4, <1>5

LEMMA BetweenTransitive ==
    ASSUME NEW u, NEW v \in Int, NEW w \in Int, Between(u, v), Between(v, w)
    PROVE  Between(u, w)
BY DEF Between

\* The vehicle in the frame of the path.
LEMMA VehicleFrame == \A p, q \in PoseSet : Relative(p, q) \in PointSet
BY DEF PoseSet, PointSet, Relative, Turned, Abs

\* Points of the path, seen from the vehicle.
LEMMA ToPointType ==
    ASSUME TypeOK, NEW i \in 1..Len(path)
    PROVE  ToPoint(i) \in PointSet /\ DirDiff(i) \in Int
<1>1. path \in Seq(PointSet) /\ pose \in PoseSet /\ poseRec \in PoseSet
  BY DEF TypeOK
<1>2. path[i] \in PointSet /\ VehicleRel \in PointSet
  BY <1>1, VehicleFrame DEF VehicleRel
<1>3. ToPoint(i) \in PointSet
  BY <1>2, PlaneTypes DEF ToPoint
<1>4. Quarters \subseteq Int /\ Headings \subseteq Int
  BY DEF Quarters, Headings
<1>5. pose.yaw \in Int /\ poseRec.yaw \in Int
  BY <1>1, <1>4 DEF PoseSet
<1>6. Bearing(ToPoint(i)) \in Int
  BY <1>3, <1>4, PlaneTypes
<1> DEFINE b == Bearing(ToPoint(i))
<1> HIDE DEF b
<1>7. pose.yaw - poseRec.yaw - b \in Int
  BY <1>5, <1>6 DEF b
<1>8. WrapOnce(WrapOnce(pose.yaw - poseRec.yaw - b)) \in Int
  BY <1>7, PlaneTypes
<1> QED BY <1>3, <1>8 DEF DirDiff, b

-----------------------------------------------------------------------------
(***************************************************************************)
(* The inductive invariant.  That a command is driven backwards only while *)
(* braking needs to know, without twoWayDrive, that the driving direction  *)
(* stays forward and that the dead band hides every speed below rest.      *)
(***************************************************************************)

\* Without twoWayDrive the vehicle only drives forward, and its speed is less than
\* a step of acceleration below rest.
ForwardOnly == ~twoWayDrive => navFwd = TRUE /\ vehicleSpeed > -MaxAccel

IInv == TypeOK /\ PathPointInPath /\ SpeedBounded /\ ForwardOnly

\* What a control step aims at lies between rest and the wanted speed, and within
\* the maximum speed.
LEMMA TargetBound ==
    ASSUME TypeOK, pathInit => pathPointID <= Len(path), pathInit, NEW fwd \in BOOLEAN
    PROVE  /\ Between(SlowedSpeed(SpeedOnPath(fwd)), WantedSpeed(fwd))
           /\ WantedSpeed(fwd) \in (-MaxSpeed)..MaxSpeed
           /\ fwd => WantedSpeed(fwd) >= 0
<1> DEFINE w == WantedSpeed(fwd)
           e == Dist(ToPoint(Len(path)))
<1>1. w \in (-MaxSpeed)..MaxSpeed /\ (fwd => w >= 0) /\ w \in Int
  <2>1. joySpeed \in 0..MaxSpeed
    BY DEF TypeOK
  <2> QED BY <2>1, Numbers DEF WantedSpeed
<1>2. Len(path) \in 1..Len(path)
  <2>1. path \in Seq(PointSet) /\ pathPointID \in Nat \ {0}
    BY DEF TypeOK
  <2> QED BY <2>1
<1>3. e \in Nat
  BY <1>2, ToPointType, PlaneTypes
<1>4. joySpeed \in Nat /\ joySpeed <= MaxSpeed /\ MaxSpeed \in Nat
      /\ SlowDwnDisThre \in Nat \ {0}
  BY Numbers DEF TypeOK
<1>5. ASSUME e * MaxSpeed < joySpeed * SlowDwnDisThre PROVE e <= SlowDwnDisThre
  <2> SUFFICES ASSUME e > SlowDwnDisThre PROVE FALSE
    BY <1>3, <1>4
  <2>1. e * MaxSpeed >= SlowDwnDisThre * MaxSpeed
    BY <1>3, <1>4, SMT
  <2>2. SlowDwnDisThre * MaxSpeed >= SlowDwnDisThre * joySpeed
    BY <1>4, SMT
  <2> QED BY <2>1, <2>2, <1>3, <1>4, <1>5, SMT
<1>6. Between(SpeedOnPath(fwd), w)
  <2>1. Between(0, w) /\ Between(w, w)
    BY <1>1 DEF Between
  <2>2. e <= SlowDwnDisThre => Between(PartOf(w, e, SlowDwnDisThre), w)
    BY <1>1, <1>3, <1>4, PartOfBetween
  <2> QED BY <2>1, <2>2, <1>5 DEF SpeedOnPath
<1>7. SpeedOnPath(fwd) \in Int
  BY <1>6 DEF Between
<1>8. Between(SlowedSpeed(SpeedOnPath(fwd)), SpeedOnPath(fwd))
  <2> DEFINE s == SpeedOnPath(fwd)
  <2>1. Between(PartOf(s, 1, 4), s) /\ Between(PartOf(s, 1, 2), s)
    BY <1>7, PartOfBetween
  <2>2. Between(s, s)
    BY <1>7 DEF Between
  <2> QED BY <2>1, <2>2 DEF SlowedSpeed
<1> HIDE DEF w
<1>9. SlowedSpeed(SpeedOnPath(fwd)) \in Int
  BY <1>8 DEF Between
<1>10. Between(SlowedSpeed(SpeedOnPath(fwd)), w)
  BY <1>1, <1>6, <1>7, <1>8, <1>9, BetweenTransitive
<1> QED BY <1>1, <1>10 DEF w

\* A step of acceleration towards a bounded target keeps the bounds.
LEMMA RampedBound ==
    ASSUME NEW v \in Int, NEW t \in (-MaxSpeed)..MaxSpeed, NEW al \in BOOLEAN,
           v < MaxSpeed + MaxAccel, v > -(MaxSpeed + MaxAccel)
    PROVE  /\ Ramped(v, t, al) \in Int
           /\ Ramped(v, t, al) < MaxSpeed + MaxAccel
           /\ Ramped(v, t, al) > -(MaxSpeed + MaxAccel)
           /\ t >= 0 /\ v > -MaxAccel => Ramped(v, t, al) > -MaxAccel
<1>1. MaxSpeed \in Nat \ {0} /\ MaxAccel \in Nat \ {0}
  BY Numbers
<1> QED BY <1>1 DEF Ramped

-----------------------------------------------------------------------------
(***************************************************************************)
(* The actions.                                                            *)
(***************************************************************************)

\* A command holds a speed and signs, whatever it is made of.
LEMMA CommandType ==
    ASSUME joyManual \in [fwd : Int, left : Int, yaw : Turns],
           NEW v \in Int, NEW d \in Int, NEW w \in Turns
    PROVE  Command(v, d, w) \in [speed : Int, x : Turns, y : Turns, turn : Turns, manual : BOOLEAN]
<1>1. \A n \in Int : Sign(n) \in Turns
  BY DEF Sign, Turns
<1>2. CosSign(d) \in Turns /\ SinSign(d) \in Turns
  <2>1. 2 - Abs(d) \in Int
    BY DEF Abs
  <2>2. 0 \in Turns
    BY DEF Turns
  <2> QED BY <1>1, <2>1, <2>2 DEF CosSign, SinSign
<1>3. \A m, n \in Turns : m * n \in Turns /\ -(m * n) \in Turns
  <2> SUFFICES ASSUME NEW m \in Turns, NEW n \in Turns
               PROVE  m * n \in Turns /\ -(m * n) \in Turns
    OBVIOUS
  <2>1. m = -1 \/ m = 0 \/ m = 1
    BY DEF Turns
  <2>2. n = -1 \/ n = 0 \/ n = 1
    BY DEF Turns
  <2>3. m * n = -1 \/ m * n = 0 \/ m * n = 1
    BY <2>1, <2>2
  <2> QED BY <2>3 DEF Turns
<1> DEFINE s == IF Abs(v) <= MaxAccel THEN 0 ELSE v
<1>4. s \in Int /\ Sign(s) \in Turns
  BY <1>1
<1>5. CosSign(d) * Sign(s) \in Turns /\ -(SinSign(d) * Sign(s)) \in Turns
  <2> HIDE DEF s
  <2> QED BY <1>2, <1>3, <1>4
<1> HIDE DEF s
<1>6. CASE manualMode
  <2>1. Sign(joyManual.fwd) \in Turns /\ Sign(joyManual.left) \in Turns
    BY <1>1
  <2> QED BY <1>6, <2>1 DEF Command
<1>7. CASE ~manualMode
  <2>1. Command(v, d, w) = [speed |-> s, x |-> CosSign(d) * Sign(s), y |-> -(SinSign(d) * Sign(s)),
                            turn |-> w, manual |-> FALSE]
    BY <1>7, Zenon DEF Command, s
  <2> QED BY <2>1, <1>4, <1>5
<1> QED BY <1>6, <1>7

\* Whatever speed is asked for is clamped.
LEMMA ClampedInRange == \A s \in Int : ClampedSpeed(s) \in 0..MaxSpeed
BY Numbers DEF ClampedSpeed, Larger, Smaller

LEMMA InitInv == Init => IInv
<1> SUFFICES ASSUME Init PROVE IInv
  OBVIOUS
<1> USE Numbers
<1>1. <<>> \in Seq(PointSet) /\ 0 \in Quarters
  BY DEF Quarters
<1>2. pose \in PoseSet /\ poseRec \in PoseSet
  <2>1. [x |-> 0, y |-> 0, yaw |-> 0, tilted |-> FALSE, rocking |-> FALSE] \in PoseSet
    BY <1>1 DEF PoseSet
  <2> QED BY <2>1 DEF Init
<1>3. TypeOK
  <2>1. 0 \in Turns /\ {} \in SUBSET StopBits /\ 0 \in 0..MaxSpeed /\ 0 \in 0..PubSkipNum
    BY Numbers DEF Turns
  <2>2. /\ joyAge \in 0..(JoyToSpeedDelay + 1) /\ switchAge \in 0..(SwitchTimeThre + 1)
        /\ inclAge \in 0..(StopTime + 1) /\ rockAge \in 0..(SlowTime1 + SlowTime2 + 1)
    BY Numbers DEF Init
  <2>3. /\ joyManual \in [fwd : Int, left : Int, yaw : Turns]
        /\ cmdVel \in [speed : Int, x : Turns, y : Turns, turn : Turns, manual : BOOLEAN]
    BY <2>1 DEF Init
  <2>4. 0 \in Int /\ 0 \in Nat /\ 1 \in Nat \ {0}
    OBVIOUS
  <2>5. joySpeed \in 0..MaxSpeed
    <3>1. joySpeed \in {ClampedSpeed(AutonomySpeed), 0}
      BY DEF Init, StartSpeed
    <3> QED BY <2>1, <3>1, ClampedInRange, Numbers
  <2> QED BY <1>1, <1>2, <2>1, <2>2, <2>3, <2>4, <2>5 DEF Init, TypeOK
<1>4. pathInit = FALSE /\ vehicleSpeed = 0 /\ navFwd = TRUE
  BY DEF Init
<1> QED BY <1>3, <1>4 DEF IInv, PathPointInPath, SpeedBounded, ForwardOnly, Abs

\* A control step: the new index, speed, direction and command.
LEMMA ControlStepInv == IInv /\ ControlStep => IInv'
<1> SUFFICES ASSUME IInv, ControlStep PROVE IInv'
  OBVIOUS
<1>0. TypeOK /\ PathPointInPath /\ SpeedBounded /\ ForwardOnly
  BY DEF IInv
<1>1. PICK i \in 1..Len(path), fwd \in BOOLEAN :
        /\ fwd = (navFwd # SwitchesDirection(DirDiff(i)))
        /\ pathPointID' = i
        /\ LET dis == Dist(ToPoint(i))
               d   == DriveDiff(DirDiff(i), fwd)
               v   == Ramped(vehicleSpeed, SlowedSpeed(SpeedOnPath(fwd)), Aligned(d, dis))
               w   == IF Abs(v) > NoRotSpeed THEN 0 ELSE WantedTurn(d, dis, fwd)
           IN /\ navFwd' = fwd
              /\ vehicleSpeed' = SafeSpeed(IF Inclined THEN 0 ELSE v)
              /\ vehicleYawRate' = SafeTurn(IF Inclined THEN 0 ELSE w)
              /\ IF pubSkipCount > 0
                 THEN pubSkipCount' = pubSkipCount - 1 /\ UNCHANGED cmdVel
                 ELSE /\ pubSkipCount' = PubSkipNum
                      /\ cmdVel' = Command(vehicleSpeed', d, vehicleYawRate')
              /\ switchAge' = IF fwd # navFwd THEN 0 ELSE switchAge
  BY DEF ControlStep
<1> DEFINE dis == Dist(ToPoint(i))
           d   == DriveDiff(DirDiff(i), fwd)
           t   == SlowedSpeed(SpeedOnPath(fwd))
           v   == Ramped(vehicleSpeed, t, Aligned(d, dis))
           w   == IF Abs(v) > NoRotSpeed THEN 0 ELSE WantedTurn(d, dis, fwd)
<1>2. pathInit /\ pathInit' = pathInit /\ path' = path /\ UNCHANGED <<odom, poseRec, joy, safetyStop, twoWayDrive>>
  BY DEF ControlStep
<1>3. i \in Nat \ {0} /\ i <= Len(path) /\ Len(path) \in Nat
  <2>1. path \in Seq(PointSet)
    BY <1>0 DEF TypeOK
  <2> QED BY <2>1
<1>5. DirDiff(i) \in Int
  BY <1>0, ToPointType
<1>6. fwd \in BOOLEAN /\ (~twoWayDrive => fwd = TRUE)
  BY <1>0, <1>1, Zenon DEF SwitchesDirection, ForwardOnly, TypeOK
<1>7. d \in Int
  BY <1>5 DEF DriveDiff
<1>8. t \in (-MaxSpeed)..MaxSpeed /\ (fwd => t >= 0)
  <2>1. Between(t, WantedSpeed(fwd)) /\ WantedSpeed(fwd) \in (-MaxSpeed)..MaxSpeed
        /\ (fwd => WantedSpeed(fwd) >= 0)
    BY <1>0, <1>2, <1>6, TargetBound DEF PathPointInPath
  <2> HIDE DEF t
  <2> QED BY <2>1, Numbers DEF Between
<1>9. Aligned(d, dis) \in BOOLEAN
  BY DEF Aligned
<1>10. /\ vehicleSpeed \in Int /\ vehicleSpeed < MaxSpeed + MaxAccel
       /\ vehicleSpeed > -(MaxSpeed + MaxAccel)
  <2>1. vehicleSpeed \in Int /\ Abs(vehicleSpeed) < MaxSpeed + MaxAccel
    BY <1>0 DEF SpeedBounded, TypeOK
  <2> QED BY <2>1, Numbers DEF Abs
<1>11. /\ v \in Int /\ v < MaxSpeed + MaxAccel /\ v > -(MaxSpeed + MaxAccel)
       /\ t >= 0 /\ vehicleSpeed > -MaxAccel => v > -MaxAccel
  <2> HIDE DEF t, d, dis
  <2> QED BY <1>8, <1>9, <1>10, RampedBound
<1>12. w \in Turns
  <2>1. joyYaw \in Turns
    BY <1>0 DEF TypeOK
  <2>2. -Sign(d) \in Turns
    <3>1. Sign(d) = -1 \/ Sign(d) = 0 \/ Sign(d) = 1
      BY DEF Sign
    <3> QED BY <3>1 DEF Turns
  <2> HIDE DEF v, d, dis
  <2> QED BY <2>1, <2>2 DEF WantedTurn, Turns
<1>13. navFwd' = fwd /\ vehicleSpeed' = SafeSpeed(IF Inclined THEN 0 ELSE v)
       /\ vehicleYawRate' = SafeTurn(IF Inclined THEN 0 ELSE w)
  BY <1>1
<1>14. vehicleSpeed' \in {0, v} /\ vehicleYawRate' \in Turns
  <2> HIDE DEF v, w
  <2> QED BY <1>12, <1>13 DEF SafeSpeed, SafeTurn, Turns
<1>15. \/ cmdVel' = cmdVel /\ pubSkipCount' = pubSkipCount - 1 /\ pubSkipCount > 0
       \/ cmdVel' = Command(vehicleSpeed', d, vehicleYawRate') /\ pubSkipCount' = PubSkipNum
  BY <1>1, Zenon
<1>16. switchAge' \in {0, switchAge}
  BY <1>1, Zenon
<1>17. vehicleSpeed' \in Int /\ SpeedBounded' /\ ForwardOnly'
  <2>1. SpeedBounded' /\ vehicleSpeed' \in Int
    <3> HIDE DEF v
    <3>1. vehicleSpeed' \in Int /\ vehicleSpeed' < MaxSpeed + MaxAccel
          /\ vehicleSpeed' > -(MaxSpeed + MaxAccel)
      BY <1>11, <1>14, Numbers
    <3>2. \A u \in Int : u < MaxSpeed + MaxAccel /\ u > -(MaxSpeed + MaxAccel)
                         => Abs(u) < MaxSpeed + MaxAccel
      BY Numbers DEF Abs
    <3> QED BY <3>1, <3>2 DEF SpeedBounded
  <2>0. twoWayDrive' = twoWayDrive
    BY <1>2
  <2>2. ASSUME ~twoWayDrive PROVE navFwd' = TRUE /\ vehicleSpeed' > -MaxAccel
    <3>1. fwd = TRUE /\ t >= 0
      BY <1>6, <1>8, <2>2
    <3>2. vehicleSpeed > -MaxAccel
      BY <1>0, <2>2 DEF ForwardOnly
    <3> HIDE DEF v, t
    <3> QED BY <3>1, <3>2, <1>11, <1>13, <1>14, Numbers
  <2> QED BY <2>0, <2>1, <2>2 DEF ForwardOnly
<1> HIDE DEF v, w, d, dis, t
<1>18. pubSkipCount' \in 0..PubSkipNum /\ switchAge' \in 0..(SwitchTimeThre + 1)
  <2>1. pubSkipCount \in 0..PubSkipNum /\ switchAge \in 0..(SwitchTimeThre + 1)
    BY <1>0 DEF TypeOK
  <2> QED BY <2>1, <1>15, <1>16, Numbers
<1>19. cmdVel' \in [speed : Int, x : Turns, y : Turns, turn : Turns, manual : BOOLEAN]
  <2>1. CASE cmdVel' = cmdVel
    BY <1>0, <2>1 DEF TypeOK
  <2>2. CASE cmdVel' = Command(vehicleSpeed', d, vehicleYawRate')
    <3>1. joyManual \in [fwd : Int, left : Int, yaw : Turns] /\ manualMode \in BOOLEAN
      BY <1>0 DEF TypeOK
    <3> QED BY <3>1, <2>2, <1>7, <1>14, <1>17, CommandType
  <2> QED BY <1>15, <2>1, <2>2
<1>20. TypeOK'
  <2>1. navFwd' \in BOOLEAN /\ pathPointID' \in Nat \ {0}
    BY <1>1, <1>3, <1>6, <1>13
  <2> QED BY <1>0, <1>2, <1>14, <1>17, <1>18, <1>19, <2>1 DEF TypeOK, odom, joy
<1>21. PathPointInPath'
  BY <1>1, <1>2, <1>3 DEF PathPointInPath
<1> QED BY <1>17, <1>19, <1>20, <1>21 DEF IInv

-----------------------------------------------------------------------------
LEMMA HandlersInv ==
    IInv /\ (OdomHandler \/ PathHandler \/ JoystickHandler \/ SpeedHandler \/ StopHandler
             \/ Tick \/ UNCHANGED vars) => IInv'
<1> SUFFICES ASSUME IInv, OdomHandler \/ PathHandler \/ JoystickHandler \/ SpeedHandler
                          \/ StopHandler \/ Tick \/ UNCHANGED vars
             PROVE  IInv'
  OBVIOUS
<1>0. TypeOK /\ PathPointInPath /\ SpeedBounded /\ ForwardOnly
  BY DEF IInv
<1>1. UNCHANGED <<vehicleSpeed, navFwd, cmdVel, vehicleYawRate, pubSkipCount, twoWayDrive>>
  BY DEF OdomHandler, PathHandler, JoystickHandler, SpeedHandler, StopHandler, Tick, control,
         vars
<1>2. SpeedBounded' /\ ForwardOnly'
  BY <1>0, <1>1 DEF SpeedBounded, ForwardOnly
<1>3. \A age, thre \in Nat : age <= thre + 1 => Older(age, thre) \in 0..(thre + 1)
  BY DEF Older
<1>4. CASE OdomHandler
  <2>1. pose' \in Poses
        /\ inclAge' \in {0, Older(inclAge, StopTime)}
        /\ rockAge' \in {0, Older(rockAge, SlowTime1 + SlowTime2)}
    BY <1>4 DEF OdomHandler
  <2>2. pose' \in PoseSet /\ inclAge' \in 0..(StopTime + 1)
        /\ rockAge' \in 0..(SlowTime1 + SlowTime2 + 1)
    <3>1. inclAge \in 0..(StopTime + 1) /\ rockAge \in 0..(SlowTime1 + SlowTime2 + 1)
      BY <1>0 DEF TypeOK
    <3>2. pose' \in PoseSet
      BY <2>1, MessagesAssumption
    <3>3. SlowTime1 + SlowTime2 \in Nat
      BY Numbers
    <3>4. inclAge' \in 0..(StopTime + 1)
      BY <1>3, <2>1, <3>1, Numbers
    <3>5. rockAge' \in 0..(SlowTime1 + SlowTime2 + 1)
      <4> DEFINE slow == SlowTime1 + SlowTime2
      <4>1. slow \in Nat /\ rockAge \in 0..(slow + 1) /\ rockAge' \in {0, Older(rockAge, slow)}
        BY <2>1, <3>1, <3>3
      <4> HIDE DEF slow
      <4>2. rockAge' \in 0..(slow + 1)
        BY <1>3, <4>1
      <4> QED BY <4>2 DEF slow
    <3> QED BY <3>2, <3>4, <3>5
  <2>3. TypeOK' /\ PathPointInPath'
    BY <1>0, <1>4, <2>2 DEF OdomHandler, TypeOK, PathPointInPath, route, joy, control
  <2> QED BY <1>2, <2>3 DEF IInv
<1>5. CASE PathHandler
  <2>1. path' \in Paths /\ path' \in Seq(PointSet) /\ Len(path') > 0
    BY <1>5, MessagesAssumption DEF PathHandler
  <2>2. TypeOK' /\ PathPointInPath'
    BY <1>0, <1>5, <2>1 DEF PathHandler, TypeOK, PathPointInPath, odom, joy, control
  <2> QED BY <1>2, <2>2 DEF IInv
<1>6. CASE JoystickHandler
  <2>1. PICK m \in JoyMsgs :
          /\ joySpeedRaw' = RawSpeed(m) /\ joySpeed' = JoySpeed(m) /\ joyYaw' = JoyYaw(m)
          /\ joyManual' = [fwd |-> m.axis4, left |-> m.axis3, yaw |-> Sign(m.axis0)]
          /\ autonomyMode' = m.waypoint /\ manualMode' = m.manual
    BY <1>6 DEF JoystickHandler
  <2>2. m.axis0 \in Int /\ m.axis3 \in Int /\ m.axis4 \in Int /\ m.waypoint \in BOOLEAN
        /\ m.manual \in BOOLEAN
    BY MessagesAssumption DEF JoySet
  <2>3. RawSpeed(m) \in Nat
    BY <2>2 DEF RawSpeed, Larger, Abs
  <2>4. JoySpeed(m) \in 0..MaxSpeed
    BY <2>3, Numbers DEF JoySpeed, Smaller
  <2>5. \A n \in Int : Sign(n) \in Turns
    BY DEF Sign, Turns
  <2>6. JoyYaw(m) \in Turns
    BY <2>2, <2>5 DEF JoyYaw, Turns
  <2>7. joyAge' \in 0..(JoyToSpeedDelay + 1)
    BY <1>6, Numbers DEF JoystickHandler
  <2>8. joyManual' \in [fwd : Int, left : Int, yaw : Turns]
    BY <2>1, <2>2, <2>5
  <2>9. TypeOK' /\ PathPointInPath'
    BY <1>0, <1>6, <2>1, <2>2, <2>3, <2>4, <2>6, <2>7, <2>8
       DEF JoystickHandler, TypeOK, PathPointInPath, odom, route, control
  <2> QED BY <1>2, <2>9 DEF IInv
<1>7. CASE SpeedHandler
  <2>1. joySpeed' \in 0..MaxSpeed
    <3>1. PICK s \in SpeedMsgs : joySpeed' \in {ClampedSpeed(s), joySpeed}
      BY <1>7, Zenon DEF SpeedHandler
    <3>2. s \in Int
      BY MessagesAssumption
    <3>3. joySpeed \in 0..MaxSpeed
      BY <1>0 DEF TypeOK
    <3> QED BY <3>1, <3>2, <3>3, ClampedInRange
  <2>2. TypeOK' /\ PathPointInPath'
    BY <1>0, <1>7, <2>1 DEF SpeedHandler, TypeOK, PathPointInPath, odom, route, control
  <2> QED BY <1>2, <2>2 DEF IInv
<1>8. CASE StopHandler
  <2>1. safetyStop' \in SUBSET StopBits
    BY <1>8, MessagesAssumption DEF StopHandler
  <2>2. TypeOK' /\ PathPointInPath'
    BY <1>0, <1>8, <2>1 DEF StopHandler, TypeOK, PathPointInPath, odom, route, joy, control
  <2> QED BY <1>2, <2>2 DEF IInv
<1>9. CASE Tick
  <2>1. joyAge' \in 0..(JoyToSpeedDelay + 1) /\ switchAge' \in 0..(SwitchTimeThre + 1)
    <3>1. joyAge \in 0..(JoyToSpeedDelay + 1) /\ switchAge \in 0..(SwitchTimeThre + 1)
      BY <1>0 DEF TypeOK
    <3>2. joyAge' = Older(joyAge, JoyToSpeedDelay)
          /\ switchAge' = Older(switchAge, SwitchTimeThre)
      BY <1>9 DEF Tick
    <3> QED BY <1>3, <3>1, <3>2, Numbers
  <2>2. TypeOK' /\ PathPointInPath'
    BY <1>0, <1>9, <2>1 DEF Tick, TypeOK, PathPointInPath, odom, route
  <2> QED BY <1>2, <2>2 DEF IInv
<1>10. CASE UNCHANGED vars
  BY <1>0, <1>2, <1>10
     DEF vars, odom, route, joy, control, TypeOK, PathPointInPath, IInv
<1> QED BY <1>4, <1>5, <1>6, <1>7, <1>8, <1>9, <1>10

\* The invariant holds in every reachable state.
THEOREM Inductive == Spec => []IInv
<1>1. IInv /\ [Next]_vars => IInv'
  BY ControlStepInv, HandlersInv DEF Next
<1> QED BY <1>1, InitInv, PTL DEF Spec

\* The node's variables keep their types.
THEOREM TypeCorrect == Spec => []TypeOK
<1>1. IInv => TypeOK
  BY DEF IInv
<1> QED BY <1>1, Inductive, PTL

\* The follower never reads beyond the end of the path it holds.
THEOREM PathPointAlwaysInPath == Spec => []PathPointInPath
<1>1. IInv => PathPointInPath
  BY DEF IInv
<1> QED BY <1>1, Inductive, PTL

\* The speed exceeds maxSpeed by less than one step of acceleration.
THEOREM SpeedAlwaysBounded == Spec => []SpeedBounded
<1>1. IInv => SpeedBounded
  BY DEF IInv
<1> QED BY <1>1, Inductive, PTL

\* A step that publishes a command that does not drive the leading end ahead takes
\* speed away.
LEMMA BacksBrakingStep ==
    ASSUME IInv, ControlStep, cmdVel' # cmdVel, ~cmdVel'.manual, cmdVel'.speed # 0,
           ~DrivesAhead'
    PROVE  Abs(vehicleSpeed') < Abs(vehicleSpeed)
<1> DEFINE u == vehicleSpeed'
<1>1. PICK i \in 1..Len(path), fwd \in BOOLEAN :
        LET dis == Dist(ToPoint(i))
            d   == DriveDiff(DirDiff(i), fwd)
            v   == Ramped(vehicleSpeed, SlowedSpeed(SpeedOnPath(fwd)), Aligned(d, dis))
        IN /\ u = SafeSpeed(IF Inclined THEN 0 ELSE v)
           /\ IF pubSkipCount > 0
              THEN pubSkipCount' = pubSkipCount - 1 /\ UNCHANGED cmdVel
              ELSE /\ pubSkipCount' = PubSkipNum
                   /\ cmdVel' = Command(u, d, vehicleYawRate')
  BY DEF ControlStep
<1> DEFINE dis == Dist(ToPoint(i))
           d   == DriveDiff(DirDiff(i), fwd)
           t   == SlowedSpeed(SpeedOnPath(fwd))
<1>2. d \in Int
  <2>1. DirDiff(i) \in Int
    BY ToPointType DEF IInv
  <2> QED BY <2>1 DEF DriveDiff
<1>3. u \in {0, Ramped(vehicleSpeed, t, Aligned(d, dis))}
  BY <1>1 DEF SafeSpeed
<1>4. cmdVel' = Command(u, d, vehicleYawRate')
  BY <1>1
<1> HIDE DEF dis, d, t
<1>5. IInv' /\ u \in Int /\ vehicleSpeed \in Int /\ MaxAccel \in Nat \ {0}
  BY ControlStepInv, Numbers DEF IInv, TypeOK
<1> HIDE DEF u
<1>6. /\ cmdVel'.speed = IF Abs(u) <= MaxAccel THEN 0 ELSE u
      /\ cmdVel'.x = CosSign(d) * Sign(cmdVel'.speed)
  BY <1>4 DEF Command
<1>7. cmdVel'.speed = u /\ Abs(u) > MaxAccel
  BY <1>5, <1>6 DEF Abs
<1>8. CosSign(d) # 1
  <2> SUFFICES ASSUME CosSign(d) = 1 PROVE FALSE
    OBVIOUS
  <2>1. cmdVel'.x = Sign(u)
    <3>1. Sign(u) \in Int
      BY DEF Sign
    <3> QED BY <1>6, <1>7, <3>1
  <2>2. ~twoWayDrive'
    BY <1>7, <2>1, Zenon DEF DrivesAhead
  <2>3. u > -MaxAccel
    BY <1>5, <2>2 DEF IInv, ForwardOnly, u
  <2>4. Sign(u) > 0
    BY <1>5, <1>7, <2>3 DEF Abs, Sign
  <2> QED BY <2>1, <2>2, <2>4 DEF DrivesAhead
<1>9. ~Aligned(d, dis)
  BY <1>2, <1>8 DEF CosSign, Sign, Abs, Aligned
<1>10. u = Ramped(vehicleSpeed, t, FALSE)
  <2>1. u # 0
    BY <1>5, <1>7 DEF Abs
  <2>2. Aligned(d, dis) = FALSE
    BY <1>9 DEF Aligned
  <2> QED BY <1>3, <2>1, <2>2
<1>11. Abs(u) < Abs(vehicleSpeed)
  BY <1>5, <1>7, <1>10 DEF Ramped, Abs
<1> QED BY <1>11 DEF u

\* The vehicle is driven sideways or backwards only while it brakes, for every set of
\* paths and poses, every limit and every step of acceleration.
THEOREM BacksAlwaysBraking == Spec => BacksOnlyBraking
<1>1. IInv /\ [Next]_vars
        => [~cmdVel'.manual /\ cmdVel' # cmdVel /\ cmdVel'.speed # 0 /\ ~DrivesAhead'
              => Abs(vehicleSpeed') < Abs(vehicleSpeed)]_vars
  <2> SUFFICES ASSUME IInv, [Next]_vars, cmdVel' # cmdVel, ~cmdVel'.manual,
                      cmdVel'.speed # 0, ~DrivesAhead'
               PROVE  Abs(vehicleSpeed') < Abs(vehicleSpeed)
    OBVIOUS
  <2>1. ControlStep
    BY DEF Next, OdomHandler, PathHandler, JoystickHandler, SpeedHandler, StopHandler, Tick,
           control, vars
  <2> QED BY <2>1, BacksBrakingStep
<1> QED BY <1>1, Inductive, PTL DEF Spec, BacksOnlyBraking

\* With both motion bits of /stop set only rest is published, outside manual mode.
THEOREM StopAlwaysRest == Spec => StopIsRest
<1>1. IInv /\ [Next]_vars
        => ({"fwd", "bwd"} \subseteq safetyStop /\ ~manualMode /\ cmdVel' # cmdVel
              => cmdVel'.speed = 0)
  <2> SUFFICES ASSUME IInv, [Next]_vars, {"fwd", "bwd"} \subseteq safetyStop, ~manualMode,
                      cmdVel' # cmdVel
               PROVE  cmdVel'.speed = 0
    OBVIOUS
  <2>1. ControlStep
    BY DEF Next, OdomHandler, PathHandler, JoystickHandler, SpeedHandler, StopHandler, Tick,
           control, vars
  <2>2. vehicleSpeed' \in Int
    BY <2>1, ControlStepInv DEF IInv, TypeOK
  <2>3. vehicleSpeed' = 0
    <3>1. PICK u : vehicleSpeed' = SafeSpeed(u)
      BY <2>1 DEF ControlStep
    <3>2. u > 0 \/ u < 0 => vehicleSpeed' = 0
      BY <3>1 DEF SafeSpeed
    <3>3. ~(u > 0) /\ ~(u < 0) => vehicleSpeed' = u
      BY <3>1 DEF SafeSpeed
    <3> QED BY <2>2, <3>2, <3>3
  <2>4. \E d, w : cmdVel' = Command(vehicleSpeed', d, w)
    BY <2>1 DEF ControlStep
  <2>5. Abs(0) <= MaxAccel
    BY Numbers DEF Abs
  <2> QED BY <2>3, <2>4, <2>5 DEF Command
<1>2. IInv /\ [Next]_vars
        => [{"fwd", "bwd"} \subseteq safetyStop /\ ~manualMode /\ cmdVel' # cmdVel
              => cmdVel'.speed = 0]_vars
  BY <1>1
<1> QED BY <1>2, Inductive, PTL DEF Spec, StopIsRest

-----------------------------------------------------------------------------
(***************************************************************************)
(* Smoothness.  Between two publications the speed moves by a step at a    *)
(* time away from the published one, or is cut to rest and starts again.   *)
(***************************************************************************)

\* Steps taken since the newest publication.
StepsSince == PubSkipNum - pubSkipCount

\* How far the speed can be from the one published last.
SpeedNear ==
    ~cmdVel.manual =>
        \/ Abs(vehicleSpeed - cmdVel.speed) <= (StepsSince + 1) * MaxAccel
        \/ StepsSince >= 1 /\ Abs(vehicleSpeed) <= (StepsSince - 1) * MaxAccel

\* What a control step does to the speed and to the newest command.
LEMMA StepOfSpeed ==
    ASSUME IInv, ControlStep
    PROVE  /\ vehicleSpeed' \in {0, vehicleSpeed, vehicleSpeed - MaxAccel,
                                 vehicleSpeed + MaxAccel}
           /\ \/ pubSkipCount > 0 /\ pubSkipCount' = pubSkipCount - 1 /\ cmdVel' = cmdVel
              \/ /\ pubSkipCount <= 0 /\ pubSkipCount' = PubSkipNum
                 /\ \/ cmdVel'.manual
                    \/ cmdVel'.speed = IF Abs(vehicleSpeed') <= MaxAccel THEN 0
                                       ELSE vehicleSpeed'
<1>1. \A v, t, al : Ramped(v, t, al) \in {v, v - MaxAccel, v + MaxAccel}
  BY DEF Ramped
<1>2. PICK t, al : vehicleSpeed' = SafeSpeed(IF Inclined THEN 0
                                             ELSE Ramped(vehicleSpeed, t, al))
  BY DEF ControlStep
<1>3. vehicleSpeed' \in {0, Ramped(vehicleSpeed, t, al)}
  BY <1>2 DEF SafeSpeed
<1>4. PICK d : IF pubSkipCount > 0
               THEN pubSkipCount' = pubSkipCount - 1 /\ UNCHANGED cmdVel
               ELSE /\ pubSkipCount' = PubSkipNum
                    /\ cmdVel' = Command(vehicleSpeed', d, vehicleYawRate')
  BY DEF ControlStep
<1>5. pubSkipCount \in Nat
  BY Numbers DEF IInv, TypeOK
<1>6. \A v, e, w : \/ Command(v, e, w).manual
                   \/ Command(v, e, w).speed = IF Abs(v) <= MaxAccel THEN 0 ELSE v
  BY DEF Command
<1> QED BY <1>1, <1>3, <1>4, <1>5, <1>6

\* One more step: a multiple of the step grows by one.
LEMMA NextMultiple ==
    ASSUME NEW n \in Int, NEW a \in Nat
    PROVE  (n + 1) * a = n * a + a /\ n * a \in Int /\ (n >= 0 => n * a >= 0)
<1>1. (n + 1) * a = n * a + a /\ n * a \in Int
  BY SMT
<1>2. n >= 0 => n * a >= 0
  BY SMT
<1> QED BY <1>1, <1>2

\* A control step keeps the speed near the published one, and publishes smoothly.
LEMMA SmoothStep ==
    ASSUME IInv, SpeedNear, ControlStep
    PROVE  /\ SpeedNear'
           /\ ~cmdVel.manual /\ ~cmdVel'.manual /\ cmdVel'.speed # 0
                => \/ cmdVel' = cmdVel
                   \/ Abs(cmdVel'.speed - cmdVel.speed) <= (PubSkipNum + 2) * MaxAccel
                   \/ Abs(cmdVel'.speed) <= PubSkipNum * MaxAccel
<1> DEFINE n == StepsSince
           a == MaxAccel
           v == vehicleSpeed
           u == vehicleSpeed'
           c == cmdVel.speed
           e == cmdVel'.speed
<1>1. a \in Nat \ {0} /\ PubSkipNum \in Nat
  BY Numbers
<1>2. v \in Int /\ c \in Int /\ n \in Nat /\ pubSkipCount \in 0..PubSkipNum
  BY Numbers DEF IInv, TypeOK, StepsSince
<1>3. u \in Int /\ e \in Int /\ pubSkipCount' \in 0..PubSkipNum
  <2>1. IInv'
    BY ControlStepInv
  <2> QED BY <2>1 DEF IInv, TypeOK
<1>4. u \in {0, v, v - a, v + a}
  BY StepOfSpeed
<1>5. /\ (n + 2) * a = (n + 1) * a + a
      /\ (n + 1) * a = n * a + a
      /\ n * a = (n - 1) * a + a
      /\ (n + 1) * a \in Int /\ n * a \in Int /\ (n - 1) * a \in Int
      /\ n * a >= 0 /\ (n + 1) * a >= 0
  <2>1. (n + 1) + 1 = n + 2 /\ (n - 1) + 1 = n /\ n + 1 \in Int /\ n - 1 \in Int
        /\ n + 1 >= 0 /\ n >= 0 /\ n \in Int /\ a \in Nat
    BY <1>1, <1>2
  <2> HIDE DEF n, a
  <2>2. ((n + 1) + 1) * a = (n + 1) * a + a /\ (n + 1) * a \in Int /\ (n + 1) * a >= 0
    BY <2>1, NextMultiple
  <2>3. (n + 1) * a = n * a + a /\ n * a \in Int /\ n * a >= 0
    BY <2>1, NextMultiple
  <2>4. ((n - 1) + 1) * a = (n - 1) * a + a /\ (n - 1) * a \in Int
    BY <2>1, NextMultiple
  <2> QED BY <2>1, <2>2, <2>3, <2>4
<1>6. \A x, y \in Int, z \in Int :
        Abs(x - y) <= z <=> x - y <= z /\ y - x <= z
  BY DEF Abs
<1>7. \A x, z \in Int : Abs(x) <= z <=> x <= z /\ -x <= z
  BY DEF Abs
<1>8. ~cmdVel.manual =>
        \/ Abs(u - c) <= (n + 2) * a
        \/ n >= 0 /\ Abs(u) <= n * a
  <2> SUFFICES ASSUME ~cmdVel.manual
               PROVE  Abs(u - c) <= (n + 2) * a \/ (n >= 0 /\ Abs(u) <= n * a)
    OBVIOUS
  <2>1. Abs(v - c) <= (n + 1) * a \/ (n >= 1 /\ Abs(v) <= (n - 1) * a)
    BY DEF SpeedNear
  <2> DEFINE n0 == (n - 1) * a
             n1 == n * a
             n2 == (n + 1) * a
             n3 == (n + 2) * a
  <2>2. n3 = n2 + a /\ n2 = n1 + a /\ n1 = n0 + a /\ n0 \in Int /\ n1 >= 0 /\ n2 >= 0
    BY <1>5
  <2>3. Abs(v - c) <= n2 \/ Abs(v) <= n0
    BY <2>1
  <2> SUFFICES Abs(u - c) <= n3 \/ Abs(u) <= n1
    BY <1>2
  <2> HIDE DEF n0, n1, n2, n3, n, a, v, u, c
  <2>4. n1 \in Int /\ n2 \in Int /\ n3 \in Int
    BY <1>1, <2>2
  <2>5. CASE u = 0
    BY <1>7, <2>2, <2>4, <2>5
  <2>6. CASE u # 0 /\ Abs(v - c) <= n2
    <3>1. v - c <= n2 /\ c - v <= n2
      BY <1>2, <1>6, <2>4, <2>6
    <3>2. u - c <= n3 /\ c - u <= n3
      BY <1>1, <1>2, <1>4, <2>2, <2>4, <2>6, <3>1
    <3> QED BY <1>2, <1>3, <1>6, <2>4, <3>2
  <2>7. CASE u # 0 /\ Abs(v) <= n0
    <3>1. v <= n0 /\ -v <= n0
      BY <1>2, <1>7, <2>2, <2>7
    <3>2. u <= n1 /\ -u <= n1
      BY <1>1, <1>2, <1>4, <2>2, <2>4, <2>7, <3>1
    <3> QED BY <1>3, <1>7, <2>4, <3>2
  <2> QED BY <2>3, <2>5, <2>6, <2>7
<1>9. CASE pubSkipCount > 0 /\ pubSkipCount' = pubSkipCount - 1 /\ cmdVel' = cmdVel
  <2>1. StepsSince' = n + 1 /\ (n + 1) + 1 = n + 2 /\ (n + 1) - 1 = n
    BY <1>2, <1>9, Numbers DEF StepsSince
  <2>2. SpeedNear' = (~cmdVel'.manual =>
                        \/ Abs(vehicleSpeed' - cmdVel'.speed) <= (StepsSince' + 1) * MaxAccel
                        \/ StepsSince' >= 1
                           /\ Abs(vehicleSpeed') <= (StepsSince' - 1) * MaxAccel)
    BY Zenon DEF SpeedNear
  <2>3. n + 1 >= 1
    BY <1>2
  <2> QED BY <1>8, <1>9, <2>1, <2>2, <2>3
<1>10. CASE /\ pubSkipCount <= 0 /\ pubSkipCount' = PubSkipNum
            /\ \/ cmdVel'.manual
               \/ e = IF Abs(u) <= a THEN 0 ELSE u
  <2>1. StepsSince' = 0 /\ n = PubSkipNum
    BY <1>2, <1>10, Numbers DEF StepsSince
  <2>2. SpeedNear'
    <3>1. cmdVel'.manual \/ Abs(u - e) <= (0 + 1) * a
      <4>1. (0 + 1) * a = a
        BY <1>1
      <4>2. ASSUME e = IF Abs(u) <= a THEN 0 ELSE u PROVE Abs(u - e) <= a
        <5> HIDE DEF u, e, a
        <5>1. CASE Abs(u) <= a
          BY <1>3, <4>2, <5>1
        <5>2. CASE ~(Abs(u) <= a)
          BY <1>1, <1>3, <4>2, <5>2 DEF Abs
        <5> QED BY <5>1, <5>2
      <4> QED BY <1>10, <4>1, <4>2
    <3> QED BY <2>1, <3>1 DEF SpeedNear
  <2>3. ASSUME ~cmdVel.manual, ~cmdVel'.manual, e # 0
        PROVE  Abs(e - c) <= (PubSkipNum + 2) * a \/ Abs(e) <= PubSkipNum * a
    <3>1. e = u
      BY <1>10, <2>3
    <3> QED BY <1>8, <2>1, <2>3, <3>1
  <2> QED BY <2>2, <2>3
<1> QED BY <1>9, <1>10, StepOfSpeed

\* Published speeds are smooth, for all steps of acceleration and all pubSkipNum.
THEOREM SpeedAlwaysSmooth == Spec => SmoothSpeed
<1>1. Init => SpeedNear
  <2>1. ASSUME Init PROVE SpeedNear
    <3>1. vehicleSpeed = 0 /\ cmdVel.speed = 0 /\ StepsSince = PubSkipNum
      BY <2>1, Numbers DEF Init, StepsSince
    <3>2. (PubSkipNum + 1) * MaxAccel >= 0 /\ Abs(0 - 0) = 0
      BY Numbers, NextMultiple DEF Abs
    <3> QED BY <3>1, <3>2 DEF SpeedNear
  <2> QED BY <2>1
<1>2. IInv /\ SpeedNear /\ [Next]_vars => SpeedNear'
  <2> SUFFICES ASSUME IInv, SpeedNear, [Next]_vars PROVE SpeedNear'
    OBVIOUS
  <2>1. CASE ControlStep
    BY <2>1, SmoothStep
  <2>2. CASE ~ControlStep
    <3>1. UNCHANGED <<vehicleSpeed, cmdVel, pubSkipCount>>
      BY <2>2 DEF Next, OdomHandler, PathHandler, JoystickHandler, SpeedHandler, StopHandler,
                  Tick, control, vars
    <3> QED BY <3>1 DEF SpeedNear, StepsSince
  <2> QED BY <2>1, <2>2
<1>3. IInv /\ SpeedNear /\ [Next]_vars
        => [~cmdVel.manual /\ ~cmdVel'.manual /\ cmdVel'.speed # 0
              => \/ Abs(cmdVel'.speed - cmdVel.speed) <= (PubSkipNum + 2) * MaxAccel
                 \/ Abs(cmdVel'.speed) <= PubSkipNum * MaxAccel]_vars
  <2> SUFFICES ASSUME IInv, SpeedNear, [Next]_vars, ~cmdVel.manual, ~cmdVel'.manual,
                      cmdVel'.speed # 0
               PROVE  \/ Abs(cmdVel'.speed - cmdVel.speed) <= (PubSkipNum + 2) * MaxAccel
                      \/ Abs(cmdVel'.speed) <= PubSkipNum * MaxAccel
    OBVIOUS
  <2>1. CASE cmdVel' = cmdVel
    <3>1. Abs(cmdVel'.speed - cmdVel.speed) = 0
      BY <2>1 DEF IInv, TypeOK, Abs
    <3>2. (PubSkipNum + 2) * MaxAccel >= 0
      <4>1. PubSkipNum + 2 \in Int /\ PubSkipNum + 2 >= 0 /\ MaxAccel \in Nat
        BY Numbers
      <4> QED BY <4>1, NextMultiple
    <3> QED BY <3>1, <3>2
  <2>2. CASE cmdVel' # cmdVel
    <3>1. ControlStep
      BY <2>2 DEF Next, OdomHandler, PathHandler, JoystickHandler, SpeedHandler, StopHandler,
                  Tick, control, vars
    <3> QED BY <2>2, <3>1, SmoothStep
  <2> QED BY <2>1, <2>2
<1> QED BY <1>1, <1>2, <1>3, InitInv, Inductive, PTL DEF Spec, SmoothSpeed
=============================================================================
