------------------------------ MODULE Arbiter ------------------------------
(***************************************************************************)
(* What the bridge promises, without its queues, timers and ages: who      *)
(* decides how the robot moves.  The operator's remote has it; L2+R2 hands *)
(* it, at rest, to autonomy, in which the planner and the sticks drive in  *)
(* turn, and back.  A process that ends without handing it back leaves it  *)
(* to nobody until autonomy is left once more.                             *)
(*                                                                         *)
(* Joystick and move are what the robot will obey once it has taken every  *)
(* request under way.                                                      *)
(***************************************************************************)
CONSTANTS
    Velocities,     \* the velocities of a Move
    Limited,        \* those within the planner's limits
    Rest            \* the zero velocity

VARIABLES
    driver,         \* who drives
    joystick,       \* the robot obeys its own joystick
    move            \* the velocity the robot keeps otherwise

vars == <<driver, joystick, move>>

Init == driver = "remote" /\ joystick = TRUE /\ move = Rest

\* Autonomy takes over a resting robot and switches its joystick off.
TakeOver ==
    /\ driver = "remote" /\ move = Rest
    /\ driver' = "planner" /\ joystick' = FALSE /\ move' = Rest

InAutonomy == driver \in {"planner", "sticks"}

\* In autonomy the planner drives within its limits, and the sticks without any.  The bounded
\* request history may forget a switch of the joystick that the robot has not taken yet.
PlannerDrives ==
    /\ InAutonomy /\ driver' = "planner"
    /\ move' \in Limited /\ joystick' \in BOOLEAN
SticksDrive ==
    /\ InAutonomy /\ driver' = "sticks"
    /\ move' \in Velocities /\ joystick' \in BOOLEAN

\* The robot is given back, at rest and with its joystick on.
HandBack ==
    /\ driver # "remote"
    /\ driver' = "remote" /\ joystick' = TRUE /\ move' = Rest

\* A process ends and its hand-back is lost, or it runs again without the robot having been given back.
Lose == driver' = "nobody" /\ joystick' \in BOOLEAN /\ move' \in Velocities

Next == TakeOver \/ PlannerDrives \/ SticksDrive \/ HandBack \/ Lose

Spec == Init /\ [][Next]_vars
=============================================================================
