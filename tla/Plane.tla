------------------------------- MODULE Plane -------------------------------
(***************************************************************************)
(* The plane the planners compute in, on a grid: the rotations, bearings   *)
(* and distances of localPlanner.cpp and pathFollower.cpp.                 *)
(*                                                                         *)
(* A heading is a multiple of an eighth of a turn, positive to the left.   *)
(* Rotations are by whole quarters, where they are exact; a bearing        *)
(* strictly between two axes is the eighth between them; a distance is the *)
(* larger coordinate.                                                      *)
(***************************************************************************)
EXTENDS Integers

PointSet == [x : Int, y : Int]
Headings == -4..4
Quarters == {-2, 0, 2, 4}

Abs(n) == IF n < 0 THEN -n ELSE n
Larger(m, n)  == IF m > n THEN m ELSE n
Smaller(m, n) == IF m < n THEN m ELSE n
Sign(n) == IF n > 0 THEN 1 ELSE IF n < 0 THEN -1 ELSE 0

\* A vector seen from a heading of whole quarters.
Turned(p, yaw) ==
    IF Abs(yaw) = 4 THEN [x |-> -p.x, y |-> -p.y]
    ELSE IF yaw = 2 THEN [x |-> p.y, y |-> -p.x]
    ELSE IF yaw = -2 THEN [x |-> -p.y, y |-> p.x]
    ELSE p

\* A point of the map in the frame of a vehicle.
Relative(p, pose) == Turned([x |-> p.x - pose.x, y |-> p.y - pose.y], pose.yaw)

\* atan2(y, x)
Bearing(p) ==
    IF p.x > 0 THEN Sign(p.y)
    ELSE IF p.x = 0 THEN 2 * Sign(p.y)
    ELSE IF p.y < 0 THEN -3 ELSE 4 - Sign(p.y)

Dist(p) == Larger(Abs(p.x), Abs(p.y))

\* The distance of two points, and a point of a path of another scale.
Apart(p, q) == Dist([x |-> p.x - q.x, y |-> p.y - q.y])
Scaled(k, p) == [x |-> k * p.x, y |-> k * p.y]

\* One correction of an angle towards half a turn either way.
WrapOnce(d) == IF d > 4 THEN d - 8 ELSE IF d < -4 THEN d + 8 ELSE d

\* An age one above its threshold stands for every larger one.
Older(age, threshold) == IF age > threshold THEN age ELSE age + 1
=============================================================================
