--------------------------- MODULE MCPathFollower ---------------------------
(***************************************************************************)
(* Instance of PathFollower.  Paths start at the origin of their frame:    *)
(* one point (no path found) or two.  Poses: at the start of a path, and   *)
(* past it, turned around on a slope: a path sent from the one lies behind *)
(* the vehicle of the other.  A step of acceleration (2) does not divide   *)
(* the maximum speed (5).                                                  *)
(***************************************************************************)
EXTENDS PathFollower

Point(a, b) == [x |-> a, y |-> b]
Pose(a, h, t) == [x |-> a, y |-> 0, yaw |-> h, tilted |-> t, rocking |-> t]
Joy(a3, a4, w, m) == [axis0 |-> 1, axis3 |-> a3, axis4 |-> a4, waypoint |-> w, manual |-> m]

MCPoses == {Pose(0, 0, FALSE), Pose(1, 4, TRUE)}
MCPaths == {<<Point(0, 0)>>, <<Point(0, 0), Point(4, 0)>>}
MCJoys  == {Joy(0, 0, TRUE, FALSE), Joy(1, 9, FALSE, FALSE), Joy(0, -5, FALSE, TRUE)}
MCSpeeds == {-1, 9}
MCStops  == {{}, {"fwd", "bwd"}}
=============================================================================
