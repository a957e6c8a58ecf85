--------------------------- MODULE MCLocalPlanner ---------------------------
(***************************************************************************)
(* Instances of LocalPlanner.  Paths of scale 1 are four units long and    *)
(* two wide, the scale is 2 or 1, so full speed shrinks the scale once and *)
(* the range twice.  Clouds: nothing, a wall around the front, two points  *)
(* close by with one far to the side, one ahead with two close behind.     *)
(***************************************************************************)
EXTENDS LocalPlanner

P(a, b) == [x |-> a, y |-> b]
Joy(a3, a4, w, i) == [axis3 |-> a3, axis4 |-> a4, waypoint |-> w, ignore |-> i]

MCPoses == {[x |-> 0, y |-> 0, yaw |-> 0], [x |-> 3, y |-> 0, yaw |-> 2]}
MCGoals == {P(4, 0), P(-2, 5)}
MCJoys == {Joy(0, 0, TRUE, FALSE), Joy(0, 9, FALSE, FALSE), Joy(1, 1, FALSE, TRUE),
           Joy(1, -1, FALSE, FALSE)}
MCSpeeds == {-1, 1, 9}
Wall == {P(5, b) : b \in {-2, -1, 1, 2}} \cup {P(a, b) : a \in 1..2, b \in {-5, 5}}
MCClouds == {{}, Wall, {P(2, 1), P(2, 0), P(0, 7)}, {P(3, -2), P(-1, 0), P(-1, 1)}}
MCBoundaries == {{}, {P(4, 3)}}
MCAdditions == {{}, {P(3, -1)}}
MCStartPath == <<P(0, 0), P(1, 0), P(2, 0)>>
MCBranch == [e \in {-1, 0, 1} |-> {P(3, e), P(4, 2 * e)}]
=============================================================================
