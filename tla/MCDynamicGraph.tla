--------------------------- MODULE MCDynamicGraph ---------------------------
(* Instances of the graph for TLC. *)
EXTENDS DynamicGraph

CONSTANTS odom, c1, c2, c3, n1, n2, g1, g2

View(near_, margin_, matched_) == [near |-> near_, margin |-> margin_, matched |-> matched_]

MCContourViews ==
    {View({odom, n1, c1, c2}, {}, {c1, c2}), View({odom, c1, c3}, {}, {c3})}
MCContourSight == {{c1, c2}}
MCContourOutline == {{c1, c2}, {c2, c3}}

\* Without goals of their own no step reads the traversability flags: states that differ in
\* nothing else are one state.
MCContourState ==
    <<graph, cur, currentGraph, goal, flagged, lists, dumper, out, scan, todo, phase>>

MCGoalViews ==
    {View({odom, n1}, {}, {}), View({odom, n1, n2}, {}, {})}
MCGoalSight == {{odom, n1}, {n1, g1}, {g1, g2}}
=============================================================================
