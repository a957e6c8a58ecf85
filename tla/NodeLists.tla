----------------------------- MODULE NodeLists -----------------------------
(***************************************************************************)
(* The navigation nodes of the FAR planner and what their lists and vote   *)
(* queues are made of (dynamic_graph.h, dynamic_graph.cpp, utility.cpp).   *)
(*                                                                         *)
(* A list that every node keeps of other nodes (connect_nodes, ...) is a   *)
(* set of ordered pairs: <<a, b>> says that b is in a's list, and nothing  *)
(* says that a is in b's.  A map of vote queues is a function on pairs;    *)
(* the empty queue stands for an absent entry.                             *)
(***************************************************************************)
EXTENDS Integers, Sequences, FiniteSets

CONSTANTS
    Odom,           \* the node of the robot
    Corners,        \* nodes made from contour vertices
    NavPoints,      \* nodes made from the robot's own trajectory
    Goals           \* nodes made for a goal

Node == {Odom} \cup Corners \cup NavPoints \cup Goals
Pairs == Node \X Node

ASSUME NodeAssumption ==
    /\ Odom \notin Corners \cup NavPoints \cup Goals
    /\ Corners \cap NavPoints = {} /\ Corners \cap Goals = {} /\ NavPoints \cap Goals = {}

Flip(p) == <<p[2], p[1]>>

\* A pair, or the same pair seen from its other end, is one of P.
EitherWay(p, P) == p \in P \/ Flip(p) \in P

\* One node's list.
Of(R, n) == {m \in Node : <<n, m>> \in R}

\* The nodes some list mentions.
Mentioned(R) == {p[1] : p \in R} \cup {p[2] : p \in R}

\* AddEdge, AddPolyEdge, AddContourConnect: both lists grow, unless either already has
\* the other node.
Added(R, P) ==
    LET new == {p \in P : ~EitherWay(p, R)} IN R \cup new \cup {Flip(p) : p \in new}

\* EraseEdge, ErasePolyEdge, DeleteContourConnect: both lists shrink.
Erased(R, P) == {p \in R : ~EitherWay(p, P)}

\* Slip: the nodes' own lists only.
ClearedOneSided(R, M) == {p \in R : p[1] \notin M}

\* Clearing nodes: their own lists are emptied, and they are erased from the lists of
\* the nodes their own lists name.
Cleared(R, M) == {p \in R : p[1] \notin M /\ (p[2] \in M => Flip(p) \notin R)}

-----------------------------------------------------------------------------
Votes == Seq({0, 1})
NoVotes == [p \in Pairs |-> <<>>]

Ones(q) == Cardinality({k \in DOMAIN q : q[k] = 1})

\* IsVoteTrue: more than a half (a third) of the votes are for it.
IsVoteTrue(q, part) == Ones(q) > Len(q) \div part

Untrimmed(q, size) == q         \* slip: the oldest vote is kept
Trimmed(q, size) == IF Len(q) > size THEN Tail(q) ELSE q

\* Both ends keep a queue for the pair.
HaveVotes(v, p) == v[p] # <<>> /\ v[Flip(p)] # <<>>

\* RecordPolygonVote, RecordContourVote: a first vote starts the queues.
RecordVote(v, P, size) ==
    [p \in Pairs |->
        IF ~EitherWay(p, P) THEN v[p]
        ELSE IF HaveVotes(v, p) THEN Trimmed(Append(v[p], 1), size[p])
        ELSE IF v[p] = <<>> THEN <<1>> ELSE v[p]]

\* The pairs a vote is the first for: their ends become potential neighbours.
FirstVote(v, P) == {p \in P : ~HaveVotes(v, p)}

\* DeletePolygonVote, DeleteContourVote: a vote against what has been voted for before.
DeleteVote(v, P, size) ==
    [p \in Pairs |->
        IF EitherWay(p, P) /\ HaveVotes(v, p) THEN Trimmed(Append(v[p], 0), size[p])
        ELSE v[p]]

\* ResetPolygonVotes, ResetContourVotes: the queues between nodes and their potential
\* neighbours shrink to one vote, for what has won so far.
ResetVotes(v, potential, nodes, part) ==
    [p \in Pairs |->
        IF \/ p[1] \in nodes /\ p \in potential
           \/ p[2] \in nodes /\ Flip(p) \in potential
        THEN IF IsVoteTrue(v[p], part) THEN <<1>> ELSE <<0>>
        ELSE v[p]]

\* Slip: only the cleared nodes' own queues go.
ClearedVotesOneSided(v, potential, M) == [p \in Pairs |-> IF p[1] \in M THEN <<>> ELSE v[p]]

\* The queues that go with cleared nodes: their own, and those the nodes of their
\* potential lists keep for them.
ClearedVotes(v, potential, M) ==
    [p \in Pairs |-> IF p[1] \in M \/ (p[2] \in M /\ Flip(p) \in potential) THEN <<>> ELSE v[p]]
=============================================================================
