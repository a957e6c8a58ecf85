---------------------------- MODULE MCFarPlanner ----------------------------
(***************************************************************************)
(* Instance of FarPlanner: a corridor round a block, N places in a ring,   *)
(* with a node of the graph at every corner and two doors, one on either   *)
(* side.  A view says of each door whether the graph has it closed,        *)
(* unknown, or open and covered.                                           *)
(***************************************************************************)
EXTENDS FarPlanner

CONSTANTS N, Corners, Doors   \* door d is between the places d and d + 1

MCPlaces == 0..(N - 1)
MCViews  == [Doors -> {"closed", "unknown", "open"}]
MCModes  == {"attempt", "free"}

\* Steps from p to q one way round (1) or the other (-1).
Steps(p, q, way) == ((q - p) * way) % N

Walk(p, q, way) == [k \in 1..Steps(p, q, way) |-> (p + k * way) % N]

\* The doors met on the way.
Met(p, q, way) ==
    {d \in Doors : \E k \in 1..Steps(p, q, way) :
        d = IF way = 1 THEN (p + k - 1) % N ELSE (p - k) % N}

Nearer(p, q) == IF Steps(p, q, 1) <= Steps(p, q, -1) THEN 1 ELSE -1

Passable(v, m, p, q, way) ==
    \A d \in Met(p, q, way) : v[d] \in (IF m = "free" THEN {"open"} ELSE {"open", "unknown"})

Nodes(p, q, way) == SelectSeq(Walk(p, q, way), LAMBDA r : r \in Corners \cup {q})

MCRoute ==
    [v \in MCViews |-> [m \in MCModes |-> [p \in MCPlaces |-> [q \in Goals |->
        LET way == Nearer(p, q) IN
        IF Passable(v, m, p, q, way) THEN Nodes(p, q, way)
        ELSE IF Passable(v, m, p, q, -way) THEN Nodes(p, q, -way) ELSE <<>>]]]]

MCDist ==
    [p \in MCPlaces |-> [q \in MCPlaces |-> Steps(p, q, Nearer(p, q))]]

MCHeading ==
    [p \in MCPlaces |-> [q \in MCPlaces |-> IF p = q THEN 0 ELSE Nearer(p, q)]]

MCAdvance ==
    [v \in MCViews |-> [p \in MCPlaces |-> [q \in MCPlaces |->
        LET next == (p + Nearer(p, q)) % N IN
        IF p = q \/ ~Passable(v, "attempt", p, next, Nearer(p, q)) THEN p ELSE next]]]
=============================================================================
