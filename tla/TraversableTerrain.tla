------------------------- MODULE TraversableTerrain -------------------------
(***************************************************************************)
(* Which cells of an elevation grid carry a climbable transition, a flight *)
(* of stairs for one (traversable_terrain.hpp): a pure algorithm on the    *)
(* elevations of the cells and the points over each.                       *)
(*                                                                         *)
(* Heights and thresholds are integers, say centimetres.  A point is a     *)
(* record whose field z is its height.  The tuning p is a record with the  *)
(* fields of TraversableTerrainParams.                                     *)
(***************************************************************************)
EXTENDS Integers, FiniteSets

CONSTANT Width      \* cells in a row of the square grid

ASSUME WidthAssumption == Width \in Nat

Cells == (0..Width - 1) \X (0..Width - 1)

TuningFields == {"support_band_eps", "min_support_points", "wall_bin_size", "wall_fill_thre",
    "vehicle_height", "seq_length", "flat_eps", "min_seq_rise", "min_step_rise",
    "max_step_rise", "min_significant_steps", "min_width_cells", "width_height_eps",
    "surface_eps"}

\* wall_fill_thre is in percent.
Tunings == {p \in [TuningFields -> Nat] :
    p.seq_length >= 2 /\ p.wall_bin_size > 0 /\ p.vehicle_height > 0}

Abs(n) == IF n < 0 THEN -n ELSE n
Least(a, b) == IF a < b THEN a ELSE b

-----------------------------------------------------------------------------
(***************************************************************************)
(* Support: enough points near the surface, and no wall on top of it.      *)
(***************************************************************************)
Bins(p) == Least(64, (p.vehicle_height + p.wall_bin_size - 1) \div p.wall_bin_size)

\* The last bin also takes what the rounding of the bins' number leaves over.
FilledBins(points, elev, p) ==
    {Least((q.z - elev) \div p.wall_bin_size, Bins(p) - 1) :
        q \in {r \in points : r.z > elev /\ r.z - elev < p.vehicle_height}}

IsWall(points, elev, p) ==
    100 * Cardinality(FilledBins(points, elev, p)) >= p.wall_fill_thre * Bins(p)

\* MarkSupportCells
SupportCells(elev, points, p) ==
    {c \in Cells :
        /\ points[c] # {}
        /\ Cardinality({q \in points[c] : Abs(q.z - elev[c]) <= p.support_band_eps})
             >= p.min_support_points
        /\ ~IsWall(points[c], elev[c], p)}

-----------------------------------------------------------------------------
(***************************************************************************)
(* Transitions: straight runs of support cells that climb in steps.        *)
(***************************************************************************)
Dirs == ((-1..1) \X (-1..1)) \ {<<0, 0>>}

\* The n-th cell from c in direction d.
At(c, d, n) == <<c[1] + n * d[1], c[2] + n * d[2]>>

Rise(elev, c, d, n) == elev[At(c, d, n)] - elev[At(c, d, n - 1)]

\* SequenceMonotonic for the seq_length cells from c in direction d: steps above flat_eps
\* go the way of the whole, none is too high, and enough are high enough to count.
SequenceMonotonic(elev, c, d, p) ==
    LET total == elev[At(c, d, p.seq_length - 1)] - elev[c]
        steps == {n \in 1..p.seq_length - 1 : Abs(Rise(elev, c, d, n)) > p.flat_eps}
    IN /\ Abs(total) >= p.min_seq_rise
       /\ \A n \in steps : /\ Rise(elev, c, d, n) > 0 <=> total > 0
                           /\ Abs(Rise(elev, c, d, n)) <= p.max_step_rise
       /\ Cardinality({n \in steps : Abs(Rise(elev, c, d, n)) >= p.min_step_rise})
            >= p.min_significant_steps

\* Slip: one normal for all diagonals.
CardinalNormal(d) == IF d[1] # 0 THEN <<0, 1>> ELSE <<1, 0>>

Normal(d) == <<-d[2], d[1]>>

\* HasLateralWidth: cells to either side at about the same height.  The cell itself counts.
HasLateralWidth(elev, support, c, d, p) ==
    LET level == {n \in (-p.min_width_cells..p.min_width_cells) \ {0} :
                    /\ At(c, Normal(d), n) \in support
                    /\ Abs(elev[At(c, Normal(d), n)] - elev[c]) <= p.width_height_eps}
    IN 1 + Cardinality(level) >= p.min_width_cells

IsRun(elev, support, c, d, p) ==
    /\ \A n \in 0..p.seq_length - 1 : At(c, d, n) \in support
    /\ SequenceMonotonic(elev, c, d, p)
    /\ \A n \in 0..p.seq_length - 1 : HasLateralWidth(elev, support, At(c, d, n), d, p)

\* MarkTransitionCells
TransitionCells(elev, support, p) ==
    UNION {{At(r[1], r[2], n) : n \in 0..p.seq_length - 1} :
             r \in {q \in support \X Dirs : IsRun(elev, support, q[1], q[2], p)}}

-----------------------------------------------------------------------------
(***************************************************************************)
(* Release of points over a transition.                                    *)
(***************************************************************************)
Free == -1          \* kTransitionFreeIntensity

\* The heights NeighborSupportElevRange takes the least and the greatest of.
AdjacentElevs(elev, support, c) ==
    {elev[b] : b \in {c} \cup {a \in support : Abs(a[1] - c[1]) <= 1 /\ Abs(a[2] - c[2]) <= 1}}

\* PointIntensity, of a point at height z over cell c
PointIntensity(z, c, elev, support, transition, p) ==
    LET between == /\ \E e \in AdjacentElevs(elev, support, c) : z >= e - p.surface_eps
                   /\ \E e \in AdjacentElevs(elev, support, c) : z <= e + p.surface_eps
    IN IF c \in transition /\ between THEN Free ELSE Abs(z - elev[c])
=============================================================================
