------------------------ MODULE MCTerrainAnalysisExt ------------------------
(***************************************************************************)
(* Instance of TerrainAnalysisExt: a grid of five by five cells.  A cloud  *)
(* is a floor that is level, climbs or falls in equal steps, and is level  *)
(* again, along one axis; whole, one strip wide, with a hole under the     *)
(* vehicle, or with a wall on one cell.                                    *)
(***************************************************************************)
EXTENDS TerrainAnalysisExt

\* The height at n of k flat cells, then m steps of height h.
Profile(k, m, h, n) == h * (IF n < k THEN 0 ELSE IF n - k < m THEN n - k ELSE m)

Floor(k, m, h) == [a \in Positions |-> {Profile(k, m, h, a[1])}]

Kept(F, P(_)) == [a \in Positions |-> IF P(a) THEN F[a] ELSE {}]

Shapes(F) ==
    LET Strip(a) == a[2] \in 0..1
        Around(a) == ~Near(a, Centre, 1)
    IN {F, Kept(F, Strip), Kept(F, Around), [F EXCEPT ![<<3, 3>>] = @ \cup {10, 20, 30, 40, 60}]}

Sideways(F) == [a \in Positions |-> F[<<a[2], a[1]>>]]

\* Diagonal stairs, and bands of them: neighbours are within the support band, and a step
\* along the diagonal, twice as high, counts.
Diagonal(h) == [a \in Positions |-> {h * (a[1] + a[2])}]
Bands(F) == LET Lower(a) == a[1] - a[2] \in {0, 1}
                Upper(a) == a[1] - a[2] \in -2..0 /\ a # <<1, 2>>
            IN {F, Kept(F, Lower), Kept(F, Upper)}

Floors == {Floor(k, m, h) : k \in {0, 2}, m \in {1, 4}, h \in {-15, 9, 15, 30, 250}}

MCClouds == UNION {Shapes(F) : F \in Floors} \cup UNION {Shapes(Sideways(F)) : F \in Floors}
            \cup Bands(Diagonal(6))
MCLocalMaps == {{[at |-> Centre, z |-> 0, intensity |-> 0], [at |-> <<4, 4>>, z |-> 0, intensity |-> 0]}}

MCTuning == [support_band_eps |-> 6, min_support_points |-> 3, wall_bin_size |-> 10,
    wall_fill_thre |-> 55, vehicle_height |-> 60, seq_length |-> 4, flat_eps |-> 8,
    min_seq_rise |-> 10, min_step_rise |-> 10, max_step_rise |-> 25,
    min_significant_steps |-> 2, min_width_cells |-> 2, width_height_eps |-> 8,
    surface_eps |-> 6]
MCUnderVehicle == -75

\* Between two turns of the loop nothing reads the grid, and the next turn begins by
\* clearing it: states that differ only there are one.
MCView == IF phase = "idle" THEN <<params, inputs, visited = <<>>>> ELSE vars
=============================================================================
