---------------------------- MODULE MCScanSession ----------------------------
(* Bounds for ScanSession: small grids of every shape the code             *)
(* distinguishes, on a machine with few DAC values.                        *)
EXTENDS ScanSession

Grid(x, y, mx, my, m, dir) ==
    [startX |-> x, startY |-> y, direction |-> dir,
     maxX |-> mx, maxY |-> my, multiplicator |-> m]

OneWay == {
    Grid(0, 0, 2, 1, 1, FALSE),   \* the ordinary scan
    Grid(1, 1, 2, 2, 1, FALSE),   \* started inside the grid
    Grid(0, 0, 1, 0, 3, FALSE),   \* one row; the DAC value wraps
    Grid(0, 1, 0, 2, 1, FALSE)}   \* one column

TwoWay == {
    Grid(0, 0, 2, 1, 1, TRUE),    \* even number of rows: ends moving left
    Grid(0, 0, 1, 2, 1, TRUE),    \* odd number of rows
    Grid(0, 1, 0, 2, 1, TRUE)}    \* one column

\* Start indices beyond the grid, which no code rejects.
Malformed == {
    Grid(2, 0, 1, 1, 1, FALSE),
    Grid(0, 2, 1, 0, 1, FALSE),
    Grid(2, 1, 1, 0, 1, TRUE)}

MCParameterSets == OneWay \cup TwoWay \cup Malformed

MCTipDacs == {<<0, 7>>}

\* The sets of the violation runs: one ordinary grid each.
MCOneGrid == {Grid(0, 0, 1, 1, 1, FALSE)}
MCTwoWayGrid == {Grid(0, 0, 1, 1, 1, TRUE)}
=============================================================================
