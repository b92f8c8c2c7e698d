---------------------------- MODULE MCRunControl ----------------------------
(* Bounds for RunControl.                                                  *)
EXTENDS RunControl

Grid(mx, my, dir) ==
    [startX |-> 0, startY |-> 0, direction |-> dir,
     maxX |-> mx, maxY |-> my, multiplicator |-> 1]

\* The last one starts beyond the grid: it scans row 7 and row 0.
MCThreeWays ==
    {Grid(1, 1, FALSE), Grid(1, 1, TRUE), [Grid(1, 0, TRUE) EXCEPT !.startY = 7]}
MCOneRow == {Grid(1, 0, FALSE)}
MCTipDacs == {<<0, 7>>}

MCMeasureStop == {"MEASURE", "STOP"}
MCMeasureOnly == {"MEASURE"}
MCScanning == {"MEASURE", "PARAMETER", "STOP"}
MCAllModes == {"MEASURE", "TUNNEL", "ADJUST", "TIP", "STOP"}
=============================================================================
