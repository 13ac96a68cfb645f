------------------------------ MODULE MCVisitorSessions ------------------------------
(* Small instances of VisitorSessions for TLC.                              *)
EXTENDS VisitorSessions, TLC

\* A plain line, a flipped line that wants two frames, an inactive and an ill-formed one.
Plain == [flip |-> FALSE, active |-> TRUE, valid |-> TRUE, min |-> 1]
DashboardSettings ==
    {Plain, [Plain EXCEPT !.flip = TRUE, !.min = 2], [Plain EXCEPT !.active = FALSE],
     [Plain EXCEPT !.valid = FALSE]}

MCSymmetry == Permutations(Visitors)
=============================================================================
