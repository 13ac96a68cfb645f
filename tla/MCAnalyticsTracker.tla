------------------------------ MODULE MCAnalyticsTracker ------------------------------
(* Small instances of AnalyticsTracker for TLC.                             *)
EXTENDS AnalyticsTracker, TLC

\* A concave area, and a line in front of it; one place inside the area and one in its notch.
Area == [shape |-> "polygon", points |-> <<<<0, 0>>, <<8, 0>>, <<8, 8>>, <<4, 2>>, <<0, 8>>>>]
Door == [shape |-> "line", points |-> <<<<0, 2>>, <<8, 2>>>>]
MCZones == {Area, Door}
MCPlaces == {<<3, 1>>, <<4, 5>>}

MCSymmetry == Permutations(Tracks)
=============================================================================
