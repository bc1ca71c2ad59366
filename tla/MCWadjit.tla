----------------------------- MODULE MCWadjit -----------------------------
(* Three watchers, two of which share an ID: duplicate and repeated adds. *)
EXTENDS Wadjit

TwoWatchers == {"w1", "w2"}
ThreeWatchers == {"w1", "w2", "w3"}
TwoIDs == {"A", "B"}

MixedID == [w \in ThreeWatchers |-> IF w = "w3" THEN "B" ELSE "A"]
DistinctIDs == [w \in TwoWatchers |-> IF w = "w1" THEN "A" ELSE "B"]
============================================================================
