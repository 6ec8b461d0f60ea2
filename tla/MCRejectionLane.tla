-------------------------- MODULE MCRejectionLane --------------------------
EXTENDS RejectionLane, TLC

CONSTANTS d1, d2, d3

TwoDeliveries == {d1, d2}
ThreeDeliveries == {d1, d2, d3}
Symmetry == Permutations(Delivery)
=============================================================================
