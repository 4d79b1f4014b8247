---------------------------- MODULE MCUlBlanking ----------------------------
EXTENDS UlBlanking, TLC

\* Nothing blanked, and a range that takes two of the six PRBs left by PUCCH.
MCPairs  == {<<0, 0>>, <<3, 4>>}

\* One range, sent again and again.
MCSamePair == {<<3, 4>>}

\* A range that goes past the carrier's last PRB, as retained_range shows the radarxApp to send one: RangeWithinCarrier fails.
MCWidePairs == {<<0, 0>>, <<5, 8>>}

Symmetry == Permutations(Ues)
=============================================================================
