------------------------- MODULE MCStatisticsStream -------------------------
EXTENDS StatisticsStream, TLC

MCSymmetry == Permutations(Consumer)
=============================================================================
