---------------------------- MODULE MCDistanceVector ----------------------------
EXTENDS DistanceVector, MCGraph
=================================================================================
