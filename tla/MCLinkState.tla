------------------------------ MODULE MCLinkState ------------------------------
EXTENDS LinkState, MCGraph
================================================================================
