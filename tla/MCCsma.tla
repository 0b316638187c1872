------------------------------- MODULE MCCsma -------------------------------
EXTENDS Csma

\* Ranges under which the nodes mix, collide repeatedly, have twins (two
\* nodes that differ by the least common multiple) and, with range 1, are
\* always ready.
MCRanges ==
  {<<1>>, <<2>>, <<4>>, <<2, 4>>, <<4, 2>>, <<3, 5>>, <<1, 2, 3>>, <<2, 3, 4>>}
=============================================================================
