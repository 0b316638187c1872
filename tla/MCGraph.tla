--------------------------------- MODULE MCGraph ---------------------------------
EXTENDS Graph

\* Every pair of three nodes, and a node that is not in the topology.
AllPairs ==
  << <<1, 2>>, <<1, 3>>, <<2, 1>>, <<2, 3>>, <<3, 1>>, <<3, 2>>, <<1, 1>>, <<1, 9>>, <<9, 1>> >>

\* Some pairs of four nodes.
SomePairs == << <<2, 4>>, <<4, 1>>, <<3, 2>>, <<2, 3>> >>
==================================================================================
