--------------------------------- MODULE MCHttp ---------------------------------
EXTENDS Http

\* A file of more than one piece, and one of a whole number of pieces with a
\* zero byte in the first.
MCFiles == [p \in {"a", "b"} |->
  IF p = "a" THEN <<"x", "y", "z">> ELSE <<"x", "NUL", "u", "v">>]
=================================================================================
