------------------------------- MODULE MCPaths -------------------------------
\* The chain weighs more than the radio; every call is for the first one.
EXTENDS Paths
MCGravity == [i \in Ifs |-> IF i = "chain" THEN 10 ELSE 0]
MCWants == [c \in Calls |-> 1]
=============================================================================
