------------------------- MODULE MCConnectionPool -------------------------
(* Instances of ConnectionPool for TLC.                                    *)
EXTENDS ConnectionPool

CONSTANTS t1, t2, t3, c1, c2

MCThreads     == {t1, t2, t3}
MCConnections == {c1, c2}
=============================================================================
