--------------------------- MODULE MCProxyFronts ---------------------------
(* Instance of ProxyFronts for TLC: two SOCKS sessions, one of each kind,  *)
(* or two HTTP sessions, under a limit of two or of none.                  *)
EXTENDS ProxyFronts

CONSTANTS a, b

MCSessions == {a, b}

MCCallers == MCSessions \cup {Warmer}

MCLoads ==
    {[s \in MCSessions |-> IF s = a THEN "connect" ELSE "udp"],
     [s \in MCSessions |-> "page"]}
=============================================================================
