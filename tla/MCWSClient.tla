----------------------------- MODULE MCWSClient -----------------------------
(* WSClient on small instances.                                            *)
EXTENDS WSClient

CONSTANTS s1, s2, p1, p2

TwoSessions == {s1, s2}
OneCaller == {p1}
TwoCallers == {p1, p2}
=============================================================================
