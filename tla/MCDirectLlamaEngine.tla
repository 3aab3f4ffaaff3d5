------------------------ MODULE MCDirectLlamaEngine -------------------------
(* DirectLlamaEngine for TLC: a warm-up or a self-test beside a mapping.   *)
EXTENDS DirectLlamaEngine

CONSTANTS c1, c2, c3

TwoCalls == {c1, c2}
ThreeCalls == {c1, c2, c3}
=============================================================================
