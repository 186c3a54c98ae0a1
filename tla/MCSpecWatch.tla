---------------------------- MODULE MCSpecWatch ----------------------------
EXTENDS SpecWatch
CONSTANTS k1, k2, u1, v1, v2, bad
MCSources == <<u1>>
MCAdditive == {<<v1, v2>>, <<v2, v1>>}
=============================================================================
