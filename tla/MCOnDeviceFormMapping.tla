----------------------- MODULE MCOnDeviceFormMapping ------------------------
(* OnDeviceFormMapping for TLC: the form of DefaultFormDefinitionProvider   *)
(* (name, problem, learning).  x and y mean the same, z is something else;  *)
(* y is too long for a name, and a learning cut down to its best clause     *)
(* turns y into z.                                                          *)
EXTENDS OnDeviceFormMapping

CONSTANTS x, y, z, nx, nz

ThreeTexts == {x, y, z}
ThreeNorms == {nx, nz, NoNorm}
NormOf == [t \in Texts |-> IF t = z THEN nz ELSE nx]
NameFirst == {1}
CutLearning == [p \in Fields \X Texts |-> IF p[1] = 3 /\ p[2] = y THEN z ELSE p[2]]
NotTooLong == (Fields \X Texts) \ {<<1, y>>}
=============================================================================
