-------------------------- MODULE MCOperacionDurable --------------------------
(* Three requests carrying any of two actions, so that retries, reuses of a *)
(* key and independent operations on the one class all meet.                *)
EXTENDS OperacionDurable, TLC

CONSTANTS i1, i2, i3, a1, a2, ana, bruno

MCIntentos == {i1, i2, i3}
MCAcciones == {a1, a2}
MCSimetria == Permutations(MCIntentos) \cup Permutations(MCAcciones)
                \cup Permutations({ana, bruno})
=============================================================================
