----------------------------- MODULE MCConexion -----------------------------
(* Clients for TLC; they start alike, so any permutation of them is a      *)
(* symmetry of the safety properties.                                      *)
EXTENDS Conexion, TLC

Simetria == Permutations(Clientes)
=============================================================================
