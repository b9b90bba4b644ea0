---------------------------- MODULE MCDXEndpoint ----------------------------
(***************************************************************************)
(* Small instances of DXEndpoint.                                          *)
(***************************************************************************)
EXTENDS DXEndpointProperties, TLC

Symmetry == Permutations(Clients) \union Permutations(Callbacks)
=============================================================================
