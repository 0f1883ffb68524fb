---------------------------- MODULE MCTokenStore ----------------------------
(* Small instances of TokenStore for TLC. *)
EXTENDS TokenStore, TLC

Symmetry ==
  Permutations(Requests) \union Permutations(Instances) \union Permutations(Tokens)
=============================================================================
