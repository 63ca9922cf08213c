---- MODULE MCAccessTokens ----
(* A small instance of AccessTokens. *)
EXTENDS AccessTokens, TLC

Symmetry == Permutations(Tokens \ LoginTokens) \cup Permutations(Requests)
====
