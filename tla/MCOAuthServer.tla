----------------------------- MODULE MCOAuthServer -----------------------------
(* OAuthServer with two concurrent requests, clients and posts, and three keys, for TLC. *)
EXTENDS OAuthServer, TLC

CONSTANTS a, b

MCClients == {a, b}
MCAssertions == {<<a, 1, 2>>, <<a, 2, 4>>, <<b, 1, 3>>}
Symmetry == 
  Permutations(Requests) \cup Permutations(Keys) \cup Permutations(Posts)
=============================================================================
