------------------------------- MODULE MCLimiter -------------------------------
(***************************************************************************)
(* Small instances of BucketLimiter for TLC: a base limit of one token per *)
(* second and two tokens, in half tokens, and the same at half the factor. *)
(***************************************************************************)
EXTENDS BucketLimiter, TLC

MCLimits == {[rate |-> 2, capacity |-> 4], [rate |-> 1, capacity |-> 2]}

Symmetry == Permutations(Tasks) \union Permutations(Proxies)

===============================================================================
