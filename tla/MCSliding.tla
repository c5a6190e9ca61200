------------------------------- MODULE MCSliding -------------------------------
(***************************************************************************)
(* Small instances of SlidingWindow for TLC: a base limit of two requests  *)
(* per window, and the same at three quarters of it.                       *)
(***************************************************************************)
EXTENDS SlidingWindow, TLC

MCLimits == {2 * Window, (3 * Window) \div 2}

Symmetry == Permutations(Tasks) \union Permutations(Proxies)

===============================================================================
