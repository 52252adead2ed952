------------------------------- MODULE MCService -------------------------------
(***************************************************************************)
(* Two processes, an old release and a new one, a schema of two migrations, *)
(* of which the second builds an index, and a limit of one request, so that *)
(* every counter that is lost shows.                                        *)
(***************************************************************************)
EXTENDS Service, TLC

RequestSymmetry == Permutations(Requests) \cup Permutations(Customers)
================================================================================
