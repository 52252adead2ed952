------------------------------ MODULE MCRunEditor ------------------------------
(* Three edit requests of one run, two sections of which the resume has one,  *)
(* and two variants.                                                          *)
EXTENDS RunEditor, TLC

AnyRequest == Permutations(Requests)
================================================================================
