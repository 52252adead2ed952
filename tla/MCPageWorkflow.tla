---------------------------- MODULE MCPageWorkflow ----------------------------
(* Two runs, a resume, a job description, and four events: what the user does *)
(* and what goes wrong.                                                       *)
EXTENDS PageWorkflow, TLC
================================================================================
