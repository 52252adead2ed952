------------------------------ MODULE DraftReview ------------------------------
(***************************************************************************)
(* What the retry loop of the agent graph promises: every draft written is  *)
(* reviewed before another one is, an accepted draft is the last, a         *)
(* rejected one is written again until the tries are spent, and from then   *)
(* on nothing is written.  What becomes of a draft that was rejected on     *)
(* the last try is no part of it.                                           *)
(***************************************************************************)
EXTENDS Naturals

CONSTANT Tries      \* drafts written before the graph stops asking

VARIABLES
    stage,      \* where the draft is
    tries,      \* drafts submitted for review
    accepted    \* the last review accepted the draft

vars == <<stage, tries, accepted>>

Init == stage = "writing" /\ tries = 0 /\ accepted = FALSE

Submit ==
    /\ stage = "writing" /\ tries < Tries
    /\ stage' = "review" /\ tries' = tries + 1
    /\ UNCHANGED accepted

Accept == stage = "review" /\ stage' = "over" /\ accepted' = TRUE /\ UNCHANGED tries

Reject ==
    /\ stage = "review"
    /\ stage' = IF tries < Tries THEN "writing" ELSE "over"
    /\ accepted' = FALSE
    /\ UNCHANGED tries

\* The inputs are refused, or a call raises.
GiveUp == stage # "over" /\ stage' = "over" /\ UNCHANGED <<tries, accepted>>

Next == Submit \/ Accept \/ Reject \/ GiveUp

Spec == Init /\ [][Next]_vars
================================================================================
