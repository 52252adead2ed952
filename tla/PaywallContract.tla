--------------------------- MODULE PaywallContract ---------------------------
(***************************************************************************)
(* What the paywall promises, with no handler, table or provider in sight: *)
(* a run becomes readable only as a free-trial run, in the wake of a       *)
(* checkout its owner completed, or by a checkout for that very run; a     *)
(* checkout stays completed and a readable run is never closed again.      *)
(***************************************************************************)
CONSTANTS Users, Runs

VARIABLES
    owner,      \* the owner of every launched run
    readable,   \* launched runs whose output is open
    trial,      \* launched runs that were free
    checkedOut  \* runs with a checkout that some provider has completed

promise == <<owner, readable, trial, checkedOut>>

Launched == DOMAIN owner

Init ==
    /\ owner = [r \in {} |-> {}]
    /\ readable = {} /\ trial = {} /\ checkedOut = {}

CheckOut(r) ==
    /\ r \in Launched
    /\ checkedOut' = checkedOut \cup {r}
    /\ UNCHANGED <<owner, readable, trial>>

Launch(r, u, free, open) ==
    /\ r \notin Launched
    /\ open => free \/ \E q \in checkedOut : owner[q] = u
    /\ owner' = [q \in Launched \cup {r} |-> IF q = r THEN u ELSE owner[q]]
    /\ trial' = IF free THEN trial \cup {r} ELSE trial
    /\ readable' = IF open THEN readable \cup {r} ELSE readable
    /\ UNCHANGED checkedOut

Open(r) ==
    /\ r \in checkedOut
    /\ readable' = readable \cup {r}
    /\ UNCHANGED <<owner, trial, checkedOut>>

Next ==
    \E r \in Runs :
        \/ CheckOut(r) \/ Open(r)
        \/ \E u \in Users, free, open \in BOOLEAN : Launch(r, u, free, open)

Spec == Init /\ [][Next]_promise
=============================================================================
