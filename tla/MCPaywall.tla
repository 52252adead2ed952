------------------------------ MODULE MCPaywall ------------------------------
(* Small instances of Paywall for TLC.                                     *)
EXTENDS Paywall, TLC

Interchangeable ==
    Permutations(Users) \cup Permutations(Runs) \cup Permutations(Sessions)

WebhookSpec == Spec /\ WebhookFairness
PollingSpec == Spec /\ WebhookFairness /\ PollingFairness
=============================================================================
