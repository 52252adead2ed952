------------------------------ MODULE MCAccounts ------------------------------
(* Two overlapping requests, three users and sign-ins, two devices, and two    *)
(* Cognito accounts either of which may have verified either of two addresses. *)
EXTENDS Accounts, TLC

Interchangeable == Permutations(Requests) \cup Permutations(Users) \cup Permutations(Tokens)
                     \cup Permutations(Devices) \cup Permutations(Addresses)
                     \cup Permutations(Identities)
================================================================================
