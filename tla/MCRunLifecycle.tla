---------------------------- MODULE MCRunLifecycle ----------------------------
(* A small instance of RunLifecycle for TLC: two streams and the page.      *)
EXTENDS RunLifecycle
=============================================================================
