---------------------------- MODULE MCTaskSettles ----------------------------
(***************************************************************************)
(* Task runs while deliverers renew their leases in time and callers do    *)
(* not fail, whatever deliverers crash: does every run settle?             *)
(***************************************************************************)
EXTENDS RunEngine

CONSTANTS e1, w1, w2, c1
=============================================================================
