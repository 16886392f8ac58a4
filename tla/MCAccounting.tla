---------------------------- MODULE MCAccounting ----------------------------
(***************************************************************************)
(* Instances of Accounting for TLC: two access servers with one session    *)
(* each; alice pays by the minute, bob by the month, carol by the minute   *)
(* but without a credit attribute, and mallory is not a user.              *)
(***************************************************************************)
EXTENDS Accounting, TLC

CONSTANTS nas1, nas2, s1, alice, bob, carol, mallory

MCPolicy == [u \in Users |-> IF u = bob THEN "month" ELSE "timelen"]
MCPrice == [u \in Users |-> IF u = carol THEN 0 ELSE 120]
MCInitialCredit == [u \in CreditUsers |-> 3]

Req(kind, client, user, time) ==
  [kind |-> kind, client |-> client, session |-> s1, user |-> user,
   timed |-> time # Missing, time |-> time]

(* Every kind of request, for a session of alice and one of bob, and Stops  *)
(* for every kind of user.  60 seconds cost 2, 61 cost 4 and -3659, which   *)
(* an access server sends as a number above MaxInt, -120.                   *)
MCRequests ==
  {Req("start", nas1, alice, Missing), Req("interim", nas1, alice, 60),
   Req("stop", nas1, alice, 61), Req("stop", nas2, alice, 60),
   Req("stop", nas2, alice, -3659),
   Req("start", nas2, bob, Missing), Req("stop", nas2, bob, 60),
   Req("stop", nas2, carol, 60), Req("stop", nas2, mallory, 60),
   Req("interim", nas2, mallory, Missing), Req("on", nas1, mallory, Missing),
   Req("off", nas2, mallory, Missing)}

TaskSymmetry == Permutations(Tasks)
=============================================================================
