-------------------------- MODULE MCAuthentication --------------------------
(***************************************************************************)
(* Instances of Authentication for TLC, with ints of 16 bits: dave is      *)
(* bound to an address and limited to one session; erin pays by the minute *)
(* and her account ends today; frank may be online at night, harry in the  *)
(* morning, and his credit is too large for the product; gail has a price  *)
(* of 0; ivan pays by the minute and has no credit attribute; kate's       *)
(* account has ended; mallory, who is not a user, stands for every request *)
(* that is refused before the limit.                                       *)
(***************************************************************************)
EXTENDS Authentication, TLC

CONSTANTS dave, erin, frank, gail, harry, ivan, kate, mallory, m1, m2

Plain ==
  [barred |-> FALSE, limit |-> 0, bindMac |-> FALSE, maxTime |-> 300,
   expiry |-> "never", period |-> NoPeriod, prepaid |-> FALSE, price |-> 120,
   hasCredit |-> FALSE, credit |-> 0]
PrePaid(fen) == [Plain EXCEPT !.prepaid = TRUE, !.hasCredit = TRUE, !.credit = fen]

MCAccount ==
  dave :> [Plain EXCEPT !.limit = 1, !.bindMac = TRUE] @@
  erin :> [PrePaid(3) EXCEPT !.expiry = "today"] @@
  frank :> [Plain EXCEPT !.period = [from |-> 22 * 60, to |-> 6 * 60]] @@
  gail :> [PrePaid(3) EXCEPT !.price = 0] @@
  harry :> [PrePaid(10) EXCEPT !.maxTime = 600,
                               !.period = [from |-> 8 * 60, to |-> 12 * 60]] @@
  ivan :> [Plain EXCEPT !.prepaid = TRUE] @@
  kate :> [Plain EXCEPT !.expiry = "past"]

Login(u, m) == [user |-> u, mac |-> m, rightPassword |-> TRUE]

MCRequests ==
  {Login(dave, m) : m \in {m1, m2, NoMac}} \cup
  {Login(u, NoMac) : u \in UserNames \ {dave}}

(* The last minute of harry's period, the last but one second of a day and  *)
(* the first of the next.                                                   *)
MCTimes == {43230, 86398, 86400}

MCSymmetry == Permutations(Tasks) \cup Permutations(Macs)
=============================================================================
