------------------------------ MODULE Billing ------------------------------
(***************************************************************************)
(* The arithmetic of pre-paid, by-the-minute charging: amounts are in fen  *)
(* (cents), prices in fen an hour, session times in seconds, all of them   *)
(* Java ints.                                                              *)
(***************************************************************************)
EXTENDS Integers

CONSTANT MaxInt    \* Integer.MAX_VALUE, 2^31 - 1 in Java

ASSUME MaxIntAssumption == MaxInt \in Nat \ {0}

JavaInt == -MaxInt - 1 .. MaxInt
WordSize == 2 * (MaxInt + 1)

(* The value an int holds after an operation whose exact result is x. *)
Wrap(x) == ((x + MaxInt + 1) % WordSize) - (MaxInt + 1)

(* Java's int division, which truncates toward zero, and its remainder. *)
Quotient(a, b) == IF a >= 0 THEN a \div b ELSE -((-a) \div b)
Remainder(a, b) == a - b * Quotient(a, b)

(* Minutes begun in a session of the given seconds.  A request without      *)
(* Acct-Session-Time has time -1 (Ticket.parseIntAttr) and counts as one;   *)
(* 2^31 seconds and more are read as a negative time (IntegerAttribute).    *)
UsedMinutes(time) == Quotient(Wrap(time - 1), 60) + 1

(* usedFee of AcctServer.doPrePayTimeLen: below zero for a time that is, or *)
(* when a product overflows.                                                *)
UsedFee(time, price) ==
  LET minutes == UsedMinutes(time)
      hours == Wrap(Quotient(minutes, 60) * price)
      rest == Remainder(minutes, 60)
  IN  IF rest > 0 THEN Wrap(hours + Quotient(Wrap(rest * price), 60)) ELSE hours

(* Mutant: no floor at zero. *)
BalanceUnchecked(credit, fee) == Wrap(credit - fee)

(* What doPrePayTimeLen leaves of a credit. *)
Balance(credit, fee) == IF Wrap(credit - fee) < 0 THEN 0 ELSE Wrap(credit - fee)
=============================================================================
