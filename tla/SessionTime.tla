---------------------------- MODULE SessionTime ----------------------------
(***************************************************************************)
(* How org.toughradius.server.AuthServer works out the time of a session:  *)
(* the hours a user may be online, the end of his account, his credit.     *)
(* Times are in seconds, the ends of a period in minutes, as the code      *)
(* compares "HH:mm" strings there.                                         *)
(***************************************************************************)
EXTENDS Billing

(* Mutant: the sign is kept. *)
Signed(x) == x

(* The value an access server reads from the bytes IntegerAttribute stores. *)
Unsigned(x) == x % WordSize

(* The clock is in seconds from the midnight before the first day.  It is   *)
(* read anew for each comparison, and midnight may come in between.         *)
Day == 86400
LastSecond == Day - 1     \* 23:59:59, when an account ends on its last day
Clock == 0 .. 2 * Day - 1
Minute == 0 .. 1439
Period == [from : Minute, to : Minute]
NoPeriod == [from |-> "none"]

Least(a, b) == IF b < a THEN b ELSE a

(* Mutant: a period that passes midnight is taken for the whole day. *)
OutsideToday(p, minute) == p.from < p.to /\ (minute < p.from \/ minute > p.to)

(* Is a minute of the day outside a period? *)
Outside(p, minute) ==
  \/ p.from < p.to /\ (minute < p.from \/ minute > p.to)
  \/ p.from > p.to /\ minute < p.from /\ minute > p.to

(* The end of the period that is on, from the readings of date and time. *)
PeriodEnd(p, nowDay, nowTime) ==
  LET midnight == nowDay - (nowDay % Day)
  IN  midnight + p.to * 60
        + (IF p.from < p.to \/ nowTime <= midnight + p.from * 60 THEN 0 ELSE Day)

(* checkPeriod: 0 refuses.  nowHour is read last. *)
CheckPeriod(p, nowDay, nowTime, nowHour, timeout) ==
  IF p = NoPeriod THEN timeout
  ELSE IF Outside(p, (nowHour \div 60) % 1440) THEN 0
  ELSE Least(timeout, PeriodEnd(p, nowDay, nowTime) - nowTime)

(* Mutants: the time of the credit alone, and a minute more for rounding.   *)
CreditTimeAlone(credit, price, timeout) == Quotient(Wrap(credit * 60 * 60), price)
CreditTimeRounded(credit, price, timeout) ==
  Least(timeout, Quotient(Wrap(credit * 60 * 60), price) + 60)

(* calcTimelen of a user who pays by the minute, for a price above zero. *)
CreditTime(credit, price, timeout) ==
  Least(timeout, Quotient(Wrap(credit * 60 * 60), price))

(* What is left of the last day of an account: below zero once it is over. *)
UntilExpiry(now) == LastSecond - now
=============================================================================
