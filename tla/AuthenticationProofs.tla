------------------------ MODULE AuthenticationProofs ------------------------
(***************************************************************************)
(* Proofs about module Authentication, for any users, accounts, requests,  *)
(* word size and number of threads and crashes.                            *)
(***************************************************************************)
EXTENDS Authentication, FiniteSetTheorems, TLAPS

(* The arithmetic of module Billing. *)

(* An operation on ints leaves an int. *)
LEMMA WrapType ==
  ASSUME NEW x \in Int
  PROVE  Wrap(x) \in JavaInt
  <1>1. WordSize \in Nat \ {0} /\ WordSize = 2 * (MaxInt + 1)
    BY MaxIntAssumption DEF WordSize
  <1>2. (x + MaxInt + 1) % WordSize \in 0 .. WordSize - 1
    BY <1>1, MaxIntAssumption
  <1> DEFINE y == (x + MaxInt + 1) % WordSize
  <1>3. Wrap(x) = y - (MaxInt + 1)
    BY DEF Wrap
  <1> HIDE DEF y
  <1>4. QED
    BY <1>1, <1>2, <1>3, MaxIntAssumption DEF JavaInt, y

(* The exact result, if it is one. *)
LEMMA WrapSmall ==
  ASSUME NEW x \in JavaInt
  PROVE  Wrap(x) = x
  <1>1. WordSize \in Nat \ {0} /\ WordSize = 2 * (MaxInt + 1)
    BY MaxIntAssumption DEF WordSize
  <1>2. x + MaxInt + 1 \in 0 .. WordSize - 1
    BY <1>1, MaxIntAssumption DEF JavaInt
  <1>3. (x + MaxInt + 1) % WordSize = x + MaxInt + 1
    BY <1>1, <1>2
  <1>4. QED
    BY <1>3, MaxIntAssumption DEF Wrap, JavaInt

(* Java's division and remainder are integers. *)
LEMMA QuotientType ==
  ASSUME NEW a \in Int
  PROVE  /\ Quotient(a, 60) \in Int /\ Remainder(a, 60) \in Int
         /\ \A b \in Nat \ {0} : Quotient(a, b) \in Int
  BY DEF Quotient, Remainder

(* The product of two integers is one. *)
LEMMA ProductType ==
  ASSUME NEW a \in Int, NEW b \in Int
  PROVE  a * b \in Int
  OBVIOUS

(* A fee is an int, whatever the time of the session: below zero for a time *)
(* that is, and where the products overflow.                                *)
LEMMA FeeType ==
  ASSUME NEW time \in JavaInt, NEW price \in 0 .. MaxInt
  PROVE  UsedFee(time, price) \in JavaInt
  <1> DEFINE m == UsedMinutes(time)
             q == Quotient(m, 60)
             r == Remainder(m, 60)
  <1>1. time - 1 \in Int /\ price \in Int /\ \A x \in JavaInt : x \in Int
    BY MaxIntAssumption DEF JavaInt
  <1>2. m \in Int
    BY <1>1, WrapType, QuotientType DEF UsedMinutes
  <1> HIDE DEF m
  <1>3. q \in Int /\ r \in Int
    BY <1>2, QuotientType
  <1>4. UsedFee(time, price) =
          IF r > 0 THEN Wrap(Wrap(q * price) + Quotient(Wrap(r * price), 60)) ELSE Wrap(q * price)
    BY DEF UsedFee, m
  <1> HIDE DEF q, r
  <1>5. Wrap(q * price) \in JavaInt /\ Wrap(r * price) \in JavaInt
    BY <1>1, <1>3, ProductType, WrapType
  <1>6. Quotient(Wrap(r * price), 60) \in Int
    BY <1>1, <1>5, QuotientType
  <1> DEFINE a == Wrap(q * price)
             b == Quotient(Wrap(r * price), 60)
  <1> HIDE DEF a, b
  <1>7. a \in JavaInt /\ a + b \in Int
    BY <1>1, <1>5, <1>6 DEF a, b
  <1>8. QED
    BY <1>4, <1>7, WrapType DEF a, b

(* What is left of a credit: less by no more than the fee, and more only by *)
(* a fee below zero.                                                        *)
LEMMA BalanceType ==
  ASSUME NEW amount \in 0 .. MaxInt, NEW fee \in JavaInt
  PROVE  Balance(amount, fee) \in 0 .. MaxInt
  <1>1. amount - fee \in Int
    BY MaxIntAssumption DEF JavaInt
  <1>2. Wrap(amount - fee) \in JavaInt
    BY <1>1, WrapType
  <1>3. QED
    BY <1>2, MaxIntAssumption DEF Balance, JavaInt

LEMMA BalanceExact ==
  ASSUME NEW amount \in 0 .. MaxInt, NEW fee \in JavaInt, amount - fee <= MaxInt
  PROVE  Balance(amount, fee) = IF amount < fee THEN 0 ELSE amount - fee
  <1>1. amount - fee \in JavaInt
    BY MaxIntAssumption DEF JavaInt
  <1>2. Wrap(amount - fee) = amount - fee
    BY <1>1, WrapSmall
  <1>3. QED
    BY <1>2, MaxIntAssumption DEF Balance, JavaInt

(* Minutes begun are at most the seconds and 59 more, divided by 60; no     *)
(* time at all counts as one minute, like one second.                       *)
LEMMA MinutesBound ==
  ASSUME NEW time \in 1 .. MaxInt
  PROVE  UsedMinutes(time) \in Nat /\ 60 * UsedMinutes(time) <= time + 59
  <1>1. Wrap(time - 1) = time - 1 /\ time - 1 \in Nat
    <2>1. time - 1 \in JavaInt /\ time - 1 \in Nat
      BY MaxIntAssumption DEF JavaInt
    <2>2. QED BY <2>1, WrapSmall
  <1>2. UsedMinutes(time) = (time - 1) \div 60 + 1
    BY <1>1 DEF UsedMinutes, Quotient
  <1> DEFINE s == time - 1
  <1>3. s \in Nat /\ time = s + 1 /\ UsedMinutes(time) = s \div 60 + 1
    BY <1>1, <1>2, MaxIntAssumption
  <1> HIDE DEF s
  <1>4. s \div 60 \in Nat /\ 60 * (s \div 60) <= s
    BY <1>3
  <1>5. QED BY <1>3, <1>4

LEMMA NoTimeIsAMinute == UsedMinutes(0) = UsedMinutes(1)
  <1>1. 0 - 1 \in JavaInt /\ 1 - 1 \in JavaInt
    BY MaxIntAssumption DEF JavaInt
  <1>2. Wrap(0 - 1) = 0 - 1 /\ Wrap(1 - 1) = 1 - 1
    BY <1>1, WrapSmall
  <1>3. Quotient(0 - 1, 60) = 0 /\ Quotient(1 - 1, 60) = 0
    BY DEF Quotient
  <1>4. QED BY <1>2, <1>3 DEF UsedMinutes

(* A product grows with its first factor. *)
LEMMA ProductMonotone ==
  ASSUME NEW a \in Nat, NEW b \in Nat, NEW c \in Nat, a <= b
  PROVE  a * c <= b * c
  <1>1. PICK d \in Nat : b = a + d
    <2>1. b - a \in Nat /\ b = a + (b - a)
      OBVIOUS
    <2>2. QED BY <2>1
  <1>2. b * c = a * c + d * c
    BY <1>1
  <1>3. a * c \in Nat /\ d * c \in Nat
    OBVIOUS
  <1>4. QED BY <1>2, <1>3

(* A product of a sum. *)
LEMMA SplitProduct ==
  ASSUME NEW q \in Nat, NEW r \in Nat, NEW price \in Nat
  PROVE  (60 * q + r) * price = 60 * (q * price) + r * price
  OBVIOUS

(* The price of minutes is that of the hours and the minutes left over. *)
LEMMA HoursAndMinutes ==
  ASSUME NEW m \in Nat, NEW price \in Nat
  PROVE  m * price = 60 * ((m \div 60) * price) + (m % 60) * price
  <1>1. m \div 60 \in Nat /\ m % 60 \in Nat /\ m = 60 * (m \div 60) + (m % 60)
    OBVIOUS
  <1> DEFINE q == m \div 60
             r == m % 60
  <1>2. q \in Nat /\ r \in Nat /\ m = 60 * q + r
    BY <1>1
  <1> HIDE DEF q, r
  <1>3. m * price = 60 * (q * price) + r * price
    BY <1>2, SplitProduct
  <1>4. QED BY <1>3 DEF q, r

(* The fee of a time whose price and the price of a minute are ints: no     *)
(* product overflows, and the fee is no more than the price of the seconds  *)
(* and 59 more, as an hour has 3600 seconds and both divisions round down.  *)
LEMMA FeeBound ==
  ASSUME NEW time \in 1 .. MaxInt, NEW price \in Nat,
         time * price <= MaxInt, 59 * price <= MaxInt
  PROVE  /\ UsedFee(time, price) \in Nat
         /\ 3600 * UsedFee(time, price) <= (time + 59) * price
  <1> DEFINE m == UsedMinutes(time)
             q == m \div 60
             r == m % 60
             a == q * price
             b == r * price
  <1>1. m \in Nat /\ 60 * m <= time + 59 /\ time \in Nat
    BY MinutesBound, MaxIntAssumption
  <1>2. UsedFee(time, price) =
          IF Remainder(m, 60) > 0
          THEN Wrap(Wrap(Quotient(m, 60) * price) + Quotient(Wrap(Remainder(m, 60) * price), 60))
          ELSE Wrap(Quotient(m, 60) * price)
    BY DEF UsedFee
  <1> HIDE DEF m
  <1>3. q \in Nat /\ r \in 0 .. 59 /\ Quotient(m, 60) = q /\ Remainder(m, 60) = r
    BY <1>1 DEF Quotient, Remainder
  <1>4. m * price = 60 * a + b
    BY <1>1, HoursAndMinutes
  <1>5. (60 * m) * price <= (time + 59) * price
    <2>1. 60 * m \in Nat /\ time + 59 \in Nat
      BY <1>1
    <2>2. QED BY <1>1, <2>1, ProductMonotone
  <1> DEFINE x == m * price
             y == (time + 59) * price
  <1>6. 60 * x <= y /\ x \in Nat /\ y \in Nat
    BY <1>1, <1>5, ProductType
  <1>7. y <= MaxInt + MaxInt
    <2>1. y = time * price + 59 * price
      BY <1>1
    <2>2. time * price \in Nat /\ 59 * price \in Nat
      BY <1>1
    <2>3. QED BY <2>1, <2>2, MaxIntAssumption
  <1>8. a \in Nat /\ b \in Nat /\ b <= MaxInt
    <2> HIDE DEF q, r
    <2>1. r \in Nat /\ r <= 59
      BY <1>3
    <2>2. b <= 59 * price
      BY <2>1, ProductMonotone
    <2>3. a \in Nat /\ b \in Nat /\ 59 * price \in Nat
      BY <1>3, <2>1
    <2>4. QED BY <2>2, <2>3, MaxIntAssumption
  <1> DEFINE fee == UsedFee(time, price)
  <1>9. fee = IF r > 0 THEN Wrap(Wrap(a) + Quotient(Wrap(b), 60)) ELSE Wrap(a)
    BY <1>2, <1>3
  <1>10. r = 0 => b = 0
    <2> HIDE DEF r
    <2>1. r = 0 => r * price = 0
      OBVIOUS
    <2>2. QED BY <2>1
  <1>11. r \in Nat
    BY <1>3
  <1> HIDE DEF q, r, a, b, x, y, fee
  <1>12. x = 60 * a + b
    BY <1>4 DEF x
  <1>13. b \div 60 \in Nat /\ 60 * (b \div 60) <= b
    BY <1>8
  <1> DEFINE c == b \div 60
  <1>14. c \in Nat /\ 60 * c <= b
    BY <1>13
  <1> HIDE DEF c
  <1>15. 3600 * (a + c) <= y
    BY <1>6, <1>8, <1>12, <1>14
  <1>16. a + c <= MaxInt /\ a <= MaxInt /\ a + c \in Nat
    BY <1>6, <1>7, <1>8, <1>14, <1>15, MaxIntAssumption
  <1>17. a \in JavaInt /\ b \in JavaInt /\ a + c \in JavaInt
    BY <1>8, <1>16, MaxIntAssumption DEF JavaInt
  <1>18. Wrap(a) = a /\ Wrap(b) = b /\ Wrap(a + c) = a + c
    BY <1>17, WrapSmall
  <1>19. Quotient(b, 60) = c
    BY <1>8 DEF Quotient, c
  <1>20. fee = a + c
    <2>1. CASE r > 0
      BY <1>9, <1>18, <1>19, <2>1
    <2>2. CASE r = 0
      <3>1. c = 0
        BY <1>10, <2>2 DEF c
      <3>2. QED BY <1>8, <1>9, <1>18, <2>2, <3>1
    <2>3. QED BY <1>11, <2>1, <2>2
  <1>21. QED
    BY <1>15, <1>16, <1>20 DEF fee, y

(* Division rounds down. *)
LEMMA DivisionBound ==
  ASSUME NEW a \in Nat, NEW b \in Nat \ {0}
  PROVE  a \div b \in Nat /\ (a \div b) * b <= a /\ a \div b <= a
  OBVIOUS

(* An overflow never leaves more than there was. *)
LEMMA WrapBound ==
  ASSUME NEW x \in Nat
  PROVE  Wrap(x) <= x
  <1> DEFINE w == WordSize
             n == x + MaxInt + 1
  <1>1. w \in Nat \ {0} /\ n \in Nat
    BY MaxIntAssumption DEF WordSize
  <1>2. Wrap(x) = (n % w) - (MaxInt + 1)
    BY DEF Wrap
  <1> HIDE DEF w
  <1>3. \A a \in Nat : a % w <= a /\ a % w \in Nat
    BY <1>1
  <1>4. n % w <= n /\ n % w \in Nat
    BY <1>1, <1>3
  <1>5. QED BY <1>2, <1>4, MaxIntAssumption

(* A session no longer than the time calcTimelen finds an amount to pay     *)
(* for, which is above zero, costs no more than the amount and the part of  *)
(* a minute that rounding up adds; also where the product of the amount     *)
(* overflows, as what is left of it is smaller then.                        *)
LEMMA AmountPaysForTime ==
  ASSUME NEW amount \in Nat, NEW price \in Nat \ {0}, 59 * price <= MaxInt,
         NEW time \in Nat \ {0}, time <= Quotient(Wrap(amount * 60 * 60), price)
  PROVE  /\ time <= MaxInt
         /\ \A used \in 0 .. time :
              UsedFee(Wrap(used), price) \in 0 .. amount + (59 * price) \div 3600
  <1> DEFINE total == amount * 60 * 60
             left == Wrap(total)
             part == (59 * price) \div 3600
  <1>1. total \in Nat /\ total = 3600 * amount
    OBVIOUS
  <1>2. part \in Nat /\ 59 * price < 3600 * part + 3600 /\ 59 * price \in Nat
    OBVIOUS
  <1>3. time <= Quotient(left, price)
    OBVIOUS
  <1> HIDE DEF total, part
  <1>4. left \in Int /\ left <= total /\ left <= MaxInt
    BY <1>1, WrapType, WrapBound, MaxIntAssumption DEF JavaInt
  <1> HIDE DEF left
  <1>5. left \in Nat /\ Quotient(left, price) = left \div price
    <2>1. CASE left >= 0
      BY <1>4, <2>1 DEF Quotient
    <2>2. CASE left < 0
      <3>1. -left \in Nat
        BY <1>4, <2>2
      <3>2. (-left) \div price \in Nat
        BY <3>1, DivisionBound
      <3>3. Quotient(left, price) = -((-left) \div price)
        BY <1>4, <2>2 DEF Quotient
      <3>4. QED BY <1>3, <3>2, <3>3
    <2>3. QED BY <1>4, <2>1, <2>2
  <1> DEFINE quotient == left \div price
  <1>6. quotient \in Nat /\ quotient * price <= left /\ quotient <= left
    BY <1>5, DivisionBound
  <1>7. time <= quotient
    BY <1>3, <1>5
  <1> HIDE DEF quotient
  <1>8. time <= MaxInt
    BY <1>4, <1>5, <1>6, <1>7, MaxIntAssumption
  <1>9. ASSUME NEW s \in 1 .. time
        PROVE  Wrap(s) = s /\ UsedFee(s, price) \in 0 .. amount + part
    <2> DEFINE z == s * price
               fee == UsedFee(s, price)
    <2>1. s \in Nat /\ s <= quotient /\ s \in 1 .. MaxInt /\ s \in JavaInt
      BY <1>6, <1>7, <1>8, MaxIntAssumption DEF JavaInt
    <2>2. z <= quotient * price
      BY <1>6, <2>1, ProductMonotone
    <2>3. z \in Nat /\ quotient * price \in Nat
      BY <1>6, <2>1
    <2>4. z <= left
      BY <1>4, <1>6, <2>2, <2>3
    <2>5. z <= MaxInt
      BY <1>4, <2>3, <2>4, MaxIntAssumption
    <2>6. fee \in Nat /\ 3600 * fee <= (s + 59) * price
      BY <2>1, <2>5, FeeBound
    <2>7. (s + 59) * price = z + 59 * price
      BY <2>1
    <2> HIDE DEF z, fee
    <2>8. fee <= amount + part
      BY <1>1, <1>2, <1>4, <2>3, <2>4, <2>6, <2>7
    <2>9. fee \in 0 .. amount + part
      BY <1>2, <2>6, <2>8
    <2>10. QED BY <2>1, <2>9, WrapSmall DEF fee
  <1>10. ASSUME NEW used \in 0 .. time
         PROVE  UsedFee(Wrap(used), price) \in 0 .. amount + part
    <2>1. CASE used = 0
      <3>1. Wrap(0) = 0
        <4>1. 0 \in JavaInt
          BY MaxIntAssumption DEF JavaInt
        <4>2. QED BY <4>1, WrapSmall
      <3>2. UsedFee(0, price) = UsedFee(1, price)
        BY NoTimeIsAMinute DEF UsedFee
      <3>3. UsedFee(1, price) \in 0 .. amount + part
        BY <1>9
      <3>4. QED BY <2>1, <3>1, <3>2, <3>3
    <2>2. CASE used \in 1 .. time
      BY <1>9, <2>2
    <2>3. QED BY <2>1, <2>2
  <1>11. QED
    BY <1>8, <1>10 DEF part

-----------------------------------------------------------------------------
(* Times and credits.                                                       *)

(* The time an access server reads is a word. *)
LEMMA UnsignedType ==
  ASSUME NEW x \in Int
  PROVE  Unsigned(x) \in 0 .. WordSize - 1
  BY MaxIntAssumption DEF Unsigned, WordSize

(* A word is a natural number. *)
LEMMA WordIsNatural ==
  ASSUME NEW x \in 0 .. WordSize - 1
  PROVE  x \in Nat
  BY MaxIntAssumption DEF WordSize

(* What the clock shows is a natural number. *)
LEMMA ClockType ==
  /\ LastSecond \in Nat
  /\ 0 \in Clock
  /\ \A now \in Clock : now \in Nat
  <1>1. Day \in Nat \ {0}
    BY DEF Day
  <1>2. QED
    BY <1>1 DEF LastSecond, Clock

(* A reading of the clock is one of the times, and no earlier than the one  *)
(* before it.                                                               *)
LEMMA ReadType ==
  ASSUME NEW reads, NEW earlier \in Clock, NEW now \in Read(reads, earlier)
  PROVE  now \in Clock
  BY TimesAssumption DEF Read

(* The time of a session before the credit is looked at is an int; on the   *)
(* last day of an account it ends with the day.                             *)
LEMMA BaseTimeType ==
  ASSUME NEW u \in Users, NEW now \in Clock
  PROVE  /\ BaseTime(u, now) \in Int
         /\ BaseTime(u, now) <= MaxInt
         /\ Account[u].expiry = "today" /\ now <= LastSecond =>
              BaseTime(u, now) \in Nat /\ now + BaseTime(u, now) <= LastSecond
  <1>1. Account[u].maxTime \in Nat /\ Account[u].maxTime <= MaxInt
    BY AccountAssumption, MaxIntAssumption DEF AccountType
  <1>2. UntilExpiry(now) \in Int /\ now + UntilExpiry(now) = LastSecond
    BY ClockType DEF UntilExpiry
  <1>3. now \in Nat /\ LastSecond \in Nat
    BY ClockType
  <1> HIDE DEF UntilExpiry
  <1>4. CASE Account[u].expiry = "today"
    <2>1. BaseTime(u, now) = Least(Account[u].maxTime, UntilExpiry(now))
      BY <1>4 DEF BaseTime
    <2>2. QED
      BY <1>1, <1>2, <1>3, <2>1, MaxIntAssumption DEF Least
  <1>5. CASE Account[u].expiry # "today"
    BY <1>1, <1>5 DEF BaseTime
  <1>6. QED BY <1>4, <1>5

(* The product calcTimelen makes of a credit. *)
LEMMA CreditTotal ==
  ASSUME NEW amount \in 0 .. MaxInt, NEW price \in Nat \ {0}
  PROVE  Quotient(Wrap(amount * 60 * 60), price) \in Int
  <1>1. amount * 60 * 60 \in Int
    BY MaxIntAssumption
  <1>2. Wrap(amount * 60 * 60) \in Int
    BY <1>1, WrapType, MaxIntAssumption DEF JavaInt
  <1>3. QED BY <1>2, QuotientType

DividesByZero(u) == Account[u].prepaid /\ Account[u].hasCredit /\ Account[u].price = 0

(* The time of a session is an int where calcTimelen does not divide by 0.  *)
LEMMA TimeLeftType ==
  ASSUME NEW u \in Users, NEW now \in Clock, credit[u] \in 0 .. MaxInt, ~DividesByZero(u)
  PROVE  TimeLeft(u, now) \in Int
  <1>1. BaseTime(u, now) \in Int
    BY BaseTimeType
  <1>2. CASE ~(Account[u].prepaid /\ Account[u].hasCredit)
    BY <1>1, <1>2 DEF TimeLeft
  <1>3. CASE Account[u].prepaid /\ Account[u].hasCredit
    <2>1. Account[u].price \in Nat \ {0}
      BY <1>3, AccountAssumption, MaxIntAssumption DEF AccountType, DividesByZero
    <2>2. Quotient(Wrap(credit[u] * 60 * 60), Account[u].price) \in Int
      BY <2>1, CreditTotal
    <2>3. QED
      BY <1>1, <1>3, <2>2 DEF TimeLeft, CreditTime, Least
  <1>4. QED
    BY <1>2, <1>3

-----------------------------------------------------------------------------
(* Decisions.                                                               *)

(* A step that lets a task in, from the readings of the clock.              *)
Grants(t, now, nowDay, nowTime, nowHour) ==
  LET u == User(t)
  IN
  /\ CheckPeriod(Account[u].period, nowDay, nowTime, nowHour, BaseTime(u, now)) # 0
  /\ ~DividesByZero(u)
  /\ TimeLeft(u, now) # 0
  /\ pc' = [pc EXCEPT ![t] = "accepted"]
  /\ granted' = [granted EXCEPT ![t] = Unsigned(TimeLeft(u, now))]
  /\ basis' = [basis EXCEPT ![t] =
       [expiry |-> now, hour |-> nowHour, overflow |-> credit[u] > MaxInt \div 3600]]
  /\ unbounded' = [unbounded EXCEPT ![u] =
       @ \/ TimeLeft(u, now) < 0 \/ Of(u, Sessions) # {}]

(* A decision lets the task in or nothing but its step changes.             *)
LEMMA Decision ==
  ASSUME TypeOK, NEW t \in Tasks, Decide(t)
  PROVE  /\ User(t) \in Users /\ pc[t] = "decide"
         /\ UNCHANGED <<macDB, macCache, credit, request, crashes, overlaps, unpaid>>
         /\ \/ /\ pc' \in {[pc EXCEPT ![t] = "rejected"], [pc EXCEPT ![t] = "failed"]}
               /\ UNCHANGED <<granted, basis, unbounded>>
            \/ \E now, nowDay, nowTime, nowHour \in Clock :
                 Grants(t, now, nowDay, nowTime, nowHour)
  <1>1. User(t) \in Users /\ pc[t] = "decide"
    BY DEF Decide, TypeOK, Deciding, User
  <1>2. UNCHANGED <<macDB, macCache, credit, request, crashes, overlaps, unpaid>>
    BY DEF Decide, macs
  <1> DEFINE endsToday == Account[User(t)].expiry = "today"
             hasPeriod == Account[User(t)].period # NoPeriod
  <1>3. PICK today \in Read(endsToday, 0) : \E now \in Read(endsToday, today) :
          \E nowDay \in Read(hasPeriod, now) : \E nowTime \in Read(hasPeriod, nowDay) :
          \E nowHour \in Read(hasPeriod, nowTime) :
            \/ /\ pc' \in {[pc EXCEPT ![t] = "rejected"], [pc EXCEPT ![t] = "failed"]}
               /\ UNCHANGED <<granted, basis, unbounded>>
            \/ Grants(t, now, nowDay, nowTime, nowHour)
    BY DEF Decide, Grants, DividesByZero, Goto, grants
  <1> HIDE DEF endsToday, hasPeriod
  <1>4. today \in Clock
    BY <1>3, ReadType, ClockType
  <1>5. QED
    BY <1>1, <1>2, <1>3, <1>4, ReadType

-----------------------------------------------------------------------------
(* Type correctness.                                                        *)

(* The state the process starts in. *)
LEMMA InitType == Init => TypeOK
  BY AccountAssumption, MaxIntAssumption, ClockType
  DEF Init, TypeOK, AccountType, WordSize, PCs, Deciding, Sessions, Basis, NoBasis

(* What a Stop charges for the time it reports. *)
Charged(u, used) ==
  IF Account[u].prepaid /\ Account[u].hasCredit
  THEN UsedFee(Wrap(used), Account[u].price) ELSE 0

LEMMA Charging ==
  ASSUME TypeOK, NEW t \in Tasks, EndSession(t)
  PROVE  /\ User(t) \in Users
         /\ \E used \in 0 .. granted[t] :
              /\ Charged(User(t), used) \in JavaInt
              /\ credit' = [credit EXCEPT ![User(t)] = Balance(@, Charged(User(t), used))]
              /\ unpaid' = [unpaid EXCEPT ![User(t)] =
                   IF Charged(User(t), used) > credit[User(t)]
                   THEN @ + Charged(User(t), used) - credit[User(t)] ELSE @]
  <1>1. User(t) \in Users
    BY DEF EndSession, TypeOK, Sessions, User
  <1>2. granted[t] \in Nat
    <2>1. granted[t] \in 0 .. WordSize - 1
      BY DEF TypeOK
    <2>2. QED BY <2>1, WordIsNatural
  <1>3. \A s \in {r \in Usages : r <= granted[t]} \cup {granted[t]} : s \in 0 .. granted[t]
    BY <1>2, TimesAssumption
  <1>4. PICK used \in 0 .. granted[t] :
          /\ credit' = [credit EXCEPT ![User(t)] = Balance(@, Charged(User(t), used))]
          /\ unpaid' = [unpaid EXCEPT ![User(t)] =
               IF Charged(User(t), used) > credit[User(t)]
               THEN @ + Charged(User(t), used) - credit[User(t)] ELSE @]
    BY <1>3 DEF EndSession, Charged
  <1>5. Charged(User(t), used) \in JavaInt
    <2>1. used \in Int
      BY <1>2
    <2>2. Wrap(used) \in JavaInt /\ 0 \in JavaInt
      BY <2>1, WrapType, MaxIntAssumption DEF JavaInt
    <2>3. Account[User(t)].price \in 0 .. MaxInt
      BY <1>1, AccountAssumption DEF AccountType
    <2>4. QED BY <2>2, <2>3, FeeType DEF Charged
  <1>6. QED BY <1>1, <1>4, <1>5

(* A charge leaves an int of the credit, and owes a natural number. *)
LEMMA ChargeType ==
  ASSUME TypeOK, NEW t \in Tasks, EndSession(t)
  PROVE  credit' \in [Users -> 0 .. MaxInt] /\ unpaid' \in [Users -> Nat]
  <1> DEFINE u == User(t)
  <1>1. PICK used \in 0 .. granted[t] :
          /\ Charged(u, used) \in JavaInt
          /\ credit' = [credit EXCEPT ![u] = Balance(@, Charged(u, used))]
          /\ unpaid' = [unpaid EXCEPT ![u] =
               IF Charged(u, used) > credit[u] THEN @ + Charged(u, used) - credit[u] ELSE @]
    BY Charging
  <1>2. u \in Users /\ credit[u] \in 0 .. MaxInt /\ unpaid[u] \in Nat
    BY Charging DEF TypeOK
  <1> DEFINE fee == Charged(u, used)
  <1> HIDE DEF u, fee
  <1>3. fee \in JavaInt /\ fee \in Int
    BY <1>1, MaxIntAssumption DEF JavaInt, fee
  <1>4. Balance(credit[u], fee) \in 0 .. MaxInt
    BY <1>2, <1>3, BalanceType
  <1>5. (IF fee > credit[u] THEN unpaid[u] + fee - credit[u] ELSE unpaid[u]) \in Nat
    BY <1>2, <1>3, MaxIntAssumption
  <1>6. QED
    BY <1>1, <1>2, <1>4, <1>5 DEF TypeOK, fee

(* Every step of a login and of a session, every failure and a crash keep   *)
(* the types.                                                               *)
LEMMA NextType == TypeOK /\ [Next]_vars => TypeOK'
  <1> SUFFICES ASSUME TypeOK, [Next]_vars PROVE TypeOK'
    OBVIOUS
  <1> USE DEF TypeOK, PCs, Deciding, Sessions, Goto, User, macs, grants, history
  <1>1. ASSUME NEW t \in Tasks, NEW r \in Requests, AccessRequest(t, r) PROVE TypeOK'
    <2>1. CASE Recognised(r)
      BY <1>1, <2>1 DEF AccessRequest, Recognised
    <2>2. CASE ~Recognised(r)
      BY <1>1, <2>2 DEF AccessRequest
    <2>3. QED BY <2>1, <2>2
  <1>2. ASSUME NEW t \in Tasks, CountOnline(t) PROVE TypeOK'
    BY <1>2 DEF CountOnline
  <1>3. ASSUME NEW t \in Tasks, CheckMac(t) PROVE TypeOK'
    BY <1>3 DEF CheckMac
  <1>4. ASSUME NEW t \in Tasks, InsertMac(t) PROVE TypeOK'
    <2>1. request[t].mac \in Macs \cup {NoMac}
      BY <1>4, RequestsAssumption DEF InsertMac, Request
    <2>2. QED
      BY <1>4, <2>1 DEF InsertMac
  <1>5. ASSUME NEW t \in Tasks, CacheMac(t) PROVE TypeOK'
    BY <1>5 DEF CacheMac
  <1>6. ASSUME NEW t \in Tasks, Decide(t) PROVE TypeOK'
    <2>1. /\ User(t) \in Users /\ pc[t] = "decide"
          /\ UNCHANGED <<macDB, macCache, credit, request, crashes, overlaps, unpaid>>
      BY <1>6, Decision
    <2>2. CASE /\ pc' \in {[pc EXCEPT ![t] = "rejected"], [pc EXCEPT ![t] = "failed"]}
               /\ UNCHANGED <<granted, basis, unbounded>>
      BY <2>1, <2>2
    <2>3. ASSUME NEW now \in Clock, NEW nowDay \in Clock, NEW nowTime \in Clock,
                 NEW nowHour \in Clock, Grants(t, now, nowDay, nowTime, nowHour)
          PROVE  TypeOK'
      <3>1. Unsigned(TimeLeft(User(t), now)) \in 0 .. WordSize - 1
        BY <2>1, <2>3, TimeLeftType, UnsignedType DEF Grants
      <3>2. granted' \in [Tasks -> 0 .. WordSize - 1]
        BY <2>3, <3>1 DEF Grants
      <3>3. basis' \in [Tasks -> Basis]
        BY <2>3 DEF Grants, Basis
      <3>4. unbounded' \in [Users -> BOOLEAN]
        BY <2>1, <2>3 DEF Grants
      <3>5. pc' = [pc EXCEPT ![t] = "accepted"]
        BY <2>3 DEF Grants
      <3>6. QED
        BY <2>1, <3>2, <3>3, <3>4, <3>5
    <2>4. QED BY <1>6, <2>2, <2>3, Decision
  <1>7. ASSUME NEW t \in Tasks, ListSession(t) PROVE TypeOK'
    BY <1>7 DEF ListSession
  <1>8. ASSUME NEW t \in Tasks, LoseSession(t) PROVE TypeOK'
    BY <1>8 DEF LoseSession
  <1>9. CASE ClearSessions
    BY <1>9 DEF ClearSessions
  <1>10. ASSUME NEW t \in Tasks, EndSession(t) PROVE TypeOK'
    <2>1. User(t) \in Users
      BY <1>10 DEF EndSession
    <2>2. /\ credit' \in [Users -> 0 .. MaxInt]
          /\ unpaid' \in [Users -> Nat]
      BY <1>10, <2>1, ChargeType
    <2>3. basis' \in [Tasks -> Basis]
      BY <1>10, ClockType DEF EndSession, Basis, NoBasis
    <2>4. QED
      BY <1>10, <2>1, <2>2, <2>3 DEF EndSession
  <1>11. ASSUME NEW t \in Tasks, Fail(t) PROVE TypeOK'
    BY <1>11 DEF Fail
  <1>12. CASE Crash
    BY <1>12 DEF Crash
  <1>13. CASE UNCHANGED vars
    BY <1>13 DEF vars
  <1>14. QED
    BY <1>1, <1>2, <1>3, <1>4, <1>5, <1>6, <1>7, <1>8, <1>9, <1>10, <1>11,
       <1>12, <1>13 DEF Next

(* Whatever the accounts and the interleaving, the state has its types: in  *)
(* particular an address that is to be cached is one that was inserted, and *)
(* neither a credit nor an unpaid amount is ever negative.                  *)
THEOREM TypeCorrect == Spec => []TypeOK
  <1>1. QED
    BY InitType, NextType, PTL DEF Spec
-----------------------------------------------------------------------------
(* Addresses.  MacHeld and MacAgrees depend on each other: a login finds    *)
(* its own address in the cache, which is the one in the database because   *)
(* the cache has none or the same; and a thread that inserts one finds no   *)
(* other login admitted, as those have the address of the database and it   *)
(* has none.                                                                *)
Addressed == {"cache"} \cup Admitted

MacInv ==
  /\ \A t \in Tasks : pc[t] \in Addressed /\ Account[User(t)].bindMac =>
       request[t].mac \in Macs /\ request[t].mac = macDB[User(t)]
  /\ \A t \in Tasks : pc[t] \in {"insert", "cache"} => Account[User(t)].bindMac
  /\ MacAgrees

(* No login, and the cache as loaded. *)
LEMMA InitMac == Init => MacInv
  BY DEF Init, MacInv, MacAgrees, Addressed, Admitted, Sessions, User

(* A step that leaves the addresses alone, admits nobody and ends no        *)
(* thread's caching keeps the invariant.                                    *)
LEMMA MacUnchanged ==
  ASSUME TypeOK, MacInv, UNCHANGED macs,
         \A t \in Tasks : pc'[t] \in Addressed \cup {"insert"} =>
           /\ request'[t] = request[t]
           /\ pc[t] = pc'[t] \/ (pc[t] \in Addressed /\ pc'[t] \in Admitted),
         \A t \in Tasks : pc[t] = "cache" => pc'[t] = "cache"
  PROVE  MacInv'
  <1> USE DEF MacInv, User, macs
  <1>1. \A t \in Tasks : pc'[t] \in Addressed /\ Account[User(t)'].bindMac =>
          request'[t].mac \in Macs /\ request'[t].mac = macDB'[User(t)']
    BY DEF Addressed, Admitted, Sessions
  <1>2. \A t \in Tasks : pc'[t] \in {"insert", "cache"} => Account[User(t)'].bindMac
    BY DEF Addressed, Admitted, Sessions
  <1>3. MacAgrees'
    <2> SUFFICES ASSUME NEW u \in Users, macCache[u] # macDB[u]
                 PROVE  macCache[u] = NoMac /\ Of(u, {"cache"})' # {}
      BY DEF MacAgrees
    <2>1. macCache[u] = NoMac /\ Of(u, {"cache"}) # {}
      BY DEF MacAgrees
    <2>2. PICK t \in Tasks : pc[t] = "cache" /\ User(t) = u
      BY <2>1 DEF Of
    <2>3. pc'[t] = "cache" /\ request'[t] = request[t]
      BY <2>2 DEF Addressed
    <2>4. QED BY <2>1, <2>2, <2>3 DEF Of
  <1>4. QED BY <1>1, <1>2, <1>3

(* Every step keeps the addresses together; four touch them. *)
LEMMA NextMac == TypeOK /\ MacInv /\ [Next]_vars => MacInv'
  <1> SUFFICES ASSUME TypeOK, MacInv, [Next]_vars PROVE MacInv'
    OBVIOUS
  <1> USE DEF Goto, Addressed, Admitted, Sessions
  <1>1. ASSUME NEW t \in Tasks, NEW r \in Requests, AccessRequest(t, r) PROVE MacInv'
    BY <1>1, MacUnchanged DEF AccessRequest, TypeOK, macs
  <1>2. ASSUME NEW t \in Tasks, CountOnline(t) PROVE MacInv'
    BY <1>2, MacUnchanged DEF CountOnline, TypeOK, macs
  <1>3. ASSUME NEW t \in Tasks, CheckMac(t) PROVE MacInv'
    <2>1. User(t) \in Users /\ request[t] \in Requests /\ pc[t] = "mac"
      BY <1>3 DEF CheckMac, TypeOK, Deciding, User
    <2>2. request[t].mac \in Macs \cup {NoMac}
      BY <2>1, RequestsAssumption DEF Request
    <2>3. UNCHANGED <<macDB, macCache, request>>
      BY <1>3 DEF CheckMac, macs
    <2>4. CASE pc' = [pc EXCEPT ![t] = "rejected"]
      BY <1>3, <2>4, MacUnchanged DEF CheckMac, TypeOK, macs
    <2>5. CASE /\ pc' = [pc EXCEPT ![t] = "decide"]
               /\ Account[User(t)].bindMac =>
                    macCache[User(t)] # NoMac /\ macCache[User(t)] = request[t].mac
      <3>1. Account[User(t)].bindMac =>
              request[t].mac \in Macs /\ request[t].mac = macDB[User(t)]
        BY <2>1, <2>2, <2>5 DEF MacInv, MacAgrees
      <3>2. \A s \in Tasks : pc'[s] \in Addressed /\ Account[User(s)'].bindMac =>
              request'[s].mac \in Macs /\ request'[s].mac = macDB'[User(s)']
        BY <2>1, <2>3, <2>5, <3>1 DEF MacInv, User, TypeOK
      <3>3. \A s \in Tasks : pc'[s] \in {"insert", "cache"} => Account[User(s)'].bindMac
        BY <2>3, <2>5 DEF MacInv, User, TypeOK
      <3>4. \A u : Of(u, {"cache"}) \subseteq Of(u, {"cache"})'
        BY <2>1, <2>3, <2>5 DEF Of, User, TypeOK
      <3>5. MacAgrees'
        BY <2>3, <3>4 DEF MacInv, MacAgrees
      <3>6. QED BY <3>2, <3>3, <3>5 DEF MacInv
    <2>6. CASE Account[User(t)].bindMac /\ pc' = [pc EXCEPT ![t] = "insert"]
      <3>1. \A s \in Tasks : pc'[s] \in Addressed /\ Account[User(s)'].bindMac =>
              request'[s].mac \in Macs /\ request'[s].mac = macDB'[User(s)']
        BY <2>1, <2>3, <2>6 DEF MacInv, User, TypeOK
      <3>2. \A s \in Tasks : pc'[s] \in {"insert", "cache"} => Account[User(s)'].bindMac
        BY <2>3, <2>6 DEF MacInv, User, TypeOK
      <3>3. \A u : Of(u, {"cache"}) \subseteq Of(u, {"cache"})'
        BY <2>1, <2>3, <2>6 DEF Of, User, TypeOK
      <3>4. MacAgrees'
        BY <2>3, <3>3 DEF MacInv, MacAgrees
      <3>5. QED BY <3>1, <3>2, <3>4 DEF MacInv
    <2>7. QED
      BY <1>3, <2>4, <2>5, <2>6 DEF CheckMac
  <1>4. ASSUME NEW t \in Tasks, InsertMac(t) PROVE MacInv'
    <2>1. User(t) \in Users /\ request[t] \in Requests /\ pc[t] = "insert"
      BY <1>4 DEF InsertMac, TypeOK, Deciding, User
    <2>2. request[t].mac \in Macs \cup {NoMac}
      BY <2>1, RequestsAssumption DEF Request
    <2>3. CASE macDB[User(t)] = NoMac /\ request[t].mac # NoMac
      <3>1. /\ macDB' = [macDB EXCEPT ![User(t)] = request[t].mac]
            /\ pc' = [pc EXCEPT ![t] = "cache"]
            /\ UNCHANGED <<macCache, request>>
        BY <1>4, <2>3 DEF InsertMac
      <3>2. \A s \in Tasks : pc[s] \in Addressed /\ Account[User(s)].bindMac =>
              User(s) # User(t)
        BY <2>3, MacsAssumption DEF MacInv
      <3>3. \A s \in Tasks : pc'[s] \in Addressed /\ Account[User(s)'].bindMac =>
              request'[s].mac \in Macs /\ request'[s].mac = macDB'[User(s)']
        <4>1. ASSUME NEW s \in Tasks, s # t, pc'[s] \in Addressed, Account[User(s)].bindMac
              PROVE  request[s].mac \in Macs /\ request[s].mac = macDB'[User(s)]
          <5>1. pc[s] \in Addressed
            BY <3>1, <4>1 DEF TypeOK
          <5>2. User(s) \in Users
            BY <5>1 DEF TypeOK, Deciding, User
          <5>3. QED BY <3>1, <3>2, <4>1, <5>1, <5>2 DEF MacInv, TypeOK
        <4>2. request[t].mac \in Macs /\ request[t].mac = macDB'[User(t)]
          BY <2>1, <2>2, <2>3, <3>1 DEF TypeOK
        <4>3. QED BY <3>1, <4>1, <4>2 DEF User
      <3>4. \A s \in Tasks : pc'[s] \in {"insert", "cache"} => Account[User(s)'].bindMac
        BY <2>1, <3>1 DEF MacInv, User, TypeOK
      <3>5. MacAgrees'
        <4>1. ASSUME NEW u \in Users, macCache[u] # macDB'[u]
              PROVE  macCache[u] = NoMac /\ Of(u, {"cache"})' # {}
          <5>1. CASE u = User(t)
            <6>1. macCache[u] = NoMac
              BY <2>3, <5>1 DEF MacInv, MacAgrees
            <6>2. t \in Of(u, {"cache"})'
              BY <2>1, <3>1, <5>1 DEF Of, User, TypeOK
            <6>3. QED BY <6>1, <6>2
          <5>2. CASE u # User(t)
            <6>1. macCache[u] # macDB[u]
              BY <3>1, <4>1, <5>2 DEF TypeOK
            <6>2. macCache[u] = NoMac /\ Of(u, {"cache"}) # {}
              BY <6>1 DEF MacInv, MacAgrees
            <6>3. Of(u, {"cache"}) \subseteq Of(u, {"cache"})'
              BY <3>1 DEF Of, User, TypeOK
            <6>4. QED BY <6>2, <6>3
          <5>3. QED BY <5>1, <5>2
        <4>2. QED BY <3>1, <4>1 DEF MacAgrees
      <3>6. QED BY <3>3, <3>4, <3>5 DEF MacInv
    <2>4. CASE ~(macDB[User(t)] = NoMac /\ request[t].mac # NoMac)
      BY <1>4, <2>4, MacUnchanged DEF InsertMac, TypeOK, macs
    <2>5. QED BY <2>3, <2>4
  <1>5. ASSUME NEW t \in Tasks, CacheMac(t) PROVE MacInv'
    <2>1. User(t) \in Users /\ pc[t] = "cache"
      BY <1>5 DEF CacheMac, TypeOK, Deciding, User
    <2>2. /\ macCache' = [macCache EXCEPT ![User(t)] = request[t].mac]
          /\ pc' = [pc EXCEPT ![t] = "decide"]
          /\ UNCHANGED <<macDB, request>>
      BY <1>5 DEF CacheMac
    <2>3. request[t].mac = macDB[User(t)]
      BY <2>1 DEF MacInv
    <2>4. \A s \in Tasks : pc'[s] \in Addressed /\ Account[User(s)'].bindMac =>
            request'[s].mac \in Macs /\ request'[s].mac = macDB'[User(s)']
      BY <2>1, <2>2 DEF MacInv, User, TypeOK
    <2>5. \A s \in Tasks : pc'[s] \in {"insert", "cache"} => Account[User(s)'].bindMac
      BY <2>2 DEF MacInv, User, TypeOK
    <2>6. ASSUME NEW u \in Users, macCache'[u] # macDB[u]
          PROVE  macCache'[u] = NoMac /\ Of(u, {"cache"})' # {}
      <3>1. u # User(t)
        BY <2>1, <2>2, <2>3, <2>6 DEF TypeOK
      <3>2. macCache'[u] = macCache[u]
        BY <2>2, <3>1 DEF TypeOK
      <3>3. macCache[u] = NoMac /\ Of(u, {"cache"}) # {}
        BY <2>6, <3>2 DEF MacInv, MacAgrees
      <3>4. Of(u, {"cache"}) \subseteq Of(u, {"cache"})'
        BY <2>2, <3>1 DEF Of, User, TypeOK
      <3>5. QED BY <3>2, <3>3, <3>4
    <2>7. QED
      BY <2>2, <2>4, <2>5, <2>6 DEF MacInv, MacAgrees
  <1>6. ASSUME NEW t \in Tasks, Decide(t) PROVE MacInv'
    BY <1>6, Decision, MacUnchanged DEF Grants, TypeOK, macs
  <1>7. ASSUME NEW t \in Tasks, ListSession(t) PROVE MacInv'
    BY <1>7, MacUnchanged DEF ListSession, TypeOK, macs
  <1>8. ASSUME NEW t \in Tasks, LoseSession(t) PROVE MacInv'
    BY <1>8, MacUnchanged DEF LoseSession, TypeOK, macs
  <1>9. CASE ClearSessions
    BY <1>9, MacUnchanged DEF ClearSessions, TypeOK, macs
  <1>10. ASSUME NEW t \in Tasks, EndSession(t) PROVE MacInv'
    BY <1>10, MacUnchanged DEF EndSession, TypeOK, macs
  <1>11. ASSUME NEW t \in Tasks, Fail(t) PROVE MacInv'
    BY <1>11, MacUnchanged DEF Fail, TypeOK, macs
  <1>12. CASE Crash
    <2>1. /\ pc' = [t \in Tasks |-> IF pc[t] \in Deciding THEN "failed" ELSE pc[t]]
          /\ macCache' = macDB
          /\ UNCHANGED <<macDB, request>>
      BY <1>12 DEF Crash
    <2>2. \A s \in Tasks : pc'[s] \in Addressed \cup {"insert"} => pc'[s] = pc[s] /\ pc[s] \notin Deciding
      BY <2>1 DEF Deciding
    <2>3. QED
      BY <2>1, <2>2 DEF MacInv, MacAgrees, User, Deciding
  <1>13. CASE UNCHANGED vars
    BY <1>13, MacUnchanged DEF vars, macs
  <1>14. QED
    BY <1>1, <1>2, <1>3, <1>4, <1>5, <1>6, <1>7, <1>8, <1>9, <1>10, <1>11,
       <1>12, <1>13 DEF Next

(* A user bound to an address is let in from no other, for any number of    *)
(* first logins that race, and any crashes (checkMac).                      *)
THEOREM AddressesHeld == Spec => []MacHeld
  <1>1. MacInv => MacHeld
    BY DEF MacInv, MacHeld, Addressed
  <1>2. QED
    BY <1>1, InitType, NextType, InitMac, NextMac, PTL DEF Spec

(* Cache and table differ in an address only while its inserter is between  *)
(* the two (UserService.addUserMeta).                                       *)
THEOREM AddressesAgree == Spec => []MacAgrees
  <1>1. MacInv => MacAgrees
    BY DEF MacInv
  <1>2. QED
    BY <1>1, InitType, NextType, InitMac, NextMac, PTL DEF Spec

-----------------------------------------------------------------------------
(* The limit.  LimitKept is inductive: only a count adds to the logins and  *)
(* sessions of a limited user.                                              *)
Held(u) == Of(u, NotListed \cup {"online"})

(* The sets counted are finite. *)
LEMMA OfFinite ==
  ASSUME NEW u, NEW S
  PROVE  IsFiniteSet(Of(u, S)) /\ Cardinality(Of(u, S)) \in Nat
  <1>1. Of(u, S) \subseteq Tasks
    BY DEF Of
  <1>2. QED
    BY <1>1, TasksAssumption, FS_Subset, FS_CardinalityType

(* Nobody is counted at the start. *)
LEMMA InitLimit == Init => LimitKept
  <1> SUFFICES ASSUME Init, NEW u \in Users, Account[u].limit > 0
               PROVE  Cardinality(Held(u)) <= Account[u].limit + 1 + overlaps[u]
    BY DEF LimitKept, Held
  <1>1. Held(u) = {}
    BY DEF Held, Of, Init, NotListed, Deciding
  <1>2. Cardinality(Held(u)) = 0
    BY <1>1, FS_EmptySet
  <1>3. overlaps[u] = 0 /\ Account[u].limit \in Int
    BY AccountAssumption DEF Init, AccountType
  <1>4. QED BY <1>2, <1>3

(* A step that counts nobody in keeps the bound. *)
LEMMA LimitUnchanged ==
  ASSUME TypeOK, LimitKept, UNCHANGED overlaps,
         \A u \in Users : Account[u].limit > 0 => Held(u)' \subseteq Held(u)
  PROVE  LimitKept'
  <1> SUFFICES ASSUME NEW u \in Users, Account[u].limit > 0
               PROVE  Cardinality(Held(u)') <= Account[u].limit + 1 + overlaps[u]
    BY DEF LimitKept, Held
  <1>1. Cardinality(Held(u)) <= Account[u].limit + 1 + overlaps[u]
    BY DEF LimitKept, Held
  <1>2. IsFiniteSet(Held(u)) /\ Cardinality(Held(u)) \in Nat
    BY OfFinite DEF Held
  <1>3. Cardinality(Held(u)') \in Nat /\ Cardinality(Held(u)') <= Cardinality(Held(u))
    BY <1>2, FS_Subset, FS_CardinalityType
  <1>4. overlaps[u] \in Nat /\ Account[u].limit \in Int
    BY AccountAssumption DEF TypeOK, AccountType
  <1>5. QED BY <1>1, <1>2, <1>3, <1>4

(* A count adds one task at most, and is allowed to by the comparison when  *)
(* everybody is listed, by the overlap counted when somebody is not.        *)
LEMMA CountKeepsLimit ==
  ASSUME TypeOK, LimitKept, NEW t \in Tasks, CountOnline(t)
  PROVE  LimitKept'
  <1> DEFINE v == User(t)
             n == Cardinality(Of(v, {"online"}))
             ended == Cardinality(Of(v, {"ended"}))
  <1>1. v \in Users /\ pc[t] = "count" /\ UNCHANGED request
    BY DEF CountOnline, TypeOK, Deciding, User
  <1>2. CASE pc' = [pc EXCEPT ![t] = "rejected"] /\ UNCHANGED overlaps
    <2>1. \A u \in Users : Held(u)' \subseteq Held(u)
      BY <1>1, <1>2 DEF Held, Of, User, NotListed, Deciding, TypeOK
    <2>2. QED BY <1>2, <2>1, LimitUnchanged
  <1>3. ASSUME NEW left \in 0 .. ended,
               ~OverLimit(n + left, Account[v].limit),
               pc' = [pc EXCEPT ![t] = "mac"],
               overlaps' = [overlaps EXCEPT ![v] = IF Of(v, NotListed) = {} THEN @ ELSE @ + 1]
        PROVE  LimitKept'
    <2> SUFFICES ASSUME NEW u \in Users, Account[u].limit > 0
                 PROVE  Cardinality(Held(u)') <= Account[u].limit + 1 + overlaps'[u]
      BY DEF LimitKept, Held
    <2>1. overlaps[u] \in Nat /\ Account[u].limit \in Int
      BY AccountAssumption DEF TypeOK, AccountType
    <2>2. Cardinality(Held(u)) <= Account[u].limit + 1 + overlaps[u]
      BY DEF LimitKept, Held
    <2>3. IsFiniteSet(Held(u)) /\ Cardinality(Held(u)) \in Nat
      BY OfFinite DEF Held
    <2>4. CASE u # v
      <3>1. Held(u)' = Held(u)
        BY <1>1, <1>3, <2>4 DEF Held, Of, User, TypeOK
      <3>2. overlaps'[u] = overlaps[u]
        BY <1>3, <2>4 DEF TypeOK
      <3>3. QED BY <2>2, <3>1, <3>2
    <2>5. CASE u = v
      <3>1. Held(u)' = Held(u) \cup {t} /\ t \notin Held(u)
        BY <1>1, <1>3, <2>5 DEF Held, Of, User, NotListed, Deciding, TypeOK
      <3>2. Cardinality(Held(u)') = Cardinality(Held(u)) + 1
        BY <2>3, <3>1, FS_AddElement
      <3>3. CASE Of(v, NotListed) = {}
        <4>1. Held(u) = Of(v, {"online"})
          BY <2>5, <3>3 DEF Held, Of
        <4>2. Cardinality(Held(u)) <= Account[u].limit
          <5>1. left \in Nat /\ n + left <= Account[u].limit
            BY <1>3, <2>1, <2>3, <2>5, <4>1, OfFinite DEF OverLimit
          <5>2. QED BY <2>1, <2>3, <2>5, <4>1, <5>1
        <4>3. overlaps'[u] = overlaps[u]
          BY <1>3, <2>5, <3>3 DEF TypeOK
        <4>4. QED BY <2>1, <2>3, <3>2, <4>2, <4>3
      <3>4. CASE Of(v, NotListed) # {}
        <4>1. overlaps'[u] = overlaps[u] + 1
          BY <1>1, <1>3, <2>5, <3>4 DEF TypeOK
        <4>2. QED BY <2>1, <2>2, <2>3, <3>2, <4>1
      <3>5. QED BY <3>3, <3>4
    <2>6. QED BY <2>4, <2>5
  <1>4. QED
    BY <1>2, <1>3 DEF CountOnline, Goto

(* Every step keeps the bound; a limited user is not counted in by his      *)
(* request.                                                                 *)
LEMMA NextLimit == TypeOK /\ LimitKept /\ [Next]_vars => LimitKept'
  <1> SUFFICES ASSUME TypeOK, LimitKept, [Next]_vars PROVE LimitKept'
    OBVIOUS
  <1> USE DEF Goto, Held, Of, User, NotListed, Deciding, history
  <1>1. ASSUME NEW t \in Tasks, NEW r \in Requests, AccessRequest(t, r) PROVE LimitKept'
    <2>1. \A u \in Users : Account[u].limit > 0 => Held(u)' \subseteq Held(u)
      BY <1>1 DEF AccessRequest, TypeOK
    <2>2. QED BY <1>1, <2>1, LimitUnchanged DEF AccessRequest
  <1>2. ASSUME NEW t \in Tasks, CountOnline(t) PROVE LimitKept'
    BY <1>2, CountKeepsLimit
  <1>3. ASSUME NEW t \in Tasks,
               \/ CheckMac(t) \/ InsertMac(t) \/ CacheMac(t)
               \/ ListSession(t) \/ LoseSession(t) \/ EndSession(t) \/ Fail(t)
        PROVE  LimitKept'
    <2>1. UNCHANGED <<request, overlaps>>
      BY <1>3 DEF CheckMac, InsertMac, CacheMac, ListSession, LoseSession, EndSession, Fail
    <2>2. \E label \in PCs :
            /\ pc' = [pc EXCEPT ![t] = label]
            /\ label \in NotListed \cup {"online"} => pc[t] \in NotListed
      BY <1>3 DEF CheckMac, InsertMac, CacheMac, ListSession, LoseSession, EndSession, Fail, PCs, Sessions
    <2>3. \A u \in Users : Held(u)' \subseteq Held(u)
      BY <2>1, <2>2 DEF TypeOK
    <2>4. QED BY <2>1, <2>3, LimitUnchanged
  <1>4. ASSUME NEW t \in Tasks, Decide(t) PROVE LimitKept'
    <2>1. UNCHANGED <<request, overlaps>> /\ pc[t] = "decide"
      BY <1>4, Decision
    <2>2. \E label \in PCs : pc' = [pc EXCEPT ![t] = label]
      BY <1>4, Decision DEF Grants, PCs, Sessions
    <2>3. \A u \in Users : Held(u)' \subseteq Held(u)
      BY <2>1, <2>2 DEF TypeOK
    <2>4. QED BY <2>1, <2>3, LimitUnchanged
  <1>5. CASE ClearSessions
    <2>1. UNCHANGED <<request, overlaps>>
      BY <1>5 DEF ClearSessions
    <2>2. \A u \in Users : Held(u)' \subseteq Held(u)
      BY <1>5, <2>1 DEF ClearSessions
    <2>3. QED BY <2>1, <2>2, LimitUnchanged
  <1>6. CASE Crash
    <2>1. UNCHANGED <<request, overlaps>>
      BY <1>6 DEF Crash
    <2>2. \A u \in Users : Held(u)' \subseteq Held(u)
      BY <1>6, <2>1 DEF Crash
    <2>3. QED BY <2>1, <2>2, LimitUnchanged
  <1>7. CASE UNCHANGED vars
    <2>1. \A u \in Users : Held(u)' \subseteq Held(u)
      BY <1>7 DEF vars
    <2>2. QED BY <1>7, <2>1, LimitUnchanged DEF vars
  <1>8. QED
    BY <1>1, <1>2, <1>3, <1>4, <1>5, <1>6, <1>7 DEF Next

(* However many logins race, sessions pass the limit only by the one the    *)
(* comparison allows and the overlaps.                                      *)
THEOREM LimitIsKept == Spec => []LimitKept
  <1>1. QED
    BY InitType, NextType, InitLimit, NextLimit, PTL DEF Spec

-----------------------------------------------------------------------------
(* What is left unpaid.  UnpaidBounded is not inductive: one must know that *)
(* a user who owes something has no credit, and so gets no more sessions;   *)
(* and that the only session of one who does not costs little more than his *)
(* credit, however soon it ends.                                            *)
Payer(u) == ByMinute(u) /\ SmallPrice(u) /\ ~unbounded[u]

Covered(u) ==
  /\ \A s, t \in Of(u, Sessions) : s = t
  /\ \A t \in Of(u, Sessions) : \A used \in 0 .. granted[t] :
       UsedFee(Wrap(used), Account[u].price) \in 0 .. credit[u] + MinutePart(u)
  /\ unpaid[u] <= MinutePart(u)
  /\ unpaid[u] # 0 => credit[u] = 0 /\ Of(u, Sessions) = {}

PaidInv == \A u \in Users : Payer(u) => Covered(u)

(* The attributes of an account. *)
LEMMA PayerType ==
  ASSUME NEW u \in Users, ByMinute(u)
  PROVE  Account[u].price \in Nat \ {0} /\ Account[u].credit \in Nat /\ MinutePart(u) \in Nat
  <1>1. Account[u].price \in Nat \ {0} /\ Account[u].credit \in Nat
    BY AccountAssumption, MaxIntAssumption DEF AccountType, ByMinute
  <1>2. (59 * Account[u].price) \div 3600 \in Nat
    BY <1>1
  <1>3. QED BY <1>1, <1>2 DEF MinutePart

(* Nothing is owed at the start. *)
LEMMA InitPaid == Init => PaidInv
  <1> SUFFICES ASSUME Init, NEW u \in Users, Payer(u) PROVE Covered(u)
    BY DEF PaidInv
  <1>1. Of(u, Sessions) = {}
    BY DEF Init, Of, Sessions
  <1>2. credit[u] = Account[u].credit /\ unpaid[u] = 0
    BY DEF Init
  <1>3. QED
    BY <1>1, <1>2, PayerType DEF Covered, Payer

(* A step that grants and charges nothing keeps the invariant.              *)
LEMMA PaidUnchanged ==
  ASSUME PaidInv, UNCHANGED <<credit, granted, unbounded, unpaid>>,
         \A u \in Users : Of(u, Sessions)' \subseteq Of(u, Sessions)
  PROVE  PaidInv'
  <1> SUFFICES ASSUME NEW u \in Users, Payer(u)' PROVE Covered(u)'
    BY DEF PaidInv
  <1>1. Covered(u)
    BY DEF PaidInv, Payer
  <1>2. Of(u, Sessions)' \subseteq Of(u, Sessions)
    OBVIOUS
  <1>3. QED
    BY <1>1, <1>2 DEF Covered

(* A time that is an int is read by the access server as it was written.    *)
LEMMA UnsignedSmall ==
  ASSUME NEW x \in Nat, x <= MaxInt
  PROVE  Unsigned(x) = x
  <1>1. x < 2 * (MaxInt + 1)
    BY MaxIntAssumption
  <1>2. \A a, b \in Int : b > 0 /\ a >= 0 /\ a < b => a % b = a
    OBVIOUS
  <1>3. QED
    BY <1>1, <1>2, MaxIntAssumption DEF Unsigned, WordSize

(* The time of a user who pays by the minute is the less of two: what his   *)
(* credit pays for, and the time to the end of his account.                 *)
LEMMA TimeOfCredit ==
  ASSUME NEW u \in Users, NEW now \in Clock, ByMinute(u), credit[u] \in 0 .. MaxInt
  PROVE  /\ TimeLeft(u, now) \in Int
         /\ TimeLeft(u, now) <= BaseTime(u, now)
         /\ TimeLeft(u, now) <= Quotient(Wrap(credit[u] * 60 * 60), Account[u].price)
         /\ TimeLeft(u, now) \in
              {BaseTime(u, now), Quotient(Wrap(credit[u] * 60 * 60), Account[u].price)}
  <1> DEFINE base == BaseTime(u, now)
             paid == Quotient(Wrap(credit[u] * 60 * 60), Account[u].price)
  <1>1. base \in Int
    BY BaseTimeType
  <1>2. paid \in Int
    BY PayerType, CreditTotal
  <1>3. TimeLeft(u, now) = Least(base, paid)
    BY DEF TimeLeft, CreditTime, ByMinute
  <1> HIDE DEF base, paid
  <1>4. QED
    BY <1>1, <1>2, <1>3 DEF Least, base, paid

(* The time granted to a user who pays by the minute, when it is above      *)
(* zero: his credit pays for it, and the access server reads it as it was.  *)
LEMMA GrantCovered ==
  ASSUME NEW u \in Users, NEW now \in Clock, ByMinute(u), SmallPrice(u),
         credit[u] \in 0 .. MaxInt, TimeLeft(u, now) # 0, ~(TimeLeft(u, now) < 0)
  PROVE  /\ credit[u] # 0
         /\ \A used \in 0 .. Unsigned(TimeLeft(u, now)) :
              UsedFee(Wrap(used), Account[u].price) \in 0 .. credit[u] + MinutePart(u)
  <1> DEFINE price == Account[u].price
             time == TimeLeft(u, now)
             amount == credit[u]
             paid == Quotient(Wrap(amount * 60 * 60), price)
  <1>1. price \in Nat \ {0} /\ amount \in Nat /\ 59 * price <= MaxInt
    BY PayerType, MaxIntAssumption DEF SmallPrice
  <1>2. time \in Int /\ time <= paid
    BY TimeOfCredit
  <1>3. time \in Nat \ {0}
    <2>1. time # 0 /\ ~(time < 0)
      OBVIOUS
    <2> HIDE DEF time
    <2>2. QED BY <1>2, <2>1
  <1> HIDE DEF time, price, amount
  <1>4. /\ time <= MaxInt
        /\ \A used \in 0 .. time :
             UsedFee(Wrap(used), price) \in 0 .. amount + (59 * price) \div 3600
    BY <1>1, <1>2, <1>3, AmountPaysForTime
  <1>5. Unsigned(time) = time
    BY <1>3, <1>4, UnsignedSmall
  <1>6. amount # 0
    <2> SUFFICES ASSUME amount = 0 PROVE FALSE
      OBVIOUS
    <2>1. amount * 60 * 60 = 0 /\ 0 \in JavaInt
      BY MaxIntAssumption DEF JavaInt
    <2>2. Wrap(0) = 0 /\ Quotient(0, price) = 0
      BY <1>1, <2>1, WrapSmall DEF Quotient
    <2>3. paid = 0
      BY <2>1, <2>2
    <2>4. QED BY <1>2, <1>3, <2>3
  <1>7. QED
    BY <1>4, <1>5, <1>6 DEF MinutePart, price, time, amount

(* A decision grants a session to one who has none, or marks him.           *)
LEMMA DecideKeepsPaid ==
  ASSUME TypeOK, PaidInv, NEW t \in Tasks, Decide(t)
  PROVE  PaidInv'
  <1> DEFINE v == User(t)
  <1>1. v \in Users /\ pc[t] = "decide" /\ UNCHANGED <<request, credit, unpaid>>
    BY Decision
  <1>2. CASE pc' \in {[pc EXCEPT ![t] = "rejected"], [pc EXCEPT ![t] = "failed"]}
             /\ UNCHANGED <<granted, basis, unbounded>>
    <2>1. \A u \in Users : Of(u, Sessions)' \subseteq Of(u, Sessions)
      BY <1>1, <1>2 DEF Of, User, Sessions, TypeOK
    <2>2. QED BY <1>1, <1>2, <2>1, PaidUnchanged
  <1>3. ASSUME NEW now \in Clock, NEW nowDay \in Clock, NEW nowTime \in Clock,
               NEW nowHour \in Clock, Grants(t, now, nowDay, nowTime, nowHour)
        PROVE  PaidInv'
    <2>1. /\ TimeLeft(v, now) # 0
          /\ pc' = [pc EXCEPT ![t] = "accepted"]
          /\ granted' = [granted EXCEPT ![t] = Unsigned(TimeLeft(v, now))]
          /\ unbounded' = [unbounded EXCEPT ![v] =
               @ \/ TimeLeft(v, now) < 0 \/ Of(v, Sessions) # {}]
      BY <1>3 DEF Grants
    <2> HIDE DEF v
    <2> SUFFICES ASSUME NEW u \in Users, Payer(u)' PROVE Covered(u)'
      BY DEF PaidInv
    <2>2. Payer(u) /\ (u = v => Of(u, Sessions) = {} /\ ~(TimeLeft(u, now) < 0))
      BY <1>1, <2>1 DEF Payer, TypeOK
    <2>3. Covered(u)
      BY <2>2 DEF PaidInv
    <2>4. CASE u # v
      <3>1. Of(u, Sessions)' = Of(u, Sessions)
        BY <1>1, <2>1, <2>4 DEF Of, User, Sessions, TypeOK, v
      <3>2. t \notin Of(u, Sessions)
        BY <2>4 DEF Of, v
      <3>3. \A s \in Of(u, Sessions) : granted'[s] = granted[s]
        BY <2>1, <3>2 DEF Of, TypeOK
      <3>4. QED BY <1>1, <2>3, <3>1, <3>3 DEF Covered
    <2>5. CASE u = v
      <3>1. Of(u, Sessions)' = {t}
        BY <1>1, <2>1, <2>2, <2>5 DEF Of, User, Sessions, TypeOK, v
      <3>2. credit[u] \in 0 .. MaxInt
        BY DEF TypeOK
      <3>3. /\ credit[u] # 0
            /\ \A used \in 0 .. Unsigned(TimeLeft(u, now)) :
                 UsedFee(Wrap(used), Account[u].price) \in 0 .. credit[u] + MinutePart(u)
        BY <2>1, <2>2, <2>5, <3>2, GrantCovered DEF Payer
      <3>4. granted'[t] = Unsigned(TimeLeft(u, now))
        BY <2>1, <2>5 DEF TypeOK
      <3>5. unpaid[u] = 0
        BY <2>3, <3>3 DEF Covered
      <3>6. QED BY <1>1, <2>3, <3>1, <3>3, <3>4, <3>5 DEF Covered
    <2>6. QED BY <2>4, <2>5
  <1>4. QED
    BY <1>2, <1>3, Decision

(* A Stop charges the only session of a user, and what his credit does not  *)
(* cover leaves him without credit.                                         *)
LEMMA EndKeepsPaid ==
  ASSUME TypeOK, PaidInv, NEW t \in Tasks, EndSession(t)
  PROVE  PaidInv'
  <1> DEFINE v == User(t)
  <1>1. /\ v \in Users /\ pc[t] \in {"online", "unlisted"}
        /\ pc' = [pc EXCEPT ![t] = "ended"]
        /\ UNCHANGED <<request, granted, unbounded>>
    BY DEF EndSession, TypeOK, Sessions, User, Goto
  <1>2. PICK used \in 0 .. granted[t] :
          /\ Charged(v, used) \in JavaInt
          /\ credit' = [credit EXCEPT ![v] = Balance(@, Charged(v, used))]
          /\ unpaid' = [unpaid EXCEPT ![v] =
               IF Charged(v, used) > credit[v] THEN @ + Charged(v, used) - credit[v] ELSE @]
    BY Charging
  <1> SUFFICES ASSUME NEW u \in Users, Payer(u)' PROVE Covered(u)'
    BY DEF PaidInv
  <1>3. Payer(u) /\ Covered(u)
    BY <1>1 DEF PaidInv, Payer
  <1>4. CASE u # v
    <2>1. Of(u, Sessions)' = Of(u, Sessions)
      BY <1>1, <1>4 DEF Of, User, Sessions, TypeOK
    <2>2. credit'[u] = credit[u] /\ unpaid'[u] = unpaid[u]
      BY <1>2, <1>4 DEF TypeOK
    <2>3. QED BY <1>1, <1>3, <2>1, <2>2 DEF Covered
  <1>5. CASE u = v
    <2>1. t \in Of(u, Sessions)
      BY <1>1, <1>5 DEF Of, Sessions
    <2>2. Of(u, Sessions)' = {}
      <3>1. \A s \in Of(u, Sessions) : s = t
        BY <1>3, <2>1 DEF Covered
      <3>2. QED BY <1>1, <3>1 DEF Of, User, Sessions, TypeOK
    <2> DEFINE fee == Charged(v, used)
    <2>3. fee = UsedFee(Wrap(used), Account[u].price)
      BY <1>3, <1>5 DEF Payer, ByMinute, Charged
    <2>4. fee \in 0 .. credit[u] + MinutePart(u)
      BY <1>3, <2>1, <2>3 DEF Covered
    <2>5. unpaid[u] = 0
      BY <1>3, <2>1 DEF Covered
    <2>6. credit[u] \in 0 .. MaxInt /\ MinutePart(u) \in Nat /\ fee \in JavaInt
      BY <1>2, <1>3, PayerType DEF TypeOK, Payer
    <2>7. /\ credit'[u] = Balance(credit[u], fee)
          /\ unpaid'[u] = IF fee > credit[u] THEN 0 + fee - credit[u] ELSE 0
      BY <1>2, <1>5, <2>5 DEF TypeOK
    <2> HIDE DEF fee, v
    <2>8. fee \in Nat /\ fee <= credit[u] + MinutePart(u) /\ credit[u] \in Nat
      BY <2>4, <2>6, MaxIntAssumption
    <2>9. Balance(credit[u], fee) = IF credit[u] < fee THEN 0 ELSE credit[u] - fee
      BY <2>6, <2>8, BalanceExact, MaxIntAssumption
    <2>10. unpaid'[u] <= MinutePart(u) /\ (unpaid'[u] # 0 => credit'[u] = 0)
      BY <2>6, <2>7, <2>8, <2>9
    <2>11. QED BY <2>2, <2>10 DEF Covered, MinutePart
  <1>6. QED BY <1>4, <1>5

(* Every step keeps what is owed within bounds. *)
LEMMA NextPaid == TypeOK /\ PaidInv /\ [Next]_vars => PaidInv'
  <1> SUFFICES ASSUME TypeOK, PaidInv, [Next]_vars PROVE PaidInv'
    OBVIOUS
  <1> USE DEF Goto, Of, User, Sessions, history, grants
  <1>1. ASSUME NEW t \in Tasks, NEW r \in Requests, AccessRequest(t, r) PROVE PaidInv'
    <2>1. \A u \in Users : Of(u, Sessions)' \subseteq Of(u, Sessions)
      BY <1>1 DEF AccessRequest, TypeOK
    <2>2. QED BY <1>1, <2>1, PaidUnchanged DEF AccessRequest
  <1>2. ASSUME NEW t \in Tasks,
               \/ CountOnline(t) \/ CheckMac(t) \/ InsertMac(t) \/ CacheMac(t)
               \/ ListSession(t) \/ LoseSession(t) \/ Fail(t)
        PROVE  PaidInv'
    <2>1. UNCHANGED <<request, credit, granted, unbounded, unpaid>>
      BY <1>2 DEF CountOnline, CheckMac, InsertMac, CacheMac, ListSession, LoseSession, Fail
    <2>2. \E label \in PCs :
            /\ pc' = [pc EXCEPT ![t] = label]
            /\ label \in Sessions => pc[t] \in Sessions
      BY <1>2 DEF CountOnline, CheckMac, InsertMac, CacheMac, ListSession, LoseSession,
                  Fail, PCs, Deciding
    <2>3. \A u \in Users : Of(u, Sessions)' \subseteq Of(u, Sessions)
      BY <2>1, <2>2 DEF TypeOK
    <2>4. QED BY <2>1, <2>3, PaidUnchanged
  <1>3. ASSUME NEW t \in Tasks, Decide(t) PROVE PaidInv'
    BY <1>3, DecideKeepsPaid
  <1>4. ASSUME NEW t \in Tasks, EndSession(t) PROVE PaidInv'
    BY <1>4, EndKeepsPaid
  <1>5. CASE ClearSessions
    <2>1. \A u \in Users : Of(u, Sessions)' \subseteq Of(u, Sessions)
      BY <1>5 DEF ClearSessions
    <2>2. QED BY <1>5, <2>1, PaidUnchanged DEF ClearSessions
  <1>6. CASE Crash
    <2>1. \A u \in Users : Of(u, Sessions)' \subseteq Of(u, Sessions)
      BY <1>6 DEF Crash
    <2>2. QED BY <1>6, <2>1, PaidUnchanged DEF Crash
  <1>7. CASE UNCHANGED vars
    <2>1. \A u \in Users : Of(u, Sessions)' \subseteq Of(u, Sessions)
      BY <1>7 DEF vars
    <2>2. QED BY <1>7, <2>1, PaidUnchanged DEF vars
  <1>8. QED
    BY <1>1, <1>2, <1>3, <1>4, <1>5, <1>6, <1>7 DEF Next

(* Whatever the credits, prices and times: time granted from a credit and   *)
(* the fee taken from it fit together, to the part of one minute.           *)
THEOREM UnpaidIsBounded == Spec => []UnpaidBounded
  <1>1. PaidInv => UnpaidBounded
    BY DEF PaidInv, UnpaidBounded, Payer, Covered
  <1>2. QED
    BY <1>1, InitType, NextType, InitPaid, NextPaid, PTL DEF Spec

-----------------------------------------------------------------------------
(* When sessions are granted.                                               *)

(* The remainder of a number that is in range, or one range below it.       *)
LEMMA InRange ==
  ASSUME NEW n \in Nat \ {0}, NEW x \in Int
  PROVE  /\ 0 <= x /\ x < n => x % n = x
         /\ -n <= x /\ x < 0 => x % n = x + n
  OBVIOUS

(* Minutes since the beginning of a period, around the clock.               *)
LEMMA Around ==
  ASSUME NEW day \in Nat \ {0}, NEW from \in Int, NEW to \in Int, NEW minute \in Int,
         0 <= from, from < day, 0 <= to, to < day, 0 <= minute, minute < day, from # to,
         ~(from < to /\ (minute < from \/ minute > to)),
         ~(from > to /\ minute < from /\ minute > to)
  PROVE  (minute - from) % day <= (to - from) % day
  <1>1. CASE from < to
    <2>1. (minute - from) % day = minute - from /\ (to - from) % day = to - from
      BY <1>1, InRange
    <2>2. QED BY <1>1, <2>1
  <1>2. CASE from > to
    <2>1. (to - from) % day = to - from + day
      BY <1>2, InRange
    <2>2. CASE minute >= from
      BY <1>2, <2>1, <2>2, InRange
    <2>3. CASE minute < from
      <3>1. (minute - from) % day = minute - from + day
        BY <2>3, InRange
      <3>2. QED BY <1>2, <2>1, <2>3, <3>1
    <2>4. QED BY <2>2, <2>3
  <1>3. QED BY <1>1, <1>2

(* The minutes of a day. *)
LEMMA MinuteType ==
  ASSUME NEW m \in Minute
  PROVE  m \in Int /\ 0 <= m /\ m < 1440
  <1>1. \A n \in Int : \A i \in 0 .. n : i \in Int /\ 0 <= i /\ i < n + 1
    OBVIOUS
  <1>2. 1439 \in Int /\ 1439 + 1 = 1440
    OBVIOUS
  <1>3. QED
    BY <1>1, <1>2 DEF Minute

(* Every second is in one of the minutes of its day, and minutes around the *)
(* clock are the same on every day.                                         *)
LEMMA MinuteOfDay ==
  ASSUME NEW now \in Clock, NEW from \in Int
  PROVE  /\ (now \div 60) % 1440 \in Int
         /\ 0 <= (now \div 60) % 1440 /\ (now \div 60) % 1440 < 1440
         /\ (now \div 60 - from) % 1440 = (((now \div 60) % 1440) - from) % 1440
  <1>1. now \in Nat
    BY ClockType
  <1>2. now \div 60 \in Nat
    BY <1>1
  <1>3. \A x \in Nat : x % 1440 \in Int /\ 0 <= x % 1440 /\ x % 1440 < 1440
    OBVIOUS
  <1>4. \A x \in Nat, y \in Int : (x - y) % 1440 = ((x % 1440) - y) % 1440
    OBVIOUS
  <1>5. QED BY <1>2, <1>3, <1>4

(* A session was granted by a decision, and keeps its user and its times.   *)
LEMMA SessionsAreGranted ==
  ASSUME TypeOK, [Next]_vars, NEW t \in Tasks, pc'[t] \in Sessions
  PROVE  \/ pc[t] \in Sessions /\ User(t)' = User(t)
              /\ granted'[t] = granted[t] /\ basis'[t] = basis[t]
         \/ Decide(t) /\ pc'[t] = "accepted"
  <1> USE DEF Goto, User, Sessions, grants, history
  <1>1. ASSUME NEW s \in Tasks, NEW r \in Requests, AccessRequest(s, r)
        PROVE  pc[t] \in Sessions /\ UNCHANGED <<request[t], granted, basis>>
    BY <1>1 DEF AccessRequest, TypeOK
  <1>2. ASSUME NEW s \in Tasks,
               \/ CountOnline(s) \/ CheckMac(s) \/ InsertMac(s) \/ CacheMac(s)
               \/ ListSession(s) \/ LoseSession(s) \/ Fail(s)
        PROVE  pc[t] \in Sessions /\ UNCHANGED <<request, granted, basis>>
    <2>1. UNCHANGED <<request, granted, basis>>
      BY <1>2 DEF CountOnline, CheckMac, InsertMac, CacheMac, ListSession, LoseSession, Fail
    <2>2. \E label \in PCs :
            /\ pc' = [pc EXCEPT ![s] = label]
            /\ label \in Sessions => pc[s] \in Sessions
      BY <1>2 DEF CountOnline, CheckMac, InsertMac, CacheMac, ListSession, LoseSession,
                  Fail, PCs, Deciding
    <2>3. QED BY <2>1, <2>2 DEF TypeOK
  <1>3. ASSUME NEW s \in Tasks, EndSession(s)
        PROVE  pc[t] \in Sessions /\ UNCHANGED <<request, granted, basis[t]>>
    <2>1. /\ UNCHANGED <<request, granted>> /\ pc' = [pc EXCEPT ![s] = "ended"]
          /\ basis' = [basis EXCEPT ![s] = NoBasis]
      BY <1>3 DEF EndSession
    <2>2. s # t
      BY <2>1 DEF TypeOK
    <2>3. QED BY <2>1, <2>2 DEF TypeOK
  <1>4. ASSUME NEW s \in Tasks, Decide(s), s # t
        PROVE  pc[t] \in Sessions /\ UNCHANGED <<request, granted[t], basis[t]>>
    <2>1. UNCHANGED request
      BY <1>4, Decision
    <2>2. \E label \in PCs : pc' = [pc EXCEPT ![s] = label]
      BY <1>4, Decision DEF Grants, PCs, Deciding
    <2>3. \/ UNCHANGED <<granted, basis>>
          \/ \E time, why : /\ granted' = [granted EXCEPT ![s] = time]
                            /\ basis' = [basis EXCEPT ![s] = why]
      BY <1>4, Decision DEF Grants
    <2>4. QED BY <1>4, <2>1, <2>2, <2>3 DEF TypeOK
  <1>5. CASE Decide(t)
    <2>1. pc'[t] \in {"rejected", "failed", "accepted"}
      BY <1>5, Decision DEF Grants, TypeOK
    <2>2. QED BY <1>5, <2>1
  <1>6. CASE ClearSessions \/ Crash \/ UNCHANGED vars
    BY <1>6 DEF ClearSessions, Crash, vars
  <1>7. QED
    BY <1>1, <1>2, <1>3, <1>4, <1>5, <1>6 DEF Next

(* What a decision that accepts has found out.                              *)
LEMMA AcceptedFor ==
  ASSUME TypeOK, NEW t \in Tasks, Decide(t), pc'[t] = "accepted"
  PROVE  /\ User(t) \in Users /\ User(t)' = User(t)
         /\ basis'[t].expiry \in Clock /\ basis'[t].hour \in Clock
         /\ basis'[t].overflow \/ ~(credit[User(t)] > MaxInt \div 3600)
         /\ granted'[t] = Unsigned(TimeLeft(User(t), basis'[t].expiry))
         /\ TimeLeft(User(t), basis'[t].expiry) # 0
         /\ ~DividesByZero(User(t))
         /\ \E nowDay, nowTime \in Clock :
              CheckPeriod(Account[User(t)].period, nowDay, nowTime, basis'[t].hour,
                          BaseTime(User(t), basis'[t].expiry)) # 0
  <1>1. User(t) \in Users /\ UNCHANGED request
    BY Decision
  <1>2. pc' \notin {[pc EXCEPT ![t] = "rejected"], [pc EXCEPT ![t] = "failed"]}
    BY DEF TypeOK
  <1>3. PICK now, nowDay, nowTime, nowHour \in Clock : Grants(t, now, nowDay, nowTime, nowHour)
    BY <1>2, Decision
  <1>4. /\ basis'[t] = [expiry |-> now, hour |-> nowHour,
                        overflow |-> credit[User(t)] > MaxInt \div 3600]
        /\ granted'[t] = Unsigned(TimeLeft(User(t), now))
    BY <1>3 DEF Grants, TypeOK
  <1> DEFINE over == credit[User(t)] > MaxInt \div 3600
  <1>5. basis'[t].expiry = now /\ basis'[t].hour = nowHour
    BY <1>4
  <1>6. basis'[t].overflow \/ ~over
    <2>1. basis'[t] = [expiry |-> now, hour |-> nowHour, overflow |-> over]
      BY <1>4
    <2> HIDE DEF over
    <2>2. basis'[t].overflow = over
      BY <2>1
    <2>3. QED BY <2>2
  <1>7. QED
    BY <1>1, <1>3, <1>4, <1>5, <1>6 DEF Grants, User

(* The hours.  AcceptedInPeriod is inductive with the types: a session keeps*)
(* its user and the time it was granted.                                    *)
LEMMA NextInPeriod == TypeOK /\ AcceptedInPeriod /\ [Next]_vars => AcceptedInPeriod'
  <1> DEFINE InHours(p, now) ==
               p # NoPeriod /\ p.from # p.to =>
                 (now \div 60 - p.from) % 1440 <= (p.to - p.from) % 1440
  <1> SUFFICES ASSUME TypeOK, AcceptedInPeriod, [Next]_vars, NEW t \in Tasks,
                      pc'[t] \in Sessions
               PROVE  InHours(Account[User(t)'].period, basis'[t].hour)
    BY DEF AcceptedInPeriod, User
  <1>1. CASE /\ pc[t] \in Sessions /\ User(t)' = User(t)
             /\ basis'[t] = basis[t]
    BY <1>1 DEF AcceptedInPeriod
  <1>2. CASE Decide(t) /\ pc'[t] = "accepted"
    <2> DEFINE p == Account[User(t)].period
               now == basis'[t].hour
               base == BaseTime(User(t), basis'[t].expiry)
    <2>1. User(t) \in Users /\ User(t)' = User(t) /\ now \in Clock
      BY <1>2, AcceptedFor
    <2>2. PICK nowDay, nowTime \in Clock : CheckPeriod(p, nowDay, nowTime, now, base) # 0
      BY <1>2, AcceptedFor
    <2>3. p \in Period \cup {NoPeriod}
      BY <2>1, AccountAssumption DEF AccountType
    <2> HIDE DEF p, now, base
    <2>4. SUFFICES ASSUME p # NoPeriod, p.from # p.to
                   PROVE  (now \div 60 - p.from) % 1440 <= (p.to - p.from) % 1440
      BY <2>1 DEF p, now
    <2>5. ~Outside(p, (now \div 60) % 1440)
      BY <2>2, <2>4 DEF CheckPeriod
    <2>6. /\ p.from \in Int /\ 0 <= p.from /\ p.from < 1440
          /\ p.to \in Int /\ 0 <= p.to /\ p.to < 1440
      <3>1. p.from \in Minute /\ p.to \in Minute
        BY <2>3, <2>4 DEF Period
      <3>2. QED BY <3>1, MinuteType
    <2> DEFINE from == p.from
               to == p.to
               minute == (now \div 60) % 1440
    <2>7. /\ minute \in Int /\ 0 <= minute /\ minute < 1440
          /\ (now \div 60 - from) % 1440 = (minute - from) % 1440
      BY <2>1, <2>6, MinuteOfDay
    <2>8. /\ ~(from < to /\ (minute < from \/ minute > to))
          /\ ~(from > to /\ minute < from /\ minute > to)
      BY <2>5 DEF Outside
    <2> DEFINE day == 1440
    <2>9. /\ day \in Nat \ {0} /\ from \in Int /\ to \in Int /\ minute \in Int
          /\ 0 <= from /\ from < day /\ 0 <= to /\ to < day
          /\ 0 <= minute /\ minute < day /\ from # to
      BY <2>4, <2>6, <2>7
    <2> HIDE DEF from, to, minute, day
    <2>10. (minute - from) % day <= (to - from) % day
      BY <2>8, <2>9, Around
    <2>11. QED BY <2>7, <2>10 DEF from, to, day
  <1>3. QED
    BY <1>1, <1>2, SessionsAreGranted

(* Nobody is let in outside his hours, whatever they are and whenever he    *)
(* asks, also when they pass midnight (checkPeriod).                        *)
THEOREM HoursAreKept == Spec => []AcceptedInPeriod
  <1>1. Init => AcceptedInPeriod
    BY DEF Init, AcceptedInPeriod, Sessions
  <1>2. QED
    BY <1>1, InitType, NextType, NextInPeriod, PTL DEF Spec

(* The end of an account.  EndsBeforeExpiry is inductive with the types: a  *)
(* session keeps what it was granted and on which basis; and a decision     *)
(* whose second reading finds the day not over, with a product that is an   *)
(* int, works with natural numbers throughout.                              *)
LEMMA NextBeforeExpiry ==
  TypeOK /\ EndsBeforeExpiry /\ [Next]_vars => EndsBeforeExpiry'
  <1> SUFFICES ASSUME TypeOK, EndsBeforeExpiry, [Next]_vars, NEW t \in Tasks,
                      pc'[t] \in Sessions, Account[User(t)'].expiry = "today",
                      basis'[t].expiry <= LastSecond,
                      ByMinute(User(t)') => ~basis'[t].overflow
               PROVE  basis'[t].expiry + granted'[t] <= LastSecond
    BY DEF EndsBeforeExpiry, User
  <1>1. CASE /\ pc[t] \in Sessions /\ User(t)' = User(t)
             /\ granted'[t] = granted[t] /\ basis'[t] = basis[t]
    BY <1>1 DEF EndsBeforeExpiry
  <1>2. CASE Decide(t) /\ pc'[t] = "accepted"
    <2> DEFINE u == User(t)
               now == basis'[t].expiry
               base == BaseTime(u, now)
               time == TimeLeft(u, now)
    <2>1. /\ u \in Users /\ User(t)' = u /\ now \in Clock
          /\ granted'[t] = Unsigned(time) /\ time # 0 /\ ~DividesByZero(u)
          /\ basis'[t].overflow \/ ~(credit[u] > MaxInt \div 3600)
      BY <1>2, AcceptedFor
    <2>2. now <= LastSecond /\ Account[u].expiry = "today"
      BY <2>1
    <2> HIDE DEF u, now
    <2>3. base \in Nat /\ base <= MaxInt /\ now + base <= LastSecond
      BY <2>1, <2>2, BaseTimeType
    <2>4. time \in Nat /\ time <= base
      <3>1. CASE ~Account[u].prepaid
        BY <2>3, <3>1 DEF TimeLeft
      <3>2. CASE Account[u].prepaid /\ ~Account[u].hasCredit
        BY <2>1, <3>2 DEF TimeLeft
      <3>3. CASE Account[u].prepaid /\ Account[u].hasCredit
        <4> DEFINE paid == Quotient(Wrap(credit[u] * 60 * 60), Account[u].price)
        <4>1. Account[u].price \in Nat /\ credit[u] \in 0 .. MaxInt
          BY <2>1, AccountAssumption, MaxIntAssumption DEF AccountType, TypeOK
        <4>2. ByMinute(u) /\ Account[u].price \in Nat \ {0}
          BY <2>1, <3>3, <4>1 DEF ByMinute, DividesByZero
        <4>3. credit[u] <= MaxInt \div 3600
          <5>1. ~basis'[t].overflow
            BY <2>1, <4>2
          <5>2. credit[u] \in Nat /\ MaxInt \div 3600 \in Nat
            BY <4>1, MaxIntAssumption
          <5>3. ~(credit[u] > MaxInt \div 3600)
            BY <2>1, <5>1
          <5>4. QED BY <5>2, <5>3
        <4>4. credit[u] * 60 * 60 \in JavaInt /\ credit[u] * 60 * 60 \in Nat
          BY <4>1, <4>3, MaxIntAssumption DEF JavaInt
        <4>5. paid \in Nat
          BY <4>2, <4>4, WrapSmall, DivisionBound DEF Quotient
        <4>6. time <= base /\ time \in {base, paid}
          BY <2>1, <4>1, <4>2, TimeOfCredit
        <4>7. QED BY <2>3, <4>5, <4>6
      <3>4. QED BY <3>1, <3>2, <3>3
    <2> HIDE DEF base, time
    <2>5. granted'[t] = time
      BY <2>1, <2>3, <2>4, UnsignedSmall, MaxIntAssumption
    <2>6. now \in Nat /\ LastSecond \in Nat
      BY <2>1, ClockType
    <2>7. now + time <= LastSecond
      BY <2>3, <2>4, <2>6
    <2>8. QED BY <2>5, <2>7 DEF now
  <1>3. QED
    BY <1>1, <1>2, SessionsAreGranted

(* A session granted on the last day of an account is over by midnight,     *)
(* whatever the word size, the credit and the price, unless midnight comes  *)
(* between two readings of the clock or the product of the credit           *)
(* overflows (accessRequestReceived, calcTimelen).                          *)
THEOREM ExpiryIsKept == Spec => []EndsBeforeExpiry
  <1>1. Init => EndsBeforeExpiry
    BY DEF Init, EndsBeforeExpiry, Sessions
  <1>2. QED
    BY <1>1, InitType, NextType, NextBeforeExpiry, PTL DEF Spec
=============================================================================
