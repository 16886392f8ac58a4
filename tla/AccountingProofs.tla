-------------------------- MODULE AccountingProofs --------------------------
(***************************************************************************)
(* Proofs about module Accounting, for any tables, users, prices, requests *)
(* and numbers of threads and crashes: types, the bounds of a user's       *)
(* credit, the stability of the rows of RAD_ONLINE, the credit of a user   *)
(* whose charges did not overlap, and the table and the tickets of a       *)
(* session whose requests did not.                                         *)
(***************************************************************************)
EXTENDS Accounting, FiniteSetTheorems, TLAPS

(* The arithmetic of module Billing. *)

(* An operation on ints leaves an int. *)
LEMMA WrapType ==
  ASSUME NEW x \in Int
  PROVE  Wrap(x) \in JavaInt
  <1>1. WordSize \in Nat \ {0} /\ WordSize = 2 * (MaxInt + 1)
    BY MaxIntAssumption DEF WordSize
  <1>2. (x + MaxInt + 1) % WordSize \in 0 .. WordSize - 1
    BY <1>1, MaxIntAssumption
  <1> DEFINE y == (x + MaxInt + 1) % WordSize
  <1>3. Wrap(x) = y - (MaxInt + 1)
    BY DEF Wrap
  <1> HIDE DEF y
  <1>4. QED
    BY <1>1, <1>2, <1>3, MaxIntAssumption DEF JavaInt, y

(* The exact result, if it is one. *)
LEMMA WrapSmall ==
  ASSUME NEW x \in JavaInt
  PROVE  Wrap(x) = x
  <1>1. WordSize \in Nat \ {0} /\ WordSize = 2 * (MaxInt + 1)
    BY MaxIntAssumption DEF WordSize
  <1>2. x + MaxInt + 1 \in 0 .. WordSize - 1
    BY <1>1, MaxIntAssumption DEF JavaInt
  <1>3. (x + MaxInt + 1) % WordSize = x + MaxInt + 1
    BY <1>1, <1>2
  <1>4. QED
    BY <1>3, MaxIntAssumption DEF Wrap, JavaInt

(* Java's division and remainder are integers. *)
LEMMA QuotientType ==
  ASSUME NEW a \in Int
  PROVE  Quotient(a, 60) \in Int /\ Remainder(a, 60) \in Int
  BY DEF Quotient, Remainder

(* The product of two integers is one. *)
LEMMA ProductType ==
  ASSUME NEW a \in Int, NEW b \in Int
  PROVE  a * b \in Int
  OBVIOUS

(* A fee is an int, whatever the time of the session: below zero for a time *)
(* that is, and where the products overflow.                                *)
LEMMA FeeType ==
  ASSUME NEW time \in JavaInt, NEW price \in 0 .. MaxInt
  PROVE  UsedFee(time, price) \in JavaInt
  <1> DEFINE m == UsedMinutes(time)
             q == Quotient(m, 60)
             r == Remainder(m, 60)
  <1>1. time - 1 \in Int /\ price \in Int /\ \A x \in JavaInt : x \in Int
    BY MaxIntAssumption DEF JavaInt
  <1>2. m \in Int
    BY <1>1, WrapType, QuotientType DEF UsedMinutes
  <1> HIDE DEF m
  <1>3. q \in Int /\ r \in Int
    BY <1>2, QuotientType
  <1>4. UsedFee(time, price) =
          IF r > 0 THEN Wrap(Wrap(q * price) + Quotient(Wrap(r * price), 60)) ELSE Wrap(q * price)
    BY DEF UsedFee, m
  <1> HIDE DEF q, r
  <1>5. Wrap(q * price) \in JavaInt /\ Wrap(r * price) \in JavaInt
    BY <1>1, <1>3, ProductType, WrapType
  <1>6. Quotient(Wrap(r * price), 60) \in Int
    BY <1>1, <1>5, QuotientType
  <1> DEFINE a == Wrap(q * price)
             b == Quotient(Wrap(r * price), 60)
  <1> HIDE DEF a, b
  <1>7. a \in JavaInt /\ a + b \in Int
    BY <1>1, <1>5, <1>6 DEF a, b
  <1>8. QED
    BY <1>4, <1>7, WrapType DEF a, b

(* What is left of a credit: less by no more than the fee, and more only by *)
(* a fee below zero.                                                        *)
LEMMA BalanceType ==
  ASSUME NEW credit \in 0 .. MaxInt, NEW fee \in JavaInt
  PROVE  Balance(credit, fee) \in 0 .. MaxInt
  <1>1. credit - fee \in Int
    BY MaxIntAssumption DEF JavaInt
  <1>2. Wrap(credit - fee) \in JavaInt
    BY <1>1, WrapType
  <1>3. QED
    BY <1>2, MaxIntAssumption DEF Balance, JavaInt

LEMMA BalanceExact ==
  ASSUME NEW credit \in 0 .. MaxInt, NEW fee \in JavaInt, credit - fee <= MaxInt
  PROVE  Balance(credit, fee) = IF credit < fee THEN 0 ELSE credit - fee
  <1>1. credit - fee \in JavaInt
    BY MaxIntAssumption DEF JavaInt
  <1>2. Wrap(credit - fee) = credit - fee
    BY <1>1, WrapSmall
  <1>3. QED
    BY <1>2, MaxIntAssumption DEF Balance, JavaInt

-----------------------------------------------------------------------------
(* Requests and tickets.                                                    *)

(* The fee of a request of a user with a credit. *)
LEMMA RequestFee ==
  ASSUME NEW r \in Requests, r.user \in CreditUsers
  PROVE  Fee(r) \in JavaInt
  <1>1. r.time \in JavaInt /\ Price[r.user] \in 0 .. MaxInt
    BY RequestsAssumption, UsersAssumption, PolicyAssumption DEF Request
  <1>2. Time(r) \in JavaInt
    BY <1>1, MaxIntAssumption DEF Time, Missing, JavaInt
  <1>3. QED
    BY <1>1, <1>2, FeeType DEF Fee

(* A request is about a row of RAD_ONLINE. *)
LEMMA KeyType ==
  ASSUME NEW r \in Requests
  PROVE  Key(r) \in Keys
  BY RequestsAssumption DEF Key, Keys, Request

(* A Stop's ticket is well formed, whether or not its row was found.        *)
LEMMA StopTicketType ==
  ASSUME TypeOK, NEW t \in Tasks, request[t] \in Requests,
         NEW fee \in JavaInt, NEW isDeduct \in {0, 1}
  PROVE  StopTicket(t, fee, isDeduct) \in Ticket
  <1>1. Key(request[t]) \in Keys /\ request[t].user \in UserNames
    BY KeyType, RequestsAssumption DEF Request
  <1>2. found[t][Key(request[t])] \in Row \cup {NoRow}
    BY <1>1 DEF TypeOK
  <1>3. (IF found[t][Key(request[t])] = NoRow THEN "stop"
         ELSE found[t][Key(request[t])].source) \in Kinds
    BY <1>2 DEF Row, Kinds
  <1>4. QED
    BY <1>1, <1>3 DEF StopTicket, Ticket, Kinds

-----------------------------------------------------------------------------
(* Type correctness.                                                        *)

(* The state the process starts in. *)
LEMMA InitType == Init => TypeOK
  BY PolicyAssumption, MaxIntAssumption DEF Init, TypeOK, NoRows, NoRow, PCs

(* Every step of a task, every failure and a crash keep the types. *)
LEMMA NextType == TypeOK /\ [Next]_vars => TypeOK'
  <1> SUFFICES ASSUME TypeOK, [Next]_vars PROVE TypeOK'
    OBVIOUS
  <1>1. ASSUME NEW t \in Tasks, NEW r \in Requests, Execute(t, r) PROVE TypeOK'
    <2>1. /\ request' \in [Tasks -> Requests \cup {NoRequest}]
          /\ pc' \in [Tasks -> PCs]
      BY <1>1 DEF Execute, TypeOK, Goto, PCs, FirstStep
    <2>2. /\ lastWord' \in [Keys -> {"down", "up"}]
          /\ jumbled' \in [Keys -> BOOLEAN]
      <3>1. jumbled' \in [Keys -> BOOLEAN]
        BY <1>1 DEF Execute, Note, TypeOK
      <3>2. lastWord' \in [Keys -> {"down", "up"}]
        BY <1>1 DEF Execute, Note, TypeOK
      <3>3. QED
        BY <3>1, <3>2
    <2>3. ends' \in [Keys -> Nat]
      BY <1>1 DEF Execute, Note, TypeOK
    <2>4. \A s \in Tasks :
            /\ pc'[s] # "idle" => request'[s] \in Requests
            /\ pc'[s] \in {"lookup", "insert"} => request'[s].kind \in {"start", "interim"}
            /\ pc'[s] \in {"set", "bind", "write", "read", "copy", "ticket"} => request'[s].user \in CreditUsers
      BY <1>1 DEF Execute, TypeOK, Goto, FirstStep
    <2>5. QED
      BY <1>1, <2>1, <2>2, <2>3, <2>4 DEF Execute, TypeOK, stores
  <1>2. ASSUME NEW t \in Tasks, Lookup(t) PROVE TypeOK'
    BY <1>2 DEF Lookup, TypeOK, Goto, PCs, stores, locals, history
  <1>3. ASSUME NEW t \in Tasks, Insert(t) PROVE TypeOK'
    <2>1. request[t] \in Requests /\ request[t].kind \in {"start", "interim"}
      BY <1>3 DEF Insert, TypeOK
    <2>2. request[t].user \in UserNames
      BY <2>1, RequestsAssumption DEF Request
    <2>3. online' \in [Keys -> Row \cup {NoRow}]
      BY <1>3, <2>1, <2>2 DEF Insert, TypeOK, Row
    <2>4. pc' \in [Tasks -> PCs] /\ (\A s \in Tasks : pc'[s] \in {pc[s], "done"} /\ (s # t => pc'[s] = pc[s]))
      BY <1>3 DEF Insert, TypeOK, Goto, PCs
    <2>5. pc[t] # "idle"
      BY <1>3 DEF Insert
    <2>6. QED
      BY <1>3, <2>3, <2>4, <2>5 DEF Insert, TypeOK, locals, history
  <1>4. ASSUME NEW t \in Tasks, Select(t) PROVE TypeOK'
    <2>1. found' \in [Tasks -> [Keys -> Row \cup {NoRow}]]
      BY <1>4 DEF Select, TypeOK
    <2>2. QED
      BY <1>4, <2>1 DEF Select, TypeOK, Goto, PCs, stores, history
  <1>5. ASSUME NEW t \in Tasks, Delete(t) PROVE TypeOK'
    <2>1. online' \in [Keys -> Row \cup {NoRow}]
      BY <1>5 DEF Delete, TypeOK
    <2>2. QED
      BY <1>5, <2>1 DEF Delete, TypeOK, Goto, PCs, locals, history
  <1>6. ASSUME NEW t \in Tasks, Log(t) PROVE TypeOK'
    <2>1. request[t] \in Requests /\ request[t].kind \in Kinds
      BY <1>6, RequestsAssumption DEF Log, TypeOK, Request
    <2>2. found' \in [Tasks -> [Keys -> Row \cup {NoRow}]]
      <3>1. ASSUME NEW k \in Keys, found' = [found EXCEPT ![t][k] = NoRow]
            PROVE  found' \in [Tasks -> [Keys -> Row \cup {NoRow}]]
        <4>1. [found[t] EXCEPT ![k] = NoRow] \in [Keys -> Row \cup {NoRow}]
          BY DEF TypeOK
        <4>2. QED
          BY <3>1, <4>1 DEF TypeOK
      <3>2. QED
        BY <1>6, <3>1 DEF Log, TypeOK
    <2>3. tickets' \subseteq Ticket
      <3>1. CASE found[t] = NoRows /\ UNCHANGED tickets
        BY <3>1 DEF TypeOK
      <3>2. ASSUME NEW k \in Keys, found[t][k] # NoRow,
                   tickets' = tickets \cup
                     {[task |-> t, key |-> k, user |-> found[t][k].user,
                       startSource |-> found[t][k].source,
                       stopSource |-> request[t].kind, fee |-> 0, isDeduct |-> 0]}
            PROVE  tickets' \subseteq Ticket
        <4>1. found[t][k] \in Row
          BY <3>2 DEF TypeOK
        <4>2. 0 \in JavaInt
          BY MaxIntAssumption DEF JavaInt
        <4>3. QED
          BY <2>1, <3>2, <4>1, <4>2 DEF TypeOK, Ticket, Row, Kinds
      <3>3. QED
        BY <1>6, <3>1, <3>2 DEF Log
    <2>4. pc' \in [Tasks -> PCs] /\ (\A s \in Tasks : s # t => pc'[s] = pc[s]) /\ pc'[t] \in {"log", "done"}
      BY <1>6 DEF Log, TypeOK, Goto, PCs
    <2>5. QED
      BY <1>6, <2>1, <2>2, <2>3, <2>4 DEF Log, TypeOK, history
  <1>7. ASSUME NEW t \in Tasks, Bill(t) PROVE TypeOK'
    <2>1. request[t] \in Requests
      BY <1>7 DEF Bill, TypeOK
    <2>0. 0 \in JavaInt
      BY MaxIntAssumption DEF JavaInt
    <2>2. tickets' \subseteq Ticket
      BY <1>7, <2>0, <2>1, StopTicketType DEF Bill, TypeOK
    <2>3. HowBilled(request[t].user) = "deduct" => request[t].user \in CreditUsers
      BY DEF HowBilled
    <2>4. amount' \in [Tasks -> 0 .. MaxInt] /\ disturbed' \in [CreditUsers -> BOOLEAN]
      BY <1>7, <2>3 DEF Bill, TypeOK
    <2>5. /\ pc' \in [Tasks -> PCs]
          /\ \A s \in Tasks : s # t => pc'[s] = pc[s]
          /\ pc'[t] \in {"done", "set"}
          /\ pc'[t] = "set" => request[t].user \in CreditUsers
      BY <1>7, <2>3 DEF Bill, TypeOK, Goto, PCs
    <2>6. QED
      BY <1>7, <2>1, <2>2, <2>4, <2>5 DEF Bill, TypeOK
  <1>8. ASSUME NEW t \in Tasks, SetBalance(t) PROVE TypeOK'
    <2> DEFINE f == Fee(request[t])
    <2>1. /\ request[t] \in Requests /\ request[t].user \in CreditUsers
          /\ amount[t] \in 0 .. MaxInt
      BY <1>8 DEF SetBalance, TypeOK
    <2>2. f \in JavaInt
      BY <2>1, RequestFee
    <2>3. Balance(amount[t], f) \in 0 .. MaxInt
      BY <2>1, <2>2, BalanceType
    <2>4. creditCache' \in [CreditUsers -> 0 .. MaxInt]
      BY <1>8, <2>1, <2>3 DEF SetBalance, TypeOK
    <2>5. charged' \in [CreditUsers -> Nat] /\ refunded' \in [CreditUsers -> Nat]
      <3>1. /\ charged' = [charged EXCEPT ![request[t].user] = IF f > 0 THEN @ + f ELSE @]
            /\ refunded' = [refunded EXCEPT ![request[t].user] = IF f < 0 THEN @ - f ELSE @]
        BY <1>8 DEF SetBalance
      <3> HIDE DEF f
      <3>2. f \in Int
        BY <2>2, MaxIntAssumption DEF JavaInt
      <3>3. QED
        BY <2>1, <3>1, <3>2 DEF TypeOK
    <2>6. QED
      BY <1>8, <2>1, <2>4, <2>5 DEF SetBalance, TypeOK, Goto, PCs, locals
  <1>9. ASSUME NEW t \in Tasks, Bind(t) PROVE TypeOK'
    BY <1>9 DEF Bind, TypeOK, Goto, PCs, stores, history
  <1>10. ASSUME NEW t \in Tasks, WriteCredit(t) PROVE TypeOK'
    BY <1>10 DEF WriteCredit, TypeOK, Goto, PCs, locals, history
  <1>16. ASSUME NEW t \in Tasks, ReadBack(t) PROVE TypeOK'
    <2>1. amount' \in [Tasks -> 0 .. MaxInt]
      BY <1>16 DEF ReadBack, TypeOK
    <2>2. QED
      BY <1>16, <2>1 DEF ReadBack, TypeOK, Goto, PCs, stores, history
  <1>17. ASSUME NEW t \in Tasks, CopyBack(t) PROVE TypeOK'
    BY <1>17 DEF CopyBack, TypeOK, Goto, PCs, locals, history
  <1>11. ASSUME NEW t \in Tasks, WriteTicket(t) PROVE TypeOK'
    <2>1. request[t] \in Requests /\ request[t].user \in CreditUsers
      BY <1>11 DEF WriteTicket, TypeOK
    <2>2. tickets' \subseteq Ticket
      BY <1>11, <2>1, RequestFee, StopTicketType DEF WriteTicket, TypeOK
    <2>3. QED
      BY <1>11, <2>2 DEF WriteTicket, TypeOK, Goto, PCs, locals, history
  <1>12. ASSUME NEW t \in Tasks, Fail(t) PROVE TypeOK'
    <2>1. jumbled' \in [Keys -> BOOLEAN] /\ disturbed' \in [CreditUsers -> BOOLEAN]
      BY <1>12 DEF Fail, Abandoned
    <2>2. QED
      BY <1>12, <2>1 DEF Fail, TypeOK, Goto, PCs, stores, locals
  <1>13. ASSUME Crash PROVE TypeOK'
    <2>1. jumbled' \in [Keys -> BOOLEAN] /\ disturbed' \in [CreditUsers -> BOOLEAN]
      BY <1>13 DEF Crash, Abandoned
    <2>2. crashes' \in Nat /\ pc' \in [Tasks -> PCs]
      BY <1>13 DEF Crash, TypeOK, PCs
    <2>3. \A s \in Tasks : pc'[s] \in {"idle", "done"} /\ (pc'[s] # "idle" => pc[s] # "idle")
      BY <1>13 DEF Crash, TypeOK
    <2>4. QED
      BY <1>13, <2>1, <2>2, <2>3 DEF Crash, TypeOK, locals
  <1>14. CASE UNCHANGED vars
    BY <1>14 DEF TypeOK, vars, stores, locals, history
  <1>15. QED
    BY <1>1, <1>2, <1>3, <1>4, <1>5, <1>6, <1>7, <1>8, <1>9, <1>10, <1>11,
       <1>12, <1>13, <1>14, <1>16, <1>17 DEF Next

(* The state has the types of TypeOK whatever the accounting threads do and *)
(* whatever times the requests say, those of 2^31 seconds and more, which   *)
(* are read as negative, included: every ticket is complete, and no credit  *)
(* is negative.                                                             *)
THEOREM TypeCorrect == Spec => []TypeOK
  BY InitType, NextType, PTL DEF Spec

-----------------------------------------------------------------------------
(* The bounds of the credit.                                                *)

(* An amount a user's credit may be. *)
Within(u, a) == InitialCredit[u] - charged[u] <= a /\ a <= InitialCredit[u] + refunded[u]
Fits(u) == InitialCredit[u] + refunded[u] <= MaxInt

(* CreditWithinBounds is not inductive: a thread about to set the cache or  *)
(* to write the database or the cache carries an amount of its own, read    *)
(* from the cache earlier, which has to be within the bounds too.  It stays *)
(* so while other threads charge the user, as that only widens them.        *)
CreditInv ==
  /\ \A u \in CreditUsers : Fits(u) => Within(u, creditDB[u]) /\ Within(u, creditCache[u])
  /\ \A t \in Tasks : pc[t] \in {"set", "write", "copy"} /\ Fits(request[t].user) =>
       Within(request[t].user, amount[t])

(* Nobody has been charged, and no task carries an amount. *)
LEMMA InitCredit == Init => CreditInv
  BY PolicyAssumption, MaxIntAssumption DEF Init, CreditInv, Within

(* The steps after which every credit and the fees charged are what they    *)
(* were, and a thread carries an amount only if it carried it before.       *)
LEMMA CreditUnchanged ==
  ASSUME TypeOK, CreditInv, UNCHANGED <<creditDB, creditCache, charged, refunded>>,
         \A t \in Tasks : pc'[t] \in {"set", "write", "copy"} =>
           pc[t] = pc'[t] /\ request'[t] = request[t] /\ amount'[t] = amount[t]
  PROVE  CreditInv'
  BY DEF CreditInv, Within, Fits

(* A thread sets the cache: the bounds widen by its fee. *)
LEMMA SetKeepsCredit ==
  ASSUME TypeOK, CreditInv, NEW t \in Tasks, SetBalance(t)
  PROVE  CreditInv'
  <1> DEFINE u == request[t].user
             f == Fee(request[t])
             b == Balance(amount[t], f)
  <1>1. request[t] \in Requests /\ u \in CreditUsers /\ amount[t] \in 0 .. MaxInt
    BY DEF SetBalance, TypeOK
  <1>2. f \in JavaInt /\ f \in Int
    BY <1>1, RequestFee, MaxIntAssumption DEF JavaInt
  <1>3. Fits(u) => Within(u, amount[t])
    BY DEF SetBalance, CreditInv
  <1>4. b \in 0 .. MaxInt /\ (amount[t] - f <= MaxInt =>
          b = IF amount[t] < f THEN 0 ELSE amount[t] - f)
    BY <1>1, <1>2, BalanceType, BalanceExact
  <1>5. /\ creditCache' = [creditCache EXCEPT ![u] = b]
        /\ charged' = [charged EXCEPT ![u] = IF f > 0 THEN charged[u] + f ELSE charged[u]]
        /\ refunded' = [refunded EXCEPT ![u] = IF f < 0 THEN refunded[u] - f ELSE refunded[u]]
        /\ pc' = [pc EXCEPT ![t] = "bind"]
        /\ UNCHANGED <<creditDB, request, amount>>
    BY DEF SetBalance, b, f, u, locals, Goto
  <1> HIDE DEF b, f
  <1>6. /\ InitialCredit \in [CreditUsers -> 0 .. MaxInt]
        /\ creditCache \in [CreditUsers -> 0 .. MaxInt]
        /\ creditDB \in [CreditUsers -> 0 .. MaxInt]
        /\ charged \in [CreditUsers -> Nat] /\ refunded \in [CreditUsers -> Nat]
        /\ amount \in [Tasks -> 0 .. MaxInt] /\ pc \in [Tasks -> PCs]
    BY PolicyAssumption DEF TypeOK
  <1>7. \A v \in CreditUsers : /\ charged'[v] \in Nat /\ charged[v] <= charged'[v]
                               /\ refunded'[v] \in Nat /\ refunded[v] <= refunded'[v]
    BY <1>1, <1>2, <1>5, <1>6
  <1>8. \A v \in CreditUsers : Fits(v)' => Fits(v)
    BY <1>6, <1>7, MaxIntAssumption DEF Fits
  <1>9. \A v \in CreditUsers, a \in 0 .. MaxInt : Within(v, a) => Within(v, a)'
    <2> SUFFICES ASSUME NEW v \in CreditUsers, NEW a \in 0 .. MaxInt, Within(v, a)
                 PROVE  Within(v, a)'
      BY DEF Within
    <2>1. InitialCredit[v] \in Int /\ charged[v] \in Int /\ refunded[v] \in Int /\ a \in Int
      BY <1>6, MaxIntAssumption
    <2>2. QED
      BY <1>7, <2>1 DEF Within
  <1>10. ASSUME InitialCredit[u] + refunded'[u] <= MaxInt
         PROVE  InitialCredit[u] - charged'[u] <= b /\ b <= InitialCredit[u] + refunded'[u]
    <2>1. /\ InitialCredit[u] \in Nat /\ charged[u] \in Nat /\ refunded[u] \in Nat
          /\ amount[t] \in Nat /\ amount[t] <= MaxInt /\ MaxInt \in Nat
      BY <1>1, <1>6, MaxIntAssumption
    <2>2. Fits(u)
      BY <1>1, <1>7, <1>10, <2>1 DEF Fits
    <2>3. Within(u, amount[t])
      BY <1>3, <2>2
    <2>4. charged'[u] = IF f > 0 THEN charged[u] + f ELSE charged[u]
      BY <1>1, <1>5, <1>6
    <2>5. refunded'[u] = IF f < 0 THEN refunded[u] - f ELSE refunded[u]
      BY <1>1, <1>5, <1>6
    <2>6. amount[t] - f <= MaxInt
      BY <1>2, <1>10, <2>1, <2>3, <2>5 DEF Within
    <2>7. b = IF amount[t] < f THEN 0 ELSE amount[t] - f
      BY <1>4, <2>6
    <2>8. QED
      BY <1>2, <2>1, <2>3, <2>4, <2>5, <2>7 DEF Within
  <1>11. ASSUME NEW v \in CreditUsers, Fits(v)'
         PROVE  Within(v, creditDB[v])' /\ Within(v, creditCache[v])'
    <2>1. Within(v, creditDB[v]) /\ Within(v, creditCache[v])
      BY <1>8, <1>11 DEF CreditInv
    <2>2. Within(v, creditDB[v])' /\ (v # u => Within(v, creditCache[v])')
      BY <1>5, <1>6, <1>9, <2>1 DEF Within
    <2>3. v = u => Within(v, creditCache[v])'
      BY <1>1, <1>5, <1>6, <1>10, <1>11 DEF Within, Fits
    <2>4. QED
      BY <2>2, <2>3
  <1>12. ASSUME NEW s \in Tasks, pc'[s] \in {"set", "write", "copy"}, Fits(request[s].user)'
         PROVE  Within(request[s].user, amount[s])'
    <2>1. pc[s] \in {"set", "write", "copy"}
      BY <1>5, <1>6, <1>12
    <2>2. request[s].user \in CreditUsers /\ request'[s] = request[s] /\ amount'[s] = amount[s]
      BY <1>5, <2>1 DEF TypeOK
    <2>3. Fits(request[s].user)
      BY <1>8, <1>12, <2>2 DEF Fits
    <2>4. Within(request[s].user, amount[s])
      BY <2>1, <2>3 DEF CreditInv
    <2>5. QED
      BY <1>6, <1>9, <2>2, <2>4 DEF Within
  <1>13. QED
    BY <1>11, <1>12 DEF CreditInv

(* Every step keeps credits and carried amounts within their bounds. *)
LEMMA NextCredit == TypeOK /\ CreditInv /\ [Next]_vars => CreditInv'
  <1> SUFFICES ASSUME TypeOK, CreditInv, [Next]_vars PROVE CreditInv'
    OBVIOUS
  <1> USE DEF Goto, stores, locals, history
  <1>1. ASSUME NEW t \in Tasks, NEW r \in Requests, Execute(t, r) PROVE CreditInv'
    BY <1>1, CreditUnchanged DEF Execute, TypeOK, FirstStep
  <1>2. ASSUME NEW t \in Tasks,
               Lookup(t) \/ Insert(t) \/ Select(t) \/ Delete(t) \/ Log(t)
                 \/ WriteTicket(t) \/ Fail(t)
        PROVE  CreditInv'
    <2>1. /\ UNCHANGED <<creditDB, creditCache, charged, refunded, request, amount>>
          /\ \A s \in Tasks : s # t => pc'[s] = pc[s]
          /\ pc'[t] \notin {"set", "write", "copy"}
      BY <1>2 DEF Lookup, Insert, Select, Delete, Log, WriteTicket, Fail, TypeOK
    <2>2. QED
      BY <2>1, CreditUnchanged
  <1>3. ASSUME NEW t \in Tasks, Bill(t) PROVE CreditInv'
    <2> DEFINE u == request[t].user
    <2>1. CASE HowBilled(u) = "deduct"
      <3>1. u \in CreditUsers
        BY <2>1 DEF HowBilled
      <3>2. /\ UNCHANGED <<creditDB, creditCache, charged, refunded, request>>
            /\ amount' = [amount EXCEPT ![t] = creditCache[u]]
            /\ pc' = [pc EXCEPT ![t] = "set"]
        BY <1>3, <2>1 DEF Bill
      <3>3. Fits(u) => Within(u, creditCache[u])
        BY <3>1 DEF CreditInv
      <3>4. QED
        BY <3>2, <3>3 DEF CreditInv, Within, Fits, TypeOK
    <2>2. CASE HowBilled(u) # "deduct"
      BY <1>3, <2>2, CreditUnchanged DEF Bill, TypeOK
    <2>3. QED
      BY <2>1, <2>2
  <1>4. ASSUME NEW t \in Tasks, SetBalance(t) PROVE CreditInv'
    BY <1>4, SetKeepsCredit
  <1>5. ASSUME NEW t \in Tasks, Bind(t) \/ ReadBack(t) PROVE CreditInv'
    <2> DEFINE u == request[t].user
    <2>1. u \in CreditUsers
      BY <1>5 DEF Bind, ReadBack, TypeOK
    <2>2. Fits(u) => Within(u, creditCache[u])
      BY <2>1 DEF CreditInv
    <2>3. /\ UNCHANGED <<creditDB, creditCache, charged, refunded, request>>
          /\ amount' = [amount EXCEPT ![t] = creditCache[u]]
          /\ \A s \in Tasks : s # t => pc'[s] = pc[s]
      BY <1>5 DEF Bind, ReadBack, TypeOK
    <2>4. QED
      BY <2>2, <2>3 DEF CreditInv, Within, Fits, TypeOK
  <1>6. ASSUME NEW t \in Tasks, WriteCredit(t) PROVE CreditInv'
    <2>1. Fits(request[t].user) => Within(request[t].user, amount[t])
      BY <1>6 DEF WriteCredit, CreditInv
    <2>2. QED
      BY <1>6, <2>1 DEF WriteCredit, CreditInv, Within, Fits, TypeOK
  <1>7. ASSUME NEW t \in Tasks, CopyBack(t) PROVE CreditInv'
    <2>1. Fits(request[t].user) => Within(request[t].user, amount[t])
      BY <1>7 DEF CopyBack, CreditInv
    <2>2. QED
      BY <1>7, <2>1 DEF CopyBack, CreditInv, Within, Fits, TypeOK
  <1>8. ASSUME Crash PROVE CreditInv'
    BY <1>8 DEF Crash, CreditInv, Within, Fits, TypeOK
  <1>9. CASE UNCHANGED vars
    BY <1>9, CreditUnchanged DEF vars
  <1>10. QED
    BY <1>1, <1>2, <1>3, <1>4, <1>5, <1>6, <1>7, <1>8, <1>9 DEF Next

(* Nobody is charged more than the fees of his Stops and nobody gains but   *)
(* by the fees below zero of negative times and overflows, whatever the     *)
(* number of threads and crashes (doPrePayTimeLen, updateUserMeta,          *)
(* CacheService.start).                                                     *)
THEOREM CreditStaysWithinBounds == Spec => []CreditWithinBounds
  <1>1. CreditInv => CreditWithinBounds
    BY DEF CreditInv, CreditWithinBounds, Within, Fits
  <1>2. QED
    BY <1>1, InitType, NextType, InitCredit, NextCredit, PTL DEF Spec

-----------------------------------------------------------------------------
(* The rows of RAD_ONLINE.                                                  *)

(* A step keeps a session's row or removes it. *)
LEMMA NextRows ==
  ASSUME TypeOK, [Next]_vars, NEW k \in Keys, online[k] # NoRow
  PROVE  online'[k] \in {online[k], NoRow}
  <1> USE DEF stores, locals, history
  <1>1. ASSUME NEW t \in Tasks, Insert(t) PROVE online'[k] = online[k]
    BY <1>1 DEF Insert, TypeOK
  <1>2. ASSUME NEW t \in Tasks, Delete(t) PROVE online'[k] \in {online[k], NoRow}
    BY <1>2 DEF Delete
  <1>3. CASE UNCHANGED online
    BY <1>3
  <1>4. QED
    BY <1>1, <1>2, <1>3 DEF Next, vars, Execute, Lookup, Select, Log, Bill,
       SetBalance, Bind, WriteCredit, ReadBack, CopyBack, WriteTicket, Fail, Crash

(* A session's row is never altered, only removed, whatever Starts and      *)
(* Interims race for it (startAcct, updateAcct).                            *)
THEOREM RowsAreStable == Spec => RowsStable
  <1>1. TypeOK /\ [Next]_vars =>
          [\A k \in Keys : online[k] # NoRow => online'[k] \in {online[k], NoRow}]_vars
    BY NextRows
  <1>2. QED
    BY <1>1, TypeCorrect, PTL DEF Spec, RowsStable

-----------------------------------------------------------------------------
(* Sums of fees. *)

(* The fees of a set of tickets.  The community modules define the sum by   *)
(* recursion over the set; what it amounts to is proved by well-founded     *)
(* induction on the subsets of a finite set.                                *)
FeesOf(S) == MapThenSumSet(LAMBDA x : x.fee, S)

(* The fold takes an element out of the set and adds its fee to the sum of  *)
(* the others: Sums(g, S) says that g[s] is that sum for each subset s of S. *)
Any(s) == CHOOSE x \in s : TRUE
StepOf(g, s) == IF s = {} THEN 0 ELSE Any(s).fee + g[s \ {Any(s)}]
Sums(g, S) == g = [s \in SUBSET S |-> StepOf(g, s)]

(* What the definition of the sum in the community modules expands to. *)
LEMMA FeesDef ==
  ASSUME NEW S
  PROVE  FeesOf(S) = (CHOOSE g : Sums(g, S))[S]
  BY DEF FeesOf, MapThenSumSet, MapThenFoldSet, Sums, StepOf, Any

(* A collection of subsets of a finite set has a smallest member. *)
LEMMA SmallestSubset ==
  ASSUME NEW S, IsFiniteSet(S), NEW C, C \subseteq SUBSET S, C # {}
  PROVE  \E T \in C : \A U \in C : U \subseteq T => U = T
  <1>1. IsWellFoundedOn(StrictSubsetOrdering(S), SUBSET S)
    BY FS_StrictSubsetOrderingWellFounded, FS_FiniteSubsetsOfFinite
  <1>2. PICK T \in C : \A U \in C : ~(<<U, T>> \in StrictSubsetOrdering(S))
    BY <1>1, WFMin
  <1>3. ASSUME NEW U \in C, U \subseteq T PROVE U = T
    <2>1. <<U, T>> \notin StrictSubsetOrdering(S) /\ U \in SUBSET S /\ T \in SUBSET S
      BY <1>2
    <2>2. QED BY <1>3, <2>1 DEF StrictSubsetOrdering
  <1>4. QED BY <1>3

(* The recursion of the sum. *)
LEMMA SumsStep ==
  ASSUME NEW S, NEW g, Sums(g, S), NEW s \in SUBSET S
  PROVE  g[s] = StepOf(g, s)
  BY DEF Sums

(* Two functions that follow the recursion agree. *)
LEMMA SumsUnique ==
  ASSUME NEW S, IsFiniteSet(S), NEW T, NEW g, NEW h, Sums(g, S), Sums(h, T),
         NEW s \in SUBSET S, s \subseteq T
  PROVE  g[s] = h[s]
  <1> DEFINE C == {u \in SUBSET s : g[u] # h[u]}
  <1>0. IsFiniteSet(s)
    BY FS_Subset
  <1>1. SUFFICES ASSUME C # {} PROVE FALSE
    OBVIOUS
  <1>2. PICK u \in C : \A v \in C : v \subseteq u => v = u
    <2>1. C \subseteq SUBSET s
      OBVIOUS
    <2> HIDE DEF C
    <2>2. QED BY <1>0, <1>1, <2>1, SmallestSubset
  <1>3. u \in SUBSET S /\ u \in SUBSET T /\ g[u] # h[u]
    BY <1>2
  <1>4. g[u] = StepOf(g, u) /\ h[u] = StepOf(h, u)
    BY <1>3, SumsStep
  <1>5. CASE u = {}
    BY <1>3, <1>4, <1>5 DEF StepOf
  <1>6. CASE u # {}
    <2>1. Any(u) \in u
      BY <1>6 DEF Any
    <2>2. g[u \ {Any(u)}] = h[u \ {Any(u)}]
      <3>1. u \ {Any(u)} \in SUBSET s /\ u \ {Any(u)} \subseteq u /\ u \ {Any(u)} # u
        BY <1>2, <2>1
      <3>2. QED BY <1>2, <3>1
    <2>3. QED BY <1>3, <1>4, <1>6, <2>2 DEF StepOf
  <1>7. QED BY <1>5, <1>6

(* On a finite set, some function follows the recursion. *)
LEMMA SumsExist ==
  ASSUME NEW S, IsFiniteSet(S)
  PROVE  \E g : Sums(g, S)
  <1> DEFINE C == {T \in SUBSET S : \A g : ~Sums(g, T)}
             G(T) == CHOOSE g : Sums(g, T)
  <1>1. SUFFICES ASSUME C # {} PROVE FALSE
    OBVIOUS
  <1>2. PICK T \in C : \A U \in C : U \subseteq T => U = T
    <2>1. C \subseteq SUBSET S
      OBVIOUS
    <2> HIDE DEF C
    <2>2. QED BY <1>1, <2>1, SmallestSubset
  <1>3. T \in SUBSET S /\ \A g : ~Sums(g, T)
    BY <1>2
  <1>4. ASSUME NEW U \in SUBSET T, U # T PROVE Sums(G(U), U)
    <2>1. U \notin C /\ U \in SUBSET S
      BY <1>2, <1>3, <1>4
    <2>2. \E g : Sums(g, U)
      BY <2>1
    <2>3. QED BY <2>2
  <1> DEFINE h == [s \in SUBSET T |->
               IF s = T /\ T # {} THEN Any(T).fee + G(T \ {Any(T)})[T \ {Any(T)}]
               ELSE IF s = {} THEN 0 ELSE G(s)[s]]
  <1>5. ASSUME NEW s \in SUBSET T PROVE h[s] = StepOf(h, s)
    <2>1. CASE s = {}
      BY <2>1 DEF StepOf
    <2>2. CASE s # {} 
      <3> DEFINE r == s \ {Any(s)}
      <3>1. Any(s) \in s /\ r \in SUBSET T /\ r # T /\ r # s
        BY <2>2 DEF Any
      <3>2. h[r] = G(r)[r]
        <4>1. CASE r = {}
          <5>1. Sums(G(r), r) /\ r \in SUBSET r
            BY <3>1, <1>4
          <5>2. G(r)[r] = StepOf(G(r), r)
            BY <5>1, SumsStep
          <5>3. QED BY <4>1, <5>2, <3>1 DEF StepOf
        <4>2. CASE r # {}
          BY <4>2, <3>1
        <4>3. QED BY <4>1, <4>2
      <3>3. CASE s = T
        <4>1. h[s] = Any(s).fee + G(r)[r]
          BY <3>3, <2>2
        <4>2. QED BY <4>1, <3>2, <2>2 DEF StepOf
      <3>4. CASE s # T
        <4>1. h[s] = G(s)[s]
          BY <3>4, <2>2
        <4>2. Sums(G(s), s) /\ Sums(G(r), r)
          BY <3>1, <3>4, <1>4
        <4> HIDE DEF G
        <4>3. G(s)[s] = StepOf(G(s), s)
          BY <4>2, SumsStep
        <4>4. IsFiniteSet(s)
          BY <1>3, FS_Subset
        <4>5. G(s)[r] = G(r)[r]
          BY <4>2, <4>4, SumsUnique
        <4>6. QED BY <4>1, <4>3, <4>5, <3>2, <2>2 DEF StepOf
      <3>5. QED BY <3>3, <3>4
    <2>3. QED BY <2>1, <2>2
  <1>6. Sums(h, T)
    <2>1. h = [s \in SUBSET T |-> h[s]]
      OBVIOUS
    <2> HIDE DEF h
    <2>2. QED BY <1>5, <2>1 DEF Sums
  <1>7. QED BY <1>3, <1>6

(* No tickets, no fees. *)
LEMMA FeesOfNone == FeesOf({}) = 0
  <1>1. PICK g : Sums(g, {})
    BY SumsExist, FS_EmptySet
  <1>2. Sums((CHOOSE f : Sums(f, {})), {})
    BY <1>1
  <1>3. QED BY <1>2, FeesDef, SumsStep DEF StepOf

(* The recursion of the sum, for FeesOf. *)
LEMMA FeesOfSome ==
  ASSUME NEW S, IsFiniteSet(S), S # {}
  PROVE  Any(S) \in S /\ FeesOf(S) = Any(S).fee + FeesOf(S \ {Any(S)})
  <1> DEFINE R == S \ {Any(S)}
             G(T) == CHOOSE f : Sums(f, T)
  <1>1. Any(S) \in S
    BY DEF Any
  <1>2. IsFiniteSet(R)
    BY FS_Subset
  <1>3. Sums(G(S), S) /\ Sums(G(R), R)
    BY <1>2, SumsExist
  <1> HIDE DEF G
  <1>4. G(S)[S] = StepOf(G(S), S)
    BY <1>3, SumsStep
  <1>5. G(S)[R] = G(R)[R]
    BY <1>3, SumsUnique
  <1>6. FeesOf(S) = G(S)[S] /\ FeesOf(R) = G(R)[R]
    BY FeesDef DEF G
  <1>7. QED BY <1>1, <1>4, <1>5, <1>6 DEF StepOf

(* Fees add up to a natural number. *)
LEMMA FeesType ==
  ASSUME NEW S, IsFiniteSet(S), \A x \in S : x.fee \in Nat
  PROVE  FeesOf(S) \in Nat
  <1> DEFINE C == {T \in SUBSET S : FeesOf(T) \notin Nat}
  <1>1. SUFFICES ASSUME C # {} PROVE FALSE
    OBVIOUS
  <1>2. PICK T \in C : \A U \in C : U \subseteq T => U = T
    <2>1. C \subseteq SUBSET S
      OBVIOUS
    <2> HIDE DEF C
    <2>2. QED BY <1>1, <2>1, SmallestSubset
  <1>3. T \in SUBSET S /\ FeesOf(T) \notin Nat /\ IsFiniteSet(T)
    BY <1>2, FS_Subset
  <1>4. T # {}
    BY <1>3, FeesOfNone
  <1>5. Any(T) \in T /\ FeesOf(T) = Any(T).fee + FeesOf(T \ {Any(T)})
    BY <1>3, <1>4, FeesOfSome
  <1>6. FeesOf(T \ {Any(T)}) \in Nat
    <2>1. T \ {Any(T)} \in SUBSET S /\ T \ {Any(T)} \subseteq T /\ T \ {Any(T)} # T
      BY <1>3, <1>5
    <2>2. QED BY <1>2, <2>1
  <1>7. QED BY <1>3, <1>5, <1>6

(* One more ticket adds its fee, whichever element the fold takes first. *)
LEMMA FeesAdded ==
  ASSUME NEW S, IsFiniteSet(S), \A y \in S : y.fee \in Nat, NEW x, x \notin S, x.fee \in Nat
  PROVE  FeesOf(S \cup {x}) = FeesOf(S) + x.fee
  <1> DEFINE U == S \cup {x}
             C == {T \in SUBSET U : \E y \in U \ T : FeesOf(T \cup {y}) # FeesOf(T) + y.fee}
  <1>1. IsFiniteSet(U) /\ \A y \in U : y.fee \in Nat
    BY FS_AddElement
  <1>2. SUFFICES ASSUME C # {} PROVE FALSE
    <2>1. S \in SUBSET U /\ x \in U \ S
      OBVIOUS
    <2> HIDE DEF U
    <2>2. QED BY <2>1
  <1> HIDE DEF U
  <1>3. PICK T \in C : \A V \in C : V \subseteq T => V = T
    <2>1. C \subseteq SUBSET U
      OBVIOUS
    <2> HIDE DEF C
    <2>2. QED BY <1>1, <1>2, <2>1, SmallestSubset
  <1>4. PICK y \in U \ T : FeesOf(T \cup {y}) # FeesOf(T) + y.fee
    BY <1>3
  <1>5. T \in SUBSET U /\ IsFiniteSet(T)
    BY <1>1, <1>3, FS_Subset
  <1> DEFINE Ty == T \cup {y}
             a == Any(Ty)
             R == T \ {a}
  <1>6. IsFiniteSet(Ty) /\ Ty # {}
    BY <1>5, FS_AddElement
  <1>0. FeesOf(Ty) # FeesOf(T) + y.fee
    BY <1>4
  <1>7. a \in Ty /\ FeesOf(Ty) = a.fee + FeesOf(Ty \ {a})
    <2> HIDE DEF Ty
    <2>1. QED BY <1>6, FeesOfSome
  <1>8. CASE a = y
    <2>1. Ty \ {a} = T
      BY <1>4, <1>8
    <2>2. FeesOf(T) \in Nat
      BY <1>1, <1>5, FeesType
    <2>3. y.fee \in Nat
      BY <1>1
    <2> HIDE DEF Ty, a, C
    <2>4. FeesOf(Ty) = y.fee + FeesOf(T)
      BY <1>7, <1>8, <2>1
    <2>5. QED BY <1>0, <2>2, <2>3, <2>4
  <1>9. CASE a # y
    <2>1. /\ a \in T /\ Ty \ {a} = R \cup {y} /\ R \cup {a} = T
          /\ R \in SUBSET U /\ R \subseteq T /\ R # T
          /\ a \in U \ R /\ y \in U \ R
      BY <1>4, <1>5, <1>7, <1>9
    <2>2. R \notin C
      <3> HIDE DEF C, R
      <3>1. QED BY <1>3, <2>1
    <2>3. FeesOf(R \cup {y}) = FeesOf(R) + y.fee /\ FeesOf(R \cup {a}) = FeesOf(R) + a.fee
      <3> HIDE DEF R, a
      <3>1. QED BY <2>1, <2>2
    <2>4. FeesOf(R) \in Nat
      <3>1. IsFiniteSet(R) /\ \A z \in R : z.fee \in Nat
        BY <1>1, <1>5, <2>1, FS_Subset
      <3> HIDE DEF R
      <3>2. QED BY <3>1, FeesType
    <2>5. y.fee \in Nat /\ a.fee \in Nat
      BY <1>1, <2>1
    <2> HIDE DEF C, R, a, Ty
    <2>6. FeesOf(Ty) = a.fee + (FeesOf(R) + y.fee) /\ FeesOf(T) = FeesOf(R) + a.fee
      BY <1>7, <2>1, <2>3
    <2>7. QED BY <1>0, <2>4, <2>5, <2>6
  <1>10. QED BY <1>8, <1>9

-----------------------------------------------------------------------------
(* Charges. *)

(* The ticket a task is going to write for its deduction, from the moment   *)
(* the fee is taken off the credit in the cache.                            *)
Deduction(t) == StopTicket(t, Fee(request[t]), 1)
Set(t) == pc[t] \in {"bind", "write", "read", "copy", "ticket"}

(* What fees leave of a credit. *)
LessDown(credit, fees) == IF credit < fees THEN 0 ELSE credit - fees

(* The tickets a user's deductions are still to leave, those they have left, *)
(* and all of them.                                                         *)
Due(u) == {Deduction(t) : t \in {s \in Tasks : Set(s) /\ request[s].user = u}}
Deducted(u) == {x \in tickets : x.user = u /\ x.isDeduct = 1}
Owing(u) == Deducted(u) \cup Due(u)

(* A user whose charges never overlapped and were none below zero: the      *)
(* credit in the cache is the initial one less the fees of all deductions,  *)
(* ticketed or still to be; one thread at a time is charging him; what it   *)
(* has read or bound is the value in the cache; and the database lags       *)
(* behind only while that thread has not written yet.                       *)
Settled(u) ==
  /\ IsFiniteSet(Owing(u))
  /\ \A x \in Owing(u) : x.fee \in Nat
  /\ charged[u] = FeesOf(Owing(u))
  /\ creditCache[u] = LessDown(InitialCredit[u], charged[u])
  /\ \A s, t \in Tasks :
       Deducting(s) /\ Deducting(t) /\ request[s].user = u /\ request[t].user = u => s = t
  /\ \A t \in Tasks : pc[t] \in {"set", "write", "copy"} /\ request[t].user = u =>
       amount[t] = creditCache[u]
  /\ creditDB[u] = creditCache[u]
       \/ \E t \in Tasks : pc[t] \in {"bind", "write"} /\ request[t].user = u

(* Stronger than ChargesExact, which looks only when nobody is charging: the *)
(* invariant has to say what the charge in progress is about to do.         *)
ChargeInv ==
  /\ \A x \in tickets : x.isDeduct = 1 => pc[x.task] = "done"
  /\ \A u \in CreditUsers : ~disturbed[u] /\ refunded[u] = 0 => Settled(u)

(* A step that touches neither a user's credit nor his deductions. *)
LEMMA ChargeAside ==
  ASSUME TypeOK, ChargeInv, NEW t \in Tasks,
         ~Charging(t), pc[t] # "done", ~Charging(t)',
         \A s \in Tasks : s # t =>
           UNCHANGED <<pc[s], request[s], found[s], amount[s]>>,
         UNCHANGED <<creditDB, creditCache, charged, refunded>>,
         {x \in tickets' : x.isDeduct = 1} = {x \in tickets : x.isDeduct = 1},
         \A u \in CreditUsers : disturbed[u] => disturbed'[u]
  PROVE  ChargeInv'
  <1> USE DEF Charging, Deducting
  <1>1. \A x \in tickets' : x.isDeduct = 1 => pc'[x.task] = "done"
    <2> SUFFICES ASSUME NEW x \in tickets', x.isDeduct = 1 PROVE pc'[x.task] = "done"
      OBVIOUS
    <2>1. x \in tickets
      OBVIOUS
    <2>2. pc[x.task] = "done" /\ x.task \in Tasks
      BY <2>1 DEF ChargeInv, TypeOK, Ticket
    <2>3. QED BY <2>2
  <1>2. ASSUME NEW u \in CreditUsers, ~disturbed'[u], refunded'[u] = 0 PROVE Settled(u)'
    <2>1. Settled(u)
      BY <1>2 DEF ChargeInv
    <2>2. Deducted(u)' = Deducted(u)
      BY DEF Deducted
    <2>3. Due(u)' = Due(u)
      <3>1. \A s \in Tasks : (Set(s) /\ request[s].user = u)' <=> (Set(s) /\ request[s].user = u)
        BY DEF Set
      <3>2. \A s \in Tasks : Set(s) => Deduction(s)' = Deduction(s)
        BY DEF Set, Deduction, StopTicket
      <3>3. QED BY <3>1, <3>2 DEF Due
    <2>4. Owing(u)' = Owing(u)
      BY <2>2, <2>3 DEF Owing
    <2>5. QED BY <2>1, <2>4 DEF Settled
  <1>3. QED BY <1>1, <1>2 DEF ChargeInv

(* Initially nothing is charged. *)
LEMMA InitCharge == Init => ChargeInv
  <1> SUFFICES ASSUME Init PROVE ChargeInv
    OBVIOUS
  <1>1. ASSUME NEW u \in CreditUsers PROVE Settled(u)
    <2>1. Owing(u) = {}
      BY DEF Init, Owing, Deducted, Due, Set
    <2>2. IsFiniteSet(Owing(u)) /\ FeesOf(Owing(u)) = 0
      BY <2>1, FS_EmptySet, FeesOfNone
    <2>3. InitialCredit[u] \in Nat
      BY PolicyAssumption
    <2>4. LessDown(InitialCredit[u], 0) = InitialCredit[u]
      BY <2>3 DEF LessDown
    <2>5. QED BY <2>1, <2>2, <2>4 DEF Init, Settled, Deducting
  <1>2. QED BY <1>1 DEF Init, ChargeInv

(* doPrePayTimeLen takes the fee off the value it read. *)
LEMMA SetKeepsCharge ==
  ASSUME TypeOK, ChargeInv, NEW t \in Tasks, SetBalance(t)
  PROVE  ChargeInv'
  <1> DEFINE v == request[t].user
             f == Fee(request[t])
  <1> USE DEF Deducting, Set
  <1>1. /\ pc[t] = "set" /\ pc' = [pc EXCEPT ![t] = "bind"]
        /\ creditCache' = [creditCache EXCEPT ![v] = Balance(amount[t], f)]
        /\ charged' = [charged EXCEPT ![v] = IF f > 0 THEN charged[v] + f ELSE charged[v]]
        /\ refunded' = [refunded EXCEPT ![v] = IF f < 0 THEN refunded[v] - f ELSE refunded[v]]
        /\ UNCHANGED <<creditDB, tickets, request, found, amount, disturbed>>
    BY DEF SetBalance, Goto, locals
  <1>2. request[t] \in Requests /\ v \in CreditUsers
    BY <1>1 DEF TypeOK
  <1>3. f \in JavaInt /\ f \in Int
    BY <1>2, RequestFee, MaxIntAssumption DEF JavaInt
  <1>4. \A s \in Tasks : pc'[s] = IF s = t THEN "bind" ELSE pc[s]
    BY <1>1 DEF TypeOK
  <1>5. \A s \in Tasks : Deduction(s)' = Deduction(s)
    BY <1>1 DEF Deduction, StopTicket
  <1>6. ASSUME NEW u \in CreditUsers, ~disturbed'[u], refunded'[u] = 0, u # v
        PROVE  Settled(u)'
    <2>1. creditCache'[u] = creditCache[u] /\ charged'[u] = charged[u] /\ refunded'[u] = refunded[u]
      BY <1>1, <1>6 DEF TypeOK
    <2>2. Settled(u)
      BY <1>1, <1>6, <2>1 DEF ChargeInv
    <2>3. Owing(u)' = Owing(u)
      BY <1>1, <1>4, <1>5, <1>6 DEF Owing, Deducted, Due
    <2>4. QED BY <1>1, <1>4, <1>6, <2>1, <2>2, <2>3 DEF Settled
  <1>7. ASSUME NEW u \in CreditUsers, ~disturbed'[u], refunded'[u] = 0, u = v
        PROVE  Settled(u)'
    <2> DEFINE d == Deduction(t)
    <2>0. f \in Nat /\ refunded[u] = 0 /\ charged'[u] = charged[u] + f
      <3> HIDE DEF f
      <3>1. refunded'[u] = IF f < 0 THEN refunded[u] - f ELSE refunded[u]
        BY <1>1, <1>7 DEF TypeOK
      <3>2. charged'[u] = IF f > 0 THEN charged[u] + f ELSE charged[u]
        BY <1>1, <1>7 DEF TypeOK
      <3>3. refunded[u] \in Nat /\ charged[u] \in Nat
        BY DEF TypeOK
      <3>4. QED BY <1>3, <1>7, <3>1, <3>2, <3>3
    <2>1. Settled(u)
      BY <1>1, <1>7, <2>0 DEF ChargeInv
    <2>2. Owing(u)' = Owing(u) \cup {d}
      <3>1. Deducted(u)' = Deducted(u)
        BY <1>1 DEF Deducted
      <3>2. Due(u)' = Due(u) \cup {d}
        BY <1>1, <1>2, <1>4, <1>5, <1>7 DEF Due
      <3>3. QED BY <3>1, <3>2 DEF Owing
    <2>3. d \notin Owing(u) /\ d.fee = f
      <3>1. d.task = t /\ d.isDeduct = 1 /\ d.fee = f
        BY DEF Deduction, StopTicket
      <3>2. d \notin tickets
        BY <1>1, <3>1 DEF ChargeInv
      <3>3. \A s \in Tasks : Deduction(s).task = s
        BY DEF Deduction, StopTicket
      <3> HIDE DEF d, f
      <3>4. d \notin Due(u)
        BY <1>1, <3>1, <3>3 DEF Due
      <3>5. QED BY <3>1, <3>2, <3>4 DEF Owing, Deducted
    <2>4. FeesOf(Owing(u)') = FeesOf(Owing(u)) + f
      <3>1. IsFiniteSet(Owing(u)) /\ \A x \in Owing(u) : x.fee \in Nat
        BY <2>1 DEF Settled
      <3> HIDE DEF d, f
      <3>2. QED BY <2>0, <2>2, <2>3, <3>1, FeesAdded
    <2>5. IsFiniteSet(Owing(u)') /\ \A x \in Owing(u)' : x.fee \in Nat
      <3> HIDE DEF d, f
      <3>1. QED BY <2>0, <2>1, <2>2, <2>3, FS_AddElement DEF Settled
    <2>6. creditCache'[u] = Balance(amount[t], f)
      BY <1>1, <1>7 DEF TypeOK
    <2>7. charged'[u] = FeesOf(Owing(u)')
      BY <2>0, <2>1, <2>4 DEF Settled
    <2>8. creditCache'[u] = LessDown(InitialCredit[u], charged'[u])
      <3>1. amount[t] = LessDown(InitialCredit[u], charged[u])
        BY <1>1, <1>7, <2>1 DEF Settled
      <3>2. InitialCredit[u] \in Nat /\ charged[u] \in Nat /\ amount[t] \in 0 .. MaxInt
        BY PolicyAssumption DEF TypeOK
      <3> HIDE DEF f
      <3>3. Balance(amount[t], f) = LessDown(amount[t], f)
        BY <1>3, <2>0, <3>2, BalanceExact, MaxIntAssumption DEF LessDown
      <3>4. LessDown(amount[t], f) = LessDown(InitialCredit[u], charged[u] + f)
        BY <2>0, <3>1, <3>2 DEF LessDown
      <3>5. QED BY <2>0, <2>6, <3>3, <3>4
    <2>9. \A s \in Tasks : Deducting(s) /\ request[s].user = u => s = t
      BY <1>1, <1>7, <2>1 DEF Settled
    <2> HIDE DEF d, f
    <2>10. QED
      BY <1>1, <1>4, <1>7, <2>1, <2>5, <2>7, <2>8, <2>9 DEF Settled
  <1>8. \A x \in tickets' : x.isDeduct = 1 => pc'[x.task] = "done"
    BY <1>1, <1>4 DEF ChargeInv, TypeOK, Ticket
  <1>9. QED BY <1>6, <1>7, <1>8 DEF ChargeInv

(* Every step keeps it. *)
LEMMA NextCharge == TypeOK /\ ChargeInv /\ [Next]_vars => ChargeInv'
  <1> SUFFICES ASSUME TypeOK, ChargeInv, [Next]_vars PROVE ChargeInv'
    OBVIOUS
  <1> USE DEF Goto, stores, locals, history, Charging, Deducting
  <1>1. ASSUME NEW t \in Tasks, NEW r \in Requests, Execute(t, r) PROVE ChargeInv'
    BY <1>1, ChargeAside DEF Execute, TypeOK, FirstStep, Note
  <1>2. ASSUME NEW t \in Tasks, Lookup(t) \/ Insert(t) \/ Select(t) \/ Delete(t)
        PROVE  ChargeInv'
    BY <1>2, ChargeAside DEF Lookup, Insert, Select, Delete, TypeOK
  <1>3. ASSUME NEW t \in Tasks, Log(t) PROVE ChargeInv'
    <2>1. {x \in tickets' : x.isDeduct = 1} = {x \in tickets : x.isDeduct = 1}
      BY <1>3 DEF Log
    <2>2. \A s \in Tasks : s # t => UNCHANGED <<pc[s], request[s], found[s], amount[s]>>
      BY <1>3 DEF Log, TypeOK
    <2>3. pc[t] = "log" /\ pc'[t] \in {"log", "done"}
      BY <1>3 DEF Log, TypeOK
    <2>4. UNCHANGED <<creditDB, creditCache, charged, refunded, disturbed>>
      BY <1>3 DEF Log
    <2>5. QED BY <2>1, <2>2, <2>3, <2>4, ChargeAside
  <1>4. ASSUME NEW t \in Tasks, Bill(t) PROVE ChargeInv'
    <2> DEFINE v == request[t].user
    <2>1. CASE HowBilled(v) # "deduct"
      <3>1. /\ pc[t] = "bill" /\ pc' = [pc EXCEPT ![t] = "done"]
            /\ UNCHANGED <<creditDB, creditCache, charged, refunded, disturbed, request, found, amount>>
            /\ tickets' = tickets \/ tickets' = tickets \cup {StopTicket(t, 0, 0)}
        BY <1>4, <2>1 DEF Bill
      <3>2. {x \in tickets' : x.isDeduct = 1} = {x \in tickets : x.isDeduct = 1}
        BY <3>1 DEF StopTicket
      <3>3. pc'[t] = "done" /\ \A s \in Tasks : s # t => pc'[s] = pc[s]
        BY <3>1 DEF TypeOK
      <3>4. QED BY <3>1, <3>2, <3>3, ChargeAside
    <2>2. CASE HowBilled(v) = "deduct"
      <3>1. /\ pc[t] = "bill" /\ pc' = [pc EXCEPT ![t] = "set"]
            /\ amount' = [amount EXCEPT ![t] = creditCache[v]]
            /\ disturbed' = [disturbed EXCEPT ![v] =
                 @ \/ \E s \in Tasks : Deducting(s) /\ request[s].user = v]
            /\ UNCHANGED <<creditDB, creditCache, tickets, charged, refunded, request, found>>
        BY <1>4, <2>2 DEF Bill
      <3>2. \A s \in Tasks : /\ pc'[s] = IF s = t THEN "set" ELSE pc[s]
                             /\ amount'[s] = IF s = t THEN creditCache[v] ELSE amount[s]
        BY <3>1 DEF TypeOK
      <3>3. ASSUME NEW u \in CreditUsers, ~disturbed'[u], refunded'[u] = 0 PROVE Settled(u)'
        <4>1. ~disturbed[u] /\ (u = v => \A s \in Tasks : ~(Deducting(s) /\ request[s].user = v))
          BY <3>1, <3>3 DEF TypeOK
        <4>2. Settled(u)
          BY <3>1, <3>3, <4>1 DEF ChargeInv
        <4>3. Owing(u)' = Owing(u)
          <5>1. \A s \in Tasks : Deduction(s)' = Deduction(s)
            BY <3>1 DEF Deduction, StopTicket
          <5>2. \A s \in Tasks : Set(s)' <=> Set(s)
            BY <3>1, <3>2 DEF Set
          <5>3. QED BY <3>1, <5>1, <5>2 DEF Owing, Deducted, Due
        <4>4. QED BY <3>1, <3>2, <4>1, <4>2, <4>3 DEF Settled
      <3>4. \A x \in tickets' : x.isDeduct = 1 => pc'[x.task] = "done"
        BY <3>1, <3>2 DEF ChargeInv, TypeOK, Ticket
      <3>5. QED BY <3>3, <3>4 DEF ChargeInv
    <2>3. QED BY <2>1, <2>2
  <1>5. ASSUME NEW t \in Tasks, SetBalance(t) PROVE ChargeInv'
    BY <1>5, SetKeepsCharge
  <1>6. ASSUME NEW t \in Tasks, Bind(t) \/ ReadBack(t) PROVE ChargeInv'
    <2>1. /\ pc[t] \in {"bind", "read"}
          /\ pc' = [pc EXCEPT ![t] = IF pc[t] = "bind" THEN "write" ELSE "copy"]
          /\ amount' = [amount EXCEPT ![t] = creditCache[request[t].user]]
          /\ UNCHANGED <<creditDB, creditCache, tickets, charged, refunded, request, found, disturbed>>
      BY <1>6 DEF Bind, ReadBack
    <2>2. \A s \in Tasks :
            /\ pc'[s] = IF s = t THEN (IF pc[t] = "bind" THEN "write" ELSE "copy") ELSE pc[s]
            /\ amount'[s] = IF s = t THEN creditCache[request[t].user] ELSE amount[s]
      BY <2>1 DEF TypeOK
    <2>3. ASSUME NEW u \in CreditUsers, ~disturbed[u], refunded[u] = 0 PROVE Settled(u)'
      <3>1. Settled(u)
        BY <2>3 DEF ChargeInv
      <3>2. Owing(u)' = Owing(u)
        <4>1. \A s \in Tasks : Deduction(s)' = Deduction(s)
          BY <2>1 DEF Deduction, StopTicket
        <4>2. \A s \in Tasks : Set(s)' <=> Set(s)
          BY <2>1, <2>2 DEF Set
        <4>3. QED BY <2>1, <4>1, <4>2 DEF Owing, Deducted, Due
      <3>3. QED BY <2>1, <2>2, <3>1, <3>2 DEF Settled
    <2>4. \A x \in tickets' : x.isDeduct = 1 => pc'[x.task] = "done"
      BY <2>1, <2>2 DEF ChargeInv, TypeOK, Ticket
    <2>5. QED BY <2>1, <2>3, <2>4 DEF ChargeInv
  <1>13. ASSUME NEW t \in Tasks, CopyBack(t) PROVE ChargeInv'
    <2>1. /\ pc[t] = "copy" /\ pc' = [pc EXCEPT ![t] = "ticket"]
          /\ creditCache' = [creditCache EXCEPT ![request[t].user] = amount[t]]
          /\ UNCHANGED <<creditDB, tickets, charged, refunded, request, found, amount, disturbed>>
      BY <1>13 DEF CopyBack
    <2>2. \A s \in Tasks : pc'[s] = IF s = t THEN "ticket" ELSE pc[s]
      BY <2>1 DEF TypeOK
    <2>3. ASSUME NEW u \in CreditUsers, ~disturbed[u], refunded[u] = 0 PROVE Settled(u)'
      <3>1. Settled(u)
        BY <2>3 DEF ChargeInv
      <3>2. Owing(u)' = Owing(u)
        <4>1. \A s \in Tasks : Deduction(s)' = Deduction(s)
          BY <2>1 DEF Deduction, StopTicket
        <4>2. \A s \in Tasks : Set(s)' <=> Set(s)
          BY <2>1, <2>2 DEF Set
        <4>3. QED BY <2>1, <4>1, <4>2 DEF Owing, Deducted, Due
      <3>3. creditCache'[u] = creditCache[u]
        BY <2>1, <3>1 DEF TypeOK, Settled
      <3>4. QED BY <2>1, <2>2, <3>1, <3>2, <3>3 DEF Settled
    <2>4. \A x \in tickets' : x.isDeduct = 1 => pc'[x.task] = "done"
      BY <2>1, <2>2 DEF ChargeInv, TypeOK, Ticket
    <2>5. QED BY <2>1, <2>3, <2>4 DEF ChargeInv
  <1>7. ASSUME NEW t \in Tasks, WriteCredit(t) PROVE ChargeInv'
    <2>1. /\ pc[t] = "write" /\ pc' = [pc EXCEPT ![t] = "read"]
          /\ creditDB' = [creditDB EXCEPT ![request[t].user] = amount[t]]
          /\ UNCHANGED <<creditCache, tickets, charged, refunded, request, found, amount, disturbed>>
      BY <1>7 DEF WriteCredit
    <2>2. \A s \in Tasks : pc'[s] = IF s = t THEN "read" ELSE pc[s]
      BY <2>1 DEF TypeOK
    <2>3. ASSUME NEW u \in CreditUsers, ~disturbed[u], refunded[u] = 0 PROVE Settled(u)'
      <3>1. Settled(u)
        BY <2>3 DEF ChargeInv
      <3>2. Owing(u)' = Owing(u)
        <4>1. \A s \in Tasks : Deduction(s)' = Deduction(s)
          BY <2>1 DEF Deduction, StopTicket
        <4>2. \A s \in Tasks : Set(s)' <=> Set(s)
          BY <2>1, <2>2 DEF Set
        <4>3. QED BY <2>1, <4>1, <4>2 DEF Owing, Deducted, Due
      <3>3. creditDB'[u] = IF u = request[t].user THEN amount[t] ELSE creditDB[u]
        BY <2>1 DEF TypeOK
      <3>4. QED BY <2>1, <2>2, <3>1, <3>2, <3>3 DEF Settled
    <2>4. \A x \in tickets' : x.isDeduct = 1 => pc'[x.task] = "done"
      BY <2>1, <2>2 DEF ChargeInv, TypeOK, Ticket
    <2>5. QED BY <2>1, <2>3, <2>4 DEF ChargeInv
  <1>8. ASSUME NEW t \in Tasks, WriteTicket(t) PROVE ChargeInv'
    <2>1. /\ pc[t] = "ticket" /\ pc' = [pc EXCEPT ![t] = "done"]
          /\ tickets' = tickets \cup {Deduction(t)}
          /\ UNCHANGED <<creditDB, creditCache, charged, refunded, request, found, amount, disturbed>>
      BY <1>8 DEF WriteTicket, Deduction
    <2>2. \A s \in Tasks : pc'[s] = IF s = t THEN "done" ELSE pc[s]
      BY <2>1 DEF TypeOK
    <2>3. Deduction(t).task = t /\ Deduction(t).isDeduct = 1 /\ Deduction(t).user = request[t].user
      BY DEF Deduction, StopTicket
    <2>4. ASSUME NEW u \in CreditUsers, ~disturbed[u], refunded[u] = 0 PROVE Settled(u)'
      <3>1. Settled(u)
        BY <2>4 DEF ChargeInv
      <3>2. Owing(u)' = Owing(u)
        <4>1. \A s \in Tasks : Deduction(s)' = Deduction(s)
          BY <2>1 DEF Deduction, StopTicket
        <4>2. \A s \in Tasks : Set(s)' <=> Set(s) /\ s # t
          BY <2>1, <2>2 DEF Set
        <4>3. Set(t)
          BY <2>1 DEF Set
        <4>4. Deducted(u)' = Deducted(u) \cup {x \in {Deduction(t)} : request[t].user = u}
          BY <2>1, <2>3 DEF Deducted
        <4>5. Due(u)' = {Deduction(s) : s \in {s \in Tasks : Set(s) /\ s # t /\ request[s].user = u}}
          BY <2>1, <4>1, <4>2 DEF Due
        <4>6. Due(u) = Due(u)' \cup {x \in {Deduction(t)} : request[t].user = u}
          BY <4>3, <4>5 DEF Due
        <4>7. QED BY <4>4, <4>6 DEF Owing
      <3>3. QED BY <2>1, <2>2, <3>1, <3>2 DEF Settled
    <2>5. \A x \in tickets' : x.isDeduct = 1 => pc'[x.task] = "done"
      BY <2>1, <2>2, <2>3 DEF ChargeInv, TypeOK, Ticket
    <2>6. QED BY <2>1, <2>4, <2>5 DEF ChargeInv
  <1>9. ASSUME NEW t \in Tasks, Fail(t) PROVE ChargeInv'
    <2>1. /\ pc[t] \in {"lookup", "insert", "select", "delete", "write"}
          /\ pc' = [pc EXCEPT ![t] = "done"]
          /\ UNCHANGED <<creditDB, creditCache, tickets, charged, refunded, request, found, amount>>
          /\ disturbed' = [u \in CreditUsers |->
               disturbed[u] \/ \E s \in {t} : Charging(s) /\ request[s].user = u]
      BY <1>9 DEF Fail, Abandoned
    <2>2. \A s \in Tasks : pc'[s] = IF s = t THEN "done" ELSE pc[s]
      BY <2>1 DEF TypeOK
    <2>3. CASE pc[t] # "write"
      <3>1. ~Charging(t) /\ pc[t] # "done" /\ ~Charging(t)'
        BY <2>1, <2>2, <2>3
      <3>2. \A u \in CreditUsers : disturbed[u] => disturbed'[u]
        BY <2>1
      <3>3. QED BY <2>1, <2>2, <3>1, <3>2, ChargeAside
    <2>4. CASE pc[t] = "write"
      <3>1. ASSUME NEW u \in CreditUsers, ~disturbed'[u], refunded'[u] = 0 PROVE Settled(u)'
        <4>1. ~disturbed[u] /\ request[t].user # u
          BY <2>1, <2>4, <3>1
        <4>2. Settled(u)
          BY <2>1, <3>1, <4>1 DEF ChargeInv
        <4>3. Owing(u)' = Owing(u)
          <5>1. \A s \in Tasks : Deduction(s)' = Deduction(s)
            BY <2>1 DEF Deduction, StopTicket
          <5>2. \A s \in Tasks : s # t => (Set(s)' <=> Set(s))
            BY <2>2 DEF Set
          <5>3. QED BY <2>1, <4>1, <5>1, <5>2 DEF Owing, Deducted, Due
        <4>4. QED BY <2>1, <2>2, <4>1, <4>2, <4>3 DEF Settled
      <3>2. \A x \in tickets' : x.isDeduct = 1 => pc'[x.task] = "done"
        BY <2>1, <2>2 DEF ChargeInv, TypeOK, Ticket
      <3>3. QED BY <3>1, <3>2 DEF ChargeInv
    <2>5. QED BY <2>3, <2>4
  <1>10. ASSUME Crash PROVE ChargeInv'
    <2>1. /\ pc' = [t \in Tasks |-> IF pc[t] = "idle" THEN "idle" ELSE "done"]
          /\ creditCache' = creditDB
          /\ UNCHANGED <<creditDB, tickets, charged, refunded, request, found, amount>>
          /\ disturbed' = [u \in CreditUsers |->
               disturbed[u] \/ \E s \in Tasks : Charging(s) /\ request[s].user = u]
      BY <1>10 DEF Crash, Abandoned
    <2>2. ASSUME NEW u \in CreditUsers, ~disturbed'[u], refunded'[u] = 0 PROVE Settled(u)'
      <3>1. ~disturbed[u] /\ \A s \in Tasks : ~(Charging(s) /\ request[s].user = u)
        BY <2>1, <2>2
      <3>2. Settled(u)
        BY <2>1, <2>2, <3>1 DEF ChargeInv
      <3>3. Owing(u)' = Owing(u)
        BY <2>1, <3>1 DEF Owing, Deducted, Due, Set
      <3>4. creditCache'[u] = creditCache[u]
        BY <2>1, <3>1, <3>2 DEF Settled
      <3>5. QED BY <2>1, <3>1, <3>2, <3>3, <3>4 DEF Settled
    <2>3. \A x \in tickets' : x.isDeduct = 1 => pc'[x.task] = "done"
      BY <2>1 DEF ChargeInv, TypeOK, Ticket
    <2>4. QED BY <2>2, <2>3 DEF ChargeInv
  <1>11. CASE UNCHANGED vars
    <2>1. UNCHANGED <<creditDB, creditCache, tickets, charged, refunded, request, found, amount, pc, disturbed>>
      BY <1>11 DEF vars
    <2>2. \A u \in CreditUsers : Settled(u) => Settled(u)'
      BY <2>1 DEF Settled, Owing, Deducted, Due, Set, Deduction, StopTicket
    <2>3. QED BY <2>1, <2>2 DEF ChargeInv
  <1>12. QED
    BY <1>1, <1>2, <1>3, <1>4, <1>5, <1>6, <1>7, <1>8, <1>9, <1>10, <1>11,
       <1>13 DEF Next

(* Where a user's charges never overlapped, none failed and none was below  *)
(* zero, the credit is the initial one less the fees on his tickets, down   *)
(* to zero, and cache and database agree, the copy of the cached value to   *)
(* itself included (stopAcct, doPrePayTimeLen, updateUserMeta).             *)
THEOREM ChargesAreExact == Spec => []ChargesExact
  <1>1. ChargeInv => ChargesExact
    <2> SUFFICES ASSUME ChargeInv, NEW u \in CreditUsers, ~disturbed[u], refunded[u] = 0,
                        \A t \in Tasks : Charging(t) => request[t].user # u
                 PROVE  creditDB[u] = Left(u) /\ creditCache[u] = creditDB[u]
      BY DEF ChargesExact
    <2>1. Settled(u)
      BY DEF ChargeInv
    <2>2. Due(u) = {}
      BY DEF Due, Set, Charging, Deducting
    <2>3. Billed(u) = FeesOf(Owing(u))
      BY <2>2 DEF Billed, FeesOf, Owing, Deducted
    <2>4. creditDB[u] = creditCache[u]
      BY <2>1 DEF Settled, Charging, Deducting
    <2>5. creditCache[u] = LessDown(InitialCredit[u], Billed(u))
      BY <2>1, <2>3 DEF Settled
    <2>6. QED BY <2>4, <2>5 DEF Left, LessDown
  <1>2. QED
    BY <1>1, InitType, NextType, InitCharge, NextCharge, PTL DEF Spec

-----------------------------------------------------------------------------
(* Sessions. *)

(* The steps of a Stop's billing, and of all requests that end sessions. *)
BillSteps == {"bill", "set", "bind", "write", "read", "copy", "ticket"}
Ending == {"select", "delete", "log"} \cup BillSteps

(* The tickets about a session. *)
About(k) == {x \in tickets : x.key = k}

(* What a task has found out by each of its steps, and that a ticket is the *)
(* last a task does about a session.                                        *)
TaskInv ==
  /\ IsFiniteSet(tickets)
  /\ \A x \in tickets : \/ pc[x.task] = "done"
                        \/ pc[x.task] = "log" /\ found[x.task][x.key] = NoRow
  /\ \A t \in Tasks :
       /\ pc[t] = "insert" => SaysUp(request[t])
       /\ pc[t] \in Ending => request[t].kind \notin {"start", "interim"}
       /\ pc[t] \in BillSteps => request[t].kind = "stop"
       /\ pc[t] = "log" => request[t].kind # "stop"
       /\ pc[t] \in BillSteps \ {"bill"} => HowBilled(request[t].user) = "deduct"
       /\ pc[t] \in {"delete", "log"} =>
            \A k \in Keys : k \notin Scope(request[t]) => found[t][k] = NoRow

(* Whether a task that ends sessions is still to leave a ticket about one. *)
Leaves(t, k) ==
  IF request[t].kind = "stop" THEN HowBilled(request[t].user) # "none"
  ELSE IF pc[t] = "select" THEN online[k] # NoRow
  ELSE found[t][k] # NoRow

(* How far the one task that is about a session has come: what the table, the *)
(* history and the tickets say of the session in between.                   *)
Progress(t, k) ==
  \/ /\ pc[t] \in {"lookup", "insert"}
     /\ Cardinality(About(k)) = ends[k]
     /\ IF SaysUp(request[t]) THEN lastWord[k] = "up"
        ELSE online[k] # NoRow <=> lastWord[k] = "up"
     /\ pc[t] = "insert" => online[k] = NoRow
  \/ /\ pc[t] \in Ending
     /\ lastWord[k] = "down"
     /\ pc[t] \notin {"select", "delete"} => online[k] = NoRow
     /\ Cardinality(About(k)) + (IF Leaves(t, k) THEN 1 ELSE 0) = ends[k]
     /\ pc[t] = "delete" /\ request[t].kind # "stop" => found[t][k] = online[k]

(* Stronger than SessionsExact, which looks only when no task is about the  *)
(* session: no two tasks are, and the one that is has done what its step says. *)
Exact(k) ==
  /\ Quiet(k) => (online[k] # NoRow <=> lastWord[k] = "up")
  /\ Quiet(k) => Cardinality(About(k)) = ends[k]
  /\ \A s, t \in Tasks :
       Active(s) /\ Active(t) /\ k \in Scope(request[s]) /\ k \in Scope(request[t]) => s = t
  /\ \A t \in Tasks : Active(t) /\ k \in Scope(request[t]) => Progress(t, k)

SessionInv == TaskInv /\ \A k \in Keys : ~jumbled[k] => Exact(k)

(* Initially no session is listed and none has ended. *)
LEMMA InitSessions == Init => SessionInv
  <1> SUFFICES ASSUME Init PROVE SessionInv
    OBVIOUS
  <1>1. TaskInv
    BY FS_EmptySet DEF Init, TaskInv, Ending, BillSteps
  <1>2. ASSUME NEW k \in Keys PROVE Exact(k)
    <2>1. About(k) = {} /\ Cardinality({}) = 0
      BY FS_EmptySet DEF Init, About
    <2>2. QED BY <2>1 DEF Init, Exact, Active, NoRows
  <1>3. QED BY <1>1, <1>2 DEF SessionInv

(* The tickets about a session are a finite set. *)
LEMMA AboutFinite ==
  ASSUME TaskInv, NEW k
  PROVE  IsFiniteSet(About(k)) /\ Cardinality(About(k)) \in Nat
  BY FS_Subset, FS_CardinalityType DEF TaskInv, About

(* Every step keeps what the tasks know. *)
LEMMA NextTask == TypeOK /\ TaskInv /\ [Next]_vars => TaskInv'
  <1> SUFFICES ASSUME TypeOK, TaskInv, [Next]_vars PROVE TaskInv'
    OBVIOUS
  <1> USE DEF Goto, stores, locals, history, Ending, BillSteps
  <1>1. ASSUME NEW t \in Tasks, NEW r \in Requests, Execute(t, r) PROVE TaskInv'
    <2>1. /\ pc[t] = "idle" /\ UNCHANGED <<tickets, found>>
          /\ \A s \in Tasks : /\ pc'[s] = IF s = t THEN FirstStep(r) ELSE pc[s]
                              /\ request'[s] = IF s = t THEN r ELSE request[s]
      BY <1>1 DEF Execute, TypeOK
    <2>2. \A x \in tickets' : x.task \in Tasks
      BY <2>1 DEF TypeOK, Ticket
    <2>3. FirstStep(r) = "lookup" \/ (FirstStep(r) = "select" /\ r.kind \notin {"start", "interim"})
      BY DEF FirstStep
    <2>4. \A x \in tickets' : \/ pc'[x.task] = "done"
                              \/ pc'[x.task] = "log" /\ found'[x.task][x.key] = NoRow
      BY <2>1, <2>2 DEF TaskInv
    <2>5. QED BY <2>1, <2>3, <2>4 DEF TaskInv
  <1>2. ASSUME NEW t \in Tasks,
               \/ Lookup(t) \/ Insert(t) \/ Delete(t) \/ SetBalance(t) \/ Bind(t)
               \/ WriteCredit(t) \/ ReadBack(t) \/ CopyBack(t) \/ Fail(t)
        PROVE  TaskInv'
    <2>1. /\ pc[t] \notin {"log", "done"}
          /\ UNCHANGED <<tickets, request, found>>
          /\ \A s \in Tasks : s # t => pc'[s] = pc[s]
          /\ \/ pc'[t] = "done"
             \/ pc'[t] = "insert" /\ SaysUp(request[t])
             \/ pc[t] = "delete" /\ pc'[t] = "bill" /\ request[t].kind = "stop"
             \/ pc[t] = "delete" /\ pc'[t] = "log" /\ request[t].kind # "stop"
             \/ /\ pc[t] \in {"set", "bind", "write", "read", "copy"}
                /\ pc'[t] \in {"bind", "write", "read", "copy", "ticket"}
      BY <1>2 DEF Lookup, Insert, Delete, SetBalance, Bind, WriteCredit, ReadBack,
         CopyBack, Fail, TypeOK
    <2>2. \A x \in tickets' : x.task \in Tasks /\ x.task # t
      BY <2>1 DEF TypeOK, Ticket, TaskInv
    <2>3. QED BY <2>1, <2>2 DEF TaskInv
  <1>3. ASSUME NEW t \in Tasks, Select(t) PROVE TaskInv'
    <2>1. /\ pc[t] = "select" /\ UNCHANGED <<tickets, request>>
          /\ \A s \in Tasks : pc'[s] = IF s = t THEN "delete" ELSE pc[s]
          /\ \A s \in Tasks : s # t => found'[s] = found[s]
          /\ \A k \in Keys : k \notin Scope(request[t]) => found'[t][k] = NoRow
      BY <1>3 DEF Select, TypeOK
    <2>2. \A x \in tickets' : x.task \in Tasks /\ x.task # t
      BY <2>1 DEF TypeOK, Ticket, TaskInv
    <2>3. \A s \in Tasks : Scope(request[s])' = Scope(request[s])
      BY <2>1
    <2>4. QED BY <2>1, <2>2, <2>3 DEF TaskInv
  <1>4. ASSUME NEW t \in Tasks, Log(t) PROVE TaskInv'
    <2>1. /\ pc[t] = "log" /\ UNCHANGED request
          /\ \A s \in Tasks : s # t => pc'[s] = pc[s] /\ found'[s] = found[s]
          /\ pc'[t] \in {"log", "done"}
      BY <1>4 DEF Log, TypeOK
    <2>2. IsFiniteSet(tickets')
      BY <1>4, FS_AddElement DEF Log, TaskInv
    <2>3. \A k \in Keys : found[t][k] = NoRow => found'[t][k] = NoRow
      BY <1>4 DEF Log, TypeOK
    <2>4. ASSUME NEW x \in tickets'
          PROVE  \/ pc'[x.task] = "done"
                 \/ pc'[x.task] = "log" /\ found'[x.task][x.key] = NoRow
      <3>1. CASE x \in tickets
        <4>1. x.task \in Tasks /\ x.key \in Keys
          BY <3>1 DEF TypeOK, Ticket
        <4>2. QED BY <2>1, <2>3, <3>1, <4>1 DEF TaskInv
      <3>2. CASE x \notin tickets
        <4>1. PICK k \in Keys : /\ x.task = t /\ x.key = k
                               /\ found' = [found EXCEPT ![t][k] = NoRow] /\ pc' = pc
          BY <1>4, <3>2 DEF Log
        <4>2. found'[t][k] = NoRow
          BY <4>1 DEF TypeOK
        <4>3. QED BY <2>1, <4>1, <4>2
      <3>3. QED BY <3>1, <3>2
    <2>5. \A s \in Tasks : Scope(request[s])' = Scope(request[s])
      BY <2>1
    <2>6. QED BY <2>1, <2>2, <2>3, <2>4, <2>5 DEF TaskInv
  <1>5. ASSUME NEW t \in Tasks, Bill(t) \/ WriteTicket(t) PROVE TaskInv'
    <2>1. /\ pc[t] \in {"bill", "ticket"} /\ UNCHANGED <<request, found>>
          /\ \A s \in Tasks : s # t => pc'[s] = pc[s]
          /\ pc'[t] = "done" \/ (pc'[t] = "set" /\ HowBilled(request[t].user) = "deduct")
      <3>1. CASE Bill(t)
        BY <3>1 DEF Bill, TypeOK
      <3>2. CASE WriteTicket(t)
        BY <3>2 DEF WriteTicket, TypeOK
      <3>3. QED BY <1>5, <3>1, <3>2
    <2>2. \/ tickets' = tickets
          \/ pc'[t] = "done" /\ \E x : x.task = t /\ tickets' = tickets \cup {x}
      <3>1. \A fee, isDeduct : StopTicket(t, fee, isDeduct).task = t
        BY DEF StopTicket
      <3>2. QED BY <1>5, <3>1 DEF Bill, WriteTicket, TypeOK
    <2>3. IsFiniteSet(tickets')
      BY <2>2, FS_AddElement DEF TaskInv
    <2>4. \A x \in tickets : x.task \in Tasks /\ x.task # t
      BY <2>1 DEF TypeOK, Ticket, TaskInv
    <2>5. QED BY <2>1, <2>2, <2>3, <2>4 DEF TaskInv
  <1>6. ASSUME Crash PROVE TaskInv'
    <2>1. /\ UNCHANGED <<tickets, request, found>>
          /\ \A s \in Tasks : pc'[s] = IF pc[s] = "idle" THEN "idle" ELSE "done"
      BY <1>6 DEF Crash
    <2>2. \A x \in tickets' : x.task \in Tasks /\ pc[x.task] # "idle"
      BY <2>1 DEF TypeOK, Ticket, TaskInv
    <2>3. QED BY <2>1, <2>2 DEF TaskInv
  <1>7. CASE UNCHANGED vars
    BY <1>7 DEF vars, TaskInv
  <1>8. QED
    BY <1>1, <1>2, <1>3, <1>4, <1>5, <1>6, <1>7 DEF Next

(* A step of one task leaves a session it is not about as it was. *)
LEMMA SessionOfOthers ==
  ASSUME NEW t \in Tasks, NEW k \in Keys, Exact(k), k \notin Scope(request[t]),
         \A s \in Tasks : s # t => UNCHANGED <<pc[s], request[s], found[s]>>,
         UNCHANGED <<request[t], online[k], lastWord[k], ends[k], About(k)>>
  PROVE  Exact(k)'
  <1>1. \A s \in Tasks : k \in Scope(request[s])' <=> k \in Scope(request[s])
    OBVIOUS
  <1>2. \A s \in Tasks : k \in Scope(request[s]) => s # t /\ (Active(s)' <=> Active(s))
    BY DEF Active
  <1>3. Quiet(k)' <=> Quiet(k)
    BY <1>1, <1>2 DEF Quiet
  <1>4. ASSUME NEW s \in Tasks, s # t, Progress(s, k) PROVE Progress(s, k)'
    BY <1>4 DEF Progress, Leaves
  <1>5. QED
    BY <1>1, <1>2, <1>3, <1>4 DEF Exact

(* A step of the one task that is about a session. *)
LEMMA SessionOfTask ==
  ASSUME NEW t \in Tasks, NEW k \in Keys, Exact(k), Active(t), k \in Scope(request[t]),
         \A s \in Tasks : s # t => UNCHANGED <<pc[s], request[s]>>,
         UNCHANGED request[t],
         \/ Active(t)' /\ Progress(t, k)'
         \/ /\ ~Active(t)'
            /\ online'[k] # NoRow <=> lastWord'[k] = "up"
            /\ Cardinality(About(k)') = ends'[k]
  PROVE  Exact(k)'
  <1>1. \A s \in Tasks : k \in Scope(request[s])' <=> k \in Scope(request[s])
    OBVIOUS
  <1>2. \A s \in Tasks : Active(s)' /\ k \in Scope(request[s])' => s = t
    <2>1. \A s \in Tasks : s # t => (Active(s)' <=> Active(s))
      BY DEF Active
    <2>2. QED BY <1>1, <2>1 DEF Exact
  <1>3. Quiet(k)' <=> ~Active(t)'
    BY <1>1, <1>2 DEF Quiet
  <1>4. QED
    BY <1>1, <1>2, <1>3 DEF Exact

(* Every step keeps an undisturbed session exact, if it leaves it undisturbed. *)
LEMMA NextExact ==
  ASSUME TypeOK, SessionInv, [Next]_vars, NEW k \in Keys, ~jumbled'[k]
  PROVE  Exact(k)'
  <1> USE DEF Goto, stores, locals, history
  <1>0. TaskInv /\ (~jumbled[k] => Exact(k))
    BY DEF SessionInv
  <1>1. ASSUME NEW t \in Tasks, NEW r \in Requests, Execute(t, r) PROVE Exact(k)'
    <2>1. /\ pc[t] = "idle" /\ UNCHANGED <<tickets, found, online>> /\ Note(r)
          /\ \A s \in Tasks : /\ pc'[s] = IF s = t THEN FirstStep(r) ELSE pc[s]
                              /\ request'[s] = IF s = t THEN r ELSE request[s]
      BY <1>1 DEF Execute, TypeOK
    <2>2. /\ ~jumbled[k]
          /\ k \in Scope(r) => \A s \in Tasks : ~(Active(s) /\ k \in Scope(request[s]))
      BY <2>1 DEF Note
    <2>3. Exact(k) /\ ~Active(t) /\ Active(t)'
      BY <1>0, <2>1, <2>2 DEF Active, FirstStep
    <2>4. UNCHANGED About(k)
      BY <2>1 DEF About
    <2>5. \A s \in Tasks : s # t =>
            (Active(s)' <=> Active(s)) /\ (k \in Scope(request[s])' <=> k \in Scope(request[s]))
      BY <2>1 DEF Active
    <2>6. \A s \in Tasks : (s = t => request'[s] = r)
      BY <2>1
    <2>7. CASE k \notin Scope(r)
      <3>1. lastWord'[k] = lastWord[k] /\ ends'[k] = ends[k]
        BY <2>1, <2>7 DEF Note
      <3>2. Quiet(k)' <=> Quiet(k)
        BY <2>3, <2>5, <2>6, <2>7 DEF Quiet
      <3>3. \A s \in Tasks : s # t /\ Progress(s, k) => Progress(s, k)'
        BY <2>1, <2>4, <3>1 DEF Progress, Leaves
      <3>4. QED BY <2>1, <2>3, <2>4, <2>5, <2>6, <2>7, <3>1, <3>2, <3>3 DEF Exact
    <2>8. CASE k \in Scope(r)
      <3>1. \A s \in Tasks : (Active(s)' /\ k \in Scope(request[s])') <=> s = t
        BY <2>2, <2>3, <2>5, <2>6, <2>8
      <3>2. ~Quiet(k)'
        BY <3>1 DEF Quiet
      <3>3. Quiet(k)
        BY <2>2, <2>8 DEF Quiet
      <3>4. (online[k] # NoRow <=> lastWord[k] = "up") /\ Cardinality(About(k)) = ends[k]
        BY <2>3, <3>3 DEF Exact
      <3>5. /\ lastWord'[k] = IF FirstStep(r) = "select" THEN "down"
                              ELSE IF SaysUp(r) THEN "up" ELSE lastWord[k]
            /\ ends'[k] = IF (\/ r.kind = "stop" /\ HowBilled(r.user) # "none"
                              \/ r.kind \in {"on", "off"} /\ lastWord[k] = "up")
                          THEN ends[k] + 1 ELSE ends[k]
        BY <2>1, <2>8 DEF Note
      <3>6. r.kind \in Kinds /\ ends[k] \in Nat /\ Cardinality(About(k)) \in Nat
        BY <1>0, AboutFinite, RequestsAssumption DEF Request, TypeOK
      <3>7. pc'[t] = FirstStep(r) /\ request'[t] = r
        BY <2>1
      <3>8. Progress(t, k)'
        <4>1. CASE r.kind \in {"start", "interim"}
          <5>1. FirstStep(r) = "lookup" /\ ends'[k] = ends[k]
            BY <3>5, <4>1 DEF FirstStep
          <5>2. QED BY <2>1, <2>4, <3>4, <3>5, <3>7, <5>1 DEF Progress
        <4>2. CASE r.kind \notin {"start", "interim"}
          <5>1. FirstStep(r) = "select" /\ lastWord'[k] = "down"
            BY <3>5, <4>2 DEF FirstStep
          <5>2. Leaves(t, k)' <=> IF r.kind = "stop" THEN HowBilled(r.user) # "none"
                                   ELSE lastWord[k] = "up"
            BY <2>1, <3>4, <3>7, <5>1 DEF Leaves
          <5>3. Cardinality(About(k)') + (IF Leaves(t, k)' THEN 1 ELSE 0) = ends'[k]
            BY <2>4, <3>4, <3>5, <3>6, <4>2, <5>2 DEF Kinds
          <5>4. QED BY <3>7, <5>1, <5>3 DEF Progress, Ending
        <4>3. QED BY <4>1, <4>2
      <3>9. QED BY <3>1, <3>2, <3>8 DEF Exact
    <2>9. QED BY <2>7, <2>8
  <1>2. ASSUME NEW t \in Tasks, Lookup(t) PROVE Exact(k)'
    <2>1. /\ pc[t] = "lookup" /\ UNCHANGED <<online, tickets, request, found, lastWord, ends, jumbled>>
          /\ \A s \in Tasks : s # t => pc'[s] = pc[s]
          /\ pc'[t] = IF online[Key(request[t])] = NoRow /\ SaysUp(request[t])
                      THEN "insert" ELSE "done"
      BY <1>2 DEF Lookup, TypeOK
    <2>2. Exact(k) /\ Active(t) /\ UNCHANGED About(k)
      BY <1>0, <2>1 DEF Active, About
    <2>3. CASE k \in Scope(request[t])
      <3>1. k = Key(request[t])
        BY <2>1, <2>3 DEF Scope, TypeOK
      <3>2. Progress(t, k)
        BY <2>2, <2>3 DEF Exact
      <3>3. \/ Active(t)' /\ Progress(t, k)'
            \/ /\ ~Active(t)'
               /\ online'[k] # NoRow <=> lastWord'[k] = "up"
               /\ Cardinality(About(k)') = ends'[k]
        BY <2>1, <2>2, <3>1, <3>2 DEF Progress, Active, Ending, BillSteps
      <3>4. QED BY <2>1, <2>2, <2>3, <3>3, SessionOfTask
    <2>4. CASE k \notin Scope(request[t])
      BY <2>1, <2>2, <2>4, SessionOfOthers
    <2>5. QED BY <2>3, <2>4
  <1>3. ASSUME NEW t \in Tasks, Insert(t) PROVE Exact(k)'
    <2> DEFINE row == [user |-> request[t].user, source |-> request[t].kind]
    <2>1. /\ pc[t] = "insert" /\ UNCHANGED <<tickets, request, found, lastWord, ends, jumbled>>
          /\ \A s \in Tasks : s # t => pc'[s] = pc[s]
          /\ pc'[t] = "done"
          /\ online' = online \/ online' = [online EXCEPT ![Key(request[t])] = row]
          /\ online[Key(request[t])] = NoRow => online' = [online EXCEPT ![Key(request[t])] = row]
      BY <1>3 DEF Insert, TypeOK
    <2>2. Exact(k) /\ Active(t) /\ UNCHANGED About(k)
      BY <1>0, <2>1 DEF Active, About
    <2>3. request[t].kind \in {"start", "interim"} /\ SaysUp(request[t])
      BY <1>0, <2>1 DEF TypeOK, TaskInv
    <2>4. k \in Scope(request[t]) <=> k = Key(request[t])
      BY <2>3 DEF Scope
    <2>5. CASE k \in Scope(request[t])
      <3>1. Progress(t, k)
        BY <2>2, <2>5 DEF Exact
      <3>2. online[k] = NoRow /\ lastWord[k] = "up" /\ Cardinality(About(k)) = ends[k]
        BY <2>1, <2>3, <3>1 DEF Progress, Ending, BillSteps
      <3>3. online'[k] # NoRow
        <4>1. row.source # "none"
          BY <2>3
        <4>2. row # NoRow
          BY <4>1 DEF NoRow
        <4>3. QED BY <2>1, <2>4, <2>5, <3>2, <4>2 DEF TypeOK
      <3>4. ~Active(t)'
        BY <2>1 DEF Active
      <3>5. QED BY <2>1, <2>2, <2>5, <3>2, <3>3, <3>4, SessionOfTask
    <2>6. CASE k \notin Scope(request[t])
      <3>1. online'[k] = online[k]
        BY <2>1, <2>4, <2>6 DEF TypeOK
      <3>2. QED BY <2>1, <2>2, <2>6, <3>1, SessionOfOthers
    <2>7. QED BY <2>5, <2>6
  <1>4. ASSUME NEW t \in Tasks, Select(t) PROVE Exact(k)'
    <2>1. /\ pc[t] = "select" /\ UNCHANGED <<online, tickets, request, lastWord, ends, jumbled>>
          /\ \A s \in Tasks : s # t => pc'[s] = pc[s] /\ found'[s] = found[s]
          /\ pc'[t] = "delete"
          /\ k \in Scope(request[t]) => found'[t][k] = online[k]
      BY <1>4 DEF Select, TypeOK
    <2>2. Exact(k) /\ Active(t) /\ UNCHANGED About(k)
      BY <1>0, <2>1 DEF Active, About
    <2>3. CASE k \in Scope(request[t])
      <3>1. Progress(t, k) /\ Active(t)'
        BY <2>1, <2>2, <2>3 DEF Exact, Active
      <3>2. Leaves(t, k)' <=> Leaves(t, k)
        BY <2>1, <2>3 DEF Leaves
      <3>3. Progress(t, k)'
        BY <2>1, <2>2, <2>3, <3>1, <3>2 DEF Progress, Ending
      <3>4. QED BY <2>1, <2>2, <2>3, <3>1, <3>3, SessionOfTask
    <2>4. CASE k \notin Scope(request[t])
      BY <2>1, <2>2, <2>4, SessionOfOthers
    <2>5. QED BY <2>3, <2>4
  <1>5. ASSUME NEW t \in Tasks, Delete(t) PROVE Exact(k)'
    <2>1. /\ pc[t] = "delete" /\ UNCHANGED <<tickets, request, found, lastWord, ends, jumbled>>
          /\ \A s \in Tasks : s # t => pc'[s] = pc[s]
          /\ pc'[t] = IF request[t].kind = "stop" THEN "bill" ELSE "log"
          /\ online'[k] = IF k \in Scope(request[t]) THEN NoRow ELSE online[k]
      BY <1>5 DEF Delete, TypeOK
    <2>2. Exact(k) /\ Active(t) /\ UNCHANGED About(k)
      BY <1>0, <2>1 DEF Active, About
    <2>3. CASE k \in Scope(request[t])
      <3>1. Progress(t, k) /\ Active(t)'
        BY <2>1, <2>2, <2>3 DEF Exact, Active
      <3>2. Leaves(t, k)' <=> Leaves(t, k)
        BY <2>1 DEF Leaves
      <3>3. Progress(t, k)'
        BY <2>1, <2>2, <2>3, <3>1, <3>2 DEF Progress, Ending, BillSteps
      <3>4. QED BY <2>1, <2>2, <2>3, <3>1, <3>3, SessionOfTask
    <2>4. CASE k \notin Scope(request[t])
      BY <2>1, <2>2, <2>4, SessionOfOthers
    <2>5. QED BY <2>3, <2>4
  <1>6. ASSUME NEW t \in Tasks, Log(t) PROVE Exact(k)'
    <2>1. /\ pc[t] = "log" /\ UNCHANGED <<online, request, lastWord, ends, jumbled>>
          /\ \A s \in Tasks : s # t => pc'[s] = pc[s] /\ found'[s] = found[s]
      BY <1>6 DEF Log, TypeOK
    <2>2. Exact(k) /\ Active(t) /\ request[t].kind # "stop"
      BY <1>0, <2>1 DEF Active, TaskInv
    <2>3. k \in Scope(request[t]) => Progress(t, k)
      BY <2>2 DEF Exact
    <2>4. ASSUME NEW j \in Keys, found[t][j] # NoRow, pc' = pc,
                 tickets' = tickets \cup
                   {[task |-> t, key |-> j, user |-> found[t][j].user,
                     startSource |-> found[t][j].source,
                     stopSource |-> request[t].kind, fee |-> 0, isDeduct |-> 0]},
                 found' = [found EXCEPT ![t][j] = NoRow]
          PROVE  Exact(k)'
      <3> DEFINE x == [task |-> t, key |-> j, user |-> found[t][j].user,
                       startSource |-> found[t][j].source,
                       stopSource |-> request[t].kind, fee |-> 0, isDeduct |-> 0]
      <3>1. Active(t)'
        BY <2>1, <2>4 DEF Active
      <3>2. CASE j = k
        <4>1. k \in Scope(request[t])
          BY <1>0, <2>1, <2>4, <3>2 DEF TaskInv
        <4>2. x \notin tickets
          BY <1>0, <2>1, <2>4 DEF TaskInv
        <4>3. About(k)' = About(k) \cup {x} /\ x \notin About(k)
          BY <2>4, <3>2, <4>2 DEF About
        <4>4. Cardinality(About(k)') = Cardinality(About(k)) + 1
          <5> HIDE DEF x
          <5> QED BY <1>0, <4>3, AboutFinite, FS_AddElement
        <4>5. Leaves(t, k) /\ ~Leaves(t, k)'
          BY <2>1, <2>2, <2>4, <3>2 DEF Leaves, TypeOK
        <4>6. Progress(t, k)'
          BY <1>0, <2>1, <2>3, <2>4, <4>1, <4>4, <4>5, AboutFinite DEF Progress, Ending, BillSteps
        <4>7. QED BY <2>1, <2>2, <3>1, <4>1, <4>6, SessionOfTask
      <3>3. CASE j # k
        <4>1. UNCHANGED About(k) /\ found'[t][k] = found[t][k]
          BY <2>4, <3>3 DEF About, TypeOK
        <4>2. CASE k \in Scope(request[t])
          <5>1. Leaves(t, k)' <=> Leaves(t, k)
            BY <2>1, <2>2, <2>4, <4>1 DEF Leaves
          <5>2. Progress(t, k)'
            BY <2>1, <2>3, <2>4, <4>1, <4>2, <5>1 DEF Progress
          <5>3. QED BY <2>1, <2>2, <3>1, <4>2, <5>2, SessionOfTask
        <4>3. CASE k \notin Scope(request[t])
          BY <2>1, <2>2, <4>1, <4>3, SessionOfOthers
        <4>4. QED BY <4>2, <4>3
      <3>4. QED BY <3>2, <3>3
    <2>5. ASSUME found[t] = NoRows, pc' = [pc EXCEPT ![t] = "done"], UNCHANGED <<tickets, found>>
          PROVE  Exact(k)'
      <3>1. UNCHANGED About(k) /\ ~Active(t)'
        BY <2>5 DEF About, Active, TypeOK
      <3>2. CASE k \in Scope(request[t])
        <4>1. ~Leaves(t, k)
          BY <2>1, <2>2, <2>5 DEF Leaves, NoRows
        <4>2. online[k] = NoRow /\ lastWord[k] = "down" /\ Cardinality(About(k)) + 0 = ends[k]
          BY <2>1, <2>3, <3>2, <4>1 DEF Progress
        <4>3. Cardinality(About(k)) = ends[k]
          BY <1>0, <4>2, AboutFinite
        <4>4. QED BY <2>1, <2>2, <3>1, <3>2, <4>2, <4>3, SessionOfTask
      <3>3. CASE k \notin Scope(request[t])
        BY <2>1, <2>2, <3>1, <3>3, SessionOfOthers
      <3>4. QED BY <3>2, <3>3
    <2>6. QED BY <1>6, <2>4, <2>5 DEF Log
  <1>7. ASSUME NEW t \in Tasks, Bill(t) \/ WriteTicket(t) PROVE Exact(k)'
    <2>1. /\ pc[t] \in {"bill", "ticket"}
          /\ UNCHANGED <<online, request, found, lastWord, ends, jumbled>>
          /\ \A s \in Tasks : s # t => pc'[s] = pc[s]
      BY <1>7 DEF Bill, WriteTicket, TypeOK
    <2>2. Exact(k) /\ Active(t) /\ request[t].kind = "stop"
      BY <1>0, <2>1 DEF Active, TaskInv, BillSteps
    <2>3. k \in Scope(request[t]) <=> k = Key(request[t])
      BY <2>2 DEF Scope
    <2>4. ASSUME k \in Scope(request[t])
          PROVE  /\ online[k] = NoRow /\ lastWord[k] = "down"
                 /\ Cardinality(About(k)) + (IF Leaves(t, k) THEN 1 ELSE 0) = ends[k]
      BY <2>1, <2>2, <2>4 DEF Exact, Progress
    <2>5. Leaves(t, k) <=> HowBilled(request[t].user) # "none"
      BY <2>2 DEF Leaves
    <2>6. ASSUME NEW fee, NEW isDeduct, HowBilled(request[t].user) # "none",
                 tickets' = tickets \cup {StopTicket(t, fee, isDeduct)}, pc'[t] = "done"
          PROVE  Exact(k)'
      <3> DEFINE x == StopTicket(t, fee, isDeduct)
      <3>1. x.task = t /\ x.key = Key(request[t])
        BY DEF StopTicket
      <3>2. x \notin tickets
        BY <1>0, <2>1, <3>1 DEF TaskInv
      <3>3. ~Active(t)'
        BY <2>6 DEF Active
      <3>4. CASE k \in Scope(request[t])
        <4>1. About(k)' = About(k) \cup {x} /\ x \notin About(k)
          BY <2>3, <2>6, <3>1, <3>2, <3>4 DEF About
        <4>2. Cardinality(About(k)') = Cardinality(About(k)) + 1
          <5> HIDE DEF x
          <5> QED BY <1>0, <4>1, AboutFinite, FS_AddElement
        <4>3. Cardinality(About(k)') = ends'[k]
          BY <2>1, <2>4, <2>5, <2>6, <3>4, <4>2
        <4>4. QED BY <2>1, <2>2, <2>4, <3>3, <3>4, <4>3, SessionOfTask
      <3>5. CASE k \notin Scope(request[t])
        <4>1. UNCHANGED About(k)
          BY <2>3, <2>6, <3>1, <3>5 DEF About
        <4>2. QED BY <2>1, <2>2, <3>5, <4>1, SessionOfOthers
      <3>6. QED BY <3>4, <3>5
    <2>7. ASSUME UNCHANGED tickets,
                 \/ pc'[t] = "set" /\ HowBilled(request[t].user) = "deduct"
                 \/ pc'[t] = "done" /\ HowBilled(request[t].user) = "none"
          PROVE  Exact(k)'
      <3>1. UNCHANGED About(k)
        BY <2>7 DEF About
      <3>2. CASE k \in Scope(request[t]) /\ pc'[t] = "set"
        <4>1. Active(t)' /\ (Leaves(t, k)' <=> Leaves(t, k))
          BY <2>1, <2>2, <3>2 DEF Active, Leaves
        <4>2. Progress(t, k)'
          BY <2>1, <2>4, <3>1, <3>2, <4>1 DEF Progress, Ending, BillSteps
        <4>3. QED BY <2>1, <2>2, <3>2, <4>1, <4>2, SessionOfTask
      <3>3. CASE k \in Scope(request[t]) /\ pc'[t] # "set"
        <4>1. ~Active(t)' /\ ~Leaves(t, k)
          BY <2>5, <2>7, <3>3 DEF Active
        <4>2. Cardinality(About(k)') = ends'[k]
          BY <1>0, <2>1, <2>4, <3>1, <3>3, <4>1, AboutFinite
        <4>3. QED BY <2>1, <2>2, <2>4, <3>3, <4>1, <4>2, SessionOfTask
      <3>4. CASE k \notin Scope(request[t])
        BY <2>1, <2>2, <3>1, <3>4, SessionOfOthers
      <3>5. QED BY <3>2, <3>3, <3>4
    <2>8. CASE WriteTicket(t)
      <3>1. HowBilled(request[t].user) = "deduct"
        BY <1>0, <2>8 DEF WriteTicket, TaskInv, BillSteps
      <3>2. /\ tickets' = tickets \cup {StopTicket(t, Fee(request[t]), 1)}
            /\ pc'[t] = "done"
        BY <2>8 DEF WriteTicket, TypeOK
      <3>3. QED BY <2>6, <3>1, <3>2
    <2>9. CASE Bill(t)
      <3>1. \/ /\ HowBilled(request[t].user) = "ticketOnly"
               /\ tickets' = tickets \cup {StopTicket(t, 0, 0)} /\ pc'[t] = "done"
            \/ /\ UNCHANGED tickets
               /\ \/ pc'[t] = "set" /\ HowBilled(request[t].user) = "deduct"
                  \/ pc'[t] = "done" /\ HowBilled(request[t].user) = "none"
        BY <2>9 DEF Bill, TypeOK
      <3>2. QED BY <2>6, <2>7, <3>1
    <2>10. QED BY <1>7, <2>8, <2>9
  <1>8. ASSUME NEW t \in Tasks, \/ SetBalance(t) \/ Bind(t) \/ WriteCredit(t)
                               \/ ReadBack(t) \/ CopyBack(t)
        PROVE  Exact(k)'
    <2>1. /\ pc[t] \in {"set", "bind", "write", "read", "copy"}
          /\ pc'[t] \in {"bind", "write", "read", "copy", "ticket"}
          /\ UNCHANGED <<online, tickets, request, found, lastWord, ends, jumbled>>
          /\ \A s \in Tasks : s # t => pc'[s] = pc[s]
      BY <1>8 DEF SetBalance, Bind, WriteCredit, ReadBack, CopyBack, TypeOK
    <2>2. /\ Exact(k) /\ Active(t) /\ Active(t)' /\ UNCHANGED About(k)
          /\ request[t].kind = "stop"
      BY <1>0, <2>1 DEF Active, About, TaskInv, BillSteps
    <2>3. CASE k \in Scope(request[t])
      <3>1. Progress(t, k)
        BY <2>2, <2>3 DEF Exact
      <3>2. Leaves(t, k)' <=> Leaves(t, k)
        BY <2>1, <2>2 DEF Leaves
      <3>3. Progress(t, k)'
        BY <2>1, <2>2, <3>1, <3>2 DEF Progress, Ending, BillSteps
      <3>4. QED BY <2>1, <2>2, <2>3, <3>3, SessionOfTask
    <2>4. CASE k \notin Scope(request[t])
      BY <2>1, <2>2, <2>4, SessionOfOthers
    <2>5. QED BY <2>3, <2>4
  <1>9. ASSUME NEW t \in Tasks, Fail(t) PROVE Exact(k)'
    <2>1. /\ pc[t] \in {"lookup", "insert", "select", "delete", "write"}
          /\ UNCHANGED <<online, tickets, request, found, lastWord, ends>>
          /\ \A s \in Tasks : s # t => pc'[s] = pc[s]
          /\ jumbled'[k] = (jumbled[k] \/ (Active(t) /\ k \in Scope(request[t])))
      BY <1>9 DEF Fail, Abandoned, TypeOK
    <2>2. Active(t) /\ ~jumbled[k] /\ k \notin Scope(request[t]) /\ UNCHANGED About(k)
      BY <2>1 DEF Active, About
    <2>3. QED BY <1>0, <2>1, <2>2, SessionOfOthers
  <1>10. ASSUME Crash PROVE Exact(k)'
    <2>1. /\ UNCHANGED <<online, tickets, request, found, lastWord, ends>>
          /\ \A s \in Tasks : pc'[s] = IF pc[s] = "idle" THEN "idle" ELSE "done"
          /\ jumbled'[k] = (jumbled[k] \/ \E s \in Tasks : Active(s) /\ k \in Scope(request[s]))
      BY <1>10 DEF Crash, Abandoned
    <2>2. ~jumbled[k] /\ Quiet(k) /\ UNCHANGED About(k)
      BY <2>1 DEF Quiet, About
    <2>3. \A s \in Tasks : ~Active(s)'
      BY <2>1 DEF Active
    <2>4. QED BY <1>0, <2>1, <2>2, <2>3 DEF Exact
  <1>11. CASE UNCHANGED vars
    <2>1. Exact(k)
      BY <1>0, <1>11 DEF vars
    <2>2. QED BY <1>11, <2>1 DEF vars, Exact, Quiet, Active, About, Progress, Leaves
  <1>12. QED
    BY <1>1, <1>2, <1>3, <1>4, <1>5, <1>6, <1>7, <1>8, <1>9, <1>10, <1>11 DEF Next

(* Every step keeps the invariant. *)
LEMMA NextSessions == TypeOK /\ SessionInv /\ [Next]_vars => SessionInv'
  <1> SUFFICES ASSUME TypeOK, SessionInv, [Next]_vars PROVE SessionInv'
    OBVIOUS
  <1>1. TaskInv'
    BY NextTask DEF SessionInv
  <1>2. ASSUME NEW k \in Keys, ~jumbled'[k] PROVE Exact(k)'
    BY <1>2, NextExact
  <1>3. QED BY <1>1, <1>2 DEF SessionInv

(* Where the requests about a session were each finished before the next    *)
(* began, it is listed exactly when the last request said it is up, and each *)
(* of its ends has left one ticket, whatever the requests about other sessions *)
(* do and whenever statements fail or the process crashes (startAcct,       *)
(* updateAcct, stopAcct, setAcctOnOff).                                     *)
THEOREM SessionsAreExact == Spec => []SessionsExact
  <1>1. SessionInv => SessionsExact
    BY DEF SessionInv, Exact, SessionsExact, About
  <1>2. QED BY <1>1, InitSessions, NextSessions, TypeCorrect, PTL DEF Spec
=============================================================================
