--------------------------- MODULE Authentication ---------------------------
(***************************************************************************)
(* org.toughradius.server.AuthServer: what accessRequestReceived decides,  *)
(* one read of the session table, the cache or the database at a time, for *)
(* requests that run on threads of their own; and the sessions its answers *)
(* lead to, which the accounting server lists and charges (Accounting).    *)
(*                                                                         *)
(* A task is a request and then its session.  The attributes of a user and *)
(* his group are an Account; only the MAC address and the credit change.   *)
(* A SELECT reads what is committed (but see module MapperCache).          *)
(***************************************************************************)
EXTENDS SessionTime, FiniteSets

CONSTANTS
  UserNames,      \* names that occur in requests
  Users,          \* those the cache knows
  Account,        \* their attributes, and those of their groups
  Macs,           \* values of Calling-Station-Id
  Requests,       \* the requests of an instance
  Times,          \* what the clock shows in an instance
  Usages,         \* bound: session times reported besides the whole grant
  Tasks,          \* the pool's threads, one for each request
  MaxCrashes,     \* bound: how often the process may crash
  DatabaseFails   \* bound: whether database statements may throw

NoMac == "none"     \* no address bound; no Calling-Station-Id
Request == [user : UserNames, mac : Macs \cup {NoMac}, rightPassword : BOOLEAN]

(* barred: STATUS of the user is 0 or 2, or that of his group is 2.         *)
(* limit: CONCUR_NUMBER of the user, else of the group, else configured.    *)
(* maxTime: Session-Timeout of the group, else configured.                  *)
(* expiry: where EXPIRE lies, seen from the first day; "later" is after the *)
(* second.  prepaid: FEE_POLICY of the group is 1.                          *)
AccountType ==
  [barred : BOOLEAN, limit : Int, bindMac : BOOLEAN, maxTime : 0 .. MaxInt,
   expiry : {"never", "past", "today", "later"}, period : Period \cup {NoPeriod},
   prepaid : BOOLEAN, price : 0 .. MaxInt, hasCredit : BOOLEAN, credit : 0 .. MaxInt]

ASSUME UsersAssumption == Users \subseteq UserNames
ASSUME AccountAssumption == Account \in [Users -> AccountType]
ASSUME MacsAssumption == NoMac \notin Macs
ASSUME RequestsAssumption == Requests \subseteq Request
ASSUME TimesAssumption == Times \subseteq Clock /\ Usages \subseteq Nat
ASSUME TasksAssumption == IsFiniteSet(Tasks)
ASSUME FailuresAssumption == MaxCrashes \in Nat /\ DatabaseFails \in BOOLEAN

NoRequest == [user |-> "none"]

VARIABLES
  macDB,      \* MAC_ADDR in RAD_USER_META
  macCache,   \* MAC_ADDR in the cache
  credit,     \* CREDIT in the cache
  pc,         \* next step of each task, or the state of its session
  request,    \* the request of each task
  granted,    \* Session-Timeout of the answer
  basis,      \* history: the clock and the credit the decision was made on
  crashes,    \* history: number of crashes
  overlaps,   \* history: counts made while a login or session was not listed
  unbounded,  \* history: users granted a time below zero, or a time while
              \* another session had some
  unpaid      \* history: fees the credit did not cover

macs == <<macDB, macCache>>
grants == <<granted, basis>>
history == <<crashes, overlaps, unbounded, unpaid>>
vars == <<macs, credit, pc, request, grants, history>>

Deciding == {"count", "mac", "insert", "cache", "decide"}
Sessions == {"accepted", "online", "unlisted"}
PCs == {"idle", "rejected", "failed", "ended"} \cup Deciding \cup Sessions

(* expiry, hour: the readings for the end of the account and the period.    *)
(* overflow: the product calcTimelen makes of the credit was no int.        *)
Basis == [expiry : Clock, hour : Clock, overflow : BOOLEAN]
NoBasis == [expiry |-> 0, hour |-> 0, overflow |-> FALSE]

TypeOK ==
  /\ macDB \in [Users -> Macs \cup {NoMac}]
  /\ macCache \in [Users -> Macs \cup {NoMac}]
  /\ credit \in [Users -> 0 .. MaxInt]
  /\ pc \in [Tasks -> PCs]
  /\ request \in [Tasks -> Requests \cup {NoRequest}]
  /\ granted \in [Tasks -> 0 .. WordSize - 1]
  /\ basis \in [Tasks -> Basis]
  /\ crashes \in Nat
  /\ overlaps \in [Users -> Nat]
  /\ unbounded \in [Users -> BOOLEAN]
  /\ unpaid \in [Users -> Nat]
  /\ \A t \in Tasks : pc[t] # "idle" => request[t] \in Requests
  /\ \A t \in Tasks :
       pc[t] \in Deciding \cup Sessions \cup {"ended"} => request[t].user \in Users
  /\ \A t \in Tasks : pc[t] = "cache" => request[t].mac \in Macs

Init ==
  /\ macDB \in [Users -> Macs \cup {NoMac}]
  /\ \A u \in Users : Account[u].bindMac \/ macDB[u] = NoMac
  /\ macCache = macDB
  /\ credit = [u \in Users |-> Account[u].credit]
  /\ pc = [t \in Tasks |-> "idle"]
  /\ request = [t \in Tasks |-> NoRequest]
  /\ granted = [t \in Tasks |-> 0]
  /\ basis = [t \in Tasks |-> NoBasis]
  /\ crashes = 0
  /\ overlaps = [u \in Users |-> 0]
  /\ unbounded = [u \in Users |-> FALSE]
  /\ unpaid = [u \in Users |-> 0]

Goto(t, label) == pc' = [pc EXCEPT ![t] = label]
User(t) == request[t].user
Of(u, S) == {t \in Tasks : pc[t] \in S /\ User(t) = u}

-----------------------------------------------------------------------------
(* accessRequestReceived.                                                   *)

(* The user, his password, his status and that of his group. *)
Recognised(r) == r.user \in Users /\ r.rightPassword /\ ~Account[r.user].barred

(* A limit of 0 or less is none. *)
AccessRequest(t, r) ==
  /\ pc[t] = "idle"
  /\ request' = [request EXCEPT ![t] = r]
  /\ \/ ~Recognised(r) /\ Goto(t, "rejected")
     \/ Recognised(r) /\ Goto(t, IF Account[r.user].limit > 0 THEN "count" ELSE "mac")
  /\ UNCHANGED <<macs, credit, grants, history>>

(* Mutant: one session more. *)
OverLimitByTwo(n, limit) == n > limit + 1

(* The test of countOnline's result against the limit. *)
OverLimit(n, limit) == n > limit

(* Logins and sessions that were counted in and are not listed. *)
NotListed == (Deciding \ {"count"}) \cup {"accepted", "unlisted"}

(* countOnline also counts the rows that Interims processed after the Stop  *)
(* left of ended sessions.                                                  *)
CountOnline(t) ==
  LET u == User(t)
      listed == Cardinality(Of(u, {"online"}))
      ended == Cardinality(Of(u, {"ended"}))
  IN
  /\ pc[t] = "count"
  /\ \E left \in 0 .. ended :
       LET over == OverLimit(listed + left, Account[u].limit)
       IN \/ over /\ Goto(t, "rejected") /\ UNCHANGED overlaps
          \/ /\ ~over
             /\ Goto(t, "mac")
             /\ overlaps' = [overlaps EXCEPT ![u] =
                  IF Of(u, NotListed) = {} THEN @ ELSE @ + 1]
  /\ UNCHANGED <<macs, credit, request, grants, crashes, unbounded, unpaid>>

(* checkMac, down to the lookup of the bound address in the cache. *)
CheckMac(t) ==
  LET u == User(t)
  IN
  /\ pc[t] = "mac"
  /\ \/ ~Account[u].bindMac /\ Goto(t, "decide")
     \/ /\ Account[u].bindMac
        /\ \/ macCache[u] = NoMac /\ Goto(t, "insert")
           \/ /\ macCache[u] # NoMac
              /\ Goto(t, IF macCache[u] = request[t].mac THEN "decide" ELSE "rejected")
  /\ UNCHANGED <<macs, credit, request, grants, history>>

(* Mutant: the INSERT replaces an address that is there. *)
InsertAnyMac(t) ==
  /\ pc[t] = "insert"
  /\ \/ /\ request[t].mac # NoMac
        /\ macDB' = [macDB EXCEPT ![User(t)] = request[t].mac]
        /\ Goto(t, "cache")
     \/ /\ request[t].mac = NoMac
        /\ Goto(t, "failed")
        /\ UNCHANGED macDB
  /\ UNCHANGED <<macCache, credit, request, grants, history>>

(* UserService.addUserMeta inserts the address of a first login.  The       *)
(* statement throws when the user has one (primary key) or the request has  *)
(* none (VALUE is NOT NULL), and the request gets no answer.                *)
InsertMac(t) ==
  LET inserts == macDB[User(t)] = NoMac /\ request[t].mac # NoMac
  IN
  /\ pc[t] = "insert"
  /\ \/ /\ inserts
        /\ macDB' = [macDB EXCEPT ![User(t)] = request[t].mac]
        /\ Goto(t, "cache")
     \/ /\ ~inserts
        /\ Goto(t, "failed")
        /\ UNCHANGED macDB
  /\ UNCHANGED <<macCache, credit, request, grants, history>>

(* Mutant: the cache is not told. *)
CacheNothing(t) ==
  /\ pc[t] = "cache"
  /\ Goto(t, "decide")
  /\ UNCHANGED <<macs, credit, request, grants, history>>

(* ... and then tells the cache. *)
CacheMac(t) ==
  /\ pc[t] = "cache"
  /\ macCache' = [macCache EXCEPT ![User(t)] = request[t].mac]
  /\ Goto(t, "decide")
  /\ UNCHANGED <<macDB, credit, request, grants, history>>

(* The time until the account ends, if that is today. *)
BaseTime(u, now) ==
  IF Account[u].expiry = "today"
  THEN Least(Account[u].maxTime, UntilExpiry(now)) ELSE Account[u].maxTime

(* calcTimelen; 0 for a user who has to pay by the minute from no credit. *)
TimeLeft(u, now) ==
  IF ~Account[u].prepaid THEN BaseTime(u, now)
  ELSE IF ~Account[u].hasCredit THEN 0
  ELSE CreditTime(credit[u], Account[u].price, BaseTime(u, now))

Expired(u, today) ==
  \/ Account[u].expiry = "past"
  \/ Account[u].expiry = "today" /\ today > LastSecond

(* What the clock may show where the code reads it, after an earlier time.  *)
Read(reads, earlier) == IF reads THEN {now \in Times : now >= earlier} ELSE {earlier}

(* The rest: expiry, hours, credit, and the answer with its time.  The      *)
(* clock is read to see whether an account ends today (the others read it   *)
(* to no other outcome), again for what is left of the day, and three times *)
(* in checkPeriod, whose result is only compared with 0.  A time below zero *)
(* is granted like another.  A price of 0 divides by zero, and the request  *)
(* gets no answer.                                                          *)
Decide(t) ==
  LET u == User(t)
      endsToday == Account[u].expiry = "today"
      hasPeriod == Account[u].period # NoPeriod
      dividesByZero == Account[u].prepaid /\ Account[u].hasCredit /\ Account[u].price = 0
  IN
  /\ pc[t] = "decide"
  /\ \E today \in Read(endsToday, 0) : \E now \in Read(endsToday, today) :
     \E nowDay \in Read(hasPeriod, now) : \E nowTime \in Read(hasPeriod, nowDay) :
     \E nowHour \in Read(hasPeriod, nowTime) :
       LET early ==
             \/ Expired(u, today)
             \/ CheckPeriod(Account[u].period, nowDay, nowTime, nowHour, BaseTime(u, now)) = 0
           time == TimeLeft(u, now)
       IN
       \/ /\ early \/ (~dividesByZero /\ time = 0)
          /\ Goto(t, "rejected")
          /\ UNCHANGED <<grants, unbounded>>
       \/ /\ ~early /\ dividesByZero
          /\ Goto(t, "failed")
          /\ UNCHANGED <<grants, unbounded>>
       \/ /\ ~early /\ ~dividesByZero /\ time # 0
          /\ Goto(t, "accepted")
          /\ granted' = [granted EXCEPT ![t] = Unsigned(time)]
          /\ basis' = [basis EXCEPT ![t] =
               [expiry |-> now, hour |-> nowHour,
                overflow |-> credit[u] > MaxInt \div 3600]]
          /\ unbounded' = [unbounded EXCEPT ![u] =
               @ \/ time < 0 \/ Of(u, Sessions) # {}]
  /\ UNCHANGED <<macs, credit, request, crashes, overlaps, unpaid>>

-----------------------------------------------------------------------------
(* Sessions: the access server, and what AcctServer does with its requests. *)

(* A Start, or an Interim of a session that is not listed, adds its row. *)
ListSession(t) ==
  /\ pc[t] \in {"accepted", "unlisted"}
  /\ Goto(t, "online")
  /\ UNCHANGED <<macs, credit, request, grants, history>>

(* The answer is lost and there is no session, or the Start is. *)
LoseSession(t) ==
  /\ pc[t] = "accepted"
  /\ \E label \in {"failed", "unlisted"} : Goto(t, label)
  /\ UNCHANGED <<macs, credit, request, grants, history>>

(* An Accounting-On or -Off of any access server empties the table. *)
ClearSessions ==
  /\ pc' = [t \in Tasks |-> IF pc[t] = "online" THEN "unlisted" ELSE pc[t]]
  /\ UNCHANGED <<macs, credit, request, grants, history>>

(* A Stop.  The access server ends a session when its time is up; the fee   *)
(* of the time, which is read as a signed int, is taken off the credit, but *)
(* no further than to zero.                                                 *)
EndSession(t) ==
  LET u == User(t)
  IN
  /\ pc[t] \in {"online", "unlisted"}
  /\ Goto(t, "ended")
  /\ \E used \in {s \in Usages : s <= granted[t]} \cup {granted[t]} :
       LET fee == IF Account[u].prepaid /\ Account[u].hasCredit
                  THEN UsedFee(Wrap(used), Account[u].price) ELSE 0
       IN /\ credit' = [credit EXCEPT ![u] = Balance(@, fee)]
          /\ unpaid' = [unpaid EXCEPT ![u] =
               IF fee > credit[u] THEN @ + fee - credit[u] ELSE @]
  /\ basis' = [basis EXCEPT ![t] = NoBasis]
  /\ UNCHANGED <<macs, request, granted, crashes, overlaps, unbounded>>

-----------------------------------------------------------------------------
(* Failures.                                                                *)

(* A SELECT or an INSERT throws: the request gets no answer. *)
Fail(t) ==
  /\ DatabaseFails
  /\ pc[t] \in {"count", "insert"}
  /\ Goto(t, "failed")
  /\ UNCHANGED <<macs, credit, request, grants, history>>

(* The process ends and starts again, with the cache loaded. *)
Crash ==
  /\ crashes < MaxCrashes
  /\ crashes' = crashes + 1
  /\ pc' = [t \in Tasks |-> IF pc[t] \in Deciding THEN "failed" ELSE pc[t]]
  /\ macCache' = macDB
  /\ UNCHANGED <<macDB, credit, request, grants, overlaps, unbounded, unpaid>>

Next ==
  \/ \E t \in Tasks, r \in Requests : AccessRequest(t, r)
  \/ \E t \in Tasks : CountOnline(t)
  \/ \E t \in Tasks : CheckMac(t)
  \/ \E t \in Tasks : InsertMac(t)
  \/ \E t \in Tasks : CacheMac(t)
  \/ \E t \in Tasks : Decide(t)
  \/ \E t \in Tasks : ListSession(t)
  \/ \E t \in Tasks : LoseSession(t)
  \/ ClearSessions
  \/ \E t \in Tasks : EndSession(t)
  \/ \E t \in Tasks : Fail(t)
  \/ Crash

Spec == Init /\ [][Next]_vars

-----------------------------------------------------------------------------
(* The limit on a user's sessions is compared with the rows of RAD_ONLINE,  *)
(* which a session joins long after it was let in, and may leave and join   *)
(* again.  Logins under way and sessions, listed or not, are never more     *)
(* than the limit, the one the comparison lets through above it, and one    *)
(* for each count that was made while one of them was not in the table.     *)
LimitKept ==
  \A u \in Users : Account[u].limit > 0 =>
    Cardinality(Of(u, NotListed \cup {"online"})) <= Account[u].limit + 1 + overlaps[u]

Admitted == {"decide", "ended"} \cup Sessions

(* A user bound to an address logs in from no other, not even when two      *)
(* first logins race: both find no address, and the primary key of          *)
(* RAD_USER_META lets one through (checkMac, addUserMeta).                  *)
MacHeld ==
  \A t \in Tasks : pc[t] \in Admitted /\ Account[User(t)].bindMac =>
    request[t].mac = macDB[User(t)]

(* The cache never holds another address than the database, and lacks one   *)
(* the database has only until the thread that inserted it goes on; a crash *)
(* before that is made good by the load.                                    *)
MacAgrees ==
  \A u \in Users : macCache[u] # macDB[u] =>
    macCache[u] = NoMac /\ Of(u, {"cache"}) # {}

ByMinute(u) == Account[u].prepaid /\ Account[u].hasCredit /\ Account[u].price > 0

(* A minute's product in doPrePayTimeLen fits in an int. *)
SmallPrice(u) == 59 * Account[u].price <= MaxInt

(* What a minute begun beyond the credit can cost. *)
MinutePart(u) == (59 * Account[u].price) \div 3600

(* A user who pays by the minute, never has two sessions at a time and is   *)
(* granted no time below zero gets no more for nothing, over all his        *)
(* sessions, than the part of one minute that rounding up charges him       *)
(* beyond his credit: the time calcTimelen grants and the fee               *)
(* doPrePayTimeLen takes fit together, also where the product of the credit *)
(* overflows.                                                               *)
UnpaidBounded ==
  \A u \in Users : ByMinute(u) /\ SmallPrice(u) /\ ~unbounded[u] =>
    unpaid[u] <= MinutePart(u)

(* Nobody is let in outside his hours, given around the clock: the minutes  *)
(* since the period began are no more than its length, whatever the day and *)
(* the other readings of the clock (checkPeriod).                           *)
AcceptedInPeriod ==
  \A t \in Tasks : pc[t] \in Sessions =>
    LET p == Account[User(t)].period
    IN  p # NoPeriod /\ p.from # p.to =>
          (basis[t].hour \div 60 - p.from) % 1440 <= (p.to - p.from) % 1440

(* A session granted on the last day of an account is over by midnight,     *)
(* whatever the credit would pay for (accessRequestReceived, calcTimelen),  *)
(* with two exceptions: when midnight has passed by the second reading of   *)
(* the clock, and when the product of the credit overflows.  The time is    *)
(* then below zero, and the access server reads a word near WordSize.       *)
EndsBeforeExpiry ==
  \A t \in Tasks :
    /\ pc[t] \in Sessions
    /\ Account[User(t)].expiry = "today"
    /\ basis[t].expiry <= LastSecond
    /\ ByMinute(User(t)) => ~basis[t].overflow
    => basis[t].expiry + granted[t] <= LastSecond

(* CONCUR_NUMBER is the number of sessions a user may have at a time: where *)
(* earlier sessions are listed when he logs in, he never has more.          *)
OnlineWithinLimit ==
  \A u \in Users : Account[u].limit > 0 /\ overlaps[u] = 0 =>
    Cardinality(Of(u, {"online"})) <= Account[u].limit
=============================================================================
