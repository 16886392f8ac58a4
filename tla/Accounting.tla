----------------------------- MODULE Accounting -----------------------------
(***************************************************************************)
(* org.toughradius.server.AcctServer: what asyncExecute does with an       *)
(* accounting request once it has been acknowledged, over the RAD_ONLINE   *)
(* table (StatService), the users' credit in the cache and in the database *)
(* (CacheService, UserService) and the log of tickets.                     *)
(*                                                                         *)
(* Each request runs on a thread of its own, one database statement or one *)
(* access to a shared object at a time.  HSQLDB runs transactions at READ  *)
(* COMMITTED: a SELECT and the DELETE that follows it are two steps, a     *)
(* write and its commit are one.  A SELECT reads what is committed: module *)
(* MapperCache says when the cache in between gives an older answer.       *)
(***************************************************************************)
EXTENDS Billing, FiniteSetsExt

CONSTANTS
  Clients,        \* addresses of access servers
  SessionIds,     \* values of Acct-Session-Id
  UserNames,      \* names that occur in requests
  Users,          \* those the cache knows
  CreditUsers,    \* users with a USER_CREDIT attribute
  Policy,         \* GROUP_FEE_POLICY of each user's group
  Price,          \* GROUP_FEE_PRICE of each user's group, 0 when it has none
  InitialCredit,  \* credit of each of CreditUsers, in fen
  Requests,       \* the requests the access servers of an instance send
  Tasks,          \* the pool's threads, one for each request executed
  MaxCrashes,     \* bound: how often the process may crash
  DatabaseFails   \* bound: whether database statements may throw

Kinds == {"start", "interim", "stop", "on", "off"}
Request == [kind : Kinds, client : Clients, session : SessionIds,
            user : UserNames,
            timed : BOOLEAN,        \* there is an Acct-Session-Time...
            time : JavaInt]         \* ... whose four bytes are a signed int
Keys == Clients \X SessionIds         \* primary key of RAD_ONLINE

ASSUME UsersAssumption == CreditUsers \subseteq Users /\ Users \subseteq UserNames
ASSUME PolicyAssumption ==
  /\ Policy \in [Users -> {"none", "month", "timelen", "other"}]
  /\ Price \in [Users -> 0 .. MaxInt]
  /\ InitialCredit \in [CreditUsers -> 0 .. MaxInt]
ASSUME RequestsAssumption == Requests \subseteq Request
ASSUME FailuresAssumption == MaxCrashes \in Nat /\ DatabaseFails \in BOOLEAN

NoRow == [source |-> "none"]
NoRequest == [kind |-> "none"]
Row == [user : UserNames, source : {"start", "interim"}]
Ticket == [task : Tasks, key : Keys, user : UserNames, startSource : Kinds,
           stopSource : Kinds, fee : JavaInt, isDeduct : {0, 1}]

VARIABLES
  online,       \* RAD_ONLINE: primary key -> row
  creditDB,     \* USER_CREDIT in RAD_USER_META
  creditCache,  \* USER_CREDIT in the RadUserMeta objects the cache shares
  tickets,      \* the acct log
  pc,           \* next step of each task
  request,      \* the request of each task
  found,        \* the rows a task has selected and not yet ticketed
  amount,       \* the credit read, the value to write, the value to copy
  crashes,      \* history: number of crashes
  charged,      \* history: fees set against each credit
  refunded,     \* history: fees below zero that were added to it
  disturbed,    \* history: users whose charges overlapped, failed or crashed
  lastWord,     \* history: what the last request about a session said
  ends,         \* history: ends of a session that call for a ticket
  jumbled       \* history: sessions whose requests overlapped or failed

stores == <<online, creditDB, creditCache, tickets>>
locals == <<request, found, amount>>
history == <<crashes, charged, refunded, disturbed, lastWord, ends, jumbled>>
vars == <<stores, pc, locals, history>>

PCs == {"idle", "lookup", "insert", "select", "delete", "log", "bill", "set",
        "bind", "write", "read", "copy", "ticket", "done"}

TypeOK ==
  /\ online \in [Keys -> Row \cup {NoRow}]
  /\ creditDB \in [CreditUsers -> 0 .. MaxInt]
  /\ creditCache \in [CreditUsers -> 0 .. MaxInt]
  /\ tickets \subseteq Ticket
  /\ pc \in [Tasks -> PCs]
  /\ request \in [Tasks -> Requests \cup {NoRequest}]
  /\ found \in [Tasks -> [Keys -> Row \cup {NoRow}]]
  /\ amount \in [Tasks -> 0 .. MaxInt]
  /\ crashes \in Nat
  /\ charged \in [CreditUsers -> Nat]
  /\ refunded \in [CreditUsers -> Nat]
  /\ disturbed \in [CreditUsers -> BOOLEAN]
  /\ lastWord \in [Keys -> {"down", "up"}]
  /\ ends \in [Keys -> Nat]
  /\ jumbled \in [Keys -> BOOLEAN]
  /\ \A t \in Tasks : pc[t] # "idle" => request[t] \in Requests
  /\ \A t \in Tasks : pc[t] \in {"lookup", "insert"} => request[t].kind \in {"start", "interim"}
  /\ \A t \in Tasks :
       pc[t] \in {"set", "bind", "write", "read", "copy", "ticket"} => request[t].user \in CreditUsers

NoRows == [k \in Keys |-> NoRow]

Init ==
  /\ online = NoRows
  /\ creditDB = InitialCredit
  /\ creditCache = InitialCredit
  /\ tickets = {}
  /\ pc = [t \in Tasks |-> "idle"]
  /\ request = [t \in Tasks |-> NoRequest]
  /\ found = [t \in Tasks |-> NoRows]
  /\ amount = [t \in Tasks |-> 0]
  /\ crashes = 0
  /\ charged = [u \in CreditUsers |-> 0]
  /\ refunded = [u \in CreditUsers |-> 0]
  /\ disturbed = [u \in CreditUsers |-> FALSE]
  /\ lastWord = [k \in Keys |-> "down"]
  /\ ends = [k \in Keys |-> 0]
  /\ jumbled = [k \in Keys |-> FALSE]

Goto(t, label) == pc' = [pc EXCEPT ![t] = label]
Key(r) == <<r.client, r.session>>
Missing == -1     \* what Ticket.parseIntAttr makes of a missing attribute
Time(r) == IF r.timed THEN r.time ELSE Missing
Fee(r) == UsedFee(Time(r), Price[r.user])
Active(t) == pc[t] \notin {"idle", "done"}
Deducting(t) == pc[t] \in {"set", "bind", "write", "read", "copy"}
Charging(t) == Deducting(t) \/ pc[t] = "ticket"

(* The rows a request is about.  Accounting-On and -Off clear the whole     *)
(* table: setAcctOnOff does not use its parameter client.                   *)
Scope(r) == IF r.kind \in {"on", "off"} THEN Keys ELSE {Key(r)}

(* How a Stop of a user is billed: the cache is asked for the user, then    *)
(* for the fee policy of his group; by the minute needs a credit attribute. *)
HowBilled(u) ==
  IF u \notin Users THEN "ticketOnly"
  ELSE IF Policy[u] = "month" THEN "ticketOnly"
  ELSE IF Policy[u] = "timelen" /\ u \in CreditUsers THEN "deduct"
  ELSE "none"

-----------------------------------------------------------------------------
(* asyncExecute dispatches on Acct-Status-Type.                             *)

FirstStep(r) == IF r.kind \in {"start", "interim"} THEN "lookup" ELSE "select"

(* What the request says of a session, for the history.                     *)
SaysUp(r) == r.user \in Users /\ (r.kind = "start" \/ r.timed)
Note(r) ==
  LET busy == {k \in Scope(r) : \E t \in Tasks : Active(t) /\ k \in Scope(request[t])}
  IN
  /\ jumbled' = [k \in Keys |-> jumbled[k] \/ k \in busy]
  /\ lastWord' = [k \in Keys |->
       IF k \notin Scope(r) THEN lastWord[k]
       ELSE IF FirstStep(r) = "select" THEN "down"
       ELSE IF SaysUp(r) THEN "up" ELSE lastWord[k]]
  /\ ends' = [k \in Keys |->
       IF k \in Scope(r) /\ (\/ r.kind = "stop" /\ HowBilled(r.user) # "none"
                             \/ r.kind \in {"on", "off"} /\ lastWord[k] = "up")
       THEN ends[k] + 1 ELSE ends[k]]

Execute(t, r) ==
  /\ pc[t] = "idle"
  /\ request' = [request EXCEPT ![t] = r]
  /\ Goto(t, FirstStep(r))
  /\ Note(r)
  /\ UNCHANGED <<stores, found, amount, crashes, charged, refunded,
                 disturbed>>

-----------------------------------------------------------------------------
(* startAcct and updateAcct.                                                *)

(* StatService.getOnline.  A row that is there ends a Start, and an Interim *)
(* too: the address it sets is on a detached object and never saved.  An    *)
(* Interim with no row needs the session time to compute the start.         *)
Lookup(t) ==
  /\ pc[t] = "lookup"
  /\ Goto(t, IF online[Key(request[t])] = NoRow /\ SaysUp(request[t])
             THEN "insert" ELSE "done")
  /\ UNCHANGED <<stores, locals, history>>

(* Mutant: an INSERT that replaces the row instead of failing on its key.   *)
InsertOrReplace(t) ==
  /\ pc[t] = "insert"
  /\ online' = [online EXCEPT ![Key(request[t])] =
                  [user |-> request[t].user, source |-> request[t].kind]]
  /\ Goto(t, "done")
  /\ UNCHANGED <<creditDB, creditCache, tickets, locals, history>>

(* StatService.addOnline.  The primary key makes a second INSERT throw.     *)
Insert(t) ==
  LET k == Key(request[t])
  IN
  /\ pc[t] = "insert"
  /\ \/ /\ online[k] = NoRow
        /\ online' = [online EXCEPT ![k] =
             [user |-> request[t].user, source |-> request[t].kind]]
     \/ /\ online[k] # NoRow
        /\ UNCHANGED online
  /\ Goto(t, "done")
  /\ UNCHANGED <<creditDB, creditCache, tickets, locals, history>>

-----------------------------------------------------------------------------
(* stopAcct and setAcctOnOff: the SELECT and the DELETE of                  *)
(* StatService.getOnlineAndRemove and getOnlinesAndClear.                   *)

Select(t) ==
  /\ pc[t] = "select"
  /\ found' = [found EXCEPT ![t] =
       [k \in Keys |-> IF k \in Scope(request[t]) THEN online[k] ELSE NoRow]]
  /\ Goto(t, "delete")
  /\ UNCHANGED <<stores, request, amount, history>>

Delete(t) ==
  /\ pc[t] = "delete"
  /\ online' = [k \in Keys |-> IF k \in Scope(request[t]) THEN NoRow ELSE online[k]]
  /\ Goto(t, IF request[t].kind = "stop" THEN "bill" ELSE "log")
  /\ UNCHANGED <<creditDB, creditCache, tickets, locals, history>>

(* Mutant: only the first row gets a ticket.                                *)
LogFirst(t) ==
  /\ pc[t] = "log"
  /\ Goto(t, "done")
  /\ \/ \E k \in Keys :
          /\ found[t][k] # NoRow
          /\ tickets' = tickets \cup
               {[task |-> t, key |-> k, user |-> found[t][k].user,
                 startSource |-> found[t][k].source,
                 stopSource |-> request[t].kind, fee |-> 0, isDeduct |-> 0]}
          /\ found' = [found EXCEPT ![t] = NoRows]
     \/ /\ found[t] = NoRows
        /\ UNCHANGED <<tickets, found>>
  /\ UNCHANGED <<online, creditDB, creditCache, request, amount, history>>

(* setAcctOnOff writes a ticket for each row it selected, fee and deduction *)
(* left at 0, then returns.                                                 *)
Log(t) ==
  /\ pc[t] = "log"
  /\ \/ \E k \in Keys :
          /\ found[t][k] # NoRow
          /\ tickets' = tickets \cup
               {[task |-> t, key |-> k, user |-> found[t][k].user,
                 startSource |-> found[t][k].source,
                 stopSource |-> request[t].kind, fee |-> 0, isDeduct |-> 0]}
          /\ found' = [found EXCEPT ![t][k] = NoRow]
          /\ UNCHANGED pc
     \/ /\ found[t] = NoRows
        /\ Goto(t, "done")
        /\ UNCHANGED <<tickets, found>>
  /\ UNCHANGED <<online, creditDB, creditCache, request, amount, history>>

-----------------------------------------------------------------------------
(* The rest of stopAcct, and doPrePayTimeLen.                               *)

(* The ticket of a Stop.  With a row, stopAcct gives the row's source to    *)
(* stopSource and STOP to startSource.                                      *)
StopTicket(t, fee, isDeduct) ==
  LET r == request[t]
      row == found[t][Key(r)]
  IN [task |-> t, key |-> Key(r), user |-> r.user, startSource |-> "stop",
      stopSource |-> IF row = NoRow THEN "stop" ELSE row.source,
      fee |-> fee, isDeduct |-> isDeduct]

(* Looks the user, the fee policy and the credit up in the cache; by the    *)
(* minute, reads the value of the credit object the cache shares.           *)
Bill(t) ==
  LET u == request[t].user
  IN
  /\ pc[t] = "bill"
  /\ \/ /\ HowBilled(u) = "ticketOnly"
        /\ tickets' = tickets \cup {StopTicket(t, 0, 0)}
        /\ Goto(t, "done")
        /\ UNCHANGED <<amount, disturbed>>
     \/ /\ HowBilled(u) = "none"
        /\ Goto(t, "done")
        /\ UNCHANGED <<tickets, amount, disturbed>>
     \/ /\ HowBilled(u) = "deduct"
        /\ amount' = [amount EXCEPT ![t] = creditCache[u]]
        /\ disturbed' = [disturbed EXCEPT ![u] =
             @ \/ \E s \in Tasks : Deducting(s) /\ request[s].user = u]
        /\ Goto(t, "set")
        /\ UNCHANGED tickets
  /\ UNCHANGED <<online, creditDB, creditCache, request, found, crashes,
                 charged, refunded, lastWord, ends, jumbled>>

(* userCredit.setValue, on the object in the cache. *)
SetBalance(t) ==
  LET u == request[t].user
      fee == Fee(request[t])
  IN
  /\ pc[t] = "set"
  /\ creditCache' = [creditCache EXCEPT ![u] = Balance(amount[t], fee)]
  /\ charged' = [charged EXCEPT ![u] = IF fee > 0 THEN @ + fee ELSE @]
  /\ refunded' = [refunded EXCEPT ![u] = IF fee < 0 THEN @ - fee ELSE @]
  /\ Goto(t, "bind")
  /\ UNCHANGED <<online, creditDB, tickets, locals, crashes, disturbed,
                 lastWord, ends, jumbled>>

(* Mutant: the value read before the fee was taken off is written back.     *)
BindOld(t) ==
  /\ pc[t] = "bind"
  /\ Goto(t, "write")
  /\ UNCHANGED <<stores, locals, history>>

(* updateByPrimaryKey binds the value the shared object has by now... *)
Bind(t) ==
  /\ pc[t] = "bind"
  /\ amount' = [amount EXCEPT ![t] = creditCache[request[t].user]]
  /\ Goto(t, "write")
  /\ UNCHANGED <<stores, request, found, history>>

(* Mutant: an UPDATE that subtracts the fee itself. *)
WriteDeducting(t) ==
  /\ pc[t] = "write"
  /\ creditDB' = [creditDB EXCEPT ![request[t].user] =
                    Balance(amount[t], Fee(request[t]))]
  /\ Goto(t, "read")
  /\ UNCHANGED <<online, creditCache, tickets, locals, history>>

(* ... and the UPDATE commits. *)
WriteCredit(t) ==
  /\ pc[t] = "write"
  /\ creditDB' = [creditDB EXCEPT ![request[t].user] = amount[t]]
  /\ Goto(t, "read")
  /\ UNCHANGED <<online, creditCache, tickets, locals, history>>

(* CacheService.updateUserMeta finds the object in the list and copies its  *)
(* value to itself, under the lock of the list, which doPrePayTimeLen does  *)
(* not take: it reads the value... *)
ReadBack(t) ==
  LET u == request[t].user
  IN
  /\ pc[t] = "read"
  /\ \A s \in Tasks : pc[s] = "copy" => request[s].user # u
  /\ amount' = [amount EXCEPT ![t] = creditCache[u]]
  /\ Goto(t, "copy")
  /\ UNCHANGED <<stores, request, found, history>>

(* ... and sets it, over what another thread has set in between. *)
CopyBack(t) ==
  /\ pc[t] = "copy"
  /\ creditCache' = [creditCache EXCEPT ![request[t].user] = amount[t]]
  /\ Goto(t, "ticket")
  /\ UNCHANGED <<online, creditDB, tickets, locals, history>>

WriteTicket(t) ==
  /\ pc[t] = "ticket"
  /\ tickets' = tickets \cup {StopTicket(t, Fee(request[t]), 1)}
  /\ Goto(t, "done")
  /\ UNCHANGED <<online, creditDB, creditCache, locals, history>>

-----------------------------------------------------------------------------
(* Failures.                                                                *)

(* A task that goes no further leaves its sessions and its charge disturbed.*)
Abandoned(S) ==
  /\ jumbled' = [k \in Keys |->
       jumbled[k] \/ \E t \in S : Active(t) /\ k \in Scope(request[t])]
  /\ disturbed' = [u \in CreditUsers |->
       disturbed[u] \/ \E t \in S : Charging(t) /\ request[t].user = u]

(* A database statement throws: the thread ends, or doPrePayTimeLen catches *)
(* the exception and returns without a ticket.                              *)
Fail(t) ==
  /\ DatabaseFails
  /\ pc[t] \in {"lookup", "insert", "select", "delete", "write"}
  /\ Goto(t, "done")
  /\ Abandoned({t})
  /\ UNCHANGED <<stores, locals, crashes, charged, refunded, lastWord, ends>>

(* The process ends and starts again: CacheService.start loads the cache    *)
(* from the database; the table of sessions stays as it is.                 *)
Crash ==
  /\ crashes < MaxCrashes
  /\ crashes' = crashes + 1
  /\ pc' = [t \in Tasks |-> IF pc[t] = "idle" THEN "idle" ELSE "done"]
  /\ creditCache' = creditDB
  /\ Abandoned(Tasks)
  /\ UNCHANGED <<online, creditDB, tickets, locals, charged, refunded, lastWord,
                 ends>>

Next ==
  \/ \E t \in Tasks, r \in Requests : Execute(t, r)
  \/ \E t \in Tasks : Lookup(t)
  \/ \E t \in Tasks : Insert(t)
  \/ \E t \in Tasks : Select(t)
  \/ \E t \in Tasks : Delete(t)
  \/ \E t \in Tasks : Log(t)
  \/ \E t \in Tasks : Bill(t)
  \/ \E t \in Tasks : SetBalance(t)
  \/ \E t \in Tasks : Bind(t)
  \/ \E t \in Tasks : WriteCredit(t)
  \/ \E t \in Tasks : ReadBack(t)
  \/ \E t \in Tasks : CopyBack(t)
  \/ \E t \in Tasks : WriteTicket(t)
  \/ \E t \in Tasks : Fail(t)
  \/ Crash

Spec == Init /\ [][Next]_vars

-----------------------------------------------------------------------------
(* While a session's row is in RAD_ONLINE nothing alters it: two threads    *)
(* that both looked before they inserted do not overwrite each other, and   *)
(* an Interim does not (startAcct, updateAcct, the table's primary key).    *)
RowsStable ==
  [][\A k \in Keys : online[k] # NoRow => online'[k] \in {online[k], NoRow}]_vars

(* Nobody is charged more than the fees of the Stops processed for him, and *)
(* nobody gains but by fees below zero, which a session time of 2^31 or an  *)
(* overflow makes, in the cache or in the database: not when threads        *)
(* interleave in doPrePayTimeLen and updateUserMeta, not when a write       *)
(* fails, and not when the process crashes between setting the cache and    *)
(* the database.  A credit that may pass MaxInt by such fees is left aside. *)
CreditWithinBounds ==
  \A u \in CreditUsers : InitialCredit[u] + refunded[u] <= MaxInt =>
    \A credit \in {creditDB[u], creditCache[u]} :
      /\ InitialCredit[u] - charged[u] <= credit
      /\ credit <= InitialCredit[u] + refunded[u]

(* Fees of the tickets that say the fee was deducted from this user.        *)
Billed(u) == MapThenSumSet(LAMBDA x : x.fee, {x \in tickets : x.user = u /\ x.isDeduct = 1})

(* The initial credit less these fees, down to zero. *)
Left(u) == IF InitialCredit[u] < Billed(u) THEN 0 ELSE InitialCredit[u] - Billed(u)

(* Where a user's charges never overlapped, none failed and none was below  *)
(* zero, the credit is the initial one less the fees on his tickets, down   *)
(* to zero, and cache and database agree (stopAcct, doPrePayTimeLen,        *)
(* updateUserMeta).                                                         *)
ChargesExact ==
  \A u \in CreditUsers :
    ~disturbed[u] /\ refunded[u] = 0 /\ (\A t \in Tasks : Charging(t) => request[t].user # u)
    => /\ creditDB[u] = Left(u)
       /\ creditCache[u] = creditDB[u]

Quiet(k) == \A t \in Tasks : Active(t) => k \notin Scope(request[t])

(* Where the requests about a session were each finished before the next    *)
(* began, the session is listed exactly when the last request said it is    *)
(* up, and each of its ends has left one ticket: a Stop, with or without a  *)
(* row, and an On or Off of any client while it was up.                     *)
SessionsExact ==
  \A k \in Keys :
    ~jumbled[k] /\ Quiet(k)
    => /\ online[k] # NoRow <=> lastWord[k] = "up"
       /\ Cardinality({x \in tickets : x.key = k}) = ends[k]

(* Every ticket marked as deducted (Ticket.isDeduct: "1 = deducted") has    *)
(* been taken off the credit, unless the credit is used up.                 *)
DeductedMeansDeducted ==
  (\A t \in Tasks : ~Active(t)) =>
    \A u \in CreditUsers : refunded[u] = 0 => creditDB[u] <= Left(u)
=============================================================================
