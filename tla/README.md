# ToughRadius in TLA+

ToughRadius V1.0 is a RADIUS server for internet access providers: an
authentication server on UDP port 1812, an accounting server on 1813, a web
console, and an embedded HSQLDB, all in one Java process. The servers are
subclasses of a vendored and modified TinyRadius library. This directory holds
TLA+ modules translated from the Java source, the TLC runs that check them, and
TLAPS proofs of the properties that do not depend on a small instance.

Paths below are relative to the root of the repository
(`src/radius/java/...` is the library, `src/main/java/...` the application).

## The system

| Part | State | Operations | Talks to |
|---|---|---|---|
| `RadiusServer` (library): listener, filter, answers | socket, the `DatagramPacket` the listener reuses, `receivedPackets`, tasks of a cached thread pool | `listen`, `handlePacket`, `isPacketDuplicate`, answer, `asyncExecute` | the client over UDP, its subclass, the client table (`getSharedSecret`) |
| `RadiusServer`: start and stop | `closing`, `authSocket`, `acctSocket`, two listener threads | `start`, `stop`, `getAuthSocket`, `getAcctSocket` | `Project.start`, `TestServer`, `RadiusProxy.stop` |
| `AcctServer` | none of its own | Start, Interim, Stop, Accounting-On, Accounting-Off | session table, cache, user service, ticket log |
| `AuthServer` | none of its own | `accessRequestReceived`: password, status, group, concurrency limit, MAC binding, period, session time | cache, session table, user service |
| `CacheService` | four concurrent maps: users, user attributes, groups, group attributes | load, `update*`, `remove*` (`reload` has no caller) | database at start, `UserService`, both servers |
| `DBService`: sessions | a pool of connections; for each mapper a cache of results that all sessions share | open, SELECT, change, commit, close | every service, HSQLDB |
| `UserService` | none; RAD_USER, RAD_USER_META, RAD_GROUP, RAD_GROUP_META | insert, update, delete | database, then the cache |
| `StatService` | RAD_ONLINE | `addOnline`, `getOnline`, `getOnlineAndRemove`, `getOnlinesAndClear`, `countOnline` | database |
| `RadiusClient` | one socket | `communicate`: send, wait, retry | a RADIUS server |
| `RadiusProxy` | map from Proxy-State to connection, one socket | forward a request, return an answer | client and server |
| packet and attribute codec, dictionary | an identifier counter; a static table | encode, decode, authenticate | - |
| console (`*Action`, `WebServer`) | HTTP sessions | edit users, groups, clients | `UserService`, `BaseService` |
| `Project`, `MonitorServer`, `Shutdown`, `SetupDB` | - | start, stop, create the tables | everything |

How they interact. The listener thread of a port receives a datagram, looks
the client up in the database, decodes the packet and gives the rest to a
thread of an unbounded pool. That thread asks the duplicate filter (the only
lock of the path), calls the subclass for the answer, sends it, and only then
calls `asyncExecute`, where `AcctServer` does all its work. So every request
runs concurrently with every other, an acknowledged request may still fail, and
the shared objects (credit attributes in the cache, rows of RAD_ONLINE, the
listener's packet buffer) are used without locks. HSQLDB runs at READ
COMMITTED: a SELECT and a later DELETE in one service method are two steps; and
between a SELECT and the database is the cache of its mapper. The console is a
second writer of users and cache. `MonitorServer`, which would
receive the stop command of `Shutdown`, is started by nothing in the
repository; the process ends by being killed, so a crash is the normal end.

What is hard, and what makes each part correct:

- **Duplicate filter.** Retransmissions and reused one-byte identifiers, checked
  by many threads whose clock values were read outside the lock. Correct: a
  fresh request is never dropped, a retransmission is handled once, the list
  stays consistent and does not grow.
- **Answers.** Sent from a pool thread while the listener goes on. Correct: an
  answer goes where its request came from.
- **Start and stop.** Fields shared without locks by the caller and two
  listeners. Correct: no open socket becomes unreachable, no thread spins, stop
  ends listening.
- **Accounting.** Requests of one session overtake one another;
  read-modify-write of the credit; statements fail after the acknowledgement;
  crashes. Correct: one row per live session, one ticket per end, credit never
  outside what was charged.
- **Authentication.** The limit on sessions is compared with a table that grows
  later; first-login MAC binding; arithmetic on credit. Correct: the limit, one
  address per user, no session longer than its credit pays for.
- **Users and cache.** Database first, cache second, in several steps each, and
  several writers: a thread gets a list from a map and changes it when another
  list may be there. Correct: the cache shows what is stored, but for a write on
  its way and for fields in which two writers met.
- **Mapper cache.** A result is published when the session that read it is
  closed, a commit clears the cache after it has happened. Correct: a query sees
  every commit that has returned; the locks of cache and table do not block each
  other.
- **Client.** Timeouts racing late answers on one socket; retransmissions met by
  the filter. Correct: a call that returns was served, a request is executed
  once, the call ends.
- **Proxy.** A map that is locked by those who insert and not by those who
  remove; a socket created by whoever needs it first. Correct: an answer goes to
  the client who asked, and only the first one.

`PROJECT.json` lists every hazard at its line with the properties that guard
it, or why none does.

## Modules

| Module | Models | State and actions |
|---|---|---|
| `RadiusServer` | one port of `RadiusServer`: `listen`, `handlePacket`, `isPacketDuplicate`, the answer | below |
| `ServerLifecycle` | `start`, `stop`, and the listener threads of both ports | below |
| `Accounting` | `AcctServer.asyncExecute` with the services it calls | below |
| `Billing` | Java's `int`s and the arithmetic of `doPrePayTimeLen` | operators only |
| `Authentication` | `AuthServer.accessRequestReceived` with the services it calls, and the sessions its answers lead to | below |
| `SessionTime` | the arithmetic of `checkPeriod`, `calcTimelen` and the end of an account; extends `Billing` | operators only |
| `Directory` | what `CacheService` promises its readers, as an abstract specification | `Write`, `Follow`, `Restart` |
| `UserCache` | `UserService` over `CacheService`, with the console's handlers as callers; implements `Directory` | below |
| `MapperCache` | the sessions of `StatService` and the result cache of a mapper below them | below |
| `RadiusClient` | `RadiusClient.communicate` and `close`, the network, and a server's filter | below |
| `RadiusProxy` | `RadiusProxy`: forwarding, connections, the proxy's socket and listener | below |
| `MCRadiusServer`, `MCServerLifecycle`, `MCAccounting`, `MCAuthentication`, `MCUserCache` | - | definitions of the instances TLC checks |
| `RadiusServerProofs`, `ServerLifecycleProofs`, `AccountingProofs`, `AuthenticationProofs`, `MapperCacheProofs`, `RadiusClientProofs`, `RadiusProxyProofs`, `UserCacheProofs` | - | theorems and proofs |

**RadiusServer.** `Receive(d)` is one round of `listen` for datagram `d`; it
writes the port into `packetInPort`, as `receive()` overwrites `packetIn`, and
hands the request to an idle task. Any datagram may arrive at any time and
again, which gives loss, duplication, delay and retransmission. A task then runs
`ReadClock` (the clock, before the lock), `CheckDuplicate` (the synchronized
block), `Handle` (the rest of `handlePacket`), `Respond` and `AsyncExecute`.
`ListenerFails` is an uncaught exception in the listener, `Stop` closes the
socket, `Tick` is time. `receivedPackets` is a set: the only effect of the order
of the list is which expired entries a scan that finds a match has removed on
its way, and any of them may be (`Sweep`).

**ServerLifecycle.** `Start(P)` creates the threads of the ports P, `Stop` sets
the flag, `StopCloses` is one close of `stop()`. Each listener does `GetSocket`,
`Create`, `Assign`, `Configure` (the steps of `getAuthSocket` and
`getAcctSocket`, one per access to a shared field or the kernel), then listens
until `Receive` (a closed socket with the flag set) or `Break` (an exception
`listen` does not catch), and `Finally` closes whatever is in the field by then.
`busy` are ports another process holds.

**Accounting.** `Execute(t, r)` starts request r on task t. Start and Interim do
`Lookup` and `Insert`; Stop does `Select`, `Delete`, `Bill` and, for a user who
pays by the minute from a credit, `SetBalance`, `Bind`, `WriteCredit`,
`ReadBack`, `CopyBack`, `WriteTicket`; On and Off do `Select`, `Delete` and
`Log`, once for each row. Each is one statement or one access to a shared
object. `Bind` is where MyBatis reads the value from the object the cache
shares, which another thread may have set by then. After the commit
`CacheService.updateUserMeta` finds that same object and sets its value to its
value: `ReadBack` and `CopyBack`, between which another thread's `SetBalance`
may come and be undone (the lock of the list keeps out other copies only).
`Acct-Session-Time` is four bytes read as a signed int, so a request's `time` is
any int and fees may be below zero. `Fail` is a statement that throws, `Crash` a
restart that reloads the cache. Whether a request about a session overlapped
another, failed or was cut off is history (`jumbled`, `disturbed`); so are
`lastWord`, `ends`, and the fees above and below zero (`charged`, `refunded`).
Requests are any of `Requests` at any time: the module does not assume the
filter in front of it, which only drops identical packets for 30 s.

**Authentication.** A task is a request and then its session. `AccessRequest`
is everything up to the limit; `CountOnline` the SELECT on RAD_ONLINE;
`CheckMac` the lookup of the bound address in the cache; `InsertMac` and
`CacheMac` the two halves of `UserService.addUserMeta`; `Decide` the rest:
expiry, period, credit, answer. The clock is read where the code reads it:
whether the account ends today, what is left of the day, and three times in
`checkPeriod`, each reading no earlier than the last and midnight possibly in
between (`Read`); `basis` keeps the readings a grant was made on and whether the
product of the credit was no int. A login then is listed by a Start or an
Interim (`ListSession`), or its answer or Start is lost (`LoseSession`); an
Accounting-On or -Off takes it off the list (`ClearSessions`), and `EndSession`
is its Stop and charge. `Fail` and `Crash` are as in `Accounting`. What
`Accounting` models step by step is one step here, a session ends with one
Stop, and the rows that late Interims leave of ended sessions are a number that
`CountOnline` may add. Attributes of users and groups are the constant
`Account`, as nothing here writes them but address and credit. In Java `MaxInt`
is 2^31 - 1; it is a constant because TLC computes with 32 bits itself: the
instance has ints of 16 bits, so that a product overflows in both. What
`checkPeriod` returns is compared with 0 and dropped, as in the code.

**Directory and UserCache.** A task is one request of the console, or the login
that binds an address. `Start` is what the handler looks up before it calls
`UserService`; the transaction is `InsertRow`, `UpdateRow`, `DeleteRows` or one
of the three for an attribute; then every access to one of the four maps, or to
a record or list found there, is a step (`FindRecord` to `ChangeMeta`). Users
and groups have methods of one shape, so they are owners of fields (their record
and their attributes), and differ where the code does: only a user's record is
updated in place, and only deleting a group deletes its own attributes. Of the
identity of a list or record only this matters: whether the object a thread
holds is the one in the map (`holds`, cleared by `Drop`). `Fail` and
`FailSelect` are statements that throw, `Crash` a restart with `start()`, which
loads the maps. `tangled` is history: the fields in which two operations met,
those whose list was not loaded, those a delete took for another's. `Directory`
has two variables, what is stored and what is seen, and three actions;
`UserCache` maps its tables and its maps to them (`StoredView`, `CachedView`)
and tangled fields to `Unknown`. The refinement is model-checked and proved.

**MapperCache.** A table is a version number and a result the version its SELECT
read, so that "older" means something. `Read` is a query that finds a shared
result or none, `Select` the SELECT, `Publish` the close of the session, which
is when the result is shared; `Add` and `Remove` begin sessions that change the
table (`Update`), `Commit` is the database's commit, `Clear` the clearing of the
cache that follows it, or precedes the rollback of a session that failed.
`Wait` is a session at the write lock of the cache, which keeps new queries out.
The library is external; its behaviour is that of the version the repository
bundles, and what the code decides is which sessions it opens and when it
commits and closes them.

**RadiusClient.** `Call`, then `Send` and `Receive`, `ReceiveFails` or
`SendFails` until the attempts are used up: the whole of `communicate`; `Close`
at any time, as `close()` is not synchronized. A packet is the number of the
call that sent it first: a call may be given a request sent before, or one with
the same bytes, and then its packet is the same; that is all `decodePacket` can
tell apart, since it compares the identifier and an authenticator computed from
the request's (`Accepts`). New packets take the counter's identifier
(`NextId`) or one in use. Copies on their way are counted, delivered in any
order, or never (`Deliver`, `Arrive`): loss, delay, reordering. `RepeatRequest`
and `RepeatAnswer` are a network that duplicates, `Misroute` an answer of
another client that the server sends to this one's port (finding 1). The
server's filter has tasks that read the clock (`Arrive`) and take the lock later
(`CheckDuplicate`), as in `RadiusServer`; handling is part of the second, as a
late answer is a delay of it.

**RadiusProxy.** A task forwards a request (`Enter` the lock, `Number`, `Put`,
`Saved`, then the socket, then `Send`) or passes on an answer (`Remove`,
`Removed`, `Answer`). put() and remove() of the map have a begin and an end, so
that overlaps can be seen; after a remove() that overlapped anything the map
holds any of the numbers given out. `GetSocket` is `getProxySocket` in four
steps (`Check`, `Bind`, `Assign`, `Configure`), by tasks and by the listener:
the field is read again to set the timeout, and another thread's socket, or one
closed in between, may be in it. `Stop` closes the proxy's socket, `SuperStop`
calls the server's `stop()`. The other two ports of a proxy are
`ServerLifecycle`'s.

## Runs

| Run | Question | Bounds | Result |
|---|---|---|---|
| `duplicates` | Is the filter consistent with threads racing around its lock, and does its list stay bounded? | 3 tasks, 2 ports of one host, 1 identifier, 2 authenticators; interval 2, lag 1, clock to 4 | holds |
| `reply_port` | Does an answer go to its sender? | 2 tasks, otherwise the same | violated |
| `lifecycle` | Do sockets stay reachable, do listeners not spin, does stop end those that listen? | 2 starts and stops, both ports, ports that may be busy | holds |
| `stop_before_bind` | Does every listener return when stop is called? | 1 start | violated |
| `accounting` | Are rows, tickets and credit right, and how wrong can interleavings, failures and a crash make them? | 3 requests of 12, over 2 sessions and 4 kinds of user, one with a negative time; ints of 16 bits; failing statements; 1 crash | holds |
| `lost_deduction` | Is every fee marked as deducted deducted? | 2 requests, no failures, no crash | violated |
| `authentication` | Who is let in, for how long, how far can a limit be passed, what does a credit leave unpaid? | 3 logins of 10, 7 kinds of user, 2 addresses, 3 times over a midnight, sessions of a minute or of their whole time; failing statements; 1 crash | holds |
| `session_limit` | Does a user have more sessions than his limit, if all are listed when he logs in? | 2 logins, no failures, no crash | violated |
| `user_cache` | Does the cache show what is stored, whose change can be lost, does it implement `Directory` and catch up with it? | 3 operations, 2 at a time; 2 users, one with an attribute's name, 1 group, 2 attributes; failing statements, any number of restarts | holds |
| `mapper_cache` | When is a query answered with less than was committed, and do the locks block each other? | 3 sessions at a time, 2 of all write; 2 queries; failing statements, restarts | holds |
| `client` | Was a call that returns served, how often is a packet executed, why does a call fail, does it end? | 2 calls of 2 attempts, 2 identifiers, 2 tasks of the server; timeout, interval and lag 1; 1 repetition or misrouting; clock to 3 | holds |
| `proxy` | Whom does an answer reach, which are dropped, does stop end the listener? | 2 requests of 2 clients, 3 answers, 2 tasks and the listener | holds |

Why the bounds are enough. The filter compares packets pairwise, and an entry,
the packet it is held against and a third thread that evicts it make three
tasks; with interval 2 and lag 1 the clock reaches 4, where an entry expires for
one thread and not for another that read the clock earlier, and a second
recording follows the first. One identifier suffices, as entries of different
identifiers or addresses only share the sweep. Two starts are what it takes for
a listener of the first to meet a socket, a flag or a field of the second; two
ports because `stop()` closes them one after the other. Two concurrent Stops
race for a credit, a third request is between; a Start, an On and a Stop
exercise the window between SELECT and DELETE; one crash separates cache and
database; a Stop of -3659 seconds gives the credit 120 fen. Three logins of a
user limited to one session are one within the limit, the one the comparison
lets through, and one that only an overlap allows; two of them race for the
address while the third comes after. The three times are the last minute of a
period, the last second but one of a day, and the next midnight; they lie inside
and outside a period of the morning and one that passes midnight, and the last
two are what the two readings of an account's last day may give. One user's
credit overflows the product. Two operations are what it takes for one to lose
its object to another, and the third finds what they left: a user in the cache
without a row, a list without a user. TLC starts from a user with an attribute,
one without and a group with or without a row. Two sessions of the mapper's
cache can be on both sides of a third one's commit; a second write follows one
whose cache is not cleared yet, and a second query has a result that the first
one's session does not publish. The second call sends the first's packet, or
another one with its identifier or the next; two attempts, and a repeated copy,
leave copies of requests and answers behind; two tasks hold the copies of one
packet against each other with a lag; the clock's three ticks are a call that
times out and one in which the entry of the first expires. Two requests race for
the proxy's lock, number and socket, and three answers are two copies of one and
the first of the other. A race of three removals would add nothing: after the
first overlap the map is arbitrary. `Tasks`, `Sessions`, `MaxTime`, `MaxStarts`,
`MaxCrashes`, `MaxOps`, `MaxWrites`, `MaxCalls`, `MaxFaults`, `MaxRequests` and
`MaxArrivals` are bounds of the models only; `MaxLag` is an assumption on
scheduling discussed below. The theorems hold for every value of all of them.

What the passing runs say. The filter keeps at most one entry for an address and
identifier, so its verdict does not depend on the order of its list; two
recordings are more than `interval - lag` apart, and a packet is dropped, or let
through unrecorded, only because of one recorded no more than `interval + lag`
before. The list never has more entries than packets were recorded in the last
interval and lag, though a scan that finds a match does not sweep and clocks are
late (`ListBounded`). `MaxLag` bounds how long a thread may be suspended between
reading the clock and taking the lock. The JVM promises no such bound: the
properties say exactly what a suspension costs, and for a lag of the whole
interval or more they allow two recordings at any distance. No start or stop
loses a socket, and a listener finds a socket closed under it only when the flag
tells it to end. For accounting there are two kinds of property: exact ones for
sessions and users whose requests did not overlap or fail (`SessionsExact`,
`ChargesExact`), and bounds for all others (`CreditWithinBounds`, `RowsStable`).
A credit grows by fees below zero and by nothing else. For authentication:
logins under way and sessions, listed or not, exceed the limit by the one the
comparison lets through and by one for each count made while one of them was not
listed (`LimitKept`); a user bound to an address is let in from no other though
first logins race, which the primary key of RAD_USER_META sees to (`MacHeld`),
and the cache lags behind the table only while the inserting thread is between
the two (`MacAgrees`); grants and fees, written in different classes with
different rounding, fit together to the part of one minute, also where the
product of the credit overflows, as the time is then too short or negative
(`UnpaidBounded`, which leaves out users granted a negative time); nobody is let
in outside his hours, or, but for the two exceptions `EndsBeforeExpiry` names,
for longer than his account lasts.

The cache of users shows every field as it is stored but for operations under
way and tangled fields (`Coherent`), and an operation's work is lost only where
it met another one on the same field (`LostForCause`). What is not promised
matters as much. Two consoles that change the same field, one that adds a
first attribute to a user while another does, a group updated after it was
deleted: the field stays wrong in the cache until the process is started again,
as `reload` has no caller. `ImplementsDirectory` says it for readers: between
restarts a field is seen as stored, or as it was before the one write that is
on its way, or it is tangled; `CatchesUp`, that the write arrives.

The mapper's cache is one more reason to read something old. `SharedIsStored`
and `ReadsCompleted` except results of sessions that a commit overlapped:
those are published after the commit has cleared the cache, and every later
query gets them until the next commit. `countOnline` may so miss a session that
is listed, and `getOnline` one that must be found. The modules above this one
(`Accounting`, `Authentication`, `UserCache`) take a SELECT to read what is
committed; what they show is to be read with that exception. No session waits
for ever (`SessionsEnd`): a query lets go of the cache's lock when its SELECT
has ended, and a commit has let go of the table before it asks for that lock.

No more calls with a packet return than the server let it through
(`AnsweredMeansExecuted`), though identifiers wrap and answers to earlier calls
wait in the buffer; the exceptions are an answer that the network repeated or
the server misrouted, which a later call with the same bytes accepts without
having been served. But the socket is never drained: after one answer too many
each later call reads the answer to the one before it, and ends at once with a
`RadiusException`, which is not retried. `MismatchForCause` says where such an
answer comes from: repeated, misrouted, or made for an earlier call that did not
return it, because it timed out, had itself read another, or was executed twice.
`ExecutedOnce` holds by the server's filter, less the lag of its threads; its
price is that a request whose answer was lost is not answered again within the
interval, and the client gives up before that. `CallEnds` holds whatever the
network does, and also when the socket is closed during `receive()`.

An answer forwarded by the proxy goes to the client who asked, even after
removals that raced (`AnswersToAsker`): the lock protects the number. Only the
first one is passed on as long as no removal raced (`FirstAnswerOnly`).
Three things the module shows and no property states. A retransmission is
forwarded again with a new number and a new authenticator, as the proxy's
requests do not pass the filter, and the next server's filter does not know it:
every copy is executed. Connections whose answer never comes are never removed.
And when a task creates the socket before the listener does, the listener's
thread ends with the exception and no answer is ever heard.

What the violated runs say. Each refutes a sentence of the repository; the
counterexamples are in `PROJECT.json` under "findings":

1. `makeDatagramPacket` takes the port from the listener's shared `packetIn`, so
   an answer can go to the port of a later packet.
2. A `stop()` that comes before a listener has bound its port does not end it.
3. Two concurrent Stops of a user lose one deduction; both tickets say deducted.
4. The limit is compared with `>` before the new session is listed, so a user
   limited to one session has two.

More disagreements were met and have no run, because the property would only
restate a statement: `setAcctOnOff` documents a parameter `client` and does not
use it, so it ends the sessions of every access server (`Scope` models this);
`stopAcct` gives the source of the start to `stopSource` and STOP to
`startSource` when it found a row (`StopTicket`); `accessRequestReceived`
computes the time left in a user's period and does not use it (`Decide`); the
product of `calcTimelen` overflows for a credit above 596523 fen, so that a rich
user may be granted a negative time, which an access server reads as a very long
one; the clock is read twice on an account's last day (`AuthServer.java:215` and
`217`), and if midnight comes in between, -1 second is left and sent as 2^32 -
1, where the comment says that the account ends that night
(`AuthServer.java:214`; these two are the exceptions of `EndsBeforeExpiry`); an
`Acct-Session-Time` of 2^31 or more is read as a negative int
(`IntegerAttribute.java:39`), and the Stop raises the credit (`refunded`);
`updateUserMeta` of the cache copies a credit to itself, over a charge that
comes in between (`CopyBack`); `setExtAttribute` looks up a user's attributes by
the name of his group (`AuthServer.java:348`); `deleteUser` compares the user's
name with the names of attributes (`Deleted`); `CacheService.updateGroup` sets a
description to itself (`SyncRecord`); a packet let through because its
identifier was reused is not recorded, so that its retransmission inside the
interval is handled again (`Judge`; `getDuplicateInterval` documents that it is
discarded, `RadiusServer.java:261`); `listen` "blocks until stop() is called"
(`RadiusServer.java:350`) unless a `RuntimeException` ends it (`Break`);
`CacheService.updateUser` opens a session while its caller has one open, so that
enough callers at a time use up the pool.

Fairness. It is always of threads that can run, never of callers, of the
network or of failures. `ServerLifecycle`: weak fairness of each listener's
`Step` and of `StopCloses`; they are the next statements of running threads and
the JVM runs every thread that can run; no step waits for a lock.
`StopEndsListening` promises the end only of threads already in `listen()`; run
`stop_before_bind` shows why not of all. `UserCache`: of each task's `Step`,
which never waits: a list's lock is held for one step. `MapperCache`: of each
session's `Step`; a read/write lock lets a waiting writer in when the readers
are done, which `Wait` models, so that weak fairness is enough. `RadiusClient`:
of `Communicate` and `Tick`, because `receive()` has a timeout; nothing of the
network and the server. `RadiusProxy`: of the listener's `GetSocket`, of
`ReceiveFails` (what `receive()` does on a closed socket) and of `SuperStop`,
the statement after `Stop`. The other specifications assume no fairness.
Deadlock is not checked in any run: tasks, calls, clock and starts are bounded,
and a server may stop.

## Proofs

All theorems are for arbitrary constants satisfying the named assumptions of the
modules (`DatagramsAssumption`, `IntervalAssumption`, `BoundsAssumption`,
`TasksAssumption`; `MaxStartsAssumption`; for `RadiusClient` also
`IdRangeAssumption`, `RetryAssumption` and `ServerAssumption`;
`UsersAssumption`, `PolicyAssumption`, `RequestsAssumption`,
`FailuresAssumption`, `MaxIntAssumption`; for `Authentication` also
`AccountAssumption`, `MacsAssumption`, `TimesAssumption`; `MaxWritesAssumption`;
`ThreadsAssumption`; for `UserCache` `NamesAssumption`, `AbsentAssumption`,
`UnknownAssumption`, `InputsAssumption`, `MaxOpsAssumption`), which only say
which sets and numbers the constants range over, and that absence, a record and
the unknown are nothing a row can hold. The sets need not be finite, with four
exceptions: any number of clients, tasks, threads, users, sessions and requests.
`LimitKept` and `ListBounded` count tasks, and `AnsweredMeansExecuted` what
tasks let through, so the tasks of `Authentication`, of `RadiusServer` and of
`RadiusClient`'s server are finite; so are the proxy's, as the requests that are
on their way are counted.

- **RadiusServerProofs.** `TypeCorrect`, then `FilterCorrect`, the inductive
  invariant `FilterInv`. None of the safety properties is inductive: to know
  that a recording comes long after the last one, one must know that the entry
  of the last one is still there, or was evicted by a thread whose clock had
  passed its time. So `FilterInv` says that every entry has the task that
  recorded it with a time within the lag of `checkedAt` (`EntryOf`), that an
  entry recorded less than `MinGap` ago is in the list (`RecordedKept`), that a
  clock value not yet used lags at most `MaxLag` (`ClockLag`), and that recorded
  tasks are past the check. Only `CheckDuplicate` disturbs it; the other steps
  are handled at once (`QuietSteps`). `OneEntryPerRequest`,
  `RecordingsAreApart`, `DropsHaveACause` and `PassesHaveACause` follow.
  `ListIsBounded` needs two facts more: no entry is older than the interval and
  the lag before the newest recording (`Swept`), as each recording sweeps by a
  clock at most the lag old; and entries have different recorders, so that there
  are no more of them than tasks that recorded since then.
- **ServerLifecycleProofs.** `Invariant`: a port has at most one open socket,
  which is in its field or about to be assigned; while the flag is not set every
  listener listens on its own socket (`UnstoppedInv`), which is why a finally
  block cannot close a socket under another listener that would then spin; and
  the caller starts again only after its stop. `SocketsAreReachable` and
  `ListenersDoNotSpin` follow.
- **AccountingProofs.** `TypeCorrect` needs lemmas on the fee: for any int of
  seconds and any price it is an int, whatever overflows (`FeeType`), and a
  balance is between zero and the largest int (`BalanceType`). `CreditInv` adds
  to `CreditWithinBounds` the same bounds for the value each task has read,
  bound or is about to copy and not yet written, which is what makes lost
  updates, late writes, copies and reloads harmless to the bounds; within them a
  balance does not overflow. `RowsAreStable` is the action property.
  `ChargesAreExact` says of the sum of the fees on a user's tickets what
  `CreditWithinBounds` says of a bound. `ChargesExact` looks only when nobody is
  charging him, so `ChargeInv` counts the fees a task has taken off and not yet
  ticketed as if they were (`Owing`), and says that one task at a time charges
  an undisturbed user, that what it read, bound or is to copy is what the cache
  holds, and that the database lags only behind that task (`Settled`). The sum
  itself is a recursion over a finite set in the community modules. Its two laws
  (no tickets, no fees; one more ticket adds its fee, `FeesAdded`) are proved by
  well-founded induction: among the subsets that refute a law there is a minimal
  one (`SmallestSubset`, from the library's `WFMin`), and the recursion refutes
  it. `SessionsAreExact` from `SessionInv`: of a session nothing has disturbed,
  one task at a time is about it (`Exact`), and `Progress` says at each step of
  that task what the table, the last word and the number of tickets are, down to
  the ticket it is still to leave (`Leaves`). `TaskInv` supplies that a ticket
  is the last a task does about a session, so that no ticket is written twice,
  and that On and Off hold rows of their scope only. Steps of other tasks leave
  the session alone (`SessionOfOthers`); overlaps, failures and crashes take it
  out of what is claimed.
- **AuthenticationProofs.** `TypeCorrect`. `AddressesHeld` and `AddressesAgree`
  from `MacInv`: whoever is past the check has the address that is in the table,
  and only the inserter separates table and cache. `LimitIsKept`: `LimitKept` is
  inductive; only `CountOnline` adds to the set, and either everybody in it is
  listed and the comparison bounds it, or the step counts an overlap.
  `UnpaidIsBounded` from `PaidInv`: `UnpaidBounded` does not say why nothing is
  added to what is owed; one must know that a user who owes has no credit and no
  session, hence gets no grant (`TimeLeft` is 0), and that the only session of
  one who does not can end at any time at a fee his credit covers but for the
  part of a minute. `GrantCovered` gives the second for a new grant: with or
  without an overflow, the product is never more than the exact one once it is
  not negative (`WrapBound`), so a time above zero is no longer than the credit
  pays for (`TimeOfCredit`). The arithmetic: 3600 times a fee is at most the
  price times the seconds and 59 more, because both divisions of
  `doPrePayTimeLen` round down (`FeeBound`), so time bought with an amount costs
  at most the amount and the price of 59 seconds (`AmountPaysForTime`).
  `HoursAreKept` and `ExpiryIsKept` speak of sessions; what is granted to one is
  decided once, in the step that also reads the clock (`Decision`,
  `SessionsAreGranted`, `AcceptedFor`), and kept. The two comparisons of
  `checkPeriod`, one for hours over midnight and one for the others, come to one
  comparison modulo a day (`Around`, `MinuteOfDay`); the end of the account
  bounds the base time, from the reading that `basis` keeps, and the time of the
  credit is no longer than that and not negative when its product is an int
  (`NextBeforeExpiry`).
- **MapperCacheProofs.** `TypeCorrect`, then `CacheCorrect`: `SharedIsStored`
  speaks of shared results and is not inductive, because a result is staged by a
  session long before it is shared. The invariant adds that what a session no
  commit has overlapped has staged is what the table holds, and that whoever has
  committed and not cleared yet will clear. `SharedResultsAreStored` and
  `CompletedWritesAreRead` follow. `SessionsDoNotBlock` is what `SessionsEnd`
  needs besides fairness: whoever holds the table can commit (`LockInv`), so a
  chain of waits (for the queries, for the table) ends at somebody who can go
  on.
- **RadiusClientProofs.** `TypeCorrect`. `ExecutedOnceInTheInterval` from
  `Recorded`: as long as the interval less the lag since a recorded execution is
  not over its entry is in the list, which is what a clean-up by a late clock
  must not break. `AnswersWereExecuted` and `MismatchesHaveACause` from
  `Backed`, which counts: the copies of a packet's answer that are on their way,
  its places in the buffer and the calls it has answered are no more than its
  executions, unless one was repeated or misrouted; and from `Sent`, that nobody
  executes a packet not sent yet. So an answer that does not fit was one more
  than the earlier calls returned. Counting places in the buffer needs that
  delivery adds one and that reading moves the others up (`PlacesAppend`,
  `PlacesTail`). `CallsGoOn` is what `CallEnds` needs besides fairness: a call
  is never stuck, and `MaxTime` leaves time for all its attempts (`Budget`), so
  that the bound is not why a call ends.
- **RadiusProxyProofs.** `ProxyCorrect`: one task at a time is between `Number`
  and `Saved`; numbers given out are below the index; and whoever has a number
  has it with its client: the connection in the map, the request that was sent
  on, the answer at hand. That, and not the map's contents, is why
  `AnswersReachAsker` holds even when removals race. `FirstAnswerPassedOn`
  counts for each number how often it was taken.
- **UserCacheProofs.** `TypeCorrect` with the shape of an operation at each step
  (`Shape`, `Held`). `CacheCorrect` is the invariant behind both properties. Its
  parts say of a task how far its write has come (`Inserting`, `Updating`,
  `Deleting`, `Editing`), that operations that touch the same field are tangled
  (`Met`), that one about to replace a list touches every field (`Aware`); and
  of an owner in which respects table and cache agree when no task is between
  them (`Present`, `Records`, `Attributes`). The proof of a step has two halves:
  what it leaves of other owners (`StepElsewhere`, `DistantTasks`,
  `DistantOwners`), once for all actions, and what it does near its owner (the
  `Near` lemmas), one for each action. `LossesHaveACause` and `CacheIsCoherent`
  follow. `CacheImplementsDirectory` is the refinement: initial states map to
  initial states, a request's begin, a transaction and a failed SELECT to
  `Write`, every access to the cache to `Follow`, a restart to `Restart`. It
  needs two facts more: a field that a transaction writes is settled before, or
  tangled (`WriterSettled`); and a list that outlived its user holds what is
  stored or nothing (`Leftovers`, part of the invariant `Refined`), or a name
  used again would show attributes that no row ever had.

Every invariant and every action property of the runs that hold is a theorem.
Model-checked only: the liveness properties (`StopEndsListening`, `CatchesUp`,
`SessionsEnd`, `CallEnds`, `StopEndsListener`), as fairness and ENABLED are
outside the prover (`SessionsDoNotBlock` and `CallsGoOn` prove that nobody gets
stuck, with the guards of the steps written out), and the violated runs.

## Not modelled

The codec and the dictionary (a datagram is a record of what the filter and the
dispatch look at): they are sequential and keep no state but the identifier
counter, which is in `RadiusClient`. Logging and statistics (only displayed),
ticket fields no property tells apart, `DateTimeUtil`'s start times, the
attributes of an Access-Accept other than Session-Timeout (copied from a table),
pages and templates, login to the console, the client table (one statement per
operation), generated mappers (through the services that use them), `SetupDB`,
`Bootstrap`, the web server's static files and the scripts they are made of.
Methods nothing calls: `CacheService.reload`, the one-parameter
`deleteUserMeta`, `deleteGroupMeta`, `removeUserMeta` and `removeGroupMeta`, and
the library's setters. The pool of connections is MyBatis's; that callers with
two sessions each can use it up is named above.
`start()` called twice without `stop()` is not enumerated, no caller does it.
`Tasks` bounds a pool that is unbounded in the code; exhaustion of memory or
threads is not modelled.

## Plan

1. `RadiusServer`'s filter in front of `Accounting`, for retransmitted Stops: a
   request is charged at most as often as it was recorded or passed.
2. `MapperCache` below `Accounting`: sessions that read a result of an
   overlapped one.
