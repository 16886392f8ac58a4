---------------------------- MODULE RadiusServer ----------------------------
(***************************************************************************)
(* One listening socket of org.tinyradius.util.RadiusServer: the thread in *)
(* listen(), the cached thread pool its packets are handed to, the list of *)
(* received packets that filters duplicates, and the answers.              *)
(*                                                                         *)
(* A datagram is what arrives on the socket.  Clients may send any of      *)
(* Datagrams at any time and any number of times, so a lost, a duplicated, *)
(* a delayed and a retransmitted packet are all histories of Receive.      *)
(* Every Runnable given to worker.execute() is one of Tasks; the pool is   *)
(* unbounded in the code and Tasks bounds it here.                         *)
(***************************************************************************)
EXTENDS Integers, FiniteSets

CONSTANTS
  Hosts,              \* IP addresses of clients
  Ports,              \* source ports of clients
  Ids,                \* packet identifiers, one byte in the code
  Authenticators,     \* request authenticators
  Datagrams,          \* what the clients of an instance may send
  KnownHosts,         \* hosts with a shared secret (getSharedSecret # null)
  LocalPort,          \* "auth" or "acct": the port the socket is bound to
  DuplicateInterval,  \* duplicateInterval, in ticks of the clock
  Tasks,              \* the Runnables handed to the pool
  MaxLag,             \* bound: ticks a thread may wait between reading the
                      \* clock and entering the synchronized block
  MaxTime             \* bound: the last tick of the clock

Addresses == Hosts \X Ports
PacketTypes == {"access", "accounting", "other", "malformed"}
Datagram == [address : Addresses, id : Ids, auth : Authenticators,
             type : PacketTypes]

ASSUME DatagramsAssumption == Datagrams \subseteq Datagram
ASSUME IntervalAssumption == DuplicateInterval \in Nat \ {0}
ASSUME BoundsAssumption == MaxLag \in Nat /\ MaxTime \in Nat
ASSUME TasksAssumption == IsFiniteSet(Tasks)

NoPacket == [address |-> "none"]       \* a task nothing was handed to yet
NoPort   == "none"

VARIABLES
  clock,            \* System.currentTimeMillis()
  socket,           \* the DatagramSocket: "open" or "closed"
  packetInPort,     \* source port held by the DatagramPacket listen() reuses
  receivedPackets,  \* the duplicate filter's list, as a set
  pc,               \* next step of each task
  request,          \* the decoded packet of each task
  now,              \* isPacketDuplicate's local variable
  verdict,          \* what the filter said of the task's packet
  checkedAt,        \* history: the clock when it said so
  repliedTo         \* history: the port the task's answer was sent to

filterVars == <<now, verdict, checkedAt>>
vars == <<clock, socket, packetInPort, receivedPackets, pc, request, now,
          verdict, checkedAt, repliedTo>>

PCs == {"idle", "clock", "check", "handle", "respond", "async", "done"}
Verdicts == {"none", "recorded", "passed", "dropped"}
Entry == [address : Addresses, id : Ids, auth : Authenticators, time : Nat]

TypeOK ==
  /\ clock \in Nat
  /\ socket \in {"open", "closed"}
  /\ packetInPort \in Ports \cup {NoPort}
  /\ receivedPackets \subseteq Entry
  /\ pc \in [Tasks -> PCs]
  /\ request \in [Tasks -> Datagrams \cup {NoPacket}]
  /\ now \in [Tasks -> Nat]
  /\ verdict \in [Tasks -> Verdicts]
  /\ checkedAt \in [Tasks -> Nat]
  /\ repliedTo \in [Tasks -> Ports \cup {NoPort}]
  /\ \A t \in Tasks : pc[t] # "idle" => request[t] \in Datagrams

Init ==
  /\ clock = 0
  /\ socket = "open"
  /\ packetInPort = NoPort
  /\ receivedPackets = {}
  /\ pc = [t \in Tasks |-> "idle"]
  /\ request = [t \in Tasks |-> NoPacket]
  /\ now = [t \in Tasks |-> 0]
  /\ verdict = [t \in Tasks |-> "none"]
  /\ checkedAt = [t \in Tasks |-> 0]
  /\ repliedTo = [t \in Tasks |-> NoPort]

Goto(t, label) == pc' = [pc EXCEPT ![t] = label]

-----------------------------------------------------------------------------
(* The listener thread.                                                     *)

(* A packet the listener drops: no secret for its host, or undecodable.     *)
Ignored(d) == d.address[1] \notin KnownHosts \/ d.type = "malformed"

(* listen() fills packetIn, and hands the decoded request to the pool.      *)
(* Nothing but the listener runs between receive and execute, except tasks  *)
(* that read packetIn, so the two are one step.                             *)
Receive(d) ==
  /\ socket = "open"
  /\ packetInPort' = d.address[2]
  /\ \/ /\ Ignored(d)
        /\ UNCHANGED <<pc, request>>
     \/ /\ ~Ignored(d)
        /\ \E t \in Tasks :
             /\ pc[t] = "idle"
             /\ request' = [request EXCEPT ![t] = d]
             /\ Goto(t, "clock")
  /\ UNCHANGED <<clock, socket, receivedPackets, filterVars, repliedTo>>

(* An exception that listen() does not catch (the database fails while      *)
(* getSharedSecret looks the host up, decoding throws a RuntimeException)   *)
(* ends the listener, and the finally block of its run() closes the socket. *)
ListenerFails(d) ==
  /\ socket = "open"
  /\ packetInPort' = d.address[2]
  /\ socket' = "closed"
  /\ UNCHANGED <<clock, receivedPackets, pc, request, filterVars, repliedTo>>

-----------------------------------------------------------------------------
(* A task of the pool: run() of the Runnable, and handlePacket().           *)

(* Mutant: the task keeps the start of the interval as the packet's time.   *)
ReadIntervalStart(t) ==
  /\ pc[t] = "clock"
  /\ now' = [now EXCEPT ![t] = clock - DuplicateInterval]
  /\ Goto(t, "check")
  /\ UNCHANGED <<clock, socket, packetInPort, receivedPackets, request,
                 verdict, checkedAt, repliedTo>>

(* isPacketDuplicate reads the clock before it takes the lock.              *)
ReadClock(t) ==
  /\ pc[t] = "clock"
  /\ now' = [now EXCEPT ![t] = clock]
  /\ Goto(t, "check")
  /\ UNCHANGED <<clock, socket, packetInPort, receivedPackets, request,
                 verdict, checkedAt, repliedTo>>

(* Mutants: the interval off by one, and other keys for the comparison.     *)
ExpiredLate(e, n) == e.time < n - DuplicateInterval - 1
ExpiredEarly(e, n) == e.time <= n - DuplicateInterval
SamePacket(e, d) == e.address = d.address /\ e.id = d.id /\ e.auth = d.auth
SameHostAndId(e, d) == e.address[1] = d.address[1] /\ e.id = d.id

Expired(e, n) == e.time < n - DuplicateInterval
SameRequest(e, d) == e.address = d.address /\ e.id = d.id

Fresh(n) == {e \in receivedPackets : ~Expired(e, n)}
Matches(t) == {e \in Fresh(now[t]) : SameRequest(e, request[t])}

(* The synchronized block.  Entries met before a match are removed when     *)
(* they have expired; the scan stops at the first match, so which expired   *)
(* entries go depends on the order of the list, which is not modelled: any  *)
(* of them may.  A scan without a match removes them all and appends.       *)
Sweep(t) ==
  IF Matches(t) = {}
  THEN receivedPackets' = Fresh(now[t]) \cup
         {[address |-> request[t].address, id |-> request[t].id,
           auth |-> request[t].auth, time |-> now[t]]}
  ELSE \E gone \in SUBSET (receivedPackets \ Fresh(now[t])) :
         receivedPackets' = receivedPackets \ gone

Judge(t, v, label) ==
  /\ verdict' = [verdict EXCEPT ![t] = v]
  /\ Goto(t, label)

CheckDuplicate(t) ==
  /\ pc[t] = "check"
  /\ Sweep(t)
  /\ checkedAt' = [checkedAt EXCEPT ![t] = clock]
  /\ \/ /\ Matches(t) = {}
        /\ Judge(t, "recorded", "handle")
     \/ \E e \in Matches(t) :
          \/ e.auth = request[t].auth /\ Judge(t, "dropped", "done")
          \/ e.auth # request[t].auth /\ Judge(t, "passed", "handle")
  /\ UNCHANGED <<clock, socket, packetInPort, request, now, repliedTo>>

(* The rest of handlePacket.  A packet of the type of the port is answered, *)
(* unless the subclass throws (malformed request, failing database); a      *)
(* packet of another type is counted and gets no answer.                    *)
Handle(t) ==
  /\ pc[t] = "handle"
  /\ \/ /\ request[t].type = IF LocalPort = "auth" THEN "access" ELSE "accounting"
        /\ Goto(t, "respond")
     \/ Goto(t, "done")
  /\ UNCHANGED <<clock, socket, packetInPort, receivedPackets, request,
                 filterVars, repliedTo>>

(* makeDatagramPacket takes the host from the request but the port from the *)
(* listener's packetIn; then the answer is sent.  send() throws on a closed *)
(* socket and may throw on an open one.                                     *)
Respond(t) ==
  /\ pc[t] = "respond"
  /\ \/ /\ socket = "open"
        /\ repliedTo' = [repliedTo EXCEPT ![t] = packetInPort]
        /\ Goto(t, "async")
     \/ /\ Goto(t, "done")
        /\ UNCHANGED repliedTo
  /\ UNCHANGED <<clock, socket, packetInPort, receivedPackets, request,
                 filterVars>>

(* asyncExecute runs once the answer is out (module Accounting).            *)
AsyncExecute(t) ==
  /\ pc[t] = "async"
  /\ Goto(t, "done")
  /\ UNCHANGED <<clock, socket, packetInPort, receivedPackets, request,
                 filterVars, repliedTo>>

-----------------------------------------------------------------------------
(* stop() closes the socket; the pool is not shut down.                     *)
Stop ==
  /\ socket = "open"
  /\ socket' = "closed"
  /\ UNCHANGED <<clock, packetInPort, receivedPackets, pc, request,
                 filterVars, repliedTo>>

(* Time passes, but no further than MaxLag past a clock value a thread has  *)
(* read and not yet used.                                                   *)
Tick ==
  /\ clock < MaxTime
  /\ \A t \in Tasks : pc[t] = "check" => clock + 1 - now[t] <= MaxLag
  /\ clock' = clock + 1
  /\ UNCHANGED <<socket, packetInPort, receivedPackets, pc, request,
                 filterVars, repliedTo>>

Next ==
  \/ \E d \in Datagrams : Receive(d)
  \/ \E d \in Datagrams : ListenerFails(d)
  \/ \E t \in Tasks : ReadClock(t)
  \/ \E t \in Tasks : CheckDuplicate(t)
  \/ \E t \in Tasks : Handle(t)
  \/ \E t \in Tasks : Respond(t)
  \/ \E t \in Tasks : AsyncExecute(t)
  \/ Stop
  \/ Tick

Spec == Init /\ [][Next]_vars

-----------------------------------------------------------------------------
Admitted(t) == verdict[t] \in {"recorded", "passed"}

(* Properties are below; MinGap is how far apart the filter keeps two       *)
(* recordings, MaxAge how long it can hold a packet against a later one.    *)
MinGap == DuplicateInterval - MaxLag
MaxAge == DuplicateInterval + MaxLag

(* However the pool's threads interleave around the lock, the list never    *)
(* holds two entries for one client address and identifier, so the scan's   *)
(* first match is the only one and its verdict does not depend on the order *)
(* of the list (isPacketDuplicate).                                         *)
UniqueEntry ==
  \A e, f \in receivedPackets :
    e.address = f.address /\ e.id = f.id => e = f

(* Two recordings of one address and identifier are more than the duplicate *)
(* interval apart, up to the lag of a thread that read the clock before it  *)
(* took the lock: a thread with a late clock may evict the entry that       *)
(* should have stopped a thread with an early one, and no sooner than this. *)
RecordedApart ==
  \A s, t \in Tasks :
    /\ s # t
    /\ verdict[s] = "recorded" /\ verdict[t] = "recorded"
    /\ request[s].address = request[t].address
    /\ request[s].id = request[t].id
    => \/ checkedAt[s] - checkedAt[t] > MinGap
       \/ checkedAt[t] - checkedAt[s] > MinGap

(* s is a packet the filter may hold against t's. *)
Holds(s, t) ==
  /\ verdict[s] = "recorded"
  /\ request[s].address = request[t].address
  /\ request[s].id = request[t].id
  /\ checkedAt[s] <= checkedAt[t]
  /\ checkedAt[t] - checkedAt[s] <= MaxAge

(* A request is discarded only when the same request, authenticator         *)
(* included, was recorded at most an interval (and a lag) before it: no     *)
(* fresh request is lost to the filter, even when identifiers wrap.         *)
DroppedForCause ==
  \A t \in Tasks : verdict[t] = "dropped" =>
    \E s \in Tasks \ {t} : Holds(s, t) /\ request[s].auth = request[t].auth

(* A packet gets through without being recorded only when another packet    *)
(* with its identifier and a different authenticator holds the entry: the   *)
(* one way a retransmission can be handled twice.                           *)
PassedForCause ==
  \A t \in Tasks : verdict[t] = "passed" =>
    \E s \in Tasks \ {t} : Holds(s, t) /\ request[s].auth # request[t].auth

(* The recordings no more than MaxAge before any other, the newest included. *)
Recent ==
  {s \in Tasks : /\ verdict[s] = "recorded"
                 /\ \A t \in Tasks : verdict[t] = "recorded" =>
                      checkedAt[t] - checkedAt[s] <= MaxAge}

(* The list does not grow with the life of the server: it never has more    *)
(* entries than packets were recorded in the last interval and lag before   *)
(* the newest recording, although only a recording sweeps it, a scan that   *)
(* finds a match stops early, and a thread may sweep with a late clock and  *)
(* append with a time long past (isPacketDuplicate).                        *)
ListBounded == Cardinality(receivedPackets) <= Cardinality(Recent)

(* An answer goes back to the port its request came from                    *)
(* (makeDatagramPacket: "where to send the packet", "destination port").    *)
RepliesToSender ==
  \A t \in Tasks : repliedTo[t] # NoPort => repliedTo[t] = request[t].address[2]
=============================================================================
