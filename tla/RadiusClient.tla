---------------------------- MODULE RadiusClient ----------------------------
(***************************************************************************)
(* org.tinyradius.util.RadiusClient: one thread that sends requests over   *)
(* one UDP socket, waits for an answer, and repeats the request when none  *)
(* comes in time; the network, which delays, loses and repeats; and the    *)
(* duplicate filter of a RadiusServer, whose tasks read the clock before   *)
(* they take its lock (module RadiusServer).  authenticate() and account() *)
(* are synchronized, so the calls of a client follow one another; close()  *)
(* is not.                                                                 *)
(*                                                                         *)
(* The n-th call is n.  A packet is the number of the call that sent it    *)
(* first: a later call sends the same packet when it is given the same     *)
(* accounting request, or another one with the same contents.              *)
(***************************************************************************)
EXTENDS Integers, Sequences, FiniteSets

CONSTANTS
  IdRange,            \* number of packet identifiers, 256 in the code
  RetryCount,         \* retryCount
  SocketTimeout,      \* socketTimeout, in ticks
  DuplicateInterval,  \* the server's duplicateInterval, in ticks
  Tasks,              \* the Runnables handed to the server's pool
  MaxLag,             \* bound: a task that has read the clock longer ago is
                      \* not followed any further
  MaxFaults,          \* bound: packets repeated and misrouted on their way
  MaxCalls,           \* bound: calls made
  MaxTime             \* bound: the last tick of the clock

ASSUME IdRangeAssumption == IdRange \in Nat \ {0}
ASSUME RetryAssumption ==
  /\ RetryCount \in Nat \ {0}
  /\ SocketTimeout \in Nat \ {0}
ASSUME ServerAssumption == DuplicateInterval \in Nat /\ IsFiniteSet(Tasks)
ASSUME BoundsAssumption ==
  /\ MaxLag \in Nat /\ MaxFaults \in Nat
  /\ MaxCalls \in Nat /\ MaxTime \in Nat

Ids == 0 .. IdRange - 1
Calls == 1 .. MaxCalls
Packets == Calls
Stranger == 0     \* a packet of somebody else, or the answer to one

VARIABLES
  clock,        \* System.currentTimeMillis() of both sides
  call,         \* number of the last call made
  packet,       \* the packet each call sends
  id,           \* the identifier of each packet
  phase,        \* where communicate() is: "idle", "send", "receive"
  attempt,      \* the loop's i
  deadline,     \* when receive() times out
  inbox,        \* the socket's buffer: the packets whose answers are in it
  outcome,      \* how each call ended
  closed,       \* close() was called
  toServer,     \* copies of each packet on their way
  toClient,     \* copies of its answer on their way
  pc,           \* next step of each task of the server
  request,      \* the packet of each task
  now,          \* isPacketDuplicate's local variable
  received,     \* the server's list of received packets
  executed,     \* history: how often the filter let each packet through
  executedAt,   \* history: and when it did so last
  passed,       \* history: packets let through unrecorded
  faults,       \* history: packets repeated and misrouted
  extra         \* history: those whose answers were

calls    == <<call, packet, id, outcome>>
loop     == <<phase, attempt, deadline>>
network  == <<toServer, toClient>>
tasks    == <<pc, request, now>>
filter   == <<received, executed, executedAt, passed>>
history  == <<faults, extra>>
vars == <<clock, calls, loop, inbox, closed, network, tasks, filter, history>>

Outcomes == {"none", "answered", "failed", "mismatch"}
Entry == [packet : Packets, time : Nat]

TypeOK ==
  /\ clock \in Nat
  /\ call \in 0 .. MaxCalls
  /\ packet \in [Calls -> Packets \cup {Stranger}]
  /\ id \in [Packets -> Ids]
  /\ phase \in {"idle", "send", "receive"}
  /\ attempt \in 1 .. RetryCount
  /\ deadline \in Nat
  /\ inbox \in Seq(Packets \cup {Stranger})
  /\ outcome \in [Calls -> Outcomes]
  /\ closed \in BOOLEAN
  /\ toServer \in [Packets -> Nat]
  /\ toClient \in [Packets -> Nat]
  /\ pc \in [Tasks -> {"idle", "check"}]
  /\ request \in [Tasks -> Packets \cup {Stranger}]
  /\ now \in [Tasks -> Nat]
  /\ received \subseteq Entry
  /\ executed \in [Packets -> Nat]
  /\ executedAt \in [Packets -> Nat]
  /\ passed \subseteq Packets
  /\ faults \in Nat
  /\ extra \subseteq Packets \cup {Stranger}
  /\ phase # "idle" => call \in Calls
  /\ \A t \in Tasks : pc[t] # "idle" => request[t] \in Packets
  /\ \A c \in Calls : c <= call => packet[c] \in Packets /\ packet[c] <= c

Init ==
  /\ clock = 0
  /\ call = 0
  /\ packet = [c \in Calls |-> Stranger]
  /\ id = [p \in Packets |-> 0]
  /\ phase = "idle"
  /\ attempt = 1
  /\ deadline = 0
  /\ inbox = <<>>
  /\ outcome = [c \in Calls |-> "none"]
  /\ closed = FALSE
  /\ toServer = [p \in Packets |-> 0]
  /\ toClient = [p \in Packets |-> 0]
  /\ pc = [t \in Tasks |-> "idle"]
  /\ request = [t \in Tasks |-> Stranger]
  /\ now = [t \in Tasks |-> 0]
  /\ received = {}
  /\ executed = [p \in Packets |-> 0]
  /\ executedAt = [p \in Packets |-> 0]
  /\ passed = {}
  /\ faults = 0
  /\ extra = {}

-----------------------------------------------------------------------------
(* communicate().                                                           *)

(* getNextPacketIdentifier(): the counter starts at 0 and wraps.            *)
NextId(c) == c % IdRange

(* The identifier belongs to the request, which may be one sent before.  An *)
(* access request gets a random authenticator in every call, so that it is  *)
(* another packet; that of an accounting request is computed from identifier*)
(* and attributes.  The socket is created in the first call.                *)
Call ==
  LET c == call + 1
      earlier == {packet[d] : d \in 1 .. call}
  IN
  /\ phase = "idle"
  /\ call < MaxCalls
  /\ clock + RetryCount * SocketTimeout <= MaxTime
  /\ call' = c
  /\ \/ /\ packet' = [packet EXCEPT ![c] = c]
        /\ \E i \in {NextId(c)} \cup {id[p] : p \in earlier} :
             id' = [id EXCEPT ![c] = i]
     \/ /\ \E p \in earlier : packet' = [packet EXCEPT ![c] = p]
        /\ UNCHANGED id
  /\ phase' = "send"
  /\ attempt' = 1
  /\ UNCHANGED <<clock, deadline, inbox, outcome, closed, network, tasks, filter, history>>

(* The same bytes are sent in every attempt.                                *)
Send ==
  /\ phase = "send"
  /\ ~closed
  /\ toServer' = [toServer EXCEPT ![packet[call]] = @ + 1]
  /\ deadline' = clock + SocketTimeout
  /\ phase' = "receive"
  /\ UNCHANGED <<clock, calls, attempt, inbox, closed, toClient, tasks, filter, history>>

End(result) ==
  /\ outcome' = [outcome EXCEPT ![call] = result]
  /\ phase' = "idle"
  /\ UNCHANGED attempt

(* Mutants: one attempt too many, and attempts without end.                 *)
RetryOnceMore ==
  \/ /\ attempt <= RetryCount
     /\ attempt' = attempt + 1
     /\ phase' = "send"
     /\ UNCHANGED outcome
  \/ /\ attempt > RetryCount
     /\ End("failed")

RetryForever ==
  /\ phase' = "send"
  /\ UNCHANGED <<attempt, outcome>>

(* An IOException: the next attempt, or the end of the call.                *)
Retry ==
  \/ /\ attempt < RetryCount
     /\ attempt' = attempt + 1
     /\ phase' = "send"
     /\ UNCHANGED outcome
  \/ /\ attempt = RetryCount
     /\ End("failed")

(* send() throws: the socket is closed, or the network cannot be reached.   *)
SendFails ==
  /\ phase = "send"
  /\ Retry
  /\ UNCHANGED <<clock, call, packet, id, deadline, inbox, closed, network, tasks,
                 filter, history>>

(* receive() throws: the time is over, or the socket was closed meanwhile.  *)
ReceiveFails ==
  /\ phase = "receive"
  /\ (inbox = <<>> /\ clock = deadline) \/ closed
  /\ Retry
  /\ UNCHANGED <<clock, call, packet, id, deadline, inbox, closed, network, tasks,
                 filter, history>>

(* Mutants: the identifier alone, and that of the next packet.              *)
SameIdentifier(a, p) == a # Stranger /\ id[a] = id[p]
NextIdentifier(a, p) == a # Stranger /\ id[a] = (id[p] + 1) % IdRange

(* decodePacket compares the identifier and then the authenticator, which   *)
(* is computed from the request's and so tells packets apart; a difference  *)
(* is a RadiusException.                                                    *)
Accepts(a, p) == a # Stranger /\ id[a] = id[p] /\ a = p

(* Any packet in the socket's buffer ends the call.                         *)
Receive ==
  /\ phase = "receive"
  /\ inbox # <<>>
  /\ inbox' = Tail(inbox)
  /\ End(IF Accepts(Head(inbox), packet[call]) THEN "answered" ELSE "mismatch")
  /\ UNCHANGED <<clock, call, packet, id, deadline, closed, network, tasks, filter, history>>

(* close() of another thread.  The closed socket is not replaced.           *)
Close ==
  /\ call > 0
  /\ ~closed
  /\ closed' = TRUE
  /\ inbox' = <<>>
  /\ UNCHANGED <<clock, calls, loop, network, tasks, filter, history>>

-----------------------------------------------------------------------------
(* The network.  A copy is delivered at any time, in any order, or never.   *)

Less(copies, p) == [copies EXCEPT ![p] = @ - 1]
More(copies, p) == [copies EXCEPT ![p] = @ + 1]

(* An answer reaches the buffer of the client's socket, whoever waits.      *)
Deliver(p) ==
  /\ toClient[p] > 0
  /\ ~closed
  /\ toClient' = Less(toClient, p)
  /\ inbox' = Append(inbox, p)
  /\ UNCHANGED <<clock, calls, loop, closed, toServer, tasks, filter, history>>

Fault ==
  /\ faults < MaxFaults
  /\ faults' = faults + 1

RepeatRequest(p) ==
  /\ toServer[p] > 0
  /\ Fault
  /\ toServer' = More(toServer, p)
  /\ UNCHANGED <<clock, calls, loop, inbox, closed, toClient, tasks, filter, extra>>

RepeatAnswer(p) ==
  /\ toClient[p] > 0
  /\ Fault
  /\ toClient' = More(toClient, p)
  /\ extra' = extra \cup {p}
  /\ UNCHANGED <<clock, calls, loop, inbox, closed, toServer, tasks, filter>>

(* The server sends the answer of another client of the host to the port of *)
(* this one (makeDatagramPacket, module RadiusServer); the other's request  *)
(* may have been the same as one of this client's.                          *)
Misroute(a) ==
  /\ call > 0 /\ ~closed
  /\ a \in {Stranger} \cup {packet[c] : c \in 1 .. call}
  /\ Fault
  /\ inbox' = Append(inbox, a)
  /\ extra' = extra \cup {a}
  /\ UNCHANGED <<clock, calls, loop, closed, network, tasks, filter>>

-----------------------------------------------------------------------------
(* The server: the tasks of the pool.                                       *)

Goto(t, label) == pc' = [pc EXCEPT ![t] = label]

(* A task is handed a copy, and reads the clock in isPacketDuplicate.       *)
Arrive(t, p) ==
  /\ pc[t] = "idle"
  /\ toServer[p] > 0
  /\ toServer' = Less(toServer, p)
  /\ request' = [request EXCEPT ![t] = p]
  /\ now' = [now EXCEPT ![t] = clock]
  /\ Goto(t, "check")
  /\ UNCHANGED <<clock, calls, loop, inbox, closed, toClient, filter, history>>

(* Mutant: the interval ends a tick early.                                  *)
ExpiredEarly(e, n) == e.time <= n - DuplicateInterval

Expired(e, n) == e.time < n - DuplicateInterval

Fresh(n) == {e \in received : ~Expired(e, n)}
Matches(t) == {e \in Fresh(now[t]) : id[e.packet] = id[request[t]]}

Execute(t) ==
  /\ executed' = [executed EXCEPT ![request[t]] = @ + 1]
  /\ executedAt' = [executedAt EXCEPT ![request[t]] = clock]
  /\ toClient' = More(toClient, request[t])

(* The synchronized block.  A scan that finds a match has removed some of   *)
(* the entries that have expired, one that finds none all of them.  What is *)
(* let through is then handled, which touches nothing here; that its answer *)
(* is sent late, or never when handling fails, is a delay or a loss of it.  *)
CheckDuplicate(t) ==
  LET p == request[t]
      swept == \E gone \in SUBSET (received \ Fresh(now[t])) : received' = received \ gone
  IN
  /\ pc[t] = "check"
  /\ clock - now[t] <= MaxLag
  /\ \/ /\ Matches(t) = {}
        /\ received' = Fresh(now[t]) \cup {[packet |-> p, time |-> now[t]]}
        /\ Execute(t)
        /\ UNCHANGED passed
     \/ \E e \in Matches(t) :
          \/ /\ e.packet = p
             /\ swept
             /\ UNCHANGED <<executed, executedAt, toClient, passed>>
          \/ /\ e.packet # p
             /\ swept
             /\ Execute(t)
             /\ passed' = passed \cup {p}
  /\ Goto(t, "idle")
  /\ request' = [request EXCEPT ![t] = Stranger]
  /\ now' = [now EXCEPT ![t] = 0]
  /\ UNCHANGED <<clock, calls, loop, inbox, closed, toServer, history>>

-----------------------------------------------------------------------------
(* Time passes where the client's thread waits for it.                      *)
Tick ==
  /\ clock < MaxTime
  /\ phase # "send"
  /\ phase = "receive" => inbox = <<>> /\ ~closed /\ clock < deadline
  /\ clock' = clock + 1
  /\ UNCHANGED <<calls, loop, inbox, closed, network, tasks, filter, history>>

Network ==
  \/ \E p \in Packets : Deliver(p)
  \/ \E p \in Packets : RepeatRequest(p)
  \/ \E p \in Packets : RepeatAnswer(p)
  \/ \E a \in Packets \cup {Stranger} : Misroute(a)

Server ==
  \/ \E t \in Tasks, p \in Packets : Arrive(t, p)
  \/ \E t \in Tasks : CheckDuplicate(t)

Communicate == Send \/ SendFails \/ ReceiveFails \/ Receive

Next == Call \/ Communicate \/ Close \/ Network \/ Server \/ Tick

Spec == Init /\ [][Next]_vars

(* The client's thread goes on and so does the clock; nothing is assumed of *)
(* the network, the server, or those who make calls.                        *)
FairSpec == Spec /\ WF_vars(Communicate) /\ WF_vars(Tick)

-----------------------------------------------------------------------------
(* The calls that were answered with the answer to a packet. *)
Answered(p) == {c \in Calls : packet[c] = p /\ outcome[c] = "answered"}

(* A call that returns was served: no more calls with a packet return than  *)
(* the server let it through, unless its answer was repeated or another     *)
(* client's, although answers to earlier calls may wait in the buffer,      *)
(* identifiers wrap, and a request is sent again (communicate,              *)
(* decodePacket).                                                           *)
AnsweredMeansExecuted ==
  \A p \in Packets \ extra : Cardinality(Answered(p)) <= executed[p]

(* However often the client and the network repeat a packet and however     *)
(* late the copies arrive, the server executes it again only after the      *)
(* interval, less the lag of a thread that read the clock before it took    *)
(* the lock, or when an identifier in use was given to another packet.  So  *)
(* a client that gives up before that gets no second answer when the first  *)
(* is lost.                                                                 *)
ExecutedOnce ==
  [][\A p \in Packets :
       executed[p] > 0 /\ executed'[p] > executed[p] =>
         p \in passed' \/ clock - executedAt[p] > DuplicateInterval - MaxLag]_vars

(* The calls before a call that were answered with the answer to a packet.  *)
AnsweredBefore(c, p) == {d \in Answered(p) : d < c}

(* A call ends with a RadiusException for the answer to another packet, and *)
(* there is such an answer only where the network repeated one or the       *)
(* server misrouted one, or where the server let the packet through more    *)
(* often than the earlier calls with it returned: one of them timed out, or *)
(* had itself read another answer, or the packet was executed twice.        *)
MismatchForCause ==
  \A c \in Calls : outcome[c] = "mismatch" =>
    \E p \in Packets \cup {Stranger} :
      /\ p # packet[c]
      /\ \/ p \in extra
         \/ /\ p \in {packet[d] : d \in 1 .. c - 1}
            /\ executed[p] > Cardinality(AnsweredBefore(c, p))

(* communicate() returns or throws, whatever the network does and whenever  *)
(* the socket is closed.                                                    *)
CallEnds == phase # "idle" ~> phase = "idle"
=============================================================================
