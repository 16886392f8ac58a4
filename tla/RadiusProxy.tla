---------------------------- MODULE RadiusProxy ----------------------------
(***************************************************************************)
(* org.tinyradius.proxy.RadiusProxy: the tasks that forward requests and   *)
(* pass on answers, the connections they keep meanwhile, and the socket    *)
(* they share with the proxy's own listener thread, which whoever needs it *)
(* first creates.                                                          *)
(*                                                                         *)
(* A connection is known by its Proxy-State, the number it was given.  Its *)
(* request is sent on with it, and comes back in the answer, possibly more *)
(* than once.  The listeners of the other two ports are module             *)
(* ServerLifecycle's; what they receive starts a task here.                *)
(*                                                                         *)
(* The connections are in a HashMap that is changed under a lock by put()  *)
(* and without it by remove().  Once a remove() has overlapped another     *)
(* access, nothing is known of the map: an entry may be lost, or come      *)
(* back, and a thread that uses it may never leave it.                     *)
(***************************************************************************)
EXTENDS Naturals, FiniteSets

CONSTANTS
  Clients,      \* clients whose requests are forwarded
  Tasks,        \* threads of the pool
  Listener,     \* the thread "Radius Proxy Listener"
  Null,         \* no socket, no thread
  MaxRequests,  \* bound: requests forwarded
  MaxArrivals   \* bound: answers that arrive

ASSUME ThreadsAssumption ==
  IsFiniteSet(Tasks) /\ Listener \notin Tasks /\ Null \notin Tasks \cup {Listener}
ASSUME BoundsAssumption == MaxRequests \in Nat /\ MaxArrivals \in Nat

Threads == Tasks \cup {Listener}
States  == 1 .. MaxRequests

VARIABLES
  pc,         \* next step of each thread
  client,     \* the client of the request or connection a task has
  state,      \* its Proxy-State
  asker,      \* the client whose request the answer at hand answers
  proxyIndex, \* proxyIndex, from 0
  saved,      \* keys of proxyConnections
  conn,       \* and their values: the clients
  forwarded,  \* requests sent to the server, and by that its answers
  sockets,    \* the socket that each thread has created
  proxySocket,\* whose socket the field of this name refers to
  ear,        \* whose socket the listener listens on
  stopping,   \* where stop() is: "no", "closed", "done"
  requests, arrivals,  \* number of requests and of answers that came in
  raced,      \* history: a remove() has overlapped another access
  taken,      \* history: how often each connection was removed by an answer
  dropped     \* history: connections of which an answer found none

work == <<pc, client, state, asker>>
map  == <<proxyIndex, saved, conn, raced>>
net  == <<sockets, proxySocket, ear, stopping>>
ends == <<taken, dropped>>
vars == <<work, map, forwarded, net, requests, arrivals, ends>>

SocketStates == {"none", "open", "closed"}
PCs == {"idle", "enter", "number", "put", "putting", "check", "bind", "assign",
        "configure", "send", "remove", "removing", "answer", "listen", "ended"}

TypeOK ==
  /\ pc \in [Threads -> PCs]
  /\ client \in [Tasks -> Clients]
  /\ state \in [Tasks -> 0 .. MaxRequests]
  /\ asker \in [Tasks -> Clients]
  /\ proxyIndex \in 0 .. MaxRequests
  /\ saved \subseteq States
  /\ conn \in [States -> Clients]
  /\ forwarded \subseteq States \X Clients
  /\ sockets \in [Threads -> SocketStates]
  /\ proxySocket \in Threads \cup {Null}
  /\ ear \in Threads \cup {Null}
  /\ stopping \in {"no", "closed", "done"}
  /\ requests \in 0 .. MaxRequests
  /\ arrivals \in 0 .. MaxArrivals
  /\ raced \in BOOLEAN
  /\ taken \in [States -> Nat]
  /\ dropped \subseteq States
  /\ proxySocket # Null => sockets[proxySocket] # "none"
  /\ \A s, t \in Threads : sockets[s] = "open" /\ sockets[t] = "open" => s = t

Init ==
  /\ pc = [t \in Threads |-> IF t = Listener THEN "check" ELSE "idle"]
  /\ client \in [Tasks -> Clients]
  /\ state = [t \in Tasks |-> 0]
  /\ asker = client
  /\ proxyIndex = 0
  /\ saved = {}
  /\ conn \in [States -> Clients]
  /\ forwarded = {}
  /\ sockets = [t \in Threads |-> "none"]
  /\ proxySocket = Null
  /\ ear = Null
  /\ stopping = "no"
  /\ requests = 0
  /\ arrivals = 0
  /\ raced = FALSE
  /\ taken = [x \in States |-> 0]
  /\ dropped = {}

Goto(t, label) == pc' = [pc EXCEPT ![t] = label]

-----------------------------------------------------------------------------
(* The map of connections.                                                  *)

Puts    == {t \in Tasks : pc[t] = "putting"}
Removes == {t \in Tasks : pc[t] = "removing"}

(* Before its time, and after: what becomes of a key that is put or         *)
(* removed, and of the others.                                              *)
BeginPut    == raced' = (raced \/ Removes # {})
BeginRemove == raced' = (raced \/ Removes # {} \/ Puts # {})

EndPut(x) == IF raced THEN saved' \in SUBSET (1 .. proxyIndex)
                      ELSE saved' = saved \cup {x}

EndRemove(x, found) ==
  IF raced THEN saved' \in SUBSET (1 .. proxyIndex)
           ELSE found = (x \in saved) /\ saved' = saved \ {x}

-----------------------------------------------------------------------------
(* handlePacket() and proxyPacket(): a request to be forwarded.  No filter  *)
(* for duplicates comes before this.                                        *)

Request(t, c) ==
  /\ pc[t] = "idle"
  /\ stopping = "no"
  /\ requests < MaxRequests
  /\ requests' = requests + 1
  /\ client' = [client EXCEPT ![t] = c]
  /\ Goto(t, "enter")
  /\ UNCHANGED <<state, asker, map, forwarded, net, arrivals, ends>>

Inside == {t \in Tasks : pc[t] \in {"number", "put", "putting"}}

(* Mutant: there is no lock.                                                *)
EnterAnyway(t) ==
  /\ pc[t] = "enter"
  /\ Goto(t, "number")
  /\ UNCHANGED <<client, state, asker, map, forwarded, net, requests, arrivals, ends>>

(* The lock of RadiusProxy.class.                                           *)
Enter(t) ==
  /\ pc[t] = "enter"
  /\ Inside = {}
  /\ Goto(t, "number")
  /\ UNCHANGED <<client, state, asker, map, forwarded, net, requests, arrivals, ends>>

Number(t) ==
  /\ pc[t] = "number"
  /\ proxyIndex' = proxyIndex + 1
  /\ Goto(t, "put")
  /\ UNCHANGED <<client, state, asker, saved, conn, raced, forwarded, net,
                 requests, arrivals, ends>>

(* The number is read again, for the attribute and the key.                 *)
Put(t) ==
  /\ pc[t] = "put"
  /\ state' = [state EXCEPT ![t] = proxyIndex]
  /\ BeginPut
  /\ Goto(t, "putting")
  /\ UNCHANGED <<client, asker, proxyIndex, saved, conn, forwarded, net,
                 requests, arrivals, ends>>

Saved(t) ==
  /\ pc[t] = "putting"
  /\ EndPut(state[t])
  /\ conn' = [conn EXCEPT ![state[t]] = client[t]]
  /\ Goto(t, "check")
  /\ UNCHANGED <<client, state, asker, proxyIndex, raced, forwarded, net,
                 requests, arrivals, ends>>

Send(t) ==
  /\ pc[t] = "send"
  /\ Goto(t, "idle")
  /\ forwarded' = IF sockets[proxySocket] = "open"
                  THEN forwarded \cup {<<state[t], client[t]>>}
                  ELSE forwarded
  /\ UNCHANGED <<client, state, asker, map, net, requests, arrivals, ends>>

-----------------------------------------------------------------------------
(* getProxySocket(), in a task and in the listener.                         *)

Use(t) == IF t = Listener THEN "listen" ELSE "send"

Check(t) ==
  /\ pc[t] = "check"
  /\ Goto(t, IF proxySocket = Null THEN "bind" ELSE Use(t))
  /\ ear' = IF t = Listener THEN proxySocket ELSE ear
  /\ UNCHANGED <<client, state, asker, map, forwarded, sockets, proxySocket,
                 stopping, requests, arrivals, ends>>

Taken == \E t \in Threads : sockets[t] = "open"

(* Mutant: the port is shared.                                              *)
BindAnyway(t) ==
  /\ pc[t] = "bind"
  /\ sockets' = [sockets EXCEPT ![t] = "open"]
  /\ Goto(t, "assign")
  /\ UNCHANGED <<client, state, asker, map, forwarded, proxySocket, ear,
                 stopping, requests, arrivals, ends>>

(* An exception: the listener ends, or the request is lost, and its         *)
(* connection stays.                                                        *)
GiveUp(t) == Goto(t, IF t = Listener THEN "ended" ELSE "idle")

(* A port that is bound throws.                                             *)
Bind(t) ==
  /\ pc[t] = "bind"
  /\ IF Taken
     THEN GiveUp(t) /\ UNCHANGED sockets
     ELSE Goto(t, "assign") /\ sockets' = [sockets EXCEPT ![t] = "open"]
  /\ UNCHANGED <<client, state, asker, map, forwarded, proxySocket, ear,
                 stopping, requests, arrivals, ends>>

Assign(t) ==
  /\ pc[t] = "assign"
  /\ proxySocket' = t
  /\ Goto(t, "configure")
  /\ UNCHANGED <<client, state, asker, map, forwarded, sockets, ear, stopping,
                 requests, arrivals, ends>>

(* The field is read again: another thread's socket may be in it.  The      *)
(* timeout of a closed one cannot be set, which throws.                     *)
Configure(t) ==
  /\ pc[t] = "configure"
  /\ IF sockets[proxySocket] = "open"
     THEN Goto(t, Use(t)) /\ ear' = IF t = Listener THEN proxySocket ELSE ear
     ELSE GiveUp(t) /\ UNCHANGED ear
  /\ UNCHANGED <<client, state, asker, map, forwarded, sockets, proxySocket,
                 stopping, requests, arrivals, ends>>

-----------------------------------------------------------------------------
(* listen() on the proxy port, and proxyPacketReceived().                   *)

(* An answer of the server, or another copy of it, comes in.                *)
Arrive(t, x, c) ==
  /\ pc[t] = "idle"
  /\ pc[Listener] = "listen"
  /\ sockets[ear] = "open"
  /\ <<x, c>> \in forwarded
  /\ arrivals < MaxArrivals
  /\ arrivals' = arrivals + 1
  /\ state' = [state EXCEPT ![t] = x]
  /\ asker' = [asker EXCEPT ![t] = c]
  /\ Goto(t, "remove")
  /\ UNCHANGED <<client, map, forwarded, net, requests, ends>>

Remove(t) ==
  /\ pc[t] = "remove"
  /\ BeginRemove
  /\ Goto(t, "removing")
  /\ UNCHANGED <<client, state, asker, proxyIndex, saved, conn, forwarded,
                 net, requests, arrivals, ends>>

(* Mutant: the connection is got and kept.                                  *)
Retrieve(t) ==
  LET x == state[t] IN
  /\ pc[t] = "removing"
  /\ saved' = saved
  /\ Goto(t, IF x \in saved THEN "answer" ELSE "idle")
  /\ client' = [client EXCEPT ![t] = conn[x]]
  /\ taken' = IF x \in saved THEN [taken EXCEPT ![x] = @ + 1] ELSE taken
  /\ dropped' = IF x \in saved THEN dropped ELSE dropped \cup {x}
  /\ UNCHANGED <<state, asker, proxyIndex, conn, raced, forwarded, net,
                 requests, arrivals>>

Removed(t) ==
  LET x == state[t] IN
  /\ pc[t] = "removing"
  /\ \E found \in BOOLEAN :
       /\ EndRemove(x, found)
       /\ Goto(t, IF found THEN "answer" ELSE "idle")
       /\ client' = IF found THEN [client EXCEPT ![t] = conn[x]] ELSE client
       /\ taken' = IF found THEN [taken EXCEPT ![x] = @ + 1] ELSE taken
       /\ dropped' = IF found THEN dropped ELSE dropped \cup {x}
  /\ UNCHANGED <<state, asker, proxyIndex, conn, raced, forwarded, net,
                 requests, arrivals>>

(* The answer is sent to the connection's client, from the port that the    *)
(* request came to.                                                         *)
Answer(t) ==
  /\ pc[t] = "answer"
  /\ Goto(t, "idle")
  /\ UNCHANGED <<client, state, asker, map, forwarded, net, requests, arrivals, ends>>

(* A SocketException: the end, if stop() has got that far, or the next try. *)
ReceiveFails ==
  /\ pc[Listener] = "listen"
  /\ sockets[ear] = "closed"
  /\ stopping = "done"
  /\ Goto(Listener, "ended")
  /\ UNCHANGED <<client, state, asker, map, forwarded, net, requests, arrivals, ends>>

-----------------------------------------------------------------------------
(* stop(): the socket first, then the server's stop(), which sets closing.  *)

Stop ==
  /\ stopping = "no"
  /\ stopping' = "closed"
  /\ sockets' = [t \in Threads |-> IF t = proxySocket THEN "closed" ELSE sockets[t]]
  /\ UNCHANGED <<work, map, forwarded, proxySocket, ear, requests, arrivals, ends>>

(* Mutant: the server's stop() is not called.                               *)
StopAlone ==
  /\ stopping = "closed"
  /\ UNCHANGED vars

SuperStop ==
  /\ stopping = "closed"
  /\ stopping' = "done"
  /\ UNCHANGED <<work, map, forwarded, sockets, proxySocket, ear, requests, arrivals, ends>>

GetSocket(t) == Check(t) \/ Bind(t) \/ Assign(t) \/ Configure(t)

Forward(t) == Enter(t) \/ Number(t) \/ Put(t) \/ Saved(t) \/ Send(t)

PassOn(t) == Remove(t) \/ Removed(t) \/ Answer(t)

Next ==
  \/ \E t \in Tasks, c \in Clients :
       Request(t, c) \/ \E x \in States : Arrive(t, x, c)
  \/ \E t \in Tasks : Forward(t) \/ PassOn(t)
  \/ \E t \in Threads : GetSocket(t)
  \/ ReceiveFails
  \/ Stop \/ SuperStop

Spec == Init /\ [][Next]_vars

(* The listener and the thread that calls stop() go on.                     *)
FairSpec ==
  Spec /\ WF_vars(GetSocket(Listener)) /\ WF_vars(ReceiveFails) /\ WF_vars(SuperStop)

-----------------------------------------------------------------------------
(* An answer goes to the client whose request it answers, however requests  *)
(* and answers of different clients overlap (proxyPacket,                   *)
(* proxyPacketReceived).                                                    *)
AnswersToAsker == \A t \in Tasks : pc[t] = "answer" => client[t] = asker[t]

(* The first answer to a forwarded request is passed on and every other is  *)
(* dropped, as "duplicate?" in the log supposes, unless removals overlapped *)
(* other accesses to the map.                                               *)
FirstAnswerOnly ==
  ~raced => \A x \in States : taken[x] <= 1 /\ (x \in dropped => taken[x] = 1)

(* stop() ends the listener whose socket it closed, although it sets        *)
(* closing only after that.                                                 *)
StopEndsListener ==
  pc[Listener] = "listen" /\ sockets[ear] = "closed" ~> pc[Listener] = "ended"
=============================================================================
