-------------------------- MODULE ServerLifecycle --------------------------
(***************************************************************************)
(* Starting and stopping one org.tinyradius.util.RadiusServer: start()     *)
(* gives every port a listener thread, which binds a socket and loops in   *)
(* listen(); stop() runs on the caller's thread and closes the sockets.    *)
(* What a listener does with a packet is in module RadiusServer.           *)
(*                                                                         *)
(* The fields closing, authSocket and acctSocket are shared by the threads *)
(* without a lock.  A socket is named by the listener that created it.     *)
(***************************************************************************)
EXTENDS Sequences, Integers

CONSTANT MaxStarts       \* bound: calls of start(), with stop() in between

ASSUME MaxStartsAssumption == MaxStarts \in Nat

Ports == {"auth", "acct"}
StopOrder == <<"auth", "acct">>     \* the order of the statements of stop()

(* The thread start() creates for a port when it is called the n-th time.   *)
Listeners == Ports \X (1 .. MaxStarts)
Port(l) == l[1]
Null == <<"null", 0>>

VARIABLES
  closing,      \* the flag stop() sets
  field,        \* authSocket and acctSocket: a socket or Null
  socket,       \* state of the socket each listener created
  busy,         \* ports another process holds
  pc,           \* next step of each listener
  listensOn,    \* listen()'s parameter s
  caller,       \* the thread that calls start() and stop()
  starts,       \* calls of start() so far
  toClose       \* what stop() has still to close

vars == <<closing, field, socket, busy, pc, listensOn, caller, starts, toClose>>

PCs == {"none", "get", "create", "assign", "configure", "listen", "finally", "ended"}

TypeOK ==
  /\ closing \in BOOLEAN
  /\ field \in [Ports -> Listeners \cup {Null}]
  /\ socket \in [Listeners -> {"none", "open", "closed"}]
  /\ busy \subseteq Ports
  /\ pc \in [Listeners -> PCs]
  /\ listensOn \in [Listeners -> Listeners \cup {Null}]
  /\ caller \in {"idle", "started", "stopping"}
  /\ starts \in 0 .. MaxStarts
  /\ toClose \in {<<>>, <<"acct">>, <<"auth", "acct">>}
  /\ \A l \in Listeners :
       /\ pc[l] = "configure" => field[Port(l)] # Null
       /\ pc[l] = "listen" => listensOn[l] # Null

Init ==
  /\ closing = FALSE
  /\ field = [p \in Ports |-> Null]
  /\ socket = [l \in Listeners |-> "none"]
  /\ busy \in SUBSET Ports
  /\ pc = [l \in Listeners |-> "none"]
  /\ listensOn = [l \in Listeners |-> Null]
  /\ caller = "idle"
  /\ starts = 0
  /\ toClose = <<>>

Goto(l, label) == pc' = [pc EXCEPT ![l] = label]

-----------------------------------------------------------------------------
(* The caller: Project.start, TestServer.main.                              *)

(* start(listenAuth, listenAcct) creates the threads; it does not wait for  *)
(* them, and it does not reset the flag.                                    *)
Start(P) ==
  /\ caller = "idle" /\ starts < MaxStarts
  /\ starts' = starts + 1
  /\ pc' = [l \in Listeners |->
              IF Port(l) \in P /\ l[2] = starts + 1 THEN "get" ELSE pc[l]]
  /\ caller' = "started"
  /\ UNCHANGED <<closing, field, socket, busy, listensOn, toClose>>

(* Mutant: stop() closes the sockets without setting the flag. *)
StopSilently ==
  /\ caller = "started"
  /\ caller' = "stopping"
  /\ toClose' = StopOrder
  /\ UNCHANGED <<closing, field, socket, busy, pc, listensOn, starts>>

Stop ==
  /\ caller = "started"
  /\ closing' = TRUE
  /\ caller' = "stopping"
  /\ toClose' = StopOrder
  /\ UNCHANGED <<field, socket, busy, pc, listensOn, starts>>

(* close() of the socket in a port's field, if there is one. *)
Closed(p) ==
  IF field[p] = Null THEN socket ELSE [socket EXCEPT ![field[p]] = "closed"]

(* One `if (socket != null) socket.close()` of stop(). *)
StopCloses ==
  /\ toClose # <<>>
  /\ socket' = Closed(Head(toClose))
  /\ toClose' = Tail(toClose)
  /\ caller' = IF toClose' = <<>> THEN "idle" ELSE "stopping"
  /\ UNCHANGED <<closing, field, busy, pc, listensOn, starts>>

-----------------------------------------------------------------------------
(* A listener thread: run(), getAuthSocket or getAcctSocket, listen().      *)

GetSocket(l) ==
  /\ pc[l] = "get"
  /\ \/ /\ field[Port(l)] = Null
        /\ Goto(l, "create")
        /\ UNCHANGED listensOn
     \/ /\ field[Port(l)] # Null
        /\ listensOn' = [listensOn EXCEPT ![l] = field[Port(l)]]
        /\ Goto(l, "listen")
  /\ UNCHANGED <<closing, field, socket, busy, caller, starts, toClose>>

(* A port somebody holds, another process or an open socket of this one. *)
Taken(p) == p \in busy \/ \E m \in Listeners : Port(m) = p /\ socket[m] = "open"

(* Mutant: sockets bound with SO_REUSEADDR. *)
CreateShared(l) ==
  /\ pc[l] = "create"
  /\ \/ /\ socket' = [socket EXCEPT ![l] = "open"]
        /\ Goto(l, "assign")
     \/ /\ Port(l) \in busy
        /\ Goto(l, "finally")
        /\ UNCHANGED socket
  /\ UNCHANGED <<closing, field, busy, listensOn, caller, starts, toClose>>

(* new DatagramSocket(port) throws BindException on a port that is taken. *)
Create(l) ==
  /\ pc[l] = "create"
  /\ \/ /\ ~Taken(Port(l))
        /\ socket' = [socket EXCEPT ![l] = "open"]
        /\ Goto(l, "assign")
     \/ /\ Taken(Port(l))
        /\ Goto(l, "finally")
        /\ UNCHANGED socket
  /\ UNCHANGED <<closing, field, busy, listensOn, caller, starts, toClose>>

(* Mutant: the socket goes into a local variable. *)
AssignLocal(l) ==
  /\ pc[l] = "assign"
  /\ Goto(l, "configure")
  /\ UNCHANGED <<closing, field, socket, busy, listensOn, caller, starts, toClose>>

Assign(l) ==
  /\ pc[l] = "assign"
  /\ field' = [field EXCEPT ![Port(l)] = l]
  /\ Goto(l, "configure")
  /\ UNCHANGED <<closing, socket, busy, listensOn, caller, starts, toClose>>

(* setSoTimeout throws on a closed socket; then the field is returned. *)
Configure(l) ==
  LET s == field[Port(l)]
  IN
  /\ pc[l] = "configure"
  /\ \/ /\ socket[s] = "open"
        /\ listensOn' = [listensOn EXCEPT ![l] = s]
        /\ Goto(l, "listen")
     \/ /\ socket[s] # "open"
        /\ Goto(l, "finally")
        /\ UNCHANGED listensOn
  /\ UNCHANGED <<closing, field, socket, busy, caller, starts, toClose>>

(* On an open socket receive() returns a packet or times out and the loop   *)
(* goes round, without a look at the flag: no step.  On a closed one it     *)
(* throws, and listen() returns if the flag is set; else it tries again.    *)
Receive(l) ==
  /\ pc[l] = "listen"
  /\ socket[listensOn[l]] = "closed"
  /\ closing
  /\ Goto(l, "finally")
  /\ UNCHANGED <<closing, field, socket, busy, listensOn, caller, starts, toClose>>

(* An exception that listen() does not catch ends it: the database fails    *)
(* while getSharedSecret looks the client up, the client's secret is empty, *)
(* or decoding the packet throws a RuntimeException.                        *)
Break(l) ==
  /\ pc[l] = "listen"
  /\ socket[listensOn[l]] = "open"
  /\ Goto(l, "finally")
  /\ UNCHANGED <<closing, field, socket, busy, listensOn, caller, starts, toClose>>

(* The finally block of run(): closes the socket in the field, or throws a  *)
(* NullPointerException when the port could not be bound.                   *)
Finally(l) ==
  /\ pc[l] = "finally"
  /\ socket' = Closed(Port(l))
  /\ Goto(l, "ended")
  /\ UNCHANGED <<closing, field, busy, listensOn, caller, starts, toClose>>

Step(l) ==
  \/ GetSocket(l) \/ Create(l) \/ Assign(l) \/ Configure(l) \/ Receive(l) \/ Finally(l)

Next ==
  \/ \E P \in SUBSET Ports \ {{}} : Start(P)
  \/ Stop
  \/ StopCloses
  \/ \E l \in Listeners : GetSocket(l)
  \/ \E l \in Listeners : Create(l)
  \/ \E l \in Listeners : Assign(l)
  \/ \E l \in Listeners : Configure(l)
  \/ \E l \in Listeners : Receive(l)
  \/ \E l \in Listeners : Break(l)
  \/ \E l \in Listeners : Finally(l)

Spec == Init /\ [][Next]_vars

(* The JVM runs every thread that can run; nothing makes the caller call    *)
(* stop(), but once called it goes on to return, and nothing makes a lookup *)
(* or a packet fail.                                                        *)
FairSpec ==
  /\ Spec
  /\ WF_vars(StopCloses)
  /\ \A l \in Listeners : WF_vars(Step(l))

-----------------------------------------------------------------------------
(* Every open socket is in its field, where stop() and the finally block    *)
(* can close it, or about to be put there: however start(), stop() and a    *)
(* second start() race for the field, no socket is overwritten while it is  *)
(* open (getAuthSocket, getAcctSocket).                                     *)
NoLostSocket ==
  \A l \in Listeners :
    socket[l] = "open" => field[Port(l)] = l \/ pc[l] = "assign"

(* A listener does not spin: receive() throws only when stop() has set the  *)
(* flag that makes listen() return, also when another listener's finally    *)
(* block closed the socket under it ("retry s.receive()").                  *)
NoBusyLoop ==
  \A l \in Listeners :
    pc[l] = "listen" /\ socket[listensOn[l]] = "closed" => closing

(* A thread that is in listen() when stop() is called returns from it and   *)
(* ends, and the socket it read from is closed.                             *)
StopEndsListening ==
  \A l \in Listeners :
    (pc[l] = "listen" /\ caller = "stopping" /\ toClose = StopOrder)
      ~> /\ pc[l] = "ended"
         /\ \E s \in Listeners : s = listensOn[l] /\ socket[s] = "closed"

(* listenAuth and listenAcct return when stop() is called ("Returns when    *)
(* stop() is called"): after it every listener ends.                        *)
StopEndsListeners ==
  \A l \in Listeners :
    (caller = "idle" /\ pc[l] # "none") ~> (pc[l] \in {"ended", "none"})
=============================================================================
