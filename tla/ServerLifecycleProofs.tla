----------------------- MODULE ServerLifecycleProofs -----------------------
(***************************************************************************)
(* Proofs about module ServerLifecycle, for any number of starts.          *)
(***************************************************************************)
EXTENDS ServerLifecycle, TLAPS

(* A listener is named by a port and the call of start() that created it.   *)
LEMMA ListenerType ==
  /\ Null \notin Listeners
  /\ \A l \in Listeners : Port(l) \in Ports /\ l[2] \in 1 .. MaxStarts
  /\ \A l, m \in Listeners : Port(l) = Port(m) /\ l[2] = m[2] => l = m
  BY DEF Listeners, Ports, Port, Null

(* Nothing is bound or started yet. *)
LEMMA InitType == Init => TypeOK
  <1> SUFFICES ASSUME Init PROVE TypeOK
    OBVIOUS
  <1>1. starts \in 0 .. MaxStarts
    BY MaxStartsAssumption DEF Init
  <1>2. toClose \in {<<>>, <<"acct">>, <<"auth", "acct">>}
    BY DEF Init
  <1>3. \A l \in Listeners : pc[l] = "none"
    BY DEF Init
  <1>4. QED
    BY <1>1, <1>2, <1>3 DEF Init, TypeOK, PCs

(* Closing a port's socket keeps the sockets' types. *)
LEMMA ClosedType ==
  ASSUME TypeOK, NEW p \in Ports
  PROVE  Closed(p) \in [Listeners -> {"none", "open", "closed"}]
  BY DEF TypeOK, Closed

(* What stop() has left to close. *)
LEMMA NextHead ==
  ASSUME toClose \in {<<>>, <<"acct">>, <<"auth", "acct">>}, toClose # <<>>
  PROVE  Head(toClose) \in Ports /\ Tail(toClose) \in {<<>>, <<"acct">>}
  <1>1. CASE toClose = <<"acct">>
    BY <1>1 DEF Ports
  <1>2. CASE toClose = <<"auth", "acct">>
    <2>1. Head(toClose) = "auth" /\ Tail(toClose) = <<"acct">>
      BY <1>2
    <2>2. QED
      BY <2>1 DEF Ports
  <1>3. QED
    BY <1>1, <1>2

(* Every step of the caller and of the listeners keeps the types. *)
LEMMA NextType == TypeOK /\ [Next]_vars => TypeOK'
  <1> SUFFICES ASSUME TypeOK, [Next]_vars PROVE TypeOK'
    OBVIOUS
  <1> USE ListenerType DEF TypeOK, Goto, PCs
  <1>1. ASSUME NEW P \in SUBSET Ports, Start(P) PROVE TypeOK'
    BY <1>1, MaxStartsAssumption DEF Start
  <1>2. CASE Stop
    BY <1>2 DEF Stop, StopOrder
  <1>3. CASE StopCloses
    <2>1. Head(toClose) \in Ports /\ toClose' \in {<<>>, <<"acct">>}
      BY <1>3, NextHead DEF StopCloses
    <2>2. socket' \in [Listeners -> {"none", "open", "closed"}]
      BY <1>3, <2>1, ClosedType DEF StopCloses
    <2>3. QED
      BY <1>3, <2>1, <2>2 DEF StopCloses
  <1>4. ASSUME NEW l \in Listeners, GetSocket(l) PROVE TypeOK'
    BY <1>4 DEF GetSocket
  <1>5. ASSUME NEW l \in Listeners, Create(l) PROVE TypeOK'
    BY <1>5 DEF Create
  <1>6. ASSUME NEW l \in Listeners, Assign(l) PROVE TypeOK'
    BY <1>6 DEF Assign
  <1>7. ASSUME NEW l \in Listeners, Configure(l) PROVE TypeOK'
    BY <1>7 DEF Configure
  <1>8. ASSUME NEW l \in Listeners, Receive(l) PROVE TypeOK'
    BY <1>8 DEF Receive
  <1>12. ASSUME NEW l \in Listeners, Break(l) PROVE TypeOK'
    BY <1>12 DEF Break
  <1>9. ASSUME NEW l \in Listeners, Finally(l) PROVE TypeOK'
    BY <1>9, ClosedType DEF Finally
  <1>10. CASE UNCHANGED vars
    BY <1>10 DEF vars
  <1>11. QED
    BY <1>1, <1>2, <1>3, <1>4, <1>5, <1>6, <1>7, <1>8, <1>9, <1>10, <1>12 DEF Next

(* The lifecycle's state has its types; in particular a listener never      *)
(* configures a field that is null and never listens on no socket.          *)
THEOREM TypeCorrect == Spec => []TypeOK
  BY InitType, NextType, PTL DEF Spec

-----------------------------------------------------------------------------
(* The inductive invariant.                                                 *)

Sole(l) == \A m \in Listeners : Port(m) = Port(l) /\ socket[m] = "open" => m = l

(* How a listener, its socket and the field of its port go together: a port *)
(* has one open socket, which is about to go into the field or is there; a  *)
(* field holds a socket of its own port, whose creator is past Assign.      *)
SocketInv(l) ==
  /\ socket[l] = "open" => Sole(l) /\ (field[Port(l)] = l \/ pc[l] = "assign")
  /\ pc[l] = "assign" => socket[l] = "open"
  /\ field[Port(l)] = l => pc[l] \in {"configure", "listen", "finally", "ended"}
  /\ pc[l] # "none" => l[2] <= starts

(* Before stop() is called start() was called once at most, so a port has   *)
(* one listener: it listens on its own socket, which only its own finally   *)
(* block has closed.                                                        *)
UnstoppedInv(l) ==
  /\ socket[l] = "closed" => pc[l] = "ended"
  /\ pc[l] = "listen" => listensOn[l] = l

CallerInv ==
  /\ toClose # <<>> => closing
  /\ ~closing => (caller = "idle" /\ starts = 0) \/ (caller = "started" /\ starts = 1)

FieldInv == \A p \in Ports : field[p] # Null => Port(field[p]) = p

Inv ==
  /\ FieldInv
  /\ \A l \in Listeners : SocketInv(l)
  /\ ~closing => \A l \in Listeners : UnstoppedInv(l)
  /\ CallerInv

(* No listener, no socket, an empty field. *)
LEMMA InitInv == Init => Inv
  BY ListenerType DEF Init, Inv, FieldInv, SocketInv, UnstoppedInv, CallerInv

(* Until stop() is called a port has one listener that was started.         *)
LEMMA OneListener ==
  ASSUME TypeOK, Inv, ~closing, NEW l \in Listeners, NEW m \in Listeners,
         Port(l) = Port(m), pc[l] # "none", pc[m] # "none"
  PROVE  l = m
  <1>1. l[2] <= 1 /\ m[2] <= 1
    BY ListenerType DEF Inv, SocketInv, CallerInv, TypeOK
  <1>2. l[2] = 1 /\ m[2] = 1
    BY <1>1, ListenerType
  <1>3. QED
    BY <1>2, ListenerType

(* So the socket such a listener finds in the field of its port is its own. *)
LEMMA OwnField ==
  ASSUME TypeOK, Inv, ~closing, NEW l \in Listeners,
         pc[l] # "none", field[Port(l)] # Null
  PROVE  field[Port(l)] = l
  <1> DEFINE s == field[Port(l)]
  <1>1. s \in Listeners /\ Port(s) = Port(l)
    BY ListenerType DEF TypeOK, Inv, FieldInv
  <1>2. field[Port(s)] = s /\ pc[s] # "none"
    BY <1>1 DEF Inv, SocketInv
  <1>3. QED
    BY <1>1, <1>2, OneListener

(* Closing the socket in a port's field keeps SocketInv: no socket opens,   *)
(* and one that is about to go into the field is not in it.                 *)
LEMMA ClosedSockets ==
  ASSUME TypeOK, FieldInv, NEW p \in Ports, \A l \in Listeners : SocketInv(l),
         socket' = Closed(p), UNCHANGED field, starts' = starts,
         \A l \in Listeners : pc'[l] = pc[l] \/ (pc[l] = "finally" /\ pc'[l] = "ended")
  PROVE  \A l \in Listeners : SocketInv(l)'
  <1> TAKE l \in Listeners
  <1>1. \A m \in Listeners : socket'[m] \in {socket[m], "closed"}
    BY DEF Closed, TypeOK
  <1>2. pc[l] = "assign" => socket'[l] = socket[l]
    <2>1. CASE field[p] = Null
      BY <2>1 DEF Closed
    <2>2. CASE field[p] # Null
      <3>1. field[p] \in Listeners
        BY <2>2 DEF TypeOK
      <3>2. CASE l = field[p]
        <4>1. Port(l) = p
          BY <2>2, <3>2 DEF FieldInv
        <4>2. QED
          BY <3>2, <4>1 DEF SocketInv
      <3>3. CASE l # field[p]
        BY <2>2, <3>1, <3>3 DEF Closed, TypeOK
      <3>4. QED
        BY <3>2, <3>3
    <2>3. QED
      BY <2>1, <2>2
  <1>3. QED
    BY <1>1, <1>2 DEF SocketInv, Sole

(* Every step keeps the inductive invariant. *)
LEMMA NextInv == TypeOK /\ Inv /\ [Next]_vars => Inv'
  <1> SUFFICES ASSUME TypeOK, Inv, [Next]_vars PROVE Inv'
    OBVIOUS
  <1>0. FieldInv /\ (\A l \in Listeners : SocketInv(l)) /\ CallerInv
    BY DEF Inv
  <1> USE DEF Goto
  <1>1. ASSUME NEW P \in SUBSET Ports, Start(P) PROVE Inv'
    <2>1. /\ starts' = starts + 1 /\ starts \in Nat
          /\ \A l \in Listeners :
               pc'[l] = pc[l] \/ (pc'[l] = "get" /\ l[2] = starts + 1 /\ pc[l] = "none")
          /\ UNCHANGED <<closing, field, socket, busy, listensOn, toClose>>
      <3>1. starts \in Nat
        BY MaxStartsAssumption DEF TypeOK
      <3>2. \A l \in Listeners : l[2] = starts + 1 => pc[l] = "none"
        BY <1>0, <3>1, ListenerType DEF SocketInv
      <3>3. QED
        BY <1>1, <3>1, <3>2 DEF Start
    <2>2. \A l \in Listeners : SocketInv(l)'
      <3> TAKE l \in Listeners
      <3>1. SocketInv(l) /\ l[2] \in Nat
        BY <1>0, ListenerType
      <3>2. QED
        BY <2>1, <3>1 DEF SocketInv, Sole
    <2>3. ~closing' => \A l \in Listeners : UnstoppedInv(l)'
      BY <2>1 DEF Inv, UnstoppedInv, SocketInv
    <2>4. CallerInv'
      BY <1>1, <1>0 DEF Start, CallerInv
    <2>5. QED
      BY <1>0, <2>1, <2>2, <2>3, <2>4 DEF Inv, FieldInv
  <1>2. CASE Stop
    BY <1>2, <1>0 DEF Stop, Inv, FieldInv, SocketInv, Sole, CallerInv
  <1>3. CASE StopCloses
    <2>1. Head(toClose) \in Ports
      BY <1>3, NextHead DEF StopCloses, TypeOK
    <2>2. \A l \in Listeners : SocketInv(l)'
      BY <1>0, <1>3, <2>1, ClosedSockets DEF StopCloses
    <2>3. closing'
      BY <1>0, <1>3 DEF StopCloses, CallerInv
    <2>4. QED
      BY <1>0, <1>3, <2>2, <2>3 DEF StopCloses, Inv, FieldInv, CallerInv
  <1>4. ASSUME NEW l \in Listeners, GetSocket(l) PROVE Inv'
    <2>1. ~closing /\ field[Port(l)] # Null => field[Port(l)] = l
      BY <1>4, OwnField DEF GetSocket
    <2>2. QED
      BY <1>4, <1>0, <2>1
         DEF GetSocket, Inv, FieldInv, SocketInv, Sole, UnstoppedInv, CallerInv, TypeOK
  <1>5. ASSUME NEW l \in Listeners, Create(l) PROVE Inv'
    <2>1. \A m \in Listeners : SocketInv(m)'
      BY <1>5, <1>0 DEF Create, SocketInv, Sole, Taken, TypeOK
    <2>2. QED
      BY <1>5, <1>0, <2>1 DEF Create, Inv, FieldInv, CallerInv, UnstoppedInv, TypeOK
  <1>6. ASSUME NEW l \in Listeners, Assign(l) PROVE Inv'
    <2>1. Port(l) \in Ports /\ l # Null
      BY ListenerType
    <2>2. /\ pc' = [pc EXCEPT ![l] = "configure"]
          /\ field' = [field EXCEPT ![Port(l)] = l]
          /\ UNCHANGED <<closing, socket, busy, listensOn, caller, starts, toClose>>
          /\ pc[l] = "assign" /\ socket[l] = "open"
      BY <1>6, <1>0 DEF Assign, SocketInv
    <2>3. FieldInv'
      BY <1>0, <2>1, <2>2 DEF FieldInv, TypeOK
    <2>4. \A m \in Listeners : SocketInv(m)'
      BY <1>0, <2>1, <2>2 DEF SocketInv, Sole, TypeOK
    <2>5. ~closing' => \A m \in Listeners : UnstoppedInv(m)'
      BY <2>1, <2>2 DEF Inv, UnstoppedInv, TypeOK
    <2>6. QED
      BY <1>0, <2>2, <2>3, <2>4, <2>5 DEF Inv, CallerInv
  <1>7. ASSUME NEW l \in Listeners, Configure(l) PROVE Inv'
    <2>1. \A m \in Listeners : SocketInv(m)'
      BY <1>7, <1>0 DEF Configure, SocketInv, Sole, TypeOK
    <2>2. ~closing => field[Port(l)] = l
      BY <1>7, OwnField DEF Configure, TypeOK
    <2>3. QED
      BY <1>7, <1>0, <2>1, <2>2 DEF Configure, Inv, FieldInv, CallerInv, UnstoppedInv, TypeOK
  <1>8. ASSUME NEW l \in Listeners, Receive(l) PROVE Inv'
    BY <1>8, <1>0 DEF Receive, Inv, FieldInv, SocketInv, Sole, CallerInv, TypeOK
  <1>12. ASSUME NEW l \in Listeners, Break(l) PROVE Inv'
    BY <1>12, <1>0 DEF Break, Inv, FieldInv, SocketInv, Sole, UnstoppedInv, CallerInv, TypeOK
  <1>9. ASSUME NEW l \in Listeners, Finally(l) PROVE Inv'
    <2>1. \A m \in Listeners : SocketInv(m)'
      BY <1>9, <1>0, ListenerType, ClosedSockets DEF Finally, TypeOK
    <2>2. ~closing /\ field[Port(l)] # Null => field[Port(l)] = l
      BY <1>9, OwnField DEF Finally
    <2>3. ~closing' => \A m \in Listeners : UnstoppedInv(m)'
      BY <1>9, <2>2 DEF Finally, Closed, Inv, UnstoppedInv, TypeOK
    <2>4. QED
      BY <1>9, <1>0, <2>1, <2>3 DEF Finally, Inv, FieldInv, CallerInv
  <1>10. CASE UNCHANGED vars
    BY <1>10 DEF vars, Inv, FieldInv, SocketInv, Sole, UnstoppedInv, CallerInv
  <1>11. QED
    BY <1>1, <1>2, <1>3, <1>4, <1>5, <1>6, <1>7, <1>8, <1>9, <1>10, <1>12 DEF Next

(* The inductive invariant holds from the start: the three theorems below   *)
(* are its consequences.                                                    *)
THEOREM Invariant == Spec => [](TypeOK /\ Inv)
  BY InitType, InitInv, NextType, NextInv, PTL DEF Spec

(* stop() and the finally blocks can always reach every open socket, for    *)
(* any number of starts and stops (getAuthSocket, getAcctSocket).           *)
THEOREM SocketsAreReachable == Spec => []NoLostSocket
  <1>1. Inv => NoLostSocket
    BY DEF Inv, SocketInv, NoLostSocket
  <1>2. QED
    BY <1>1, Invariant, PTL

(* A listener whose socket is closed under it ends instead of spinning, for *)
(* the flag is set by then (listen's "retry s.receive()").                  *)
THEOREM ListenersDoNotSpin == Spec => []NoBusyLoop
  <1>1. TypeOK /\ Inv => NoBusyLoop
    BY DEF TypeOK, Inv, UnstoppedInv, NoBusyLoop
  <1>2. QED
    BY <1>1, Invariant, PTL
=============================================================================
