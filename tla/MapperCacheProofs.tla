------------------------- MODULE MapperCacheProofs -------------------------
(***************************************************************************)
(* MapperCache for any queries, sessions and number of writes: its types,  *)
(* and that only a session that a commit overlapped makes a later query    *)
(* read less than what was committed before it.                            *)
(***************************************************************************)
EXTENDS MapperCache, TLAPS

LEMMA TypeInit == Init => TypeOK
  BY MaxWritesAssumption DEF Init, TypeOK, None, Versions, PCs

(* A session that ends has nothing staged.                                  *)
LEMMA EndTyped ==
  ASSUME TypeOK, NEW s \in Sessions, End(s)
  PROVE  /\ pc' \in [Sessions -> PCs]
         /\ staged' \in [Sessions -> Versions \cup {None}]
         /\ waiting' \subseteq Sessions
         /\ overlapped' \subseteq Sessions
         /\ \A r \in Sessions : staged'[r] # None => pc'[r] \in {"publish", "update"}
  BY DEF TypeOK, End, Goto, PCs

LEMMA TypeNext == TypeOK /\ [Next]_vars => TypeOK'
<1> SUFFICES ASSUME TypeOK, [Next]_vars PROVE TypeOK'
  OBVIOUS
<1> USE MaxWritesAssumption DEF TypeOK, table, session, history, Goto, PCs, Versions
<1>1. ASSUME NEW s \in Sessions, NEW q \in Queries, Read(s, q) PROVE TypeOK'
  BY <1>1 DEF Read
<1>2. ASSUME NEW s \in Sessions, Select(s) PROVE TypeOK'
  BY <1>2 DEF Select
<1>3. ASSUME NEW s \in Sessions, FailSelect(s) PROVE TypeOK'
  BY <1>3, EndTyped DEF FailSelect
<1>4. ASSUME NEW s \in Sessions, Publish(s) PROVE TypeOK'
  <2>1. cached' \in [Queries -> Versions \cup {None}]
    BY <1>4 DEF Publish
  <2>2. poisoned' \subseteq Queries
    BY <1>4 DEF Publish
  <2> QED
    BY <1>4, <2>1, <2>2, EndTyped DEF Publish
<1>5. ASSUME NEW s \in Sessions, Add(s) PROVE TypeOK'
  BY <1>5 DEF Add, BeginWrite
<1>6. ASSUME NEW s \in Sessions, NEW q \in Queries, Remove(s, q) PROVE TypeOK'
  BY <1>6 DEF Remove, BeginWrite
<1>7. ASSUME NEW s \in Sessions, Update(s) PROVE TypeOK'
  BY <1>7 DEF Update
<1>8. ASSUME NEW s \in Sessions, FailUpdate(s) PROVE TypeOK'
  BY <1>8 DEF FailUpdate
<1>9. ASSUME NEW s \in Sessions, Commit(s) PROVE TypeOK'
  BY <1>9 DEF Commit, Readers
<1>10. ASSUME NEW s \in Sessions, Clear(s) PROVE TypeOK'
  <2>1. cached' \in [Queries -> Versions \cup {None}]
    BY <1>10 DEF Clear, Empty
  <2> QED
    BY <1>10, <2>1, EndTyped DEF Clear
<1>11. ASSUME NEW s \in Sessions, Wait(s) PROVE TypeOK'
  BY <1>11 DEF Wait
<1>12. CASE Crash
  BY <1>12 DEF Crash, Empty
<1>13. CASE UNCHANGED vars
  BY <1>13 DEF vars
<1> QED
  BY <1>1, <1>2, <1>3, <1>4, <1>5, <1>6, <1>7, <1>8, <1>9, <1>10, <1>11,
     <1>12, <1>13 DEF Next, Open, Step, Fail

(* The state of table, cache and sessions keeps its types, and a session    *)
(* that has changed the table has nothing staged to publish (query, close). *)
THEOREM TypeCorrect == Spec => []TypeOK
  BY TypeInit, TypeNext, PTL DEF Spec

-----------------------------------------------------------------------------
(* A result staged by a session that no commit has overlapped is what the   *)
(* table holds.                                                             *)
StagedIsStored ==
  \A s \in Sessions :
    pc[s] = "publish" /\ s \notin overlapped => staged[s] = stored

CacheInv ==
  /\ TypeOK
  /\ StagedIsStored
  /\ completed <= stored
  /\ SharedIsStored
  /\ ReadsCompleted

LEMMA CacheInit == Init => CacheInv
<1> SUFFICES ASSUME Init PROVE CacheInv
  OBVIOUS
<1> QED
  BY TypeInit DEF Init, CacheInv, StagedIsStored, SharedIsStored, ReadsCompleted,
     Hit, None

(* The cache is empty, and what it is said to hold is right.                *)
LEMMA EmptyIsRight ==
  ASSUME cached' = Empty PROVE SharedIsStored' /\ ReadsCompleted'
  BY DEF Empty, SharedIsStored, ReadsCompleted, Hit

(* Steps that leave table, cache and their histories alone, and neither end *)
(* nor begin the time between a commit and its clear.                       *)
LEMMA QuietSteps ==
  ASSUME CacheInv, UNCHANGED <<stored, cached, completed, poisoned>>,
         Pending' = Pending
  PROVE  completed' <= stored' /\ SharedIsStored' /\ ReadsCompleted'
  BY DEF CacheInv, SharedIsStored, ReadsCompleted, Hit

LEMMA CacheNext == CacheInv /\ [Next]_vars => CacheInv'
<1> SUFFICES ASSUME CacheInv, [Next]_vars PROVE CacheInv'
  OBVIOUS
<1>0. TypeOK /\ TypeOK'
  BY TypeNext DEF CacheInv
<1> USE <1>0 DEF table, session, history, Goto
<1>1. ASSUME NEW s \in Sessions, NEW q \in Queries, Read(s, q) PROVE CacheInv'
  <2>1. StagedIsStored'
    BY <1>1 DEF Read, CacheInv, StagedIsStored, TypeOK
  <2>2. Pending' = Pending
    BY <1>1 DEF Read, Pending, TypeOK
  <2> QED
    BY <1>1, <2>1, <2>2, QuietSteps DEF Read, CacheInv
<1>2. ASSUME NEW s \in Sessions, Select(s) PROVE CacheInv'
  <2>1. StagedIsStored'
    BY <1>2 DEF Select, CacheInv, StagedIsStored, TypeOK
  <2>2. Pending' = Pending
    BY <1>2 DEF Select, Pending, TypeOK
  <2> QED
    BY <1>2, <2>1, <2>2, QuietSteps DEF Select, CacheInv
<1>3. ASSUME NEW s \in Sessions, FailSelect(s) PROVE CacheInv'
  <2>1. StagedIsStored'
    BY <1>3 DEF FailSelect, End, CacheInv, StagedIsStored, TypeOK
  <2>2. Pending' = Pending
    BY <1>3 DEF FailSelect, End, Pending, TypeOK
  <2> QED
    BY <1>3, <2>1, <2>2, QuietSteps DEF FailSelect, CacheInv
<1>4. ASSUME NEW s \in Sessions, Publish(s) PROVE CacheInv'
  <2>1. StagedIsStored'
    BY <1>4 DEF Publish, End, CacheInv, StagedIsStored, TypeOK
  <2>2. Pending' = Pending
    BY <1>4 DEF Publish, End, Pending, TypeOK
  <2>3. ASSUME NEW q \in Queries \ poisoned'
        PROVE  \/ cached'[q] \in {None, stored}
               \/ cached'[q] = cached[q] /\ q \notin poisoned
    <3>1. CASE q = query[s]
      BY <1>4, <3>1 DEF Publish, CacheInv, StagedIsStored
    <3>2. CASE q # query[s]
      BY <1>4, <3>2 DEF Publish
    <3> QED
      BY <3>1, <3>2
  <2>4. SharedIsStored'
    BY <1>4, <2>2, <2>3 DEF Publish, CacheInv, SharedIsStored
  <2>5. ReadsCompleted'
    BY <1>4, <2>3 DEF Publish, CacheInv, ReadsCompleted, Hit, TypeOK, Versions
  <2> QED
    BY <1>4, <2>1, <2>4, <2>5 DEF Publish, CacheInv
<1>5. ASSUME NEW s \in Sessions, Add(s) PROVE CacheInv'
  <2>1. StagedIsStored'
    BY <1>5 DEF Add, CacheInv, StagedIsStored, TypeOK
  <2>2. Pending' = Pending
    BY <1>5 DEF Add, Pending, TypeOK
  <2> QED
    BY <1>5, <2>1, <2>2, QuietSteps DEF Add, CacheInv
<1>6. ASSUME NEW s \in Sessions, NEW q \in Queries, Remove(s, q) PROVE CacheInv'
  <2>1. StagedIsStored'
    BY <1>6 DEF Remove, CacheInv, StagedIsStored, TypeOK
  <2>2. Pending' = Pending
    BY <1>6 DEF Remove, Pending, TypeOK
  <2> QED
    BY <1>6, <2>1, <2>2, QuietSteps DEF Remove, CacheInv
<1>7. ASSUME NEW s \in Sessions, Update(s) PROVE CacheInv'
  <2>1. StagedIsStored'
    BY <1>7 DEF Update, CacheInv, StagedIsStored, TypeOK
  <2>2. Pending' = Pending
    BY <1>7 DEF Update, Pending, TypeOK
  <2> QED
    BY <1>7, <2>1, <2>2, QuietSteps DEF Update, CacheInv
<1>8. ASSUME NEW s \in Sessions, FailUpdate(s) PROVE CacheInv'
  <2>1. StagedIsStored'
    BY <1>8 DEF FailUpdate, CacheInv, StagedIsStored, TypeOK
  <2>2. Pending' = Pending
    BY <1>8 DEF FailUpdate, Pending, TypeOK
  <2> QED
    BY <1>8, <2>1, <2>2, QuietSteps DEF FailUpdate, CacheInv
<1>9. ASSUME NEW s \in Sessions, Commit(s) PROVE CacheInv'
  <2>1. StagedIsStored'
    BY <1>9 DEF Commit, CacheInv, StagedIsStored, Readers, TypeOK
  <2>2. s \in Pending'
    BY <1>9 DEF Commit, Pending, TypeOK
  <2>3. SharedIsStored'
    BY <2>2 DEF SharedIsStored
  <2>4. ReadsCompleted'
    BY <1>9 DEF Commit, CacheInv, ReadsCompleted, Hit
  <2>5. completed' <= stored'
    BY <1>9 DEF Commit, CacheInv, TypeOK, Versions
  <2> QED
    BY <2>1, <2>3, <2>4, <2>5 DEF CacheInv
<1>10. ASSUME NEW s \in Sessions, Clear(s) PROVE CacheInv'
  <2>1. StagedIsStored'
    BY <1>10 DEF Clear, End, CacheInv, StagedIsStored, TypeOK
  <2>2. completed' <= stored'
    BY <1>10 DEF Clear, CacheInv, TypeOK, Versions
  <2> QED
    BY <1>10, <2>1, <2>2, EmptyIsRight DEF Clear, CacheInv
<1>11. ASSUME NEW s \in Sessions, Wait(s) PROVE CacheInv'
  <2>1. StagedIsStored' /\ Pending' = Pending
    BY <1>11 DEF Wait, CacheInv, StagedIsStored, Pending
  <2> QED
    BY <1>11, <2>1, QuietSteps DEF Wait, CacheInv
<1>12. CASE Crash
  <2>1. StagedIsStored' /\ completed' <= stored'
    BY <1>12 DEF Crash, CacheInv, StagedIsStored
  <2> QED
    BY <1>12, <2>1, EmptyIsRight DEF Crash, CacheInv
<1>13. CASE UNCHANGED vars
  <2>1. StagedIsStored' /\ Pending' = Pending
    BY <1>13 DEF vars, CacheInv, StagedIsStored, Pending
  <2> QED
    BY <1>13, <2>1, QuietSteps DEF vars, CacheInv
<1> QED
  BY <1>1, <1>2, <1>3, <1>4, <1>5, <1>6, <1>7, <1>8, <1>9, <1>10, <1>11,
     <1>12, <1>13 DEF Next, Open, Step, Fail

(* The inductive invariant: sessions that no commit overlapped hold what    *)
(* the table holds.                                                         *)
THEOREM CacheCorrect == Spec => []CacheInv
  BY CacheInit, CacheNext, PTL DEF Spec

(* A shared result is what the table holds but for a commit that has not    *)
(* cleared the cache yet, and for results of overlapped sessions            *)
(* (CachingExecutor below StatService and UserService).                     *)
THEOREM SharedResultsAreStored == Spec => []SharedIsStored
<1>1. CacheInv => SharedIsStored
  BY DEF CacheInv
<1> QED
  BY <1>1, CacheCorrect, PTL

(* A query that finds a shared result of no overlapped session sees every   *)
(* commit that returned before it, whatever other sessions commit meanwhile *)
(* (the same).                                                              *)
THEOREM CompletedWritesAreRead == Spec => []ReadsCompleted
<1>1. CacheInv => ReadsCompleted
  BY DEF CacheInv
<1> QED
  BY <1>1, CacheCorrect, PTL

-----------------------------------------------------------------------------
(* Locks.                                                                   *)

(* Whoever has changed the table waits for nothing before the database's    *)
(* commit lets go of it, and whoever waits for the cache's lock to write,   *)
(* which keeps queries out, is about to write.                              *)
LockInv ==
  /\ \A s \in owner : pc[s] = "commit"
  /\ \A s \in waiting : pc[s] \in {"publish", "clear", "rollback"}

(* What a session's next step waits for: a query for the table, publishing  *)
(* and clearing for the queries, a change for the table.                    *)
CanGoOn(s) ==
  \/ pc[s] \in {"select", "selectFirst", "update"} /\ owner = {}
  \/ pc[s] \in {"publish", "clear", "rollback"} /\ Querying = {}
  \/ pc[s] = "commit"

(* Everybody waits for somebody who can go on: a chain of waits is at most  *)
(* a publisher, a query and an owner of the table, and never a circle.      *)
NoCircle ==
  /\ \A s \in Sessions : pc[s] # "idle" =>
       \/ CanGoOn(s)
       \/ \E r \in owner : CanGoOn(r)
       \/ \E r \in Querying : CanGoOn(r)
  /\ waiting # {} => \E s \in Sessions : CanGoOn(s)

LEMMA LockInit == Init => LockInv
  BY DEF Init, LockInv

(* A commit lets go of the table before it asks for the cache's lock.       *)
LEMMA LockNext == TypeOK /\ LockInv /\ [Next]_vars => LockInv'
<1> SUFFICES ASSUME TypeOK, LockInv, [Next]_vars PROVE LockInv'
  OBVIOUS
<1> USE DEF TypeOK, LockInv, table, session, history, Goto, End, PCs
<1>1. ASSUME NEW s \in Sessions, Open(s) PROVE LockInv'
  BY <1>1 DEF Open, Add, Read, Remove
<1>2. ASSUME NEW s \in Sessions, Select(s) \/ FailSelect(s) PROVE LockInv'
  BY <1>2 DEF Select, FailSelect
<1>3. ASSUME NEW s \in Sessions, Publish(s) \/ Clear(s) PROVE LockInv'
  BY <1>3 DEF Publish, Clear
<1>4. ASSUME NEW s \in Sessions, Update(s) \/ FailUpdate(s) \/ Commit(s) PROVE LockInv'
  BY <1>4 DEF Update, FailUpdate, Commit
<1>5. ASSUME NEW s \in Sessions, Wait(s) PROVE LockInv'
  BY <1>5 DEF Wait
<1>6. CASE Crash
  BY <1>6 DEF Crash
<1>7. CASE UNCHANGED vars
  BY <1>7 DEF vars
<1> QED
  BY <1>1, <1>2, <1>3, <1>4, <1>5, <1>6, <1>7 DEF Next, Step, Fail

(* Sessions that read and sessions that write do not block one another: a   *)
(* query that waits for the table with the cache's lock waits for a commit  *)
(* that has not asked for that lock yet (DBService: setCacheEnabled).       *)
THEOREM SessionsDoNotBlock == Spec => []NoCircle
<1>1. TypeOK /\ LockInv => NoCircle
  <2> SUFFICES ASSUME TypeOK, LockInv PROVE NoCircle
    OBVIOUS
  <2>1. \A r \in owner : r \in Sessions /\ CanGoOn(r)
    BY DEF TypeOK, LockInv, CanGoOn
  <2>2. owner = {} => \A r \in Querying : r \in Sessions /\ CanGoOn(r)
    BY DEF Querying, CanGoOn
  <2>3. \A s \in Sessions : pc[s] # "idle" =>
          \/ CanGoOn(s)
          \/ \E r \in owner : CanGoOn(r)
          \/ \E r \in Querying : CanGoOn(r)
    BY <2>1, <2>2 DEF TypeOK, PCs, CanGoOn
  <2>4. \A s \in waiting : s \in Sessions /\ pc[s] # "idle"
    BY DEF TypeOK, LockInv
  <2>5. \A r \in Querying : r \in Sessions
    BY DEF Querying
  <2> QED
    BY <2>1, <2>3, <2>4, <2>5 DEF NoCircle
<1> QED
  BY <1>1, LockInit, LockNext, TypeCorrect, PTL DEF Spec
=============================================================================
