---------------------------- MODULE MapperCache ----------------------------
(***************************************************************************)
(* The sessions of DBService and the cache between them and the database:  *)
(* setCacheEnabled(true), and a <cache/> in each mapper's XML file.  One   *)
(* mapper, that of RAD_ONLINE for example, with the results of its         *)
(* SELECTs, shared by all sessions, and the sessions of StatService that   *)
(* use it.  The other services' sessions have the same shapes.             *)
(*                                                                         *)
(* A table is a version number: the transactions that have changed it.  A  *)
(* result is the version that its SELECT read.                             *)
(*                                                                         *)
(* The cache has a read/write lock.  A query holds it for reading from the *)
(* lookup to the end of its SELECT, and does not get it while a writer     *)
(* waits; the result is the session's own until the session is closed,     *)
(* which publishes it.  A commit is the database's first; then the cache   *)
(* is cleared.  In the database a SELECT waits for a transaction that has  *)
(* changed the table.                                                      *)
(***************************************************************************)
EXTENDS Integers

CONSTANTS
  Queries,    \* SELECT statements of the mapper, with their parameters
  Sessions,   \* threads that open a session, one at a time each
  MaxWrites   \* bound: sessions that change the table

ASSUME MaxWritesAssumption == MaxWrites \in Nat

None == -1
Versions == Nat

VARIABLES
  stored,      \* version of the table, committed
  cached,      \* the shared results
  pc, query,   \* next step and query of each session
  staged,      \* the result a session will publish
  owner,       \* sessions that have changed the table and not ended yet
  waiting,     \* sessions that wait for the lock to write
  begun,       \* number of sessions begun that change the table
  completed,   \* history: the version when a commit was last returned from
  overlapped,  \* history: readers during whose sessions a commit came
  poisoned     \* history: queries whose shared result is from one of these

table   == <<stored, owner>>
session == <<pc, query, staged, waiting>>
history == <<completed, overlapped, poisoned>>
vars    == <<table, cached, session, begun, history>>

PCs == {"idle", "select", "selectFirst", "publish", "update", "commit",
        "clear", "rollback"}

TypeOK ==
  /\ stored \in Versions
  /\ cached \in [Queries -> Versions \cup {None}]
  /\ pc \in [Sessions -> PCs]
  /\ query \in [Sessions -> Queries]
  /\ staged \in [Sessions -> Versions \cup {None}]
  /\ owner \subseteq Sessions
  /\ waiting \subseteq Sessions
  /\ begun \in 0 .. MaxWrites
  /\ completed \in Versions
  /\ overlapped \subseteq Sessions
  /\ poisoned \subseteq Queries
  /\ \A s \in Sessions : staged[s] # None => pc[s] \in {"publish", "update"}

Init ==
  /\ stored = 0
  /\ cached = [q \in Queries |-> None]
  /\ pc = [s \in Sessions |-> "idle"]
  /\ query \in [Sessions -> Queries]
  /\ staged = [s \in Sessions |-> None]
  /\ owner = {}
  /\ waiting = {}
  /\ begun = 0
  /\ completed = 0
  /\ overlapped = {}
  /\ poisoned = {}

Goto(s, label) == pc' = [pc EXCEPT ![s] = label]

(* The sessions that hold the cache's lock for reading.                     *)
Querying == {s \in Sessions : pc[s] \in {"select", "selectFirst"}}

-----------------------------------------------------------------------------
(* Sessions that read: countOnline, getOnline, getOnlines.                  *)

Hit(q) == cached[q] # None

(* The result is shared: there is nothing to SELECT or to publish.          *)
Read(s, q) ==
  /\ pc[s] = "idle"
  /\ waiting = {}
  /\ query' = [query EXCEPT ![s] = q]
  /\ IF Hit(q) THEN UNCHANGED pc ELSE Goto(s, "select")
  /\ UNCHANGED <<table, cached, staged, waiting, begun, history>>

(* The SELECT, and the end of the lock.                                     *)
Select(s) ==
  /\ pc[s] \in {"select", "selectFirst"}
  /\ owner = {}
  /\ staged' = [staged EXCEPT ![s] = stored]
  /\ Goto(s, IF pc[s] = "select" THEN "publish" ELSE "update")
  /\ UNCHANGED <<table, cached, query, waiting, begun, history>>

End(s) ==
  /\ Goto(s, "idle")
  /\ staged' = [staged EXCEPT ![s] = None]
  /\ overlapped' = overlapped \ {s}
  /\ waiting' = waiting \ {s}

(* The lock is held for reading: publishing and clearing wait for it.       *)
Wait(s) ==
  /\ pc[s] \in {"publish", "clear", "rollback"}
  /\ s \notin waiting
  /\ Querying # {}
  /\ waiting' = waiting \cup {s}
  /\ UNCHANGED <<table, cached, pc, query, staged, begun, history>>

(* The SELECT throws, and the session is closed.                            *)
FailSelect(s) ==
  /\ pc[s] \in {"select", "selectFirst"}
  /\ End(s)
  /\ UNCHANGED <<table, cached, query, begun, completed, poisoned>>

(* close(): the result becomes everybody's, and may push another one out.   *)
Publish(s) ==
  LET q == query[s] IN
  /\ pc[s] = "publish"
  /\ Querying = {}
  /\ \E out \in Queries :
       cached' = [r \in Queries |->
                    IF r = q THEN staged[s] ELSE IF r = out THEN None ELSE cached[r]]
  /\ poisoned' = IF s \in overlapped THEN poisoned \cup {q} ELSE poisoned \ {q}
  /\ End(s)
  /\ UNCHANGED <<table, query, begun, completed>>

-----------------------------------------------------------------------------
(* Sessions that write: addOnline and delete; and those that SELECT what    *)
(* they delete, getOnlineAndRemove and getOnlinesAndClear.                  *)

BeginWrite ==
  /\ begun < MaxWrites
  /\ begun' = begun + 1

Add(s) ==
  /\ pc[s] = "idle"
  /\ BeginWrite
  /\ Goto(s, "update")
  /\ UNCHANGED <<table, cached, query, staged, waiting, history>>

Remove(s, q) ==
  /\ pc[s] = "idle"
  /\ waiting = {}
  /\ BeginWrite
  /\ query' = [query EXCEPT ![s] = q]
  /\ Goto(s, IF Hit(q) THEN "update" ELSE "selectFirst")
  /\ UNCHANGED <<table, cached, staged, waiting, history>>

(* Mutant: what the session has staged is kept.                             *)
UpdateKeeping(s) ==
  /\ pc[s] = "update"
  /\ owner = {}
  /\ owner' = {s}
  /\ Goto(s, "commit")
  /\ UNCHANGED <<stored, cached, query, staged, waiting, begun, history>>

(* What the session has staged is dropped, then the table is changed.       *)
Update(s) ==
  /\ pc[s] = "update"
  /\ owner = {}
  /\ owner' = {s}
  /\ staged' = [staged EXCEPT ![s] = None]
  /\ Goto(s, "commit")
  /\ UNCHANGED <<stored, cached, query, waiting, begun, history>>

(* The statement throws.  close() clears the cache, and then rolls back.    *)
FailUpdate(s) ==
  /\ pc[s] = "update"
  /\ staged' = [staged EXCEPT ![s] = None]
  /\ Goto(s, "rollback")
  /\ UNCHANGED <<table, cached, query, waiting, begun, history>>

Readers == {r \in Sessions : pc[r] = "publish"}

(* Mutant: the transaction ends after the cache is cleared.                 *)
CommitLate(s) ==
  /\ pc[s] = "commit"
  /\ stored' = stored + 1
  /\ overlapped' = overlapped \cup Readers
  /\ Goto(s, "clear")
  /\ UNCHANGED <<owner, cached, query, staged, waiting, begun, completed, poisoned>>

(* commit(), in the database.                                               *)
Commit(s) ==
  /\ pc[s] = "commit"
  /\ stored' = stored + 1
  /\ owner' = owner \ {s}
  /\ overlapped' = overlapped \cup Readers
  /\ Goto(s, "clear")
  /\ UNCHANGED <<cached, query, staged, waiting, begun, completed, poisoned>>

Empty == [q \in Queries |-> None]

(* Mutants: the cache is left as it is; and only the session's own query is *)
(* cleared.                                                                 *)
ClearNothing(s) ==
  /\ pc[s] \in {"clear", "rollback"}
  /\ Querying = {}
  /\ completed' = IF pc[s] = "clear" THEN stored ELSE completed
  /\ owner' = owner \ {s}
  /\ End(s)
  /\ UNCHANGED <<stored, cached, query, begun, poisoned>>

ClearQuery(s) ==
  /\ pc[s] \in {"clear", "rollback"}
  /\ Querying = {}
  /\ cached' = [cached EXCEPT ![query[s]] = None]
  /\ poisoned' = poisoned \ {query[s]}
  /\ completed' = IF pc[s] = "clear" THEN stored ELSE completed
  /\ owner' = owner \ {s}
  /\ End(s)
  /\ UNCHANGED <<stored, query, begun>>

(* The cache is cleared: the rest of commit(), or of a close() after a      *)
(* failure.                                                                 *)
Clear(s) ==
  /\ pc[s] \in {"clear", "rollback"}
  /\ Querying = {}
  /\ cached' = Empty
  /\ poisoned' = {}
  /\ completed' = IF pc[s] = "clear" THEN stored ELSE completed
  /\ owner' = owner \ {s}
  /\ End(s)
  /\ UNCHANGED <<stored, query, begun>>

-----------------------------------------------------------------------------
(* The process is killed and started again; the database has rolled back.   *)
Crash ==
  /\ cached' = Empty
  /\ pc' = [s \in Sessions |-> "idle"]
  /\ staged' = [s \in Sessions |-> None]
  /\ owner' = {}
  /\ waiting' = {}
  /\ overlapped' = {}
  /\ poisoned' = {}
  /\ UNCHANGED <<stored, query, begun, completed>>

Open(s) == Add(s) \/ \E q \in Queries : Read(s, q) \/ Remove(s, q)

Step(s) ==
  \/ Select(s) \/ Publish(s) \/ Update(s) \/ Commit(s) \/ Clear(s)
  \/ Wait(s)

Fail(s) == FailSelect(s) \/ FailUpdate(s)

Next == (\E s \in Sessions : Open(s) \/ Step(s) \/ Fail(s)) \/ Crash

Spec == Init /\ [][Next]_vars

(* A session goes on when it can.                                           *)
FairSpec == Spec /\ \A s \in Sessions : WF_vars(Step(s))

-----------------------------------------------------------------------------
(* Committed, and the cache not cleared yet.                                *)
Pending == {s \in Sessions : pc[s] = "clear"}

(* A shared result is what the table holds, unless a session has committed  *)
(* and not cleared the cache yet, or the result was published by a session  *)
(* that had SELECTed before a commit and was closed after it.  The last     *)
(* kind is served to every later query until the next commit.               *)
SharedIsStored ==
  Pending = {} => \A q \in Queries \ poisoned : cached[q] \in {None, stored}

(* A query that begins after a commit has returned sees it, also while      *)
(* other sessions commit, but for results of the last kind.                 *)
ReadsCompleted ==
  \A q \in Queries \ poisoned : Hit(q) => cached[q] >= completed

(* Every session ends: none waits for the table with the cache's lock for   *)
(* another that waits for this lock with the table's.                       *)
SessionsEnd == \A s \in Sessions : pc[s] # "idle" ~> pc[s] = "idle"
=============================================================================
