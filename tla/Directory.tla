------------------------------ MODULE Directory ------------------------------
(***************************************************************************)
(* What CacheService promises its readers, the two servers, about the      *)
(* tables it caches: a field of a user or a group is seen as it is stored, *)
(* or as it was before the one write that has not reached the cache yet.   *)
(* Nothing is promised of a field in which two writers met: it is Unknown  *)
(* until the cache is loaded again.                                        *)
(***************************************************************************)
CONSTANTS
  Keys,      \* the fields of all users and groups
  Values,    \* what a field may hold, its absence included
  Unknown    \* a field nothing is promised of, none of Values

VARIABLES
  stored,    \* what the database holds
  seen       \* what a reader of the cache finds

vars == <<stored, seen>>

Settled(k) == seen[k] \in {stored[k], Unknown}

Init ==
  /\ stored \in [Keys -> Values]
  /\ seen = stored

(* A transaction commits.  It changes fields that are settled, or gives     *)
(* them up; a writer who meets another one only gives up fields.            *)
Write ==
  /\ stored' \in [Keys -> Values]
  /\ \A k \in Keys :
       /\ seen'[k] \in {seen[k], Unknown}
       /\ stored'[k] = stored[k] \/ Settled(k) \/ seen'[k] = Unknown
  /\ seen' \in [Keys -> Values \cup {Unknown}]

(* The cache follows: fields come to be seen as they are stored.            *)
Follow ==
  /\ stored' = stored
  /\ \A k \in Keys :
       \/ seen'[k] = seen[k]
       \/ seen[k] # Unknown /\ seen'[k] = stored[k]
  /\ seen' \in [Keys -> Values \cup {Unknown}]

(* The process is started again and loads the cache.                        *)
Restart ==
  /\ stored' = stored
  /\ seen' = stored

Next == Write \/ Follow \/ Restart

Spec == Init /\ [][Next]_vars

(* Every field that was written is seen as stored sooner or later, or is    *)
(* given up; then the next write finds it settled.                          *)
CatchesUp == \A k \in Keys : []<>Settled(k)
=============================================================================
