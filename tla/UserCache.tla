------------------------------ MODULE UserCache ------------------------------
(***************************************************************************)
(* UserService and CacheService: the tables of users, groups and their     *)
(* attributes, the four concurrent maps that cache them for the servers,   *)
(* and the operations of the console (UserAction, GroupAction) that write  *)
(* the first and then the second.                                          *)
(*                                                                         *)
(* A task is one HTTP request of the console, or the login that binds an   *)
(* address.  An operation is a transaction, then one step for each access  *)
(* to a map of the cache or to an object found there.  Users and groups    *)
(* are handled by pairs of methods that do the same; where they do not,    *)
(* the definition says so.                                                 *)
(*                                                                         *)
(* An attribute list is an object: a thread that has got it from the map   *)
(* changes it under its lock, although the map may hold another by then.   *)
(* No list or record that left the map comes back, so of its identity only *)
(* this matters: whether what a thread holds is what the map holds.        *)
(* A SELECT reads what is committed (but see module MapperCache).          *)
(***************************************************************************)
EXTENDS Naturals

CONSTANTS
  Users, Groups,   \* names of users and groups
  Attrs,           \* names of attributes
  Values,          \* contents of an attribute or a record
  Inputs,          \* those the requests of an instance carry
  Absent,          \* no row, or nothing in a map
  Record,          \* a user's or group's own row, as against attributes
  Exists,          \* the one content of a group that its readers look at
  Unknown,         \* a field of the directory nothing is promised of
  Tasks,           \* requests of the console
  MaxOps           \* bound: operations begun

Owners   == Users \cup Groups
Fields   == Attrs \cup {Record}
Contents == Values \cup {Absent}
Keys     == Owners \X Fields

ASSUME NamesAssumption == Users \cap Groups = {} /\ Record \notin Attrs
ASSUME AbsentAssumption == Absent \notin Values \cup {Exists}
ASSUME UnknownAssumption == Unknown \notin Values \cup {Exists, Absent}
ASSUME InputsAssumption == Inputs \subseteq Values
ASSUME MaxOpsAssumption == MaxOps \in Nat

VARIABLES
  record,       \* RAD_USER and RAD_GROUP
  metas,        \* RAD_USER_META and RAD_GROUP_META, by owner and name
  recordCache,  \* userCache and groupCache
  metaCache,    \* userMetaCache and groupMetaCache: the lists' contents
  listed,       \* whether these maps hold a list for the owner
  pc, op,       \* next step and operation of each task
  rows,         \* the attribute rows a task has selected
  holds,        \* whether the object a task holds is still in the cache
  tangled,      \* history: fields in which two operations met
  begun         \* number of operations begun

tables == <<record, metas>>
cache  == <<recordCache, metaCache, listed>>
locals == <<pc, op, rows, holds>>
vars   == <<tables, cache, locals, tangled, begun>>

RecordKinds == {"insert", "update"}
MetaKinds   == {"addMeta", "updateMeta", "deleteMeta"}
Kinds == RecordKinds \cup MetaKinds \cup {"delete"}
PCs == {"idle", "write", "find", "putRecord", "select", "putMetas", "sync",
        "uncache", "uncacheMetas", "putList", "change"}

Op == [kind : Kinds, owner : Owners, field : Fields, value : Contents,
       touches : SUBSET Fields]
NoOp   == [kind |-> "none", owner |-> Absent]
NoRows == [a \in Attrs |-> Absent]

TypeOK ==
  /\ record \in [Owners -> Contents]
  /\ metas \in [Owners -> [Attrs -> Contents]]
  /\ recordCache \in [Owners -> Contents]
  /\ metaCache \in [Owners -> [Attrs -> Contents]]
  /\ listed \in [Owners -> BOOLEAN]
  /\ pc \in [Tasks -> PCs]
  /\ op \in [Tasks -> Op \cup {NoOp}]
  /\ rows \in [Tasks -> [Attrs -> Contents]]
  /\ holds \in [Tasks -> BOOLEAN]
  /\ tangled \subseteq Keys
  /\ begun \in Nat
  /\ \A t \in Tasks : pc[t] # "idle" => op[t] \in Op
  /\ \A o \in Owners : ~listed[o] => metaCache[o] = NoRows

(* CacheService.start(): an owner without attributes gets no list.          *)
Lists == [o \in Owners |-> metas[o] # NoRows]

Init ==
  /\ record \in [Owners -> Contents]
  /\ metas \in [Owners -> [Attrs -> Contents]]
  /\ recordCache = record
  /\ metaCache = metas
  /\ listed = Lists
  /\ pc = [t \in Tasks |-> "idle"]
  /\ op = [t \in Tasks |-> NoOp]
  /\ rows = [t \in Tasks |-> NoRows]
  /\ holds = [t \in Tasks |-> FALSE]
  /\ tangled = {}
  /\ begun = 0

Goto(t, label) == pc' = [pc EXCEPT ![t] = label]

(* The request is over: its locals are gone.                                *)
Finish(t) ==
  /\ Goto(t, "idle")
  /\ op' = [op EXCEPT ![t] = NoOp]
  /\ rows' = [rows EXCEPT ![t] = NoRows]

(* An object leaves the map: the tasks that hold it hold a thing of the past. *)
Drop(o, kinds) ==
  holds' = [s \in Tasks |->
              holds[s] /\ ~(op[s].owner = o /\ op[s].kind \in kinds)]

Release(t) == holds' = [holds EXCEPT ![t] = FALSE]

At(t, label, kinds) == pc[t] = label /\ op[t].kind \in kinds

-----------------------------------------------------------------------------
(* An operation begins: what the console's handler looks up before it calls *)
(* UserService.                                                             *)

Busy(t) == pc[t] # "idle"

(* History: the fields of its owner that an operation may change in the     *)
(* cache.  It touches them all when it replaces or drops the whole list.    *)
Whole(kind, o) ==
  \/ kind \in {"insert", "delete"}
  \/ kind = "update" /\ recordCache[o] = Absent
  \/ kind \in MetaKinds /\ ~listed[o]

Touches(kind, o, f) == IF Whole(kind, o) THEN Fields ELSE {f}

Meets(s, o, fs) == Busy(s) /\ op[s].owner = o /\ op[s].touches \cap fs # {}

(* Two operations that touch the same field at a time tangle all the fields *)
(* that either touches.                                                     *)
Tangle(t, o, fs) ==
  tangled' = tangled \cup
    UNION {{o} \X (op[s].touches \cup fs) : s \in {r \in Tasks \ {t} : Meets(r, o, fs)}}

Begin(t, kind, o, f, v) ==
  /\ pc[t] = "idle"
  /\ begun < MaxOps
  /\ begun' = begun + 1
  /\ Goto(t, "write")
  /\ op' = [op EXCEPT ![t] =
              [kind |-> kind, owner |-> o, field |-> f, value |-> v,
               touches |-> Touches(kind, o, f)]]
  /\ Tangle(t, o, Touches(kind, o, f))
  /\ UNCHANGED <<tables, cache, rows, holds>>

(* insert() refuses a name that exists.                                     *)
InsertOwner(t, o, v) ==
  /\ record[o] = Absent
  /\ Begin(t, "insert", o, Record, v)

(* update(): UserAction looks the user up first, GroupAction does not.      *)
UpdateOwner(t, o, v) ==
  /\ o \in Groups \/ record[o] # Absent
  /\ Begin(t, "update", o, Record, v)

(* delete() looks nothing up.                                               *)
DeleteOwner(t, o) == Begin(t, "delete", o, Record, Absent)

(* addMeta() inserts or updates, as it finds the attribute or not;          *)
(* updateMeta() is its second case.  Neither looks the owner up.            *)
EditMeta(t, o, a, v) ==
  Begin(t, IF metas[o][a] = Absent THEN "addMeta" ELSE "updateMeta", o, a, v)

(* deleteMeta().                                                            *)
DeleteMeta(t, o, a) == Begin(t, "deleteMeta", o, a, Absent)

(* AuthServer binds the address of a first login: it looks in the cache.    *)
BindAddress(t, u, a, v) ==
  /\ u \in Users
  /\ recordCache[u] # Absent
  /\ metaCache[u][a] = Absent
  /\ Begin(t, "addMeta", u, a, v)

-----------------------------------------------------------------------------
(* UserService: one transaction, committed before the cache is touched.     *)

Writes(t, kind, next) ==
  /\ At(t, "write", {kind})
  /\ Goto(t, next)
  /\ UNCHANGED <<cache, op, rows, holds, begun>>

(* addUser(), addGroup().  The primary key keeps a second INSERT out        *)
(* (Fail).                                                                  *)
InsertRow(t) ==
  /\ Writes(t, "insert", "find")
  /\ record[op[t].owner] = Absent
  /\ record' = [record EXCEPT ![op[t].owner] = op[t].value]
  /\ UNCHANGED <<metas, tangled>>

(* updateUser(), updateGroup().  An UPDATE that finds no row is no error,   *)
(* and the cache gets a record that is in no table.                         *)
UpdateRow(t) ==
  LET o == op[t].owner IN
  /\ Writes(t, "update", "find")
  /\ IF record[o] = Absent
     THEN tangled' = tangled \cup {o} \X Fields /\ UNCHANGED record
     ELSE record' = [record EXCEPT ![o] = op[t].value] /\ UNCHANGED tangled
  /\ UNCHANGED metas

(* deleteGroup() deletes the group's attributes.  deleteUser() compares the *)
(* user's name with the attributes' names: his own attributes stay, and if  *)
(* an attribute has his name, every user loses that one.                    *)
Deleted(o) ==
  {k \in Owners \X Attrs : IF o \in Groups THEN k[1] = o
                                          ELSE k[1] \in Users /\ k[2] = o}

DeleteRows(t) ==
  LET o == op[t].owner
      gone == Deleted(o)
  IN
  /\ Writes(t, "delete", "uncache")
  /\ record' = [record EXCEPT ![o] = Absent]
  /\ metas' = [p \in Owners |-> [a \in Attrs |->
                 IF <<p, a>> \in gone THEN Absent ELSE metas[p][a]]]
  /\ tangled' = tangled \cup
       {k \in gone : k[1] # o /\ metas[k[1]][k[2]] # Absent}

WriteMeta(t, kind, v) ==
  /\ Writes(t, kind, "find")
  /\ metas' = [metas EXCEPT ![op[t].owner][op[t].field] = v]
  /\ UNCHANGED <<record, tangled>>

(* addUserMeta(), addGroupMeta(): the primary key again.                    *)
InsertMetaRow(t) ==
  /\ WriteMeta(t, "addMeta", op[t].value)
  /\ metas[op[t].owner][op[t].field] = Absent

(* updateUserMeta(), updateGroupMeta().                                     *)
UpdateMetaRow(t) ==
  LET found == metas[op[t].owner][op[t].field] # Absent IN
  WriteMeta(t, "updateMeta", IF found THEN op[t].value ELSE Absent)

(* deleteUserMeta(), deleteGroupMeta() with two parameters.                 *)
DeleteMetaRow(t) == WriteMeta(t, "deleteMeta", Absent)

(* The statement throws (a row with its primary key exists, the database    *)
(* fails), the transaction is rolled back, and the request ends.            *)
Fail(t) ==
  /\ pc[t] = "write"
  /\ Finish(t)
  /\ UNCHANGED <<tables, cache, holds, tangled, begun>>

-----------------------------------------------------------------------------
(* CacheService.updateUser(), updateGroup().                                *)

(* Mutant: a record the cache does not hold is not put into it.             *)
FindRecordOrStop(t) ==
  LET found == recordCache[op[t].owner] # Absent IN
  /\ At(t, "find", RecordKinds)
  /\ IF found THEN Goto(t, "sync") /\ UNCHANGED <<op, rows>> ELSE Finish(t)
  /\ holds' = [holds EXCEPT ![t] = found]
  /\ UNCHANGED <<tables, cache, tangled, begun>>

(* get() decides between a new record and one in place.                     *)
FindRecord(t) ==
  LET found == recordCache[op[t].owner] # Absent IN
  /\ At(t, "find", RecordKinds)
  /\ Goto(t, IF found THEN "sync" ELSE "putRecord")
  /\ holds' = [holds EXCEPT ![t] = found]
  /\ UNCHANGED <<tables, cache, op, rows, tangled, begun>>

PutRecord(t) ==
  LET o == op[t].owner IN
  /\ pc[t] = "putRecord"
  /\ recordCache' = [recordCache EXCEPT ![o] = op[t].value]
  /\ Drop(o, RecordKinds)
  /\ Goto(t, "select")
  /\ UNCHANGED <<tables, metaCache, listed, op, rows, tangled, begun>>

SelectMetas(t) ==
  /\ pc[t] = "select"
  /\ rows' = [rows EXCEPT ![t] = metas[op[t].owner]]
  /\ Goto(t, "putMetas")
  /\ UNCHANGED <<tables, cache, op, holds, tangled, begun>>

(* The SELECT throws: the record is cached, its attributes are not.         *)
FailSelect(t) ==
  /\ pc[t] = "select"
  /\ tangled' = tangled \cup {op[t].owner} \X Attrs
  /\ Finish(t)
  /\ UNCHANGED <<tables, cache, holds, begun>>

PutMetas(t) ==
  LET o == op[t].owner IN
  /\ pc[t] = "putMetas"
  /\ metaCache' = [metaCache EXCEPT ![o] = rows[t]]
  /\ listed' = [listed EXCEPT ![o] = TRUE]
  /\ Drop(o, MetaKinds)
  /\ Finish(t)
  /\ UNCHANGED <<tables, recordCache, tangled, begun>>

(* Mutant: the record found is left as it is.                               *)
SyncNothing(t) ==
  /\ pc[t] = "sync"
  /\ Release(t)
  /\ Finish(t)
  /\ UNCHANGED <<tables, cache, tangled, begun>>

(* The record found is set under its lock; a group's description is set to  *)
(* itself, in the object the caller passed.                                 *)
SyncRecord(t) ==
  LET o == op[t].owner IN
  /\ pc[t] = "sync"
  /\ recordCache' = IF holds[t] /\ o \in Users
                    THEN [recordCache EXCEPT ![o] = op[t].value]
                    ELSE recordCache
  /\ Release(t)
  /\ Finish(t)
  /\ UNCHANGED <<tables, metaCache, listed, tangled, begun>>

(* removeUser(), removeGroup(): one map, then the other.                    *)
UncacheRecord(t) ==
  LET o == op[t].owner IN
  /\ pc[t] = "uncache"
  /\ recordCache' = [recordCache EXCEPT ![o] = Absent]
  /\ Drop(o, RecordKinds)
  /\ Goto(t, "uncacheMetas")
  /\ UNCHANGED <<tables, metaCache, listed, op, rows, tangled, begun>>

(* Mutant: the list's contents outlive it.                                  *)
UncacheListOnly(t) ==
  LET o == op[t].owner IN
  /\ pc[t] = "uncacheMetas"
  /\ listed' = [listed EXCEPT ![o] = FALSE]
  /\ Drop(o, MetaKinds)
  /\ Finish(t)
  /\ UNCHANGED <<tables, recordCache, metaCache, tangled, begun>>

UncacheMetas(t) ==
  LET o == op[t].owner IN
  /\ pc[t] = "uncacheMetas"
  /\ metaCache' = [metaCache EXCEPT ![o] = NoRows]
  /\ listed' = [listed EXCEPT ![o] = FALSE]
  /\ Drop(o, MetaKinds)
  /\ Finish(t)
  /\ UNCHANGED <<tables, recordCache, tangled, begun>>

-----------------------------------------------------------------------------
(* updateUserMeta(), updateGroupMeta(), removeUserMeta(), removeGroupMeta().*)

FindList(t) ==
  /\ At(t, "find", MetaKinds)
  /\ listed[op[t].owner]
  /\ Goto(t, "change")
  /\ holds' = [holds EXCEPT ![t] = TRUE]
  /\ UNCHANGED <<tables, cache, op, rows, tangled, begun>>

FindNoList(t) ==
  /\ At(t, "find", {"addMeta", "updateMeta"})
  /\ ~listed[op[t].owner]
  /\ Goto(t, "putList")
  /\ UNCHANGED <<tables, cache, op, rows, holds, tangled, begun>>

(* A remove that finds no list throws a NullPointerException.               *)
RemoveFromNull(t) ==
  /\ At(t, "find", {"deleteMeta"})
  /\ ~listed[op[t].owner]
  /\ Finish(t)
  /\ UNCHANGED <<tables, cache, holds, tangled, begun>>

(* Mutant: the new list is put without the attribute.                       *)
PutEmptyList(t) ==
  LET o == op[t].owner IN
  /\ pc[t] = "putList"
  /\ metaCache' = [metaCache EXCEPT ![o] = NoRows]
  /\ listed' = [listed EXCEPT ![o] = TRUE]
  /\ Drop(o, MetaKinds)
  /\ Finish(t)
  /\ UNCHANGED <<tables, recordCache, tangled, begun>>

(* The new list has the one attribute of this call.                         *)
PutList(t) ==
  LET o == op[t].owner IN
  /\ pc[t] = "putList"
  /\ metaCache' = [metaCache EXCEPT ![o] = [NoRows EXCEPT ![op[t].field] = op[t].value]]
  /\ listed' = [listed EXCEPT ![o] = TRUE]
  /\ Drop(o, MetaKinds)
  /\ Finish(t)
  /\ UNCHANGED <<tables, recordCache, tangled, begun>>

(* Mutant: the changed list is put as a new one.                            *)
ReplaceList(t) ==
  LET o == op[t].owner IN
  /\ pc[t] = "change"
  /\ metaCache' = IF holds[t]
                  THEN [metaCache EXCEPT ![o][op[t].field] = op[t].value]
                  ELSE metaCache
  /\ Drop(o, MetaKinds)
  /\ Finish(t)
  /\ UNCHANGED <<tables, recordCache, listed, tangled, begun>>

(* Under the lock of the list found: set the attribute, add it, or remove   *)
(* it.                                                                      *)
ChangeMeta(t) ==
  /\ pc[t] = "change"
  /\ metaCache' = IF holds[t]
                  THEN [metaCache EXCEPT ![op[t].owner][op[t].field] = op[t].value]
                  ELSE metaCache
  /\ Release(t)
  /\ Finish(t)
  /\ UNCHANGED <<tables, recordCache, listed, tangled, begun>>

-----------------------------------------------------------------------------
(* The process is killed and started again.                                 *)
Crash ==
  /\ UNCHANGED <<tables, begun>>
  /\ recordCache' = record
  /\ metaCache' = metas
  /\ listed' = Lists
  /\ pc' = [t \in Tasks |-> "idle"]
  /\ op' = [t \in Tasks |-> NoOp]
  /\ rows' = [t \in Tasks |-> NoRows]
  /\ holds' = [t \in Tasks |-> FALSE]
  /\ tangled' = {}

Start(t) ==
  \/ \E o \in Owners, v \in Inputs : InsertOwner(t, o, v)
  \/ \E o \in Owners, v \in Inputs : UpdateOwner(t, o, v)
  \/ \E o \in Owners : DeleteOwner(t, o)
  \/ \E o \in Owners, a \in Attrs, v \in Inputs : EditMeta(t, o, a, v)
  \/ \E o \in Owners, a \in Attrs : DeleteMeta(t, o, a)
  \/ \E u \in Users, a \in Attrs, v \in Inputs : BindAddress(t, u, a, v)

Step(t) ==
  \/ InsertRow(t) \/ UpdateRow(t) \/ DeleteRows(t)
  \/ InsertMetaRow(t) \/ UpdateMetaRow(t) \/ DeleteMetaRow(t)
  \/ Fail(t)
  \/ FindRecord(t) \/ PutRecord(t) \/ SelectMetas(t) \/ FailSelect(t)
  \/ PutMetas(t) \/ SyncRecord(t)
  \/ UncacheRecord(t) \/ UncacheMetas(t)
  \/ FindList(t) \/ FindNoList(t) \/ RemoveFromNull(t)
  \/ PutList(t) \/ ChangeMeta(t)

Next == (\E t \in Tasks : Start(t) \/ Step(t)) \/ Crash

Spec == Init /\ [][Next]_vars

(* A thread that can take its next step takes it: none of them waits.       *)
FairSpec == Spec /\ \A t \in Tasks : WF_vars(Step(t))

-----------------------------------------------------------------------------
(* What is stored of a field, and what its readers in the servers find: the *)
(* attributes of a user or group that does not exist are nobody's.          *)
Shown(o, v) == IF o \in Groups /\ v # Absent THEN Exists ELSE v

StoredView(o, f) ==
  IF f = Record \/ record[o] = Absent THEN Shown(o, record[o]) ELSE metas[o][f]

CachedView(o, f) ==
  IF f = Record \/ recordCache[o] = Absent THEN Shown(o, recordCache[o])
                                           ELSE metaCache[o][f]

(* An operation has committed and still has to bring the field to the cache. *)
Pending(o, f) ==
  \E t \in Tasks :
    pc[t] \notin {"idle", "write"} /\ op[t].owner = o /\ f \in op[t].touches

(* The cache shows every field as it is stored, unless an operation on it   *)
(* is under way, two operations on it met, a SELECT failed after the        *)
(* commit, or a delete took it for another's.  In particular, operations on *)
(* different attributes of one user do not disturb each other once he has a *)
(* list, and those on different users never do (the update and remove       *)
(* methods of CacheService).                                                *)
Coherent ==
  \A o \in Owners, f \in Fields :
    <<o, f>> \notin tangled /\ ~Pending(o, f) => CachedView(o, f) = StoredView(o, f)

(* The work of an operation goes to an object that has left the cache, and  *)
(* is lost to the servers, only where another operation met it: a list is   *)
(* got from the map first and locked second.                                *)
LostForCause ==
  \A t \in Tasks :
    pc[t] \in {"sync", "change"} /\ ~holds[t] =>
      <<op[t].owner, op[t].field>> \in tangled

(* Readers of the cache see a directory.                                    *)
D == INSTANCE Directory WITH
  Keys   <- Keys,
  Values <- Contents \cup {Exists},
  stored <- [k \in Keys |-> StoredView(k[1], k[2])],
  seen   <- [k \in Keys |-> IF k \in tangled THEN Unknown
                                            ELSE CachedView(k[1], k[2])]

(* The cache implements the directory: what a server finds is what is       *)
(* stored, or what was stored before the one write that is under way, but   *)
(* for tangled fields.                                                      *)
ImplementsDirectory == D!Spec

(* Every committed change reaches the cache, if its thread goes on, or is   *)
(* tangled with another.                                                    *)
CatchesUp == D!CatchesUp
=============================================================================
