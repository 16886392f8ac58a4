-------------------------- MODULE UserCacheProofs --------------------------
(***************************************************************************)
(* UserCache for any users, groups, attributes and console requests: its   *)
(* types, whose work can be lost, and that the cache is coherent.          *)
(***************************************************************************)
EXTENDS UserCache, TLAPS

LEMMA NoRowsType == NoRows \in [Attrs -> Contents]
  BY DEF NoRows, Contents

LEMMA TypeInit == Init => TypeOK
<1> SUFFICES ASSUME Init PROVE TypeOK
  OBVIOUS
<1>1. listed \in [Owners -> BOOLEAN] /\ \A o \in Owners : ~listed[o] => metaCache[o] = NoRows
  BY DEF Init, Lists
<1>2. pc \in [Tasks -> PCs] /\ \A t \in Tasks : pc[t] = "idle"
  BY DEF Init, PCs
<1>3. /\ op \in [Tasks -> Op \cup {NoOp}] /\ rows \in [Tasks -> [Attrs -> Contents]]
      /\ holds \in [Tasks -> BOOLEAN]
  BY NoRowsType DEF Init
<1> QED
  BY <1>1, <1>2, <1>3 DEF Init, TypeOK

(* A task that has begun an operation, and the one that ends it.            *)
LEMMA OpTyped ==
  ASSUME TypeOK, NEW t \in Tasks, pc[t] # "idle"
  PROVE  /\ op[t] \in Op
         /\ op[t].kind \in Kinds /\ op[t].owner \in Owners /\ op[t].field \in Fields
         /\ op[t].value \in Contents /\ op[t].touches \subseteq Fields
  BY DEF TypeOK, Op

Working ==
  /\ pc \in [Tasks -> PCs]
  /\ op \in [Tasks -> Op \cup {NoOp}]
  /\ rows \in [Tasks -> [Attrs -> Contents]]
  /\ \A t \in Tasks : pc[t] # "idle" => op[t] \in Op

LEMMA FinishTyped ==
  ASSUME TypeOK, NEW t \in Tasks, Finish(t)
  PROVE  Working'
  BY NoRowsType DEF TypeOK, Finish, Goto, Working, PCs

LEMMA GotoTyped ==
  ASSUME TypeOK, NEW t \in Tasks, pc[t] # "idle", NEW label \in PCs, Goto(t, label),
         op' = op, rows' = rows
  PROVE  Working'
  BY DEF TypeOK, Goto, Working

LEMMA DropTyped ==
  ASSUME TypeOK, NEW o, NEW kinds, Drop(o, kinds)
  PROVE  holds' \in [Tasks -> BOOLEAN]
  BY DEF TypeOK, Drop

LEMMA BeginTyped ==
  ASSUME TypeOK, NEW t \in Tasks, NEW kind \in Kinds, NEW o \in Owners,
         NEW f \in Fields, NEW v \in Contents, Begin(t, kind, o, f, v)
  PROVE  TypeOK'
<1>1. Touches(kind, o, f) \subseteq Fields
  BY DEF Touches
<1>2. [kind |-> kind, owner |-> o, field |-> f, value |-> v,
       touches |-> Touches(kind, o, f)] \in Op
  BY <1>1 DEF Op
<1>3. Working'
  BY <1>2 DEF TypeOK, Begin, Goto, Working, PCs
<1>4. tangled' \subseteq Keys
  <2>1. \A s \in Tasks : Meets(s, o, Touches(kind, o, f)) => op[s].touches \subseteq Fields
    BY OpTyped DEF Meets, Busy
  <2> QED
    BY <1>1, <2>1 DEF Begin, Tangle, TypeOK, Keys
<1> QED
  BY <1>3, <1>4 DEF TypeOK, Begin, Working, tables, cache

LEMMA InputsTyped == Inputs \subseteq Contents /\ Absent \in Contents /\ Record \in Fields
                     /\ Attrs \subseteq Fields
  BY InputsAssumption DEF Contents, Fields

(* A field of the owner at hand.                                            *)
LEMMA KeysTyped ==
  ASSUME TypeOK, NEW t \in Tasks, pc[t] # "idle"
  PROVE  {op[t].owner} \X Fields \subseteq Keys /\ {op[t].owner} \X Attrs \subseteq Keys
  BY OpTyped, InputsTyped DEF Keys

LEMMA StartTyped == ASSUME TypeOK, NEW t \in Tasks, Start(t) PROVE TypeOK'
<1> USE InputsTyped DEF Kinds, RecordKinds, MetaKinds
<1>1. ASSUME NEW o \in Owners, NEW v \in Inputs, InsertOwner(t, o, v) PROVE TypeOK'
  BY <1>1, BeginTyped DEF InsertOwner
<1>2. ASSUME NEW o \in Owners, NEW v \in Inputs, UpdateOwner(t, o, v) PROVE TypeOK'
  BY <1>2, BeginTyped DEF UpdateOwner
<1>3. ASSUME NEW o \in Owners, DeleteOwner(t, o) PROVE TypeOK'
  BY <1>3, BeginTyped DEF DeleteOwner
<1>4. ASSUME NEW o \in Owners, NEW a \in Attrs, NEW v \in Inputs, EditMeta(t, o, a, v)
      PROVE  TypeOK'
  BY <1>4, BeginTyped DEF EditMeta
<1>5. ASSUME NEW o \in Owners, NEW a \in Attrs, DeleteMeta(t, o, a) PROVE TypeOK'
  BY <1>5, BeginTyped DEF DeleteMeta
<1>6. ASSUME NEW u \in Users, NEW a \in Attrs, NEW v \in Inputs, BindAddress(t, u, a, v)
      PROVE  TypeOK'
  BY <1>6, BeginTyped DEF BindAddress, Owners
<1> QED
  BY <1>1, <1>2, <1>3, <1>4, <1>5, <1>6 DEF Start

(* What is stored and cached.                                               *)
Contained ==
  /\ record \in [Owners -> Contents]
  /\ metas \in [Owners -> [Attrs -> Contents]]
  /\ recordCache \in [Owners -> Contents]
  /\ metaCache \in [Owners -> [Attrs -> Contents]]
  /\ listed \in [Owners -> BOOLEAN]
  /\ \A o \in Owners : ~listed[o] => metaCache[o] = NoRows

LEMMA WritesTyped ==
  ASSUME TypeOK, NEW t \in Tasks, NEW kind, NEW label \in PCs, Writes(t, kind, label)
  PROVE  /\ Working' /\ holds' \in [Tasks -> BOOLEAN] /\ begun' \in Nat
         /\ UNCHANGED cache /\ op[t].kind = kind
         /\ op[t].owner \in Owners /\ op[t].value \in Contents /\ op[t].field \in Fields
         /\ {op[t].owner} \X Fields \subseteq Keys
<1>1. pc[t] = "write" /\ op[t].kind = kind
  BY DEF Writes, At
<1> QED
  BY <1>1, GotoTyped, OpTyped, KeysTyped DEF Writes, TypeOK

LEMMA WriteTyped ==
  ASSUME TypeOK, NEW t \in Tasks,
         InsertRow(t) \/ UpdateRow(t) \/ DeleteRows(t)
         \/ InsertMetaRow(t) \/ UpdateMetaRow(t) \/ DeleteMetaRow(t)
  PROVE  TypeOK'
<1>0. {"find", "uncache"} \subseteq PCs
  BY DEF PCs
<1>a. Contained /\ tangled \subseteq Keys
  BY DEF TypeOK, Contained
<1>1. ASSUME Contained', tangled' \subseteq Keys,
             Working', holds' \in [Tasks -> BOOLEAN], begun' \in Nat
      PROVE  TypeOK'
  BY <1>1 DEF TypeOK, Contained, Working
<1>2. CASE InsertRow(t)
  <2>1. Contained'
    BY <1>2, <1>0, <1>a, WritesTyped DEF InsertRow, Contained, cache
  <2> QED
    BY <1>0, <1>1, <1>2, <2>1, <1>a, WritesTyped DEF InsertRow
<1>3. CASE UpdateRow(t)
  <2>1. Contained'
    BY <1>3, <1>0, <1>a, WritesTyped DEF UpdateRow, Contained, cache
  <2>2. tangled' \subseteq Keys
    BY <1>3, <1>0, <1>a, WritesTyped DEF UpdateRow
  <2> QED
    BY <1>0, <1>1, <1>3, <2>1, <2>2, WritesTyped DEF UpdateRow
<1>4. CASE DeleteRows(t)
  <2>1. Contained'
    BY <1>4, <1>0, <1>a, WritesTyped, InputsTyped DEF DeleteRows, Contained, cache
  <2>2. tangled' \subseteq Keys
    <3>1. Owners \X Attrs \subseteq Keys
      BY InputsTyped DEF Keys
    <3> QED
      BY <1>4, <1>a, <3>1 DEF DeleteRows, Deleted
  <2> QED
    BY <1>0, <1>1, <1>4, <2>1, <2>2, WritesTyped DEF DeleteRows
<1>5. ASSUME NEW kind, NEW v \in Contents, WriteMeta(t, kind, v) PROVE TypeOK'
  <2>1. metas' = [metas EXCEPT ![op[t].owner] = [metas[op[t].owner] EXCEPT ![op[t].field] = v]]
    BY <1>5 DEF WriteMeta
  <2>2. op[t].owner \in Owners
    BY <1>5, <1>0, WritesTyped DEF WriteMeta
  <2>3. [metas[op[t].owner] EXCEPT ![op[t].field] = v] \in [Attrs -> Contents]
    BY <2>2, <1>a DEF Contained
  <2>4. Contained'
    BY <1>5, <1>0, <1>a, <2>1, <2>2, <2>3, WritesTyped DEF WriteMeta, Contained, cache
  <2> QED
    BY <1>0, <1>1, <1>5, <2>4, <1>a, WritesTyped DEF WriteMeta
<1>6. CASE InsertMetaRow(t)
  <2>1. op[t].value \in Contents
    BY <1>6, <1>0, WritesTyped DEF InsertMetaRow, WriteMeta
  <2> QED
    BY <1>5, <1>6, <2>1 DEF InsertMetaRow
<1>7. CASE UpdateMetaRow(t)
  <2>1. op[t].value \in Contents
    BY <1>7, <1>0, WritesTyped DEF UpdateMetaRow, WriteMeta
  <2> QED
    BY <1>5, <1>7, <2>1, InputsTyped DEF UpdateMetaRow
<1>8. CASE DeleteMetaRow(t)
  BY <1>5, <1>8, InputsTyped DEF DeleteMetaRow
<1> QED
  BY <1>2, <1>3, <1>4, <1>6, <1>7, <1>8

-----------------------------------------------------------------------------
(* Which operation may be at which step, and what it carries.               *)
Shape(t) ==
  pc[t] # "idle" =>
    /\ op[t].field \in op[t].touches
    /\ op[t].kind \in {"insert", "delete"} => op[t].touches = Fields
    /\ op[t].kind \in MetaKinds => op[t].field \in Attrs
    /\ op[t].kind \notin MetaKinds => op[t].field = Record
    /\ op[t].kind \notin {"delete", "deleteMeta"} => op[t].value # Absent
    /\ op[t].kind = "deleteMeta" => op[t].value = Absent
    /\ pc[t] = "find" => op[t].kind # "delete"
    /\ pc[t] \in {"putRecord", "select", "putMetas", "sync"} => op[t].kind \in RecordKinds
    /\ pc[t] \in {"uncache", "uncacheMetas"} => op[t].kind = "delete"
    /\ pc[t] \in {"putList", "change"} => op[t].kind \in MetaKinds

(* What a task holds is in the cache.                                       *)
Held(t) ==
  holds[t] =>
    \/ pc[t] = "sync" /\ recordCache[op[t].owner] # Absent
    \/ pc[t] = "change" /\ listed[op[t].owner]

Base == TypeOK /\ \A t \in Tasks : Shape(t) /\ Held(t)

LEMMA SyncTyped ==
  ASSUME TypeOK, NEW t \in Tasks,
         Fail(t) \/ FindRecord(t) \/ PutRecord(t) \/ SelectMetas(t) \/ FailSelect(t)
         \/ PutMetas(t) \/ SyncRecord(t) \/ UncacheRecord(t) \/ UncacheMetas(t)
         \/ FindList(t) \/ FindNoList(t) \/ RemoveFromNull(t)
         \/ PutList(t) \/ ChangeMeta(t),
         pc[t] = "change" => Held(t)
  PROVE  TypeOK'
<1>0. pc[t] # "idle"
  BY DEF Fail, FindRecord, PutRecord, SelectMetas, FailSelect, PutMetas, SyncRecord,
     UncacheRecord, UncacheMetas, FindList, FindNoList, RemoveFromNull, PutList,
     ChangeMeta, At
<1>a. /\ op[t].owner \in Owners /\ op[t].value \in Contents
      /\ {op[t].owner} \X Attrs \subseteq Keys
  BY <1>0, OpTyped, KeysTyped
<1>b. Contained /\ tangled \subseteq Keys /\ Working /\ begun \in Nat
      /\ holds \in [Tasks -> BOOLEAN]
  BY DEF TypeOK, Contained, Working
<1>c. {"find", "sync", "putRecord", "select", "putMetas", "uncacheMetas",
       "change", "putList"} \subseteq PCs
  BY DEF PCs
<1>d. ASSUME Contained', tangled' \subseteq Keys,
             Working', holds' \in [Tasks -> BOOLEAN], begun' \in Nat
      PROVE  TypeOK'
  BY <1>d DEF TypeOK, Contained, Working
<1>e. ASSUME Release(t) PROVE holds' \in [Tasks -> BOOLEAN]
  BY <1>b, <1>e DEF Release
<1> USE DEF tables, cache
<1>1. CASE Fail(t)
  BY <1>1, <1>b, <1>d, FinishTyped DEF Fail, Contained
<1>2. CASE FindRecord(t)
  <2>1. Working'
    BY <1>2, <1>0, <1>c, GotoTyped DEF FindRecord
  <2> QED
    BY <1>2, <2>1, <1>b, <1>d DEF FindRecord, Contained
<1>3. CASE PutRecord(t)
  <2>1. Working'
    BY <1>3, <1>0, <1>c, GotoTyped DEF PutRecord
  <2>2. holds' \in [Tasks -> BOOLEAN]
    BY <1>3, DropTyped DEF PutRecord
  <2>3. Contained'
    BY <1>3, <1>a, <1>b DEF PutRecord, Contained
  <2> QED
    BY <1>3, <2>1, <2>2, <2>3, <1>b, <1>d DEF PutRecord
<1>4. CASE SelectMetas(t)
  <2>1. Working'
    BY <1>4, <1>a, <1>b, <1>c DEF SelectMetas, Goto, Working, Contained
  <2> QED
    BY <1>4, <2>1, <1>b, <1>d DEF SelectMetas, Contained
<1>5. CASE FailSelect(t)
  BY <1>5, <1>a, <1>b, <1>d, FinishTyped DEF FailSelect, Contained
<1>6. CASE PutMetas(t)
  <2>1. rows[t] \in [Attrs -> Contents]
    BY <1>b DEF Working
  <2>2. Contained'
    BY <1>6, <1>a, <1>b, <2>1 DEF PutMetas, Contained
  <2>3. holds' \in [Tasks -> BOOLEAN]
    BY <1>6, DropTyped DEF PutMetas
  <2> QED
    BY <1>6, <2>2, <2>3, <1>b, <1>d, FinishTyped DEF PutMetas
<1>7. CASE SyncRecord(t)
  <2>1. Contained'
    BY <1>7, <1>a, <1>b DEF SyncRecord, Contained
  <2> QED
    BY <1>7, <2>1, <1>b, <1>d, <1>e, FinishTyped DEF SyncRecord
<1>8. CASE UncacheRecord(t)
  <2>1. Working'
    BY <1>8, <1>0, <1>c, GotoTyped DEF UncacheRecord
  <2>2. holds' \in [Tasks -> BOOLEAN]
    BY <1>8, DropTyped DEF UncacheRecord
  <2>3. Contained'
    BY <1>8, <1>a, <1>b, InputsTyped DEF UncacheRecord, Contained
  <2> QED
    BY <1>8, <2>1, <2>2, <2>3, <1>b, <1>d DEF UncacheRecord
<1>9. CASE UncacheMetas(t)
  <2>1. Contained'
    BY <1>9, <1>a, <1>b, NoRowsType DEF UncacheMetas, Contained
  <2>2. holds' \in [Tasks -> BOOLEAN]
    BY <1>9, DropTyped DEF UncacheMetas
  <2> QED
    BY <1>9, <2>1, <2>2, <1>b, <1>d, FinishTyped DEF UncacheMetas
<1>10. CASE FindList(t)
  <2>1. Working'
    BY <1>10, <1>0, <1>c, GotoTyped DEF FindList
  <2> QED
    BY <1>10, <2>1, <1>b, <1>d DEF FindList, Contained
<1>11. CASE FindNoList(t)
  <2>1. Working'
    BY <1>11, <1>0, <1>c, GotoTyped DEF FindNoList
  <2> QED
    BY <1>11, <2>1, <1>b, <1>d DEF FindNoList, Contained
<1>12. CASE RemoveFromNull(t)
  BY <1>12, <1>b, <1>d, FinishTyped DEF RemoveFromNull, Contained
<1>13. CASE PutList(t)
  <2>1. [NoRows EXCEPT ![op[t].field] = op[t].value] \in [Attrs -> Contents]
    BY <1>a, NoRowsType
  <2>2. Contained'
    BY <1>13, <1>a, <1>b, <2>1 DEF PutList, Contained
  <2>3. holds' \in [Tasks -> BOOLEAN]
    BY <1>13, DropTyped DEF PutList
  <2> QED
    BY <1>13, <2>2, <2>3, <1>b, <1>d, FinishTyped DEF PutList
<1>14. CASE ChangeMeta(t)
  <2>1. CASE ~holds[t]
    BY <1>14, <2>1, <1>b, <1>d, <1>e, FinishTyped DEF ChangeMeta, Contained
  <2>2. CASE holds[t]
    <3> DEFINE o == op[t].owner
               new == [metaCache[o] EXCEPT ![op[t].field] = op[t].value]
    <3>1. metaCache' = [metaCache EXCEPT ![o] = new] /\ UNCHANGED listed
      BY <1>14, <2>2 DEF ChangeMeta
    <3>2. listed[o]
      BY <1>14, <2>2 DEF ChangeMeta, Held
    <3>3. new \in [Attrs -> Contents]
      BY <1>a, <1>b DEF Contained
    <3> o \in Owners
      BY <1>a
    <3> HIDE DEF new, o
    <3>5. metaCache' \in [Owners -> [Attrs -> Contents]]
      BY <3>1, <3>3, <1>b DEF Contained
    <3>6. \A p \in Owners : ~listed'[p] => metaCache'[p] = NoRows
      BY <3>1, <3>2, <1>b DEF Contained
    <3>4. Contained'
      BY <1>14, <3>5, <3>6, <1>b DEF ChangeMeta, Contained
    <3> QED
      BY <1>14, <3>4, <1>b, <1>d, <1>e, FinishTyped DEF ChangeMeta
  <2> QED
    BY <2>1, <2>2
<1> QED
  BY <1>1, <1>2, <1>3, <1>4, <1>5, <1>6, <1>7, <1>8, <1>9, <1>10, <1>11,
     <1>12, <1>13, <1>14

LEMMA CrashTyped == TypeOK /\ Crash => TypeOK'
<1> SUFFICES ASSUME TypeOK, Crash PROVE TypeOK'
  OBVIOUS
<1>1. Contained'
  BY DEF TypeOK, Contained, Crash, tables, Lists
<1>2. Working' /\ holds' \in [Tasks -> BOOLEAN] /\ tangled' = {} /\ begun' \in Nat
  BY NoRowsType DEF TypeOK, Working, Crash, PCs
<1> QED
  BY <1>1, <1>2 DEF TypeOK, Contained, Working

LEMMA TypeNext == Base /\ [Next]_vars => TypeOK'
<1> SUFFICES ASSUME Base, [Next]_vars PROVE TypeOK'
  OBVIOUS
<1>1. TypeOK /\ \A t \in Tasks : Held(t)
  BY DEF Base
<1>2. UNCHANGED vars => TypeOK'
  BY <1>1 DEF TypeOK, vars, tables, cache, locals
<1> QED
  BY <1>1, <1>2, StartTyped, WriteTyped, SyncTyped, CrashTyped DEF Next, Step

-----------------------------------------------------------------------------
(* What a step of one task leaves of the others.                            *)
Others(t) ==
  /\ \A s \in Tasks \ {t} :
       pc'[s] = pc[s] /\ op'[s] = op[s] /\ rows'[s] = rows[s] /\ (holds'[s] => holds[s])
  /\ tangled \subseteq tangled'

LEMMA StartFrame ==
  ASSUME TypeOK, NEW t \in Tasks, Start(t)
  PROVE  /\ Others(t) /\ pc[t] = "idle" /\ pc'[t] = "write"
         /\ UNCHANGED <<tables, cache, holds>>
<1>1. ASSUME NEW kind, NEW o, NEW f, NEW v, Begin(t, kind, o, f, v)
      PROVE  /\ Others(t) /\ pc[t] = "idle" /\ pc'[t] = "write"
             /\ UNCHANGED <<tables, cache, holds>>
  <2>1. tangled \subseteq tangled'
    BY <1>1 DEF Begin, Tangle
  <2>2. /\ pc' = [pc EXCEPT ![t] = "write"] /\ pc[t] = "idle"
        /\ UNCHANGED <<tables, cache, rows, holds>>
    BY <1>1 DEF Begin, Goto
  <2>3. \A s \in Tasks \ {t} : op'[s] = op[s]
    BY <1>1 DEF Begin, TypeOK
  <2> QED
    BY <2>1, <2>2, <2>3 DEF Others, TypeOK
<1> QED
  BY <1>1 DEF Start, InsertOwner, UpdateOwner, DeleteOwner, EditMeta, DeleteMeta, BindAddress

(* What it does to its own operation.                                       *)
Own(t) ==
  /\ pc[t] # "idle"
  /\ \/ op'[t] = op[t] /\ pc'[t] \notin {"idle", "write"}
     \/ op'[t] = NoOp /\ pc'[t] = "idle"

LEMMA StepFrame ==
  ASSUME TypeOK, NEW t \in Tasks, Step(t)
  PROVE  Others(t) /\ Own(t)
<1>a. ASSUME Finish(t), pc[t] # "idle", tangled \subseteq tangled',
             \A s \in Tasks \ {t} : holds'[s] => holds[s]
      PROVE  Others(t) /\ Own(t)
  BY <1>a DEF Finish, Goto, Others, Own, TypeOK
<1>b. ASSUME NEW label, Goto(t, label), label \notin {"idle", "write"}, pc[t] # "idle",
             op' = op, rows' = rows, tangled \subseteq tangled',
             \A s \in Tasks \ {t} : holds'[s] => holds[s]
      PROVE  Others(t) /\ Own(t)
  BY <1>b DEF Goto, Others, Own, TypeOK
<1>c. ASSUME NEW o, NEW kinds, Drop(o, kinds) PROVE \A s \in Tasks : holds'[s] => holds[s]
  BY <1>c DEF Drop, TypeOK
<1>d. ASSUME Release(t) PROVE \A s \in Tasks \ {t} : holds'[s] => holds[s]
  BY <1>d DEF Release, TypeOK
<1>1. ASSUME NEW kind, NEW label, Writes(t, kind, label), label \in {"find", "uncache"},
             tangled \subseteq tangled'
      PROVE  Others(t) /\ Own(t)
  BY <1>1, <1>b DEF Writes, At
<1>2. CASE InsertRow(t)
  BY <1>1, <1>2 DEF InsertRow
<1>3. CASE UpdateRow(t)
  <2>1. tangled \subseteq tangled'
    BY <1>3 DEF UpdateRow
  <2> QED
    BY <2>1, <1>1, <1>3 DEF UpdateRow
<1>4. CASE DeleteRows(t)
  BY <1>1, <1>4 DEF DeleteRows
<1>5. CASE InsertMetaRow(t) \/ UpdateMetaRow(t) \/ DeleteMetaRow(t)
  BY <1>1, <1>5 DEF InsertMetaRow, UpdateMetaRow, DeleteMetaRow, WriteMeta
<1>6. CASE Fail(t)
  BY <1>a, <1>6 DEF Fail
<1>7. CASE FindRecord(t)
  <2>1. \A s \in Tasks \ {t} : holds'[s] => holds[s]
    BY <1>7 DEF FindRecord, TypeOK
  <2> QED
    BY <2>1, <1>b, <1>7 DEF FindRecord, At
<1>8. CASE PutRecord(t)
  BY <1>b, <1>c, <1>8 DEF PutRecord
<1>9. CASE SelectMetas(t)
  BY <1>9 DEF SelectMetas, Goto, Others, Own, TypeOK
<1>10. CASE FailSelect(t)
  BY <1>a, <1>10 DEF FailSelect
<1>11. CASE PutMetas(t)
  BY <1>a, <1>c, <1>11 DEF PutMetas
<1>12. CASE SyncRecord(t)
  BY <1>a, <1>d, <1>12 DEF SyncRecord
<1>13. CASE UncacheRecord(t)
  BY <1>b, <1>c, <1>13 DEF UncacheRecord
<1>14. CASE UncacheMetas(t)
  BY <1>a, <1>c, <1>14 DEF UncacheMetas
<1>15. CASE FindList(t)
  <2>1. \A s \in Tasks \ {t} : holds'[s] => holds[s]
    BY <1>15 DEF FindList, TypeOK
  <2> QED
    BY <2>1, <1>b, <1>15 DEF FindList, At
<1>16. CASE FindNoList(t)
  BY <1>b, <1>16 DEF FindNoList, At
<1>17. CASE RemoveFromNull(t)
  BY <1>a, <1>17 DEF RemoveFromNull, At
<1>18. CASE PutList(t)
  BY <1>a, <1>c, <1>18 DEF PutList
<1>19. CASE ChangeMeta(t)
  BY <1>a, <1>d, <1>19 DEF ChangeMeta
<1> QED
  BY <1>2, <1>3, <1>4, <1>5, <1>6, <1>7, <1>8, <1>9, <1>10, <1>11, <1>12, <1>13,
     <1>14, <1>15, <1>16, <1>17, <1>18, <1>19 DEF Step

-----------------------------------------------------------------------------
LEMMA ShapeStart ==
  ASSUME Base, NEW t \in Tasks, Start(t)
  PROVE  Shape(t)'
<1> USE DEF Kinds, RecordKinds, MetaKinds
<1>0. Inputs \subseteq Fields \cup Values /\ Absent \notin Inputs /\ Record \notin Attrs
  BY InputsAssumption, AbsentAssumption, NamesAssumption
<1>1. ASSUME NEW kind \in Kinds, NEW o \in Owners, NEW f \in Fields, NEW v,
             Begin(t, kind, o, f, v),
             kind \in MetaKinds => f \in Attrs,
             kind \notin MetaKinds => f = Record,
             kind \notin {"delete", "deleteMeta"} => v # Absent,
             kind = "deleteMeta" => v = Absent
      PROVE  Shape(t)'
  <2>1. /\ op'[t] = [kind |-> kind, owner |-> o, field |-> f, value |-> v,
                     touches |-> Touches(kind, o, f)]
        /\ pc'[t] = "write"
    BY <1>1 DEF Begin, Goto, Base, TypeOK
  <2>2. f \in Touches(kind, o, f) /\ (kind \in {"insert", "delete"} => Touches(kind, o, f) = Fields)
    BY DEF Touches, Whole
  <2> QED
    BY <1>1, <2>1, <2>2 DEF Shape
<1> USE InputsTyped
<1>2. ASSUME NEW o \in Owners, NEW v \in Inputs, InsertOwner(t, o, v) PROVE Shape(t)'
  BY <1>0, <1>1, <1>2 DEF InsertOwner
<1>3. ASSUME NEW o \in Owners, NEW v \in Inputs, UpdateOwner(t, o, v) PROVE Shape(t)'
  BY <1>0, <1>1, <1>3 DEF UpdateOwner
<1>4. ASSUME NEW o \in Owners, DeleteOwner(t, o) PROVE Shape(t)'
  BY <1>0, <1>1, <1>4 DEF DeleteOwner
<1>5. ASSUME NEW o \in Owners, NEW a \in Attrs, NEW v \in Inputs, EditMeta(t, o, a, v)
      PROVE  Shape(t)'
  BY <1>0, <1>1, <1>5 DEF EditMeta
<1>6. ASSUME NEW o \in Owners, NEW a \in Attrs, DeleteMeta(t, o, a) PROVE Shape(t)'
  BY <1>0, <1>1, <1>6 DEF DeleteMeta
<1>7. ASSUME NEW u \in Users, NEW a \in Attrs, NEW v \in Inputs, BindAddress(t, u, a, v)
      PROVE  Shape(t)'
  BY <1>0, <1>1, <1>7 DEF BindAddress, Owners
<1> QED
  BY <1>2, <1>3, <1>4, <1>5, <1>6, <1>7 DEF Start

LEMMA ShapeStep ==
  ASSUME Base, NEW t \in Tasks, Step(t)
  PROVE  Shape(t)'
<1>0. Own(t) /\ Shape(t) /\ pc \in [Tasks -> PCs]
  BY StepFrame DEF Base, TypeOK
<1>1. CASE pc'[t] = "idle"
  BY <1>1 DEF Shape
<1>2. CASE pc'[t] # "idle"
  <2>1. op'[t] = op[t]
    BY <1>0, <1>2 DEF Own
  <2> SUFFICES
        /\ pc'[t] = "find" => op[t].kind # "delete"
        /\ pc'[t] \in {"putRecord", "select", "putMetas", "sync"} => op[t].kind \in RecordKinds
        /\ pc'[t] \in {"uncache", "uncacheMetas"} => op[t].kind = "delete"
        /\ pc'[t] \in {"putList", "change"} => op[t].kind \in MetaKinds
    BY <1>0, <1>2, <2>1 DEF Shape, Own
  <2> USE <1>0, <1>2 DEF Goto
  <2>2. CASE InsertRow(t) \/ UpdateRow(t) \/ DeleteRows(t)
    BY <2>2 DEF InsertRow, UpdateRow, DeleteRows, Writes, At
  <2>3. CASE InsertMetaRow(t) \/ UpdateMetaRow(t) \/ DeleteMetaRow(t)
    BY <2>3 DEF InsertMetaRow, UpdateMetaRow, DeleteMetaRow, WriteMeta, Writes, At
  <2>4. CASE FindRecord(t) \/ PutRecord(t) \/ SelectMetas(t)
    BY <2>4 DEF FindRecord, PutRecord, SelectMetas, At, Shape
  <2>5. CASE UncacheRecord(t)
    BY <2>5 DEF UncacheRecord, Shape
  <2>6. CASE FindList(t) \/ FindNoList(t)
    BY <2>6 DEF FindList, FindNoList, At, MetaKinds
  <2>7. CASE Fail(t) \/ FailSelect(t) \/ PutMetas(t) \/ SyncRecord(t) \/ UncacheMetas(t)
             \/ RemoveFromNull(t) \/ PutList(t) \/ ChangeMeta(t)
    BY <2>7 DEF Fail, FailSelect, PutMetas, SyncRecord, UncacheMetas, RemoveFromNull,
       PutList, ChangeMeta, Finish
  <2> QED
    BY <2>2, <2>3, <2>4, <2>5, <2>6, <2>7 DEF Step
<1> QED
  BY <1>1, <1>2

LEMMA HeldStep ==
  ASSUME Base, NEW t \in Tasks, Step(t)
  PROVE  \A s \in Tasks : Held(s)'
<1>0. /\ pc \in [Tasks -> PCs] /\ holds \in [Tasks -> BOOLEAN]
      /\ recordCache \in [Owners -> Contents] /\ listed \in [Owners -> BOOLEAN]
      /\ Others(t) /\ Own(t) /\ \A s \in Tasks : Shape(s) /\ Held(s)
  BY StepFrame DEF Base, TypeOK
<1>a. /\ op[t].owner \in Owners
      /\ \A s \in Tasks : holds[s] => op[s].owner \in Owners
  BY <1>0, OpTyped DEF Base, Own, Held
<1> USE <1>0
<1>b. ASSUME ~holds'[t], UNCHANGED <<recordCache, listed>>
      PROVE  \A s \in Tasks : Held(s)'
  BY <1>b DEF Others, Held
<1>c. pc[t] \notin {"sync", "change"} => ~holds[t]
  BY DEF Held
<1>1. CASE InsertRow(t) \/ UpdateRow(t) \/ DeleteRows(t)
  BY <1>1, <1>b, <1>c DEF InsertRow, UpdateRow, DeleteRows, Writes, At, cache
<1>2. CASE InsertMetaRow(t) \/ UpdateMetaRow(t) \/ DeleteMetaRow(t)
  BY <1>2, <1>b, <1>c DEF InsertMetaRow, UpdateMetaRow, DeleteMetaRow, WriteMeta, Writes, At, cache
<1>3. CASE Fail(t) \/ SelectMetas(t) \/ FailSelect(t) \/ FindNoList(t) \/ RemoveFromNull(t)
  BY <1>3, <1>b, <1>c DEF Fail, SelectMetas, FailSelect, FindNoList, RemoveFromNull, At, cache
<1>4. CASE FindRecord(t)
  <2>1. CASE recordCache[op[t].owner] # Absent
    <3>1. /\ pc'[t] = "sync" /\ UNCHANGED <<recordCache, listed, op>>
      BY <1>4, <2>1 DEF FindRecord, Goto, cache
    <3> QED
      BY <2>1, <3>1 DEF Others, Held
  <2>2. CASE recordCache[op[t].owner] = Absent
    BY <1>4, <1>b, <2>2 DEF FindRecord, cache
  <2> QED
    BY <2>1, <2>2
<1>5. CASE PutRecord(t)
  <2>1. ~holds'[t]
    BY <1>5, <1>c DEF PutRecord, Drop
  <2>2. op[t].value # Absent
    BY <1>5 DEF PutRecord, Shape, RecordKinds
  <2>3. \A o \in Owners : recordCache'[o] = Absent => recordCache[o] = Absent
    BY <1>5, <2>2 DEF PutRecord
  <2> QED
    BY <1>5, <1>a, <2>1, <2>3 DEF PutRecord, Others, Held
<1>6. CASE PutMetas(t) \/ PutList(t)
  <2>1. ~holds'[t] /\ UNCHANGED recordCache
    BY <1>6, <1>c DEF PutMetas, PutList, Drop
  <2>2. \A o \in Owners : listed[o] => listed'[o]
    BY <1>6 DEF PutMetas, PutList
  <2> QED
    BY <1>a, <2>1, <2>2 DEF Others, Held
<1>7. CASE SyncRecord(t)
  <2>1. ~holds'[t] /\ UNCHANGED listed
    BY <1>7 DEF SyncRecord, Release
  <2>2. op[t].value # Absent
    BY <1>7 DEF SyncRecord, Shape, RecordKinds
  <2>3. \A o \in Owners : recordCache'[o] = Absent => recordCache[o] = Absent
    BY <1>7, <2>2 DEF SyncRecord
  <2> QED
    BY <1>a, <2>1, <2>3 DEF Others, Held
<1>8. CASE UncacheRecord(t)
  <2>1. ~holds'[t] /\ UNCHANGED listed
    BY <1>8, <1>c DEF UncacheRecord, Drop
  <2>2. \A s \in Tasks : holds'[s] /\ pc[s] = "sync" => op[s].owner # op[t].owner
    BY <1>8 DEF UncacheRecord, Drop, Shape
  <2>3. \A o \in Owners : recordCache'[o] = Absent => recordCache[o] = Absent \/ o = op[t].owner
    BY <1>8 DEF UncacheRecord
  <2> QED
    BY <1>a, <2>1, <2>2, <2>3 DEF Others, Held
<1>9. CASE UncacheMetas(t)
  <2>1. ~holds'[t] /\ UNCHANGED recordCache
    BY <1>9, <1>c DEF UncacheMetas, Drop
  <2>2. \A s \in Tasks : holds'[s] /\ pc[s] = "change" => op[s].owner # op[t].owner
    BY <1>9 DEF UncacheMetas, Drop, Shape
  <2>3. \A o \in Owners : listed[o] => listed'[o] \/ o = op[t].owner
    BY <1>9 DEF UncacheMetas
  <2> QED
    BY <1>a, <2>1, <2>2, <2>3 DEF Others, Held
<1>10. CASE FindList(t)
  <2>1. /\ pc'[t] = "change" /\ listed[op[t].owner] /\ UNCHANGED <<recordCache, listed, op>>
    BY <1>10 DEF FindList, Goto, cache
  <2> QED
    BY <2>1 DEF Others, Held
<1>11. CASE ChangeMeta(t)
  <2>1. ~holds'[t] /\ UNCHANGED <<recordCache, listed>>
    BY <1>11 DEF ChangeMeta, Release
  <2> QED
    BY <1>b, <2>1
<1> QED
  BY <1>1, <1>2, <1>3, <1>4, <1>5, <1>6, <1>7, <1>8, <1>9, <1>10, <1>11 DEF Step

LEMMA BaseInit == Init => Base
  BY TypeInit DEF Init, Base, Shape, Held

LEMMA BaseNext == Base /\ [Next]_vars => Base'
<1> SUFFICES ASSUME Base, [Next]_vars PROVE Base'
  OBVIOUS
<1>0. TypeOK /\ TypeOK' /\ \A t \in Tasks : Shape(t) /\ Held(t)
  BY TypeNext DEF Base
<1>1. ASSUME NEW t \in Tasks, Start(t) PROVE Base'
  <2>1. \A s \in Tasks : Shape(s)'
    BY <1>0, <1>1, ShapeStart, StartFrame DEF Others, Shape
  <2>2. \A s \in Tasks : Held(s)'
    BY <1>0, <1>1, StartFrame DEF Others, Held, cache
  <2> QED
    BY <1>0, <2>1, <2>2 DEF Base
<1>2. ASSUME NEW t \in Tasks, Step(t) PROVE Base'
  <2>1. \A s \in Tasks : Shape(s)'
    BY <1>0, <1>2, ShapeStep, StepFrame DEF Others, Shape
  <2> QED
    BY <1>0, <1>2, <2>1, HeldStep DEF Base
<1>3. CASE Crash
  BY <1>0, <1>3 DEF Crash, Base, Shape, Held
<1>4. CASE UNCHANGED vars
  BY <1>0, <1>4 DEF vars, cache, locals, Base, Shape, Held
<1> QED
  BY <1>1, <1>2, <1>3, <1>4 DEF Next

(* Tables, cache and tasks keep their types; an owner without a list shows  *)
(* no attributes (UserService, CacheService).                               *)
THEOREM TypeCorrect == Spec => []TypeOK
<1>1. Base => TypeOK
  BY DEF Base
<1> QED
  BY <1>1, BaseInit, BaseNext, PTL DEF Spec

-----------------------------------------------------------------------------
(* The invariant.  Nothing is said of a field that is tangled, and hardly   *)
(* anything of an owner all of whose fields are.                            *)
All(o) == \A f \in Fields : <<o, f>> \in tangled

Mid(t) == pc[t] \notin {"idle", "write"}

(* Operations that touch the same field are both tangled.                   *)
Met ==
  \A s, t \in Tasks :
    /\ s # t /\ Busy(s) /\ Busy(t) /\ op[s].owner = op[t].owner
    /\ op[s].touches \cap op[t].touches # {}
    => \A f \in op[s].touches \cup op[t].touches : <<op[s].owner, f>> \in tangled

(* An operation that is about to replace the list touches every field, and  *)
(* one that lost its object has met another.                                *)
Aware(t) ==
  /\ pc[t] \in {"write", "find"} /\ op[t].kind \in MetaKinds /\ ~listed[op[t].owner] =>
       op[t].touches = Fields \/ All(op[t].owner)
  /\ pc[t] = "putList" =>
       (op[t].touches = Fields /\ ~listed[op[t].owner]) \/ All(op[t].owner)
  /\ pc[t] \in {"sync", "change"} /\ ~holds[t] =>
       <<op[t].owner, op[t].field>> \in tangled

(* How far a committed record has come.                                     *)
Updating(t) ==
  op[t].kind = "update" =>
    /\ pc[t] \in {"find", "sync"} =>
         /\ \/ All(op[t].owner)
            \/ record[op[t].owner] # Absent /\ recordCache[op[t].owner] # Absent
         /\ <<op[t].owner, Record>> \notin tangled => record[op[t].owner] = op[t].value
    /\ pc[t] \in {"putRecord", "select", "putMetas"} => All(op[t].owner)

Inserting(t) ==
  op[t].kind = "insert" /\ Mid(t) /\ ~All(op[t].owner) =>
    /\ pc[t] # "sync"
    /\ record[op[t].owner] = op[t].value
    /\ pc[t] \in {"find", "putRecord"} => recordCache[op[t].owner] = Absent
    /\ pc[t] \in {"select", "putMetas"} => recordCache[op[t].owner] = op[t].value
    /\ pc[t] = "putMetas" =>
         \A a \in Attrs : <<op[t].owner, a>> \notin tangled =>
                            rows[t][a] = metas[op[t].owner][a]

Deleting(t) ==
  op[t].kind = "delete" /\ Mid(t) /\ ~All(op[t].owner) =>
    /\ record[op[t].owner] = Absent
    /\ pc[t] = "uncacheMetas" => recordCache[op[t].owner] = Absent

(* And a committed attribute.                                               *)
Editing(t) ==
  <<op[t].owner, op[t].field>> \notin tangled =>
    /\ op[t].kind = "updateMeta" /\ pc[t] = "write" =>
         metas[op[t].owner][op[t].field] # Absent
    /\ op[t].kind \in MetaKinds /\ Mid(t) =>
         metas[op[t].owner][op[t].field] = op[t].value

TaskInv(t) ==
  Aware(t) /\ Updating(t) /\ Inserting(t) /\ Deleting(t) /\ Editing(t)

(* What table and cache agree in when no task is about to make them agree.  *)
Present(o) ==
  /\ ~All(o)
  /\ \A t \in Tasks : Mid(t) /\ op[t].kind \in {"insert", "delete"} => op[t].owner # o
  => (record[o] = Absent <=> recordCache[o] = Absent)

Records(o) ==
  /\ <<o, Record>> \notin tangled
  /\ \A t \in Tasks : Mid(t) /\ op[t].kind \notin MetaKinds => op[t].owner # o
  => (o \in Users => record[o] = recordCache[o])

Attributes(o) ==
  \A a \in Attrs :
    /\ <<o, a>> \notin tangled /\ record[o] # Absent
    /\ \A t \in Tasks :
         Mid(t) /\ (op[t].kind = "insert" \/ (op[t].kind \in MetaKinds /\ op[t].field = a)) =>
           op[t].owner # o
    => metaCache[o][a] = metas[o][a]

OwnerInv(o) == Present(o) /\ Records(o) /\ Attributes(o)

CacheInv ==
  /\ Base /\ Met
  /\ \A t \in Tasks : Busy(t) => TaskInv(t)
  /\ \A o \in Owners : OwnerInv(o)

(* Where all fields of an owner are tangled, nothing is left to show.       *)
LEMMA AllTangled ==
  ASSUME NEW o, All(o)'
  PROVE  /\ OwnerInv(o)'
         /\ \A t \in Tasks : Shape(t)' /\ Busy(t)' /\ op'[t].owner = o /\ op'[t].field \in Fields
                               => TaskInv(t)'
<1>1. Record \in Fields /\ Attrs \subseteq Fields
  BY InputsTyped
<1>2. OwnerInv(o)'
  BY <1>1 DEF All, OwnerInv, Present, Records, Attributes
<1>3. ASSUME NEW t \in Tasks, op'[t].owner = o, op'[t].field \in Fields
      PROVE  TaskInv(t)'
  BY <1>1, <1>3 DEF All, TaskInv, Aware, Updating, Inserting, Deleting, Editing
<1> QED
  BY <1>2, <1>3

(* A task that touches every field of an owner is alone with him, or they   *)
(* are all tangled.                                                         *)
LEMMA Alone ==
  ASSUME Base, Met, NEW t \in Tasks, Busy(t), op[t].touches = Fields, ~All(op[t].owner)
  PROVE  \A s \in Tasks \ {t} : Busy(s) => op[s].owner # op[t].owner
<1> SUFFICES ASSUME NEW s \in Tasks \ {t}, Busy(s), op[s].owner = op[t].owner
             PROVE  FALSE
  OBVIOUS
<1>1. op[s].field \in Fields /\ op[s].field \in op[s].touches
  BY OpTyped DEF Base, Shape, Busy
<1>2. \A f \in Fields : <<op[t].owner, f>> \in tangled
  BY <1>1 DEF Met
<1> QED
  BY <1>2 DEF All

LEMMA MetStep ==
  ASSUME Base, Met, NEW t \in Tasks, Step(t)
  PROVE  Met'
<1>0. Others(t) /\ Own(t)
  BY StepFrame DEF Base
<1> QED
  BY <1>0 DEF Met, Others, Own, Busy

-----------------------------------------------------------------------------
(* What a step leaves of other owners: all but an attribute that a delete   *)
(* takes for his, and tangles.                                              *)
Elsewhere(t) ==
  LET o == op[t].owner IN
  /\ \A p \in Owners \ {o} :
       /\ record'[p] = record[p] /\ recordCache'[p] = recordCache[p]
       /\ metaCache'[p] = metaCache[p] /\ listed'[p] = listed[p]
       /\ \A a \in Attrs : metas'[p][a] = metas[p][a] \/ <<p, a>> \in tangled'
  /\ \A s \in Tasks \ {t} : op[s].owner # o => holds'[s] = holds[s]

LEMMA StepElsewhere ==
  ASSUME Base, NEW t \in Tasks, Step(t)
  PROVE  Elsewhere(t)
<1>0. /\ record \in [Owners -> Contents] /\ recordCache \in [Owners -> Contents]
      /\ metas \in [Owners -> [Attrs -> Contents]]
      /\ metaCache \in [Owners -> [Attrs -> Contents]]
      /\ listed \in [Owners -> BOOLEAN] /\ holds \in [Tasks -> BOOLEAN]
  BY DEF Base, TypeOK
<1> USE <1>0 DEF Elsewhere, tables, cache
<1>1. CASE InsertRow(t) \/ UpdateRow(t)
  BY <1>1 DEF InsertRow, UpdateRow, Writes
<1>2. CASE DeleteRows(t)
  <2>1. \A p \in Owners \ {op[t].owner}, a \in Attrs :
          metas'[p][a] = metas[p][a] \/ <<p, a>> \in tangled'
    <3> SUFFICES ASSUME NEW p \in Owners \ {op[t].owner}, NEW a \in Attrs
                 PROVE  metas'[p][a] = metas[p][a] \/ <<p, a>> \in tangled'
      OBVIOUS
    <3>1. CASE <<p, a>> \in Deleted(op[t].owner) /\ metas[p][a] # Absent
      BY <1>2, <3>1 DEF DeleteRows
    <3>2. CASE <<p, a>> \in Deleted(op[t].owner) /\ metas[p][a] = Absent
      BY <1>2, <3>2 DEF DeleteRows
    <3>3. CASE <<p, a>> \notin Deleted(op[t].owner)
      BY <1>2, <3>3 DEF DeleteRows
    <3> QED
      BY <3>1, <3>2, <3>3
  <2>2. record' = [record EXCEPT ![op[t].owner] = Absent] /\ UNCHANGED <<cache, holds>>
    BY <1>2 DEF DeleteRows, Writes
  <2> QED
    BY <2>1, <2>2
<1>3. CASE InsertMetaRow(t) \/ UpdateMetaRow(t) \/ DeleteMetaRow(t)
  BY <1>3 DEF InsertMetaRow, UpdateMetaRow, DeleteMetaRow, WriteMeta, Writes
<1>4. CASE Fail(t) \/ SelectMetas(t) \/ FailSelect(t) \/ FindNoList(t) \/ RemoveFromNull(t)
  BY <1>4 DEF Fail, SelectMetas, FailSelect, FindNoList, RemoveFromNull
<1>5. CASE FindRecord(t) \/ FindList(t)
  BY <1>5 DEF FindRecord, FindList
<1>6. CASE PutRecord(t) \/ UncacheRecord(t)
  BY <1>6 DEF PutRecord, UncacheRecord, Drop
<1>7. CASE PutMetas(t) \/ UncacheMetas(t) \/ PutList(t)
  BY <1>7 DEF PutMetas, UncacheMetas, PutList, Drop
<1>8. CASE SyncRecord(t)
  BY <1>8 DEF SyncRecord, Release
<1>9. CASE ChangeMeta(t)
  BY <1>9 DEF ChangeMeta, Release
<1> QED
  BY <1>1, <1>2, <1>3, <1>4, <1>5, <1>6, <1>7, <1>8, <1>9 DEF Step

(* So the steps on one owner preserve what is said of the others.           *)
LEMMA DistantTasks ==
  ASSUME CacheInv, NEW t \in Tasks, Step(t),
         NEW s \in Tasks \ {t}, Busy(s), op[s].owner # op[t].owner
  PROVE  TaskInv(s)'
<1>0. /\ Others(t) /\ Elsewhere(t) /\ TaskInv(s) /\ Shape(s)
      /\ op[s].owner \in Owners /\ (op[s].kind \in MetaKinds => op[s].field \in Attrs)
  BY StepFrame, StepElsewhere, OpTyped DEF CacheInv, Base, Busy, Shape
<1>1. /\ pc'[s] = pc[s] /\ op'[s] = op[s] /\ rows'[s] = rows[s] /\ holds'[s] = holds[s]
      /\ \A x \in tangled : x \in tangled'
  BY <1>0 DEF Others, Elsewhere
<1>2. /\ record'[op[s].owner] = record[op[s].owner]
      /\ recordCache'[op[s].owner] = recordCache[op[s].owner]
      /\ listed'[op[s].owner] = listed[op[s].owner]
      /\ \A a \in Attrs : \/ metas'[op[s].owner][a] = metas[op[s].owner][a]
                          \/ <<op[s].owner, a>> \in tangled'
  BY <1>0 DEF Elsewhere
<1>3. All(op[s].owner) => All(op[s].owner)'
  BY <1>1 DEF All
<1> HIDE DEF All
<1>4. Aware(s)'
  BY <1>0, <1>1, <1>2, <1>3 DEF TaskInv, Aware
<1>5. Updating(s)'
  BY <1>0, <1>1, <1>2, <1>3 DEF TaskInv, Updating
<1>6. Inserting(s)'
  BY <1>0, <1>1, <1>2, <1>3 DEF TaskInv, Inserting, Mid
<1>7. Deleting(s)'
  BY <1>0, <1>1, <1>2, <1>3 DEF TaskInv, Deleting, Mid
<1>8. Editing(s)'
  <2>1. "updateMeta" \in MetaKinds
    BY DEF MetaKinds
  <2> QED
    BY <1>0, <1>1, <1>2, <2>1 DEF TaskInv, Editing, Mid
<1> QED
  BY <1>4, <1>5, <1>6, <1>7, <1>8 DEF TaskInv

LEMMA DistantOwners ==
  ASSUME CacheInv, NEW t \in Tasks, Step(t), NEW p \in Owners, p # op[t].owner
  PROVE  OwnerInv(p)'
<1>0. Others(t) /\ Own(t) /\ Elsewhere(t) /\ OwnerInv(p)
  BY StepFrame, StepElsewhere DEF CacheInv, Base
<1>1. \A s \in Tasks : op[s].owner = p => pc'[s] = pc[s] /\ op'[s] = op[s]
  BY <1>0 DEF Others
<1>2. /\ record'[p] = record[p] /\ recordCache'[p] = recordCache[p]
      /\ metaCache'[p] = metaCache[p]
      /\ \A a \in Attrs : metas'[p][a] = metas[p][a] \/ <<p, a>> \in tangled'
      /\ \A x \in tangled : x \in tangled'
  BY <1>0 DEF Elsewhere, Others
<1>3. All(p) => All(p)'
  BY <1>2 DEF All
<1>4. Present(p)'
  BY <1>0, <1>1, <1>2, <1>3 DEF OwnerInv, Present, Mid
<1>5. Records(p)'
  BY <1>0, <1>1, <1>2 DEF OwnerInv, Records, Mid
<1>6. Attributes(p)'
  BY <1>0, <1>1, <1>2 DEF OwnerInv, Attributes, Mid
<1> QED
  BY <1>4, <1>5, <1>6 DEF OwnerInv

-----------------------------------------------------------------------------
(* What a step leaves of the other operations on its owner, and of him.     *)
Near(t, o) ==
  /\ \A s \in Tasks \ {t} : Busy(s) /\ op[s].owner = o => TaskInv(s)'
  /\ Busy(t)' => TaskInv(t)'
  /\ OwnerInv(o)'

LEMMA Grows ==
  ASSUME Base, NEW t \in Tasks, Step(t), NEW o \in Owners, o = op[t].owner, ~All(o)'
  PROVE  /\ ~All(o)
         /\ \A x : x \notin tangled' => x \notin tangled
<1>1. tangled \subseteq tangled'
  BY StepFrame DEF Base, Others
<1> QED
  BY <1>1 DEF All

(* An operation that touches every field meets no other one.                *)
LEMMA AloneNear ==
  ASSUME CacheInv, NEW t \in Tasks, Step(t), op[t].touches = Fields,
         NEW o \in Owners, o = op[t].owner, ~All(o)',
         Busy(t)' => TaskInv(t)', OwnerInv(o)'
  PROVE  Near(t, o)
<1>1. Busy(t) /\ ~All(o)
  BY StepFrame, Grows DEF CacheInv, Base, Own, Busy
<1> QED
  BY <1>1, Alone DEF CacheInv, Near

(* Nobody who inserts or deletes an owner meets another operation on him.   *)
LEMMA NotAlone ==
  ASSUME CacheInv, NEW t \in Tasks, Busy(t), ~All(op[t].owner),
         NEW s \in Tasks \ {t}, Busy(s), op[s].owner = op[t].owner
  PROVE  op[s].kind \notin {"insert", "delete"}
<1>1. op[s].kind \in {"insert", "delete"} => op[s].touches = Fields
  BY DEF CacheInv, Base, Shape, Busy
<1> QED
  BY <1>1, Alone DEF CacheInv

(* Steps that change neither tables nor cache for a task, or an owner.      *)
LEMMA SameTask ==
  ASSUME NEW t \in Tasks, Others(t), NEW s \in Tasks \ {t}, TaskInv(s),
         UNCHANGED <<record, metas, recordCache, listed>>, holds'[s] = holds[s]
  PROVE  TaskInv(s)'
<1>1. /\ pc'[s] = pc[s] /\ op'[s] = op[s] /\ rows'[s] = rows[s]
      /\ \A x \in tangled : x \in tangled'
  BY DEF Others
<1>2. All(op[s].owner) => All(op[s].owner)'
  BY <1>1 DEF All
<1>3. Aware(s)'
  BY <1>1, <1>2 DEF TaskInv, Aware
<1>4. Updating(s)'
  BY <1>1, <1>2 DEF TaskInv, Updating
<1>5. Inserting(s)' /\ Deleting(s)'
  BY <1>1, <1>2 DEF TaskInv, Inserting, Deleting, Mid
<1>6. Editing(s)'
  BY <1>1 DEF TaskInv, Editing, Mid
<1> QED
  BY <1>3, <1>4, <1>5, <1>6 DEF TaskInv

LEMMA SameNear ==
  ASSUME CacheInv, NEW t \in Tasks, Step(t),
         NEW s \in Tasks \ {t}, Busy(s),
         UNCHANGED <<record, metas, recordCache, listed>>, holds'[s] = holds[s]
  PROVE  TaskInv(s)'
  BY StepFrame, SameTask DEF CacheInv, Base

LEMMA SameOwnerInv ==
  ASSUME NEW o \in Owners, OwnerInv(o), tangled \subseteq tangled',
         UNCHANGED <<record, metas, recordCache, metaCache>>,
         \A s \in Tasks : Mid(s) => Mid(s)' /\ op'[s] = op[s]
  PROVE  OwnerInv(o)'
<1>1. All(o) => All(o)'
  BY DEF All
<1>2. Present(o)'
  BY <1>1 DEF OwnerInv, Present
<1>3. Records(o)'
  BY DEF OwnerInv, Records
<1>4. Attributes(o)'
  BY DEF OwnerInv, Attributes
<1> QED
  BY <1>2, <1>3, <1>4 DEF OwnerInv

LEMMA SameOwner ==
  ASSUME CacheInv, NEW t \in Tasks, Step(t), NEW o \in Owners,
         UNCHANGED <<record, metas, recordCache, metaCache>>,
         Mid(t) => Mid(t)'
  PROVE  OwnerInv(o)'
<1>0. Others(t) /\ Own(t)
  BY StepFrame DEF CacheInv, Base
<1>1. \A s \in Tasks : Mid(s) => Mid(s)' /\ op'[s] = op[s]
  BY <1>0 DEF Others, Own, Mid
<1> QED
  BY <1>0, <1>1, SameOwnerInv DEF CacheInv, Others

-----------------------------------------------------------------------------
(* The transactions.                                                        *)
LEMMA InsertRowNear ==
  ASSUME CacheInv, NEW t \in Tasks, InsertRow(t), NEW o \in Owners, o = op[t].owner, ~All(o)'
  PROVE  Near(t, o)
<1>0. /\ pc[t] = "write" /\ op[t].kind = "insert" /\ pc'[t] = "find"
      /\ UNCHANGED <<cache, op, rows, holds, metas, tangled>>
      /\ record[o] = Absent /\ record' = [record EXCEPT ![o] = op[t].value]
  BY DEF InsertRow, Writes, At, Goto, CacheInv, Base, TypeOK
<1>1. Step(t) /\ o \in Owners /\ op[t].touches = Fields
  BY <1>0, OpTyped DEF Step, CacheInv, Base, Shape
<1>2. record'[o] = op[t].value
  BY <1>0, <1>1 DEF CacheInv, Base, TypeOK
<1>3. \A s \in Tasks \ {t} : Busy(s) => op[s].owner # o
  BY <1>0, <1>1, Alone, Grows DEF CacheInv, Busy
<1>4. recordCache[o] = Absent
  <2>1. Present(o) /\ ~All(o)
    BY <1>1, Grows DEF CacheInv, OwnerInv
  <2> QED
    BY <1>0, <1>3, <2>1 DEF Present, Mid, Busy
<1>5. TaskInv(t)'
  BY <1>0, <1>2, <1>4 DEF TaskInv, Aware, Updating, Inserting, Deleting, Editing, MetaKinds, cache
<1>6. OwnerInv(o)'
  BY <1>0, <1>1 DEF OwnerInv, Present, Records, Attributes, Mid, MetaKinds
<1> QED
  BY <1>1, <1>5, <1>6, AloneNear

LEMMA UpdateRowNear ==
  ASSUME CacheInv, NEW t \in Tasks, UpdateRow(t), NEW o \in Owners, o = op[t].owner, ~All(o)'
  PROVE  Near(t, o)
<1>0. /\ pc[t] = "write" /\ op[t].kind = "update" /\ pc'[t] = "find"
      /\ UNCHANGED <<cache, op, rows, holds, metas>>
      /\ \A s \in Tasks \ {t} : pc'[s] = pc[s]
  BY DEF UpdateRow, Writes, At, Goto, CacheInv, Base, TypeOK
<1>1. /\ Step(t) /\ o \in Owners /\ Busy(t) /\ op[t].value # Absent
      /\ op[t].field = Record /\ Record \in op[t].touches
  BY <1>0, OpTyped DEF Step, CacheInv, Base, Shape, Busy, MetaKinds
<1>2. /\ record[o] # Absent /\ UNCHANGED tangled
      /\ record' = [record EXCEPT ![o] = op[t].value]
  <2>1. record[o] # Absent
    <3> SUFFICES ASSUME record[o] = Absent PROVE FALSE
      OBVIOUS
    <3>1. {o} \X Fields \subseteq tangled'
      BY DEF UpdateRow
    <3> QED
      BY <3>1 DEF All
  <2> QED
    BY <2>1 DEF UpdateRow
<1>3. record'[o] = op[t].value
  BY <1>1, <1>2 DEF CacheInv, Base, TypeOK
<1>4. ~All(o)
  BY <1>1, Grows DEF CacheInv
<1>5. recordCache[o] # Absent
  <2>1. Present(o)
    BY <1>1 DEF CacheInv, OwnerInv
  <2> QED
    BY <1>0, <1>1, <1>2, <1>4, <2>1, NotAlone DEF Present, Mid, Busy
<1>6. TaskInv(t)'
  BY <1>0, <1>3, <1>1, <1>5 DEF TaskInv, Aware, Updating, Inserting, Deleting, Editing, MetaKinds, cache
<1>7. ASSUME NEW s \in Tasks \ {t}, Busy(s), op[s].owner = o PROVE TaskInv(s)'
  <2>1. TaskInv(s) /\ op[s].kind \notin {"insert", "delete"} /\ pc'[s] = pc[s]
    BY <1>0, <1>1, <1>4, <1>7, NotAlone DEF CacheInv
  <2>2. op[s].kind = "update" => <<o, Record>> \in tangled
    <3>1. op[s].kind = "update" => Record \in op[s].touches
      BY <1>7 DEF CacheInv, Base, Shape, Busy, MetaKinds
    <3> QED
      BY <1>1, <1>7, <3>1 DEF CacheInv, Met
  <2>3. Updating(s)'
    BY <1>0, <1>1, <1>2, <1>3, <1>5, <1>7, <2>1, <2>2 DEF TaskInv, Updating, cache, All
  <2> QED
    BY <1>0, <1>2, <1>7, <2>1, <2>3
    DEF TaskInv, Aware, Inserting, Deleting, Editing, Mid, cache, All
<1>8. OwnerInv(o)'
  <2>1. Present(o)'
    BY <1>0, <1>1, <1>3, <1>5 DEF Present, cache
  <2>2. Records(o)'
    BY <1>0 DEF Records, Mid, MetaKinds
  <2>3. Attributes(o)'
    <3>1. Attributes(o)
      BY <1>1 DEF CacheInv, OwnerInv
    <3> QED
      BY <1>0, <1>2, <3>1 DEF Attributes, Mid, MetaKinds, cache
  <2> QED
    BY <2>1, <2>2, <2>3 DEF OwnerInv
<1> QED
  BY <1>6, <1>7, <1>8 DEF Near

LEMMA DeleteRowsNear ==
  ASSUME CacheInv, NEW t \in Tasks, DeleteRows(t), NEW o \in Owners, o = op[t].owner, ~All(o)'
  PROVE  Near(t, o)
<1>0. /\ pc[t] = "write" /\ op[t].kind = "delete" /\ pc'[t] = "uncache"
      /\ UNCHANGED <<cache, op>>
      /\ record' = [record EXCEPT ![o] = Absent]
  BY DEF DeleteRows, Writes, At, Goto, CacheInv, Base, TypeOK
<1>1. Step(t) /\ o \in Owners /\ op[t].touches = Fields
  BY <1>0, OpTyped DEF Step, CacheInv, Base, Shape
<1>2. record'[o] = Absent
  BY <1>0, <1>1 DEF CacheInv, Base, TypeOK
<1>3. TaskInv(t)'
  BY <1>0, <1>2 DEF TaskInv, Aware, Updating, Inserting, Deleting, Editing, MetaKinds
<1>4. OwnerInv(o)'
  BY <1>0, <1>2 DEF OwnerInv, Present, Records, Attributes, Mid, MetaKinds
<1> QED
  BY <1>1, <1>3, <1>4, AloneNear

LEMMA MetaRowNear ==
  ASSUME CacheInv, NEW t \in Tasks,
         InsertMetaRow(t) \/ UpdateMetaRow(t) \/ DeleteMetaRow(t),
         NEW o \in Owners, o = op[t].owner, ~All(o)'
  PROVE  Near(t, o)
<1>0. /\ pc[t] = "write" /\ op[t].kind \in MetaKinds /\ pc'[t] = "find"
      /\ UNCHANGED <<cache, op, rows, holds, record, tangled>>
      /\ \A s \in Tasks \ {t} : pc'[s] = pc[s]
  BY DEF InsertMetaRow, UpdateMetaRow, DeleteMetaRow, WriteMeta, Writes, At, Goto, MetaKinds,
     CacheInv, Base, TypeOK
<1>1. /\ Step(t) /\ Busy(t) /\ TaskInv(t) /\ Shape(t)
      /\ op[t].field \in Attrs /\ op[t].field \in op[t].touches
  BY <1>0 DEF Step, CacheInv, Base, Shape, Busy
<1>2. ~All(o)
  BY <1>1, Grows DEF CacheInv
<1>3. /\ \A a \in Attrs \ {op[t].field} : metas'[o][a] = metas[o][a]
      /\ <<o, op[t].field>> \notin tangled => metas'[o][op[t].field] = op[t].value
  <2>0. /\ metas[o] \in [Attrs -> Contents]
        /\ metas \in [Owners -> [Attrs -> Contents]]
    BY DEF CacheInv, Base, TypeOK
  <2>1. ASSUME NEW kind, NEW v, WriteMeta(t, kind, v)
        PROVE  /\ \A a \in Attrs \ {op[t].field} : metas'[o][a] = metas[o][a]
               /\ metas'[o][op[t].field] = v
    BY <2>0, <2>1, <1>1 DEF WriteMeta
  <2>2. CASE InsertMetaRow(t)
    BY <2>1, <2>2 DEF InsertMetaRow
  <2>3. CASE UpdateMetaRow(t)
    <3>1. op[t].kind = "updateMeta"
      BY <2>3 DEF UpdateMetaRow, WriteMeta, Writes, At
    <3>2. <<o, op[t].field>> \notin tangled => metas[o][op[t].field] # Absent
      BY <1>0, <1>1, <3>1 DEF TaskInv, Editing
    <3> QED
      BY <2>1, <2>3, <3>2 DEF UpdateMetaRow
  <2>4. CASE DeleteMetaRow(t)
    <3>1. op[t].kind = "deleteMeta"
      BY <2>4 DEF DeleteMetaRow, WriteMeta, Writes, At
    <3>2. op[t].value = Absent
      BY <1>0, <1>1, <3>1 DEF Shape
    <3> QED
      BY <2>1, <2>4, <3>2 DEF DeleteMetaRow
  <2> QED
    BY <2>2, <2>3, <2>4
<1>4. TaskInv(t)'
  <2>1. Aware(t)'
    BY <1>0, <1>1 DEF TaskInv, Aware, cache, All
  <2>2. Updating(t)' /\ Inserting(t)' /\ Deleting(t)'
    BY <1>0 DEF Updating, Inserting, Deleting, MetaKinds
  <2>3. Editing(t)'
    BY <1>0, <1>3 DEF Editing
  <2> QED
    BY <2>1, <2>2, <2>3 DEF TaskInv
<1>5. ASSUME NEW s \in Tasks \ {t}, Busy(s), op[s].owner = o PROVE TaskInv(s)'
  <2>1. TaskInv(s) /\ op[s].kind \notin {"insert", "delete"} /\ pc'[s] = pc[s]
    BY <1>0, <1>1, <1>2, <1>5, NotAlone DEF CacheInv
  <2>2. op[s].field = op[t].field => <<o, op[s].field>> \in tangled
    <3>1. op[s].field \in op[s].touches
      BY <1>5 DEF CacheInv, Base, Shape, Busy
    <3> QED
      BY <1>1, <1>5, <3>1 DEF CacheInv, Met
  <2>3. op[s].kind \in MetaKinds => op[s].field \in Attrs
    BY <1>5 DEF CacheInv, Base, Shape, Busy
  <2>4. Editing(s)'
    <3>1. "updateMeta" \in MetaKinds
      BY DEF MetaKinds
    <3>2. CASE <<o, op[s].field>> \in tangled
      BY <1>0, <1>5, <3>2 DEF Editing
    <3>3. CASE <<o, op[s].field>> \notin tangled /\ op[s].kind \in MetaKinds
      <4>1. metas'[o][op[s].field] = metas[o][op[s].field]
        BY <1>3, <2>2, <2>3, <3>3
      <4> QED
        BY <1>0, <1>5, <2>1, <3>3, <4>1 DEF TaskInv, Editing, Mid
    <3>4. CASE op[s].kind \notin MetaKinds
      BY <1>0, <3>1, <3>4 DEF Editing
    <3> QED
      BY <3>2, <3>3, <3>4
  <2> QED
    BY <1>0, <1>5, <2>1, <2>4
    DEF TaskInv, Aware, Updating, Inserting, Deleting, Mid, cache, All
<1>6. OwnerInv(o)'
  <2>0. OwnerInv(o) /\ \A s \in Tasks : Mid(s) => Mid(s)'
    BY <1>0 DEF CacheInv, Mid
  <2>1. Present(o)' /\ Records(o)'
    BY <1>0, <2>0 DEF OwnerInv, Present, Records, All, cache
  <2>2. Attributes(o)'
    <3> SUFFICES ASSUME NEW a \in Attrs,
                        <<o, a>> \notin tangled, record[o] # Absent,
                        \A s \in Tasks :
                          Mid(s)' /\ (op[s].kind = "insert"
                                       \/ (op[s].kind \in MetaKinds /\ op[s].field = a))
                          => op[s].owner # o
                 PROVE  metaCache[o][a] = metas'[o][a]
      BY <1>0 DEF Attributes, cache
    <3>1. Mid(t)'
      BY <1>0 DEF Mid
    <3>2. a # op[t].field
      BY <1>0, <3>1
    <3> QED
      BY <1>3, <2>0, <3>2 DEF OwnerInv, Attributes
  <2> QED
    BY <2>1, <2>2 DEF OwnerInv
<1> QED
  BY <1>4, <1>5, <1>6 DEF Near

-----------------------------------------------------------------------------
(* Records and the cache.                                                   *)
LEMMA QuietNear ==
  ASSUME CacheInv, NEW t \in Tasks, Step(t),
         NEW o \in Owners, o = op[t].owner, ~All(o)',
         UNCHANGED <<record, metas, recordCache, metaCache, listed>>,
         \A s \in Tasks \ {t} : holds'[s] = holds[s],
         Mid(t) => Mid(t)', Busy(t)' => TaskInv(t)'
  PROVE  Near(t, o)
  BY SameNear, SameOwner DEF Near

LEMMA FailNear ==
  ASSUME CacheInv, NEW t \in Tasks, Fail(t),
         NEW o \in Owners, o = op[t].owner, ~All(o)'
  PROVE  Near(t, o)
<1>1. Step(t) /\ ~Mid(t) /\ ~Busy(t)'
  BY DEF Step, Fail, Finish, Goto, Mid, Busy, CacheInv, Base, TypeOK
<1>2. UNCHANGED <<record, metas, recordCache, metaCache, listed, holds>>
  BY DEF Fail, tables, cache
<1> QED
  BY <1>1, <1>2, QuietNear

LEMMA FindRecordNear ==
  ASSUME CacheInv, NEW t \in Tasks, FindRecord(t),
         NEW o \in Owners, o = op[t].owner, ~All(o)'
  PROVE  Near(t, o)
<1>0. /\ pc[t] = "find" /\ op[t].kind \in RecordKinds
      /\ pc'[t] = IF recordCache[o] # Absent THEN "sync" ELSE "putRecord"
      /\ holds' = [holds EXCEPT ![t] = recordCache[o] # Absent]
      /\ UNCHANGED <<record, metas, recordCache, metaCache, listed, op, rows, tangled>>
  BY DEF FindRecord, At, Goto, CacheInv, Base, TypeOK, tables, cache
<1>1. Step(t) /\ Busy(t) /\ TaskInv(t) /\ Mid(t) /\ Mid(t)'
  BY <1>0 DEF Step, CacheInv, Busy, Mid
<1>2. ~All(o)
  BY <1>1, Grows DEF CacheInv
<1>3. holds'[t] = (recordCache[o] # Absent)
  BY <1>0 DEF CacheInv, Base, TypeOK
<1>4. TaskInv(t)'
  <2>1. CASE op[t].kind = "insert"
    <3>1. recordCache[o] = Absent /\ record[o] = op[t].value
      BY <1>0, <1>1, <1>2, <2>1 DEF TaskInv, Inserting
    <3> QED
      BY <1>0, <2>1, <3>1
      DEF TaskInv, Aware, Updating, Inserting, Deleting, Editing, MetaKinds
  <2>2. CASE op[t].kind = "update"
    <3>1. recordCache[o] # Absent /\ record[o] # Absent
      BY <1>0, <1>1, <1>2, <2>2 DEF TaskInv, Updating
    <3>2. <<o, Record>> \notin tangled => record[o] = op[t].value
      BY <1>0, <1>1, <2>2 DEF TaskInv, Updating
    <3> QED
      BY <1>0, <1>3, <2>2, <3>1, <3>2
      DEF TaskInv, Aware, Updating, Inserting, Deleting, Editing, MetaKinds
  <2> QED
    BY <1>0, <2>1, <2>2 DEF RecordKinds
<1>5. \A s \in Tasks \ {t} : holds'[s] = holds[s]
  BY <1>0
<1> QED
  BY <1>0, <1>1, <1>4, <1>5, QuietNear

LEMMA PutRecordNear ==
  ASSUME CacheInv, NEW t \in Tasks, PutRecord(t),
         NEW o \in Owners, o = op[t].owner, ~All(o)'
  PROVE  Near(t, o)
<1>0. /\ pc[t] = "putRecord" /\ pc'[t] = "select"
      /\ recordCache' = [recordCache EXCEPT ![o] = op[t].value]
      /\ UNCHANGED <<record, metas, op, tangled>>
  BY DEF PutRecord, Goto, CacheInv, Base, TypeOK, tables
<1>1. Step(t) /\ Busy(t) /\ TaskInv(t) /\ Shape(t)
  BY <1>0 DEF Step, CacheInv, Base, Busy
<1>2. ~All(o)
  BY <1>1, Grows DEF CacheInv
<1>3. op[t].kind = "insert" /\ op[t].touches = Fields
  BY <1>0, <1>1, <1>2 DEF TaskInv, Updating, Shape, RecordKinds
<1>4. record[o] = op[t].value /\ recordCache'[o] = op[t].value
  BY <1>0, <1>1, <1>2, <1>3 DEF TaskInv, Inserting, Mid, CacheInv, Base, TypeOK
<1>5. TaskInv(t)'
  BY <1>0, <1>3, <1>4
  DEF TaskInv, Aware, Updating, Inserting, Deleting, Editing, MetaKinds
<1>6. OwnerInv(o)'
  BY <1>0, <1>3 DEF OwnerInv, Present, Records, Attributes, Mid, MetaKinds
<1> QED
  BY <1>1, <1>3, <1>5, <1>6, AloneNear

LEMMA SelectMetasNear ==
  ASSUME CacheInv, NEW t \in Tasks, SelectMetas(t),
         NEW o \in Owners, o = op[t].owner, ~All(o)'
  PROVE  Near(t, o)
<1>0. /\ pc[t] = "select" /\ pc'[t] = "putMetas" /\ rows'[t] = metas[o]
      /\ UNCHANGED <<record, metas, recordCache, op, tangled>>
  BY DEF SelectMetas, Goto, CacheInv, Base, TypeOK, tables, cache
<1>1. Step(t) /\ Busy(t) /\ TaskInv(t) /\ Shape(t)
  BY <1>0 DEF Step, CacheInv, Base, Busy
<1>2. ~All(o)
  BY <1>1, Grows DEF CacheInv
<1>3. op[t].kind = "insert" /\ op[t].touches = Fields
  BY <1>0, <1>1, <1>2 DEF TaskInv, Updating, Shape, RecordKinds
<1>4. record[o] = op[t].value /\ recordCache[o] = op[t].value
  BY <1>0, <1>1, <1>2, <1>3 DEF TaskInv, Inserting, Mid
<1>5. TaskInv(t)'
  BY <1>0, <1>3, <1>4
  DEF TaskInv, Aware, Updating, Inserting, Deleting, Editing, MetaKinds
<1>6. OwnerInv(o)'
  BY <1>0, <1>3 DEF OwnerInv, Present, Records, Attributes, Mid, MetaKinds
<1> QED
  BY <1>1, <1>3, <1>5, <1>6, AloneNear

LEMMA FailSelectNear ==
  ASSUME CacheInv, NEW t \in Tasks, FailSelect(t),
         NEW o \in Owners, o = op[t].owner, ~All(o)'
  PROVE  Near(t, o)
<1>0. /\ pc[t] = "select" /\ pc'[t] = "idle"
      /\ UNCHANGED <<record, metas, recordCache>>
      /\ \A a \in Attrs : <<o, a>> \in tangled'
  BY DEF FailSelect, Finish, Goto, CacheInv, Base, TypeOK, tables, cache
<1>1. Step(t) /\ Busy(t) /\ TaskInv(t) /\ Shape(t)
  BY <1>0 DEF Step, CacheInv, Base, Busy
<1>2. ~All(o)
  BY <1>1, Grows DEF CacheInv
<1>3. op[t].kind = "insert" /\ op[t].touches = Fields
  BY <1>0, <1>1, <1>2 DEF TaskInv, Updating, Shape, RecordKinds
<1>4. record[o] = op[t].value /\ recordCache[o] = op[t].value
  BY <1>0, <1>1, <1>2, <1>3 DEF TaskInv, Inserting, Mid
<1>5. OwnerInv(o)'
  BY <1>0, <1>4 DEF OwnerInv, Present, Records, Attributes
<1> QED
  BY <1>0, <1>1, <1>3, <1>5, AloneNear DEF Busy

LEMMA PutMetasNear ==
  ASSUME CacheInv, NEW t \in Tasks, PutMetas(t),
         NEW o \in Owners, o = op[t].owner, ~All(o)'
  PROVE  Near(t, o)
<1>0. /\ pc[t] = "putMetas" /\ pc'[t] = "idle"
      /\ UNCHANGED <<record, metas, recordCache, tangled>>
      /\ metaCache'[o] = rows[t]
  BY DEF PutMetas, Finish, Goto, CacheInv, Base, TypeOK, tables
<1>1. Step(t) /\ Busy(t) /\ TaskInv(t) /\ Shape(t)
  BY <1>0 DEF Step, CacheInv, Base, Busy
<1>2. ~All(o)
  BY <1>1, Grows DEF CacheInv
<1>3. op[t].kind = "insert" /\ op[t].touches = Fields
  BY <1>0, <1>1, <1>2 DEF TaskInv, Updating, Shape, RecordKinds
<1>4. /\ record[o] = op[t].value /\ recordCache[o] = op[t].value
      /\ \A a \in Attrs : <<o, a>> \notin tangled => rows[t][a] = metas[o][a]
  BY <1>0, <1>1, <1>2, <1>3 DEF TaskInv, Inserting, Mid
<1>5. OwnerInv(o)'
  BY <1>0, <1>4 DEF OwnerInv, Present, Records, Attributes
<1> QED
  BY <1>0, <1>1, <1>3, <1>5, AloneNear DEF Busy

LEMMA SyncRecordNear ==
  ASSUME CacheInv, NEW t \in Tasks, SyncRecord(t),
         NEW o \in Owners, o = op[t].owner, ~All(o)'
  PROVE  Near(t, o)
<1>0. /\ pc[t] = "sync" /\ pc'[t] = "idle"
      /\ UNCHANGED <<record, metas, metaCache, listed, tangled>>
      /\ recordCache' = IF holds[t] /\ o \in Users
                        THEN [recordCache EXCEPT ![o] = op[t].value]
                        ELSE recordCache
      /\ \A s \in Tasks \ {t} : holds'[s] = holds[s]
  BY DEF SyncRecord, Release, Finish, Goto, CacheInv, Base, TypeOK, tables
<1>1. /\ Step(t) /\ Busy(t) /\ TaskInv(t) /\ Shape(t) /\ Held(t)
      /\ Others(t) /\ Own(t) /\ recordCache \in [Owners -> Contents]
  BY <1>0, StepFrame DEF Step, CacheInv, Base, Busy, TypeOK
<1>2. ~All(o)
  BY <1>1, Grows DEF CacheInv
<1>3. /\ op[t].kind = "update" /\ op[t].value # Absent
      /\ op[t].field = Record /\ Record \in op[t].touches
  BY <1>0, <1>1, <1>2 DEF TaskInv, Inserting, Mid, Shape, RecordKinds, MetaKinds
<1>4. /\ record[o] # Absent /\ recordCache[o] # Absent
      /\ <<o, Record>> \notin tangled => record[o] = op[t].value /\ holds[t]
  BY <1>0, <1>1, <1>2, <1>3 DEF TaskInv, Updating, Aware
<1>5. recordCache'[o] # Absent
  BY <1>0, <1>1, <1>3, <1>4
<1>6. ASSUME NEW s \in Tasks \ {t}, Busy(s), op[s].owner = o PROVE TaskInv(s)'
  <2>1. /\ TaskInv(s) /\ op[s].kind \notin {"insert", "delete"}
        /\ pc'[s] = pc[s] /\ op'[s] = op[s] /\ holds'[s] = holds[s]
    BY <1>0, <1>1, <1>2, <1>6, NotAlone DEF CacheInv, Others
  <2>2. Updating(s)'
    BY <1>0, <1>4, <1>5, <1>6, <2>1 DEF TaskInv, Updating, All
  <2> QED
    BY <1>0, <1>6, <2>1, <2>2
    DEF TaskInv, Aware, Inserting, Deleting, Editing, Mid, All
<1>7. OwnerInv(o)'
  <2>1. Present(o)'
    BY <1>0, <1>4, <1>5 DEF Present
  <2>2. Records(o)'
    BY <1>0, <1>1, <1>4 DEF Records
  <2>3. Attributes(o)'
    <3>1. Attributes(o)
      BY DEF CacheInv, OwnerInv
    <3>2. \A s \in Tasks : Mid(s) /\ (op[s].kind = "insert" \/ op[s].kind \in MetaKinds)
                             => Mid(s)' /\ op'[s] = op[s]
      BY <1>1, <1>3 DEF Mid, Others, MetaKinds
    <3> QED
      BY <1>0, <3>1, <3>2 DEF Attributes
  <2> QED
    BY <2>1, <2>2, <2>3 DEF OwnerInv
<1> QED
  BY <1>0, <1>6, <1>7 DEF Near, Busy

LEMMA UncacheRecordNear ==
  ASSUME CacheInv, NEW t \in Tasks, UncacheRecord(t),
         NEW o \in Owners, o = op[t].owner, ~All(o)'
  PROVE  Near(t, o)
<1>0. /\ pc[t] = "uncache" /\ pc'[t] = "uncacheMetas"
      /\ recordCache'[o] = Absent
      /\ UNCHANGED <<record, metas, op, tangled>>
  BY DEF UncacheRecord, Goto, CacheInv, Base, TypeOK, tables
<1>1. /\ Step(t) /\ Busy(t) /\ TaskInv(t)
      /\ op[t].kind = "delete" /\ op[t].touches = Fields
  BY <1>0 DEF Step, CacheInv, Base, Busy, Shape
<1>2. ~All(o)
  BY <1>1, Grows DEF CacheInv
<1>3. record[o] = Absent
  BY <1>0, <1>1, <1>2 DEF TaskInv, Deleting, Mid
<1>4. TaskInv(t)'
  BY <1>0, <1>1, <1>3
  DEF TaskInv, Aware, Updating, Inserting, Deleting, Editing, MetaKinds
<1>5. OwnerInv(o)'
  BY <1>0, <1>1, <1>3 DEF OwnerInv, Present, Records, Attributes, Mid, MetaKinds
<1> QED
  BY <1>1, <1>4, <1>5, AloneNear

LEMMA UncacheMetasNear ==
  ASSUME CacheInv, NEW t \in Tasks, UncacheMetas(t),
         NEW o \in Owners, o = op[t].owner, ~All(o)'
  PROVE  Near(t, o)
<1>0. /\ pc[t] = "uncacheMetas" /\ pc'[t] = "idle"
      /\ UNCHANGED <<record, recordCache, tangled>>
  BY DEF UncacheMetas, Finish, Goto, CacheInv, Base, TypeOK, tables
<1>1. /\ Step(t) /\ Busy(t) /\ TaskInv(t)
      /\ op[t].kind = "delete" /\ op[t].touches = Fields
  BY <1>0 DEF Step, CacheInv, Base, Busy, Shape
<1>2. ~All(o)
  BY <1>1, Grows DEF CacheInv
<1>3. record[o] = Absent /\ recordCache[o] = Absent
  BY <1>0, <1>1, <1>2 DEF TaskInv, Deleting, Mid
<1>4. OwnerInv(o)'
  BY <1>0, <1>3 DEF OwnerInv, Present, Records, Attributes
<1> QED
  BY <1>0, <1>1, <1>4, AloneNear DEF Busy

-----------------------------------------------------------------------------
(* Attributes and the cache.                                                *)
LEMMA FindListNear ==
  ASSUME CacheInv, NEW t \in Tasks, FindList(t),
         NEW o \in Owners, o = op[t].owner, ~All(o)'
  PROVE  Near(t, o)
<1>0. /\ pc[t] = "find" /\ op[t].kind \in MetaKinds /\ pc'[t] = "change"
      /\ holds' = [holds EXCEPT ![t] = TRUE] /\ holds'[t]
      /\ UNCHANGED <<record, metas, recordCache, metaCache, listed, op, rows, tangled>>
  BY DEF FindList, At, Goto, CacheInv, Base, TypeOK, tables, cache
<1>1. Step(t) /\ Busy(t) /\ TaskInv(t) /\ Mid(t) /\ Mid(t)'
  BY <1>0 DEF Step, CacheInv, Busy, Mid
<1>2. TaskInv(t)'
  <2>1. Editing(t)'
    BY <1>0, <1>1 DEF TaskInv, Editing
  <2> QED
    BY <1>0, <2>1 DEF TaskInv, Aware, Updating, Inserting, Deleting, MetaKinds
<1>3. \A s \in Tasks \ {t} : holds'[s] = holds[s]
  BY <1>0
<1> QED
  BY <1>0, <1>1, <1>2, <1>3, QuietNear

LEMMA FindNoListNear ==
  ASSUME CacheInv, NEW t \in Tasks, FindNoList(t),
         NEW o \in Owners, o = op[t].owner, ~All(o)'
  PROVE  Near(t, o)
<1>0. /\ pc[t] = "find" /\ op[t].kind \in MetaKinds /\ pc'[t] = "putList" /\ ~listed[o]
      /\ UNCHANGED <<record, metas, recordCache, metaCache, listed, op, rows, holds, tangled>>
  BY DEF FindNoList, At, Goto, CacheInv, Base, TypeOK, tables, cache, MetaKinds
<1>1. Step(t) /\ Busy(t) /\ TaskInv(t) /\ Mid(t) /\ Mid(t)'
  BY <1>0 DEF Step, CacheInv, Busy, Mid
<1>2. ~All(o)
  BY <1>1, Grows DEF CacheInv
<1>3. op[t].touches = Fields
  BY <1>0, <1>1, <1>2 DEF TaskInv, Aware
<1>4. TaskInv(t)'
  <2>1. Editing(t)'
    BY <1>0, <1>1 DEF TaskInv, Editing
  <2> QED
    BY <1>0, <1>3, <2>1 DEF TaskInv, Aware, Updating, Inserting, Deleting, MetaKinds
<1> QED
  BY <1>0, <1>1, <1>4, QuietNear

(* A list that is changed or put, or was not there to be changed.           *)
LEMMA ListNear ==
  ASSUME CacheInv, NEW t \in Tasks, Step(t),
         NEW o \in Owners, o = op[t].owner, ~All(o)',
         op[t].kind \in MetaKinds, Mid(t), pc'[t] = "idle",
         UNCHANGED <<record, metas, recordCache, tangled>>,
         \A a \in Attrs \ {op[t].field} : metaCache'[o][a] = metaCache[o][a],
         <<o, op[t].field>> \notin tangled => metaCache'[o][op[t].field] = op[t].value
  PROVE  OwnerInv(o)'
<1>0. /\ Others(t) /\ OwnerInv(o) /\ TaskInv(t) /\ ~Mid(t)'
  BY StepFrame DEF CacheInv, Base, Mid, Busy
<1>1. \A s \in Tasks \ {t} : Mid(s) => Mid(s)' /\ op'[s] = op[s]
  BY <1>0 DEF Others, Mid
<1>2. <<o, op[t].field>> \notin tangled => metas[o][op[t].field] = op[t].value
  BY <1>0 DEF TaskInv, Editing
<1>3. op[t].kind \notin {"insert", "delete"}
  BY DEF MetaKinds
<1>4. Present(o)'
  BY <1>0, <1>1, <1>3 DEF OwnerInv, Present, All
<1>5. Records(o)'
  BY <1>0, <1>1 DEF OwnerInv, Records
<1>6. Attributes(o)'
  BY <1>0, <1>1, <1>2, <1>3 DEF OwnerInv, Attributes
<1> QED
  BY <1>4, <1>5, <1>6 DEF OwnerInv

LEMMA RemoveFromNullNear ==
  ASSUME CacheInv, NEW t \in Tasks, RemoveFromNull(t),
         NEW o \in Owners, o = op[t].owner, ~All(o)'
  PROVE  Near(t, o)
<1>0. /\ pc[t] = "find" /\ op[t].kind = "deleteMeta" /\ op[t].kind \in MetaKinds
      /\ pc'[t] = "idle" /\ ~listed[o]
      /\ UNCHANGED <<record, metas, recordCache, metaCache, listed, holds, tangled>>
  BY DEF RemoveFromNull, At, Finish, Goto, CacheInv, Base, TypeOK, tables, cache, MetaKinds
<1>1. Step(t) /\ Busy(t) /\ TaskInv(t) /\ Mid(t) /\ Shape(t)
  BY <1>0 DEF Step, CacheInv, Base, Busy, Mid
<1>2. metaCache[o][op[t].field] = op[t].value
  <2>1. metaCache[o] = NoRows /\ op[t].field \in Attrs /\ op[t].value = Absent
    BY <1>0, <1>1 DEF CacheInv, Base, TypeOK, Shape
  <2> QED
    BY <2>1 DEF NoRows
<1>3. OwnerInv(o)'
  BY <1>0, <1>1, <1>2, ListNear
<1>4. \A s \in Tasks \ {t} : Busy(s) => TaskInv(s)'
  BY <1>0, <1>1, SameNear
<1> QED
  BY <1>0, <1>3, <1>4 DEF Near, Busy

LEMMA PutListNear ==
  ASSUME CacheInv, NEW t \in Tasks, PutList(t),
         NEW o \in Owners, o = op[t].owner, ~All(o)'
  PROVE  Near(t, o)
<1>0. /\ pc[t] = "putList" /\ pc'[t] = "idle"
      /\ metaCache'[o] = [NoRows EXCEPT ![op[t].field] = op[t].value]
      /\ UNCHANGED <<record, metas, recordCache, tangled>>
  BY DEF PutList, Finish, Goto, CacheInv, Base, TypeOK, tables
<1>1. /\ Step(t) /\ Busy(t) /\ TaskInv(t) /\ Mid(t) /\ op[t].kind \in MetaKinds
      /\ op[t].field \in Attrs
  BY <1>0 DEF Step, CacheInv, Base, Busy, Mid, Shape
<1>2. ~All(o)
  BY <1>1, Grows DEF CacheInv
<1>3. op[t].touches = Fields /\ metaCache[o] = NoRows
  BY <1>0, <1>1, <1>2 DEF TaskInv, Aware, CacheInv, Base, TypeOK
<1>4. /\ \A a \in Attrs \ {op[t].field} : metaCache'[o][a] = metaCache[o][a]
      /\ metaCache'[o][op[t].field] = op[t].value
  BY <1>0, <1>1, <1>3 DEF NoRows
<1>5. OwnerInv(o)'
  BY <1>0, <1>1, <1>4, ListNear
<1> QED
  BY <1>0, <1>1, <1>3, <1>5, AloneNear DEF Busy

LEMMA ChangeMetaNear ==
  ASSUME CacheInv, NEW t \in Tasks, ChangeMeta(t),
         NEW o \in Owners, o = op[t].owner, ~All(o)'
  PROVE  Near(t, o)
<1>0. /\ pc[t] = "change" /\ pc'[t] = "idle"
      /\ metaCache' = IF holds[t]
                      THEN [metaCache EXCEPT ![o][op[t].field] = op[t].value]
                      ELSE metaCache
      /\ UNCHANGED <<record, metas, recordCache, listed, tangled>>
      /\ \A s \in Tasks \ {t} : holds'[s] = holds[s]
  BY DEF ChangeMeta, Release, Finish, Goto, CacheInv, Base, TypeOK, tables
<1>1. /\ Step(t) /\ Busy(t) /\ TaskInv(t) /\ Mid(t) /\ op[t].kind \in MetaKinds
      /\ op[t].field \in Attrs
  BY <1>0 DEF Step, CacheInv, Base, Busy, Mid, Shape
<1>2. <<o, op[t].field>> \notin tangled => holds[t]
  BY <1>0, <1>1 DEF TaskInv, Aware
<1>3. /\ \A a \in Attrs \ {op[t].field} : metaCache'[o][a] = metaCache[o][a]
      /\ holds[t] => metaCache'[o][op[t].field] = op[t].value
  <2>1. metaCache \in [Owners -> [Attrs -> Contents]]
    BY DEF CacheInv, Base, TypeOK
  <2> QED
    BY <1>0, <1>1, <2>1
<1>4. OwnerInv(o)'
  BY <1>0, <1>1, <1>2, <1>3, ListNear
<1>5. \A s \in Tasks \ {t} : Busy(s) => TaskInv(s)'
  BY <1>0, <1>1, SameNear
<1> QED
  BY <1>0, <1>4, <1>5 DEF Near, Busy

-----------------------------------------------------------------------------
LEMMA StepNear ==
  ASSUME CacheInv, NEW t \in Tasks, Step(t),
         NEW o \in Owners, o = op[t].owner, ~All(o)'
  PROVE  Near(t, o)
  BY InsertRowNear, UpdateRowNear, DeleteRowsNear, MetaRowNear, FailNear, FindRecordNear,
     PutRecordNear, SelectMetasNear, FailSelectNear, PutMetasNear, SyncRecordNear,
     UncacheRecordNear, UncacheMetasNear, FindListNear, FindNoListNear,
     RemoveFromNullNear, PutListNear, ChangeMetaNear
  DEF Step

LEMMA StepNext ==
  ASSUME CacheInv, Base', NEW t \in Tasks, Step(t)
  PROVE  CacheInv'
<1>0. Others(t) /\ Own(t)
  BY StepFrame DEF CacheInv, Base
<1>1. PICK o \in Owners : o = op[t].owner
  BY <1>0, OpTyped DEF CacheInv, Base, Own
<1>2. Met'
  BY MetStep DEF CacheInv
<1>3. ASSUME NEW s \in Tasks, Busy(s)' PROVE TaskInv(s)'
  <2>1. CASE s # t /\ op[s].owner # o
    BY <1>0, <1>1, <1>3, <2>1, DistantTasks DEF Others, Busy
  <2>2. CASE (s = t \/ op[s].owner = o) /\ ~All(o)'
    BY <1>0, <1>1, <1>3, <2>2, StepNear DEF Others, Busy, Near
  <2>3. CASE (s = t \/ op[s].owner = o) /\ All(o)'
    <3>1. op'[s].owner = o
      BY <1>0, <1>1, <1>3, <2>3 DEF Others, Own, Busy
    <3>2. op'[s].field \in Fields /\ Shape(s)'
      BY <1>3 DEF Base, TypeOK, Op, Busy
    <3> QED
      BY <1>3, <2>3, <3>1, <3>2, AllTangled
  <2> QED
    BY <2>1, <2>2, <2>3
<1>4. ASSUME NEW p \in Owners PROVE OwnerInv(p)'
  <2>1. CASE p # o
    BY <1>1, <2>1, DistantOwners
  <2>2. CASE p = o /\ ~All(o)'
    BY <1>1, <2>2, StepNear DEF Near
  <2>3. CASE p = o /\ All(o)'
    BY <2>3, AllTangled
  <2> QED
    BY <2>1, <2>2, <2>3
<1> QED
  BY <1>2, <1>3, <1>4 DEF CacheInv

LEMMA BeginNext ==
  ASSUME CacheInv, Base', NEW t \in Tasks, NEW kind, NEW o, NEW f, NEW v,
         Begin(t, kind, o, f, v), Others(t),
         kind = "updateMeta" => metas[o][f] # Absent
  PROVE  CacheInv'
<1>0. /\ ~Busy(t) /\ pc'[t] = "write" /\ Tangle(t, o, Touches(kind, o, f))
      /\ op'[t] = [kind |-> kind, owner |-> o, field |-> f, value |-> v,
                   touches |-> Touches(kind, o, f)]
      /\ UNCHANGED <<record, metas, recordCache, metaCache, listed, rows, holds>>
  BY DEF Begin, Goto, Busy, CacheInv, Base, TypeOK, tables, cache
<1>1. Met'
  <2> SUFFICES ASSUME NEW r \in Tasks, NEW s \in Tasks, r # s, Busy(r)', Busy(s)',
                      op'[r].owner = op'[s].owner,
                      op'[r].touches \cap op'[s].touches # {},
                      NEW g \in op'[r].touches \cup op'[s].touches
               PROVE  <<op'[r].owner, g>> \in tangled'
    BY DEF Met
  <2>1. CASE r # t /\ s # t
    BY <2>1 DEF CacheInv, Met, Others, Busy
  <2>2. ASSUME NEW q \in Tasks \ {t}, Busy(q)', op'[q].owner = o,
               op'[q].touches \cap Touches(kind, o, f) # {}
        PROVE  \A h \in op'[q].touches \cup Touches(kind, o, f) : <<o, h>> \in tangled'
    <3>1. op'[q] = op[q] /\ Meets(q, o, Touches(kind, o, f))
      BY <2>2 DEF Others, Meets, Busy
    <3>2. {o} \X (op[q].touches \cup Touches(kind, o, f)) \subseteq tangled'
      BY <1>0, <3>1 DEF Tangle
    <3> QED
      BY <3>1, <3>2
  <2>3. CASE r = t
    BY <1>0, <2>2, <2>3
  <2>4. CASE s = t
    BY <1>0, <2>2, <2>4
  <2> QED
    BY <2>1, <2>3, <2>4
<1>2. TaskInv(t)'
  <2>1. kind \in MetaKinds /\ ~listed[o] => Touches(kind, o, f) = Fields
    BY DEF Touches, Whole
  <2> QED
    BY <1>0, <2>1
    DEF TaskInv, Aware, Updating, Inserting, Deleting, Editing, Mid, MetaKinds
<1>3. ASSUME NEW s \in Tasks \ {t}, Busy(s)' PROVE TaskInv(s)'
  BY <1>0, <1>3, SameTask DEF CacheInv, Others, Busy
<1>4. \A s \in Tasks : Mid(s) => Mid(s)' /\ op'[s] = op[s]
  BY <1>0 DEF Others, Mid, Busy
<1>5. \A p \in Owners : OwnerInv(p)'
  BY <1>0, <1>4, SameOwnerInv DEF CacheInv, Others
<1> QED
  BY <1>1, <1>2, <1>3, <1>5 DEF CacheInv

LEMMA StartNext ==
  ASSUME CacheInv, Base', NEW t \in Tasks, Start(t)
  PROVE  CacheInv'
<1>1. Others(t)
  BY StartFrame DEF CacheInv, Base
<1>2. ASSUME NEW o, NEW f, NEW v, NEW kind \in {"insert", "update", "delete", "addMeta", "deleteMeta"},
             Begin(t, kind, o, f, v)
      PROVE  CacheInv'
  BY <1>1, <1>2, BeginNext
<1>3. ASSUME NEW o \in Owners, NEW a \in Attrs, NEW v, EditMeta(t, o, a, v) PROVE CacheInv'
  <2>1. CASE metas[o][a] = Absent
    BY <1>2, <1>3, <2>1 DEF EditMeta
  <2>2. CASE metas[o][a] # Absent
    <3>1. Begin(t, "updateMeta", o, a, v)
      BY <1>3, <2>2 DEF EditMeta
    <3> QED
      BY <1>1, <2>2, <3>1, BeginNext
  <2> QED
    BY <2>1, <2>2
<1> QED
  BY <1>2, <1>3 DEF Start, InsertOwner, UpdateOwner, DeleteOwner, DeleteMeta, BindAddress

(* A start loads what is stored.                                            *)
LEMMA Loaded ==
  ASSUME \A t \in Tasks : ~Busy(t), recordCache = record, metaCache = metas, Base
  PROVE  CacheInv
  BY DEF CacheInv, Met, OwnerInv, Present, Records, Attributes

LEMMA CacheNext == CacheInv /\ [Next]_vars => CacheInv'
<1> SUFFICES ASSUME CacheInv, [Next]_vars PROVE CacheInv'
  OBVIOUS
<1>0. Base'
  BY BaseNext DEF CacheInv
<1>1. CASE Crash
  <2>1. /\ \A t \in Tasks : ~Busy(t)'
        /\ recordCache' = record' /\ metaCache' = metas'
    BY <1>1 DEF Crash, Busy, tables
  <2> QED
    BY <1>0, <2>1 DEF CacheInv, Met, OwnerInv, Present, Records, Attributes
<1>2. CASE UNCHANGED vars
  <2>1. UNCHANGED <<record, metas, recordCache, metaCache, listed, pc, op, rows, holds, tangled>>
    BY <1>2 DEF vars, tables, cache, locals
  <2>2. Met' /\ \A t \in Tasks : Busy(t)' => TaskInv(t)'
    BY <2>1 DEF CacheInv, Met, Busy, TaskInv, Aware, Updating, Inserting, Deleting,
       Editing, Mid, All
  <2>3. \A o \in Owners : OwnerInv(o)'
    BY <2>1 DEF CacheInv, OwnerInv, Present, Records, Attributes, Mid, All
  <2> QED
    BY <1>0, <2>2, <2>3 DEF CacheInv
<1> QED
  BY <1>0, <1>1, <1>2, StartNext, StepNext DEF Next

LEMMA CacheInit == Init => CacheInv
  BY BaseInit, Loaded DEF Init, Busy

LEMMA CacheCoherent == CacheInv => Coherent
<1> SUFFICES ASSUME CacheInv, NEW o \in Owners, NEW f \in Fields,
                    <<o, f>> \notin tangled, ~Pending(o, f)
             PROVE  CachedView(o, f) = StoredView(o, f)
  BY DEF Coherent
<1>1. ASSUME NEW t \in Tasks, Mid(t), op[t].owner = o
      PROVE  /\ f \notin op[t].touches /\ op[t].kind \notin {"insert", "delete"}
             /\ op[t].field \in op[t].touches
             /\ (op[t].kind \notin MetaKinds => op[t].field = Record)
  BY <1>1 DEF Pending, Mid, CacheInv, Base, Shape
<1>2. ~All(o) /\ Present(o) /\ Records(o) /\ Attributes(o)
  BY DEF All, CacheInv, OwnerInv
<1>3. record[o] = Absent <=> recordCache[o] = Absent
  BY <1>1, <1>2 DEF Present
<1>4. CASE record[o] = Absent
  BY <1>3, <1>4 DEF CachedView, StoredView
<1>5. CASE record[o] # Absent /\ f = Record
  <2>1. o \in Users => record[o] = recordCache[o]
    BY <1>1, <1>2, <1>5 DEF Records
  <2>2. o \in Users \/ o \in Groups
    BY DEF Owners
  <2> QED
    BY <1>3, <1>5, <2>1, <2>2 DEF CachedView, StoredView, Shown
<1>6. CASE record[o] # Absent /\ f # Record
  <2>1. f \in Attrs
    BY <1>6 DEF Fields
  <2>2. metaCache[o][f] = metas[o][f]
    BY <1>1, <1>2, <1>6, <2>1 DEF Attributes
  <2> QED
    BY <1>3, <1>6, <2>2 DEF CachedView, StoredView
<1> QED
  BY <1>4, <1>5, <1>6

(* The invariant, for any users, groups, attributes and requests: how far   *)
(* each operation of UserService and CacheService has brought its write.    *)
THEOREM CacheCorrect == Spec => []CacheInv
  BY CacheInit, CacheNext, PTL DEF Spec

(* An update or remove of CacheService whose record or list has left its    *)
(* map in between, so that its change is lost to the servers, has met       *)
(* another operation on the same field.                                     *)
THEOREM LossesHaveACause == Spec => []LostForCause
<1>1. CacheInv => LostForCause
  BY DEF CacheInv, LostForCause, TaskInv, Aware, Busy
<1> QED
  BY <1>1, CacheCorrect, PTL

(* What getUser(), getGroup() and their attributes' getters find in the     *)
(* maps of CacheService is what the tables hold, for every field that no    *)
(* operation has still to bring to the cache and that is not tangled.       *)
THEOREM CacheIsCoherent == Spec => []Coherent
  BY CacheCoherent, CacheCorrect, PTL

-----------------------------------------------------------------------------
(* The refinement.  A list may outlive its user, and an attribute be stored *)
(* without one: the cache then holds what is stored, or nothing.            *)
Leftovers(o) ==
  \A a \in Attrs :
    /\ <<o, a>> \notin tangled
    /\ \A t \in Tasks :
         Mid(t) /\ (op[t].kind = "delete" \/ (op[t].kind \in MetaKinds /\ op[t].field = a)) =>
           op[t].owner # o
    => metaCache[o][a] \in {Absent, metas[o][a]}

LEMMA LeftoversDistant ==
  ASSUME CacheInv, NEW t \in Tasks, Step(t), NEW p \in Owners, p # op[t].owner, Leftovers(p)
  PROVE  Leftovers(p)'
<1>0. Others(t) /\ Own(t) /\ Elsewhere(t)
  BY StepFrame, StepElsewhere DEF CacheInv, Base
<1>1. \A s \in Tasks : op[s].owner = p => pc'[s] = pc[s] /\ op'[s] = op[s]
  BY <1>0 DEF Others
<1>2. /\ metaCache'[p] = metaCache[p]
      /\ \A a \in Attrs : metas'[p][a] = metas[p][a] \/ <<p, a>> \in tangled'
      /\ \A x \in tangled : x \in tangled'
  BY <1>0 DEF Elsewhere, Others
<1> QED
  BY <1>1, <1>2 DEF Leftovers, Mid

(* Steps after which a field is as it was, or right.                        *)
LEMMA LeftoversKept ==
  ASSUME NEW t \in Tasks, NEW o \in Owners, o = op[t].owner, Leftovers(o), Others(t), Own(t),
         \A a \in Attrs :
           \/ metaCache'[o][a] \in {Absent, metas'[o][a]}
           \/ /\ metaCache'[o][a] = metaCache[o][a] /\ metas'[o][a] = metas[o][a]
              /\ \/ Mid(t) => Mid(t)'
                 \/ op[t].kind # "delete" /\ (op[t].kind \in MetaKinds => op[t].field # a)
           \/ <<o, a>> \in tangled'
           \/ /\ op[t].kind \in MetaKinds /\ op[t].field = a
              /\ Mid(t)'
  PROVE  Leftovers(o)'
<1> SUFFICES ASSUME NEW a \in Attrs, <<o, a>> \notin tangled',
                    \A s \in Tasks :
                      Mid(s)' /\ (op'[s].kind = "delete"
                                   \/ (op'[s].kind \in MetaKinds /\ op'[s].field = a))
                      => op'[s].owner # o
             PROVE  metaCache'[o][a] \in {Absent, metas'[o][a]}
  BY DEF Leftovers
<1>1. <<o, a>> \notin tangled
  BY DEF Others
<1>2. \A s \in Tasks \ {t} : Mid(s) => Mid(s)' /\ op'[s] = op[s]
  BY DEF Others, Mid
<1>3. Mid(t)' => op'[t] = op[t]
  BY DEF Own, Mid
<1>4. ~(op[t].kind \in MetaKinds /\ op[t].field = a /\ Mid(t)')
  BY <1>3
<1>5. ASSUME metaCache'[o][a] = metaCache[o][a], metas'[o][a] = metas[o][a],
             \/ Mid(t) => Mid(t)'
             \/ op[t].kind # "delete" /\ (op[t].kind \in MetaKinds => op[t].field # a)
      PROVE  metaCache'[o][a] \in {Absent, metas'[o][a]}
  <2>1. \A s \in Tasks :
          Mid(s) /\ (op[s].kind = "delete" \/ (op[s].kind \in MetaKinds /\ op[s].field = a))
          => op[s].owner # o
    BY <1>2, <1>3, <1>5
  <2> QED
    BY <1>1, <1>5, <2>1 DEF Leftovers
<1> QED
  BY <1>4, <1>5

LEMMA LeftoversNear ==
  ASSUME CacheInv, NEW t \in Tasks, Step(t),
         NEW o \in Owners, o = op[t].owner, Leftovers(o), ~All(o)'
  PROVE  Leftovers(o)'
<1>0. /\ Others(t) /\ Own(t) /\ ~All(o) /\ Busy(t)
      /\ Shape(t) /\ Held(t) /\ TaskInv(t)
  BY StepFrame, Grows DEF CacheInv, Base, Own, Busy
<1>t. /\ metas \in [Owners -> [Attrs -> Contents]] /\ metaCache \in [Owners -> [Attrs -> Contents]]
      /\ pc \in [Tasks -> PCs] /\ \A p \in Owners : ~listed[p] => metaCache[p] = NoRows
  BY DEF CacheInv, Base, TypeOK
<1>a. ASSUME UNCHANGED <<metas, metaCache>>, Mid(t) => Mid(t)' PROVE Leftovers(o)'
  BY <1>0, <1>a, LeftoversKept
<1>b. ASSUME UNCHANGED <<metas, metaCache>>,
             op[t].kind # "delete" /\ op[t].kind \notin MetaKinds
      PROVE  Leftovers(o)'
  BY <1>0, <1>b, LeftoversKept
<1>c. ASSUME \A a \in Attrs : metaCache'[o][a] \in {Absent, metas'[o][a]} \/ <<o, a>> \in tangled'
      PROVE  Leftovers(o)'
  BY <1>0, <1>c, LeftoversKept
<1>d. ASSUME op[t].kind \in MetaKinds, UNCHANGED <<metas, tangled>>, Mid(t), ~(op[t].kind = "delete"),
             \A a \in Attrs \ {op[t].field} : metaCache'[o][a] = metaCache[o][a],
             <<o, op[t].field>> \notin tangled =>
                metaCache'[o][op[t].field] = op[t].value
      PROVE  Leftovers(o)'
  <2>1. <<o, op[t].field>> \notin tangled => metas[o][op[t].field] = op[t].value
    BY <1>0, <1>d DEF TaskInv, Editing
  <2> QED
    BY <1>0, <1>d, <2>1, LeftoversKept
<1> USE DEF tables, cache
<1>1. CASE InsertRow(t) \/ UpdateRow(t)
  <2>1. UNCHANGED <<metas, metaCache>> /\ pc[t] = "write"
    BY <1>1 DEF InsertRow, UpdateRow, Writes, At
  <2> QED
    BY <1>a, <2>1 DEF Mid
<1>2. CASE DeleteRows(t)
  <2>1. /\ pc'[t] = "uncache" /\ op'[t] = op[t] /\ op[t].kind = "delete"
    BY <1>2, <1>t DEF DeleteRows, Writes, At, Goto
  <2> QED
    BY <2>1 DEF Leftovers, Mid
<1>3. CASE InsertMetaRow(t) \/ UpdateMetaRow(t) \/ DeleteMetaRow(t)
  <2>1. /\ pc[t] = "write" /\ op[t].kind \in MetaKinds /\ pc'[t] = "find" /\ UNCHANGED metaCache
    BY <1>3, <1>t
    DEF InsertMetaRow, UpdateMetaRow, DeleteMetaRow, WriteMeta, Writes, At, Goto, MetaKinds
  <2>2. \A a \in Attrs \ {op[t].field} : metas'[o][a] = metas[o][a]
    BY <1>3, <1>t DEF InsertMetaRow, UpdateMetaRow, DeleteMetaRow, WriteMeta
  <2> QED
    BY <1>0, <2>1, <2>2, LeftoversKept DEF Mid
<1>4. CASE Fail(t)
  BY <1>a, <1>4 DEF Fail, Mid
<1>5. CASE FindRecord(t) \/ SelectMetas(t)
  <2>1. UNCHANGED <<metas, metaCache>> /\ Mid(t)'
    BY <1>5, <1>t DEF FindRecord, SelectMetas, Goto, Mid
  <2> QED
    BY <1>a, <2>1
<1>6. CASE PutRecord(t) \/ UncacheRecord(t)
  <2>1. UNCHANGED <<metas, metaCache>> /\ Mid(t)'
    BY <1>6, <1>t DEF PutRecord, UncacheRecord, Goto, Mid
  <2> QED
    BY <1>a, <2>1
<1>7. CASE FailSelect(t) \/ SyncRecord(t)
  <2>1. UNCHANGED <<metas, metaCache>> /\ op[t].kind \in RecordKinds
    BY <1>7, <1>0 DEF FailSelect, SyncRecord, Shape
  <2> QED
    BY <1>b, <2>1 DEF RecordKinds, MetaKinds
<1>8. CASE PutMetas(t)
  <2>1. pc[t] = "putMetas" /\ metaCache'[o] = rows[t] /\ UNCHANGED <<metas, tangled>>
    BY <1>8, <1>t DEF PutMetas
  <2>2. op[t].kind = "insert"
    BY <1>0, <2>1 DEF Shape, RecordKinds, TaskInv, Updating
  <2>3. \A a \in Attrs : <<o, a>> \notin tangled => rows[t][a] = metas[o][a]
    BY <1>0, <2>1, <2>2 DEF TaskInv, Inserting, Mid
  <2> QED
    BY <1>c, <2>1, <2>3
<1>9. CASE UncacheMetas(t)
  <2>1. metaCache'[o] = NoRows
    BY <1>9, <1>t DEF UncacheMetas
  <2> QED
    BY <1>c, <2>1 DEF NoRows
<1>10. CASE FindList(t) \/ FindNoList(t)
  <2>1. UNCHANGED <<metas, metaCache>> /\ Mid(t)'
    BY <1>10, <1>t DEF FindList, FindNoList, Goto, Mid
  <2> QED
    BY <1>a, <2>1
<1>11. CASE RemoveFromNull(t)
  <2>1. metaCache'[o] = NoRows
    BY <1>11, <1>t DEF RemoveFromNull
  <2> QED
    BY <1>c, <2>1 DEF NoRows
<1>12. CASE PutList(t)
  <2>1. /\ pc[t] = "putList" /\ UNCHANGED <<metas, tangled>>
        /\ metaCache'[o] = [NoRows EXCEPT ![op[t].field] = op[t].value]
        /\ op[t].kind \in MetaKinds /\ op[t].field \in Attrs
    BY <1>12, <1>t, <1>0 DEF PutList, Shape, Busy
  <2>2. metaCache[o] = NoRows
    BY <1>0, <1>t, <2>1 DEF TaskInv, Aware
  <2>3. /\ \A a \in Attrs \ {op[t].field} : metaCache'[o][a] = metaCache[o][a]
        /\ metaCache'[o][op[t].field] = op[t].value
    BY <2>1, <2>2 DEF NoRows
  <2> QED
    BY <1>d, <2>1, <2>3 DEF Mid, MetaKinds
<1>13. CASE ChangeMeta(t)
  <2>1. /\ pc[t] = "change" /\ UNCHANGED <<metas, tangled>>
        /\ metaCache' = IF holds[t]
                        THEN [metaCache EXCEPT ![o][op[t].field] = op[t].value]
                        ELSE metaCache
        /\ op[t].kind \in MetaKinds /\ op[t].field \in Attrs
    BY <1>13, <1>0 DEF ChangeMeta, Shape, Busy
  <2>2. <<o, op[t].field>> \notin tangled => holds[t]
    BY <1>0, <2>1 DEF TaskInv, Aware
  <2>3. /\ \A a \in Attrs \ {op[t].field} : metaCache'[o][a] = metaCache[o][a]
        /\ <<o, op[t].field>> \notin tangled => metaCache'[o][op[t].field] = op[t].value
    BY <1>t, <2>1, <2>2
  <2> QED
    BY <1>d, <2>1, <2>3 DEF Mid, MetaKinds
<1> QED
  BY <1>1, <1>2, <1>3, <1>4, <1>5, <1>6, <1>7, <1>8, <1>9, <1>10, <1>11, <1>12, <1>13
  DEF Step

Refined == CacheInv /\ \A o \in Owners : Leftovers(o)

LEMMA RefinedInit == Init => Refined
<1>1. Init => CacheInv
  BY CacheInit
<1> QED
  BY <1>1 DEF Init, Refined, Leftovers

LEMMA RefinedNext == Refined /\ [Next]_vars => Refined'
<1> SUFFICES ASSUME Refined, [Next]_vars PROVE Refined'
  OBVIOUS
<1>0. CacheInv /\ CacheInv' /\ \A o \in Owners : Leftovers(o)
  BY CacheNext DEF Refined
<1>1. ASSUME NEW t \in Tasks, Start(t), NEW o \in Owners PROVE Leftovers(o)'
  <2>1. /\ Others(t) /\ UNCHANGED <<metas, metaCache>>
        /\ \A s \in Tasks : Mid(s) => Mid(s)' /\ op'[s] = op[s]
    BY <1>0, <1>1, StartFrame DEF CacheInv, Base, Others, Mid, tables, cache
  <2> QED
    BY <1>0, <2>1 DEF Leftovers, Others
<1>2. ASSUME NEW t \in Tasks, Step(t), NEW o \in Owners PROVE Leftovers(o)'
  <2>1. CASE o # op[t].owner
    BY <1>0, <1>2, <2>1, LeftoversDistant
  <2>2. CASE o = op[t].owner /\ ~All(o)'
    BY <1>0, <1>2, <2>2, LeftoversNear
  <2>3. CASE All(o)'
    BY <2>3, InputsTyped DEF All, Leftovers
  <2> QED
    BY <2>1, <2>2, <2>3
<1>3. CASE Crash
  BY <1>0, <1>3 DEF Crash, tables, Leftovers, Refined
<1>4. CASE UNCHANGED vars
  BY <1>0, <1>4 DEF vars, tables, cache, locals, Leftovers, Mid, Refined
<1> QED
  BY <1>0, <1>1, <1>2, <1>3, <1>4 DEF Next, Refined

(* Views are contents, and the directory's variables functions of them.     *)
LEMMA ViewsTyped ==
  ASSUME TypeOK, NEW o \in Owners, NEW f \in Fields
  PROVE  /\ StoredView(o, f) \in Contents \cup {Exists}
         /\ CachedView(o, f) \in Contents \cup {Exists}
         /\ Unknown \notin Contents \cup {Exists}
<1>1. /\ record[o] \in Contents /\ recordCache[o] \in Contents
      /\ f # Record => metas[o][f] \in Contents /\ metaCache[o][f] \in Contents
  BY DEF TypeOK, Fields
<1>2. Unknown \notin Contents \cup {Exists}
  BY UnknownAssumption DEF Contents
<1> QED
  BY <1>1, <1>2 DEF StoredView, CachedView, Shown

Stored == [k \in Keys |-> StoredView(k[1], k[2])]
Seen   == [k \in Keys |-> IF k \in tangled THEN Unknown ELSE CachedView(k[1], k[2])]

LEMMA DirectoryTyped ==
  TypeOK => /\ Stored \in [Keys -> Contents \cup {Exists}]
            /\ Seen \in [Keys -> Contents \cup {Exists} \cup {Unknown}]
<1> SUFFICES ASSUME TypeOK
             PROVE  /\ Stored \in [Keys -> Contents \cup {Exists}]
                    /\ Seen \in [Keys -> Contents \cup {Exists} \cup {Unknown}]
  OBVIOUS
<1>1. ASSUME NEW k \in Keys
      PROVE  /\ StoredView(k[1], k[2]) \in Contents \cup {Exists}
             /\ CachedView(k[1], k[2]) \in Contents \cup {Exists}
  <2>1. k[1] \in Owners /\ k[2] \in Fields
    BY DEF Keys
  <2> QED
    BY <2>1, ViewsTyped
<1> QED
  BY <1>1 DEF Stored, Seen

LEMMA DirectoryTypedNext ==
  TypeOK' => /\ Stored' \in [Keys -> Contents \cup {Exists}]
             /\ Seen' \in [Keys -> Contents \cup {Exists} \cup {Unknown}]
<1> DEFINE Typed == /\ Stored \in [Keys -> Contents \cup {Exists}]
                    /\ Seen \in [Keys -> Contents \cup {Exists} \cup {Unknown}]
<1>1. TypeOK => Typed
  BY DirectoryTyped
<1> HIDE DEF Typed
<1>2. TypeOK' => Typed'
  BY <1>1, PTL
<1> QED
  BY <1>2 DEF Typed

(* A step that changes no view of the cache, and tables only where the two  *)
(* agree, is a write of the directory; one that changes no table, and shows *)
(* what is stored, follows it.                                              *)
LEMMA WriteRefines ==
  ASSUME TypeOK', tangled \subseteq tangled',
         \A o \in Owners, f \in Fields : <<o, f>> \notin tangled' =>
           /\ CachedView(o, f)' = CachedView(o, f)
           /\ StoredView(o, f)' = StoredView(o, f) \/ CachedView(o, f) = StoredView(o, f)
  PROVE  D!Write
<1>1. /\ Stored' \in [Keys -> Contents \cup {Exists}]
      /\ Seen' \in [Keys -> Contents \cup {Exists} \cup {Unknown}]
  BY DirectoryTypedNext
<1>2. ASSUME NEW k \in Keys
      PROVE  /\ Seen'[k] \in {Seen[k], Unknown}
             /\ \/ Stored'[k] = Stored[k]
                \/ Seen[k] \in {Stored[k], Unknown}
                \/ Seen'[k] = Unknown
  <2>1. PICK o \in Owners, f \in Fields : k = <<o, f>>
    BY DEF Keys
  <2>2. /\ Stored[k] = StoredView(o, f) /\ Stored'[k] = StoredView(o, f)'
        /\ Seen[k] = IF k \in tangled THEN Unknown ELSE CachedView(o, f)
        /\ Seen'[k] = IF k \in tangled' THEN Unknown ELSE CachedView(o, f)'
    BY <2>1 DEF Stored, Seen
  <2> QED
    BY <2>1, <2>2
<1> QED
  BY <1>1, <1>2 DEF D!Write, D!Settled, Stored, Seen

LEMMA FollowRefines ==
  ASSUME TypeOK, TypeOK', tangled' = tangled, UNCHANGED <<record, metas>>,
         \A o \in Owners, f \in Fields : <<o, f>> \notin tangled =>
           \/ CachedView(o, f)' = CachedView(o, f)
           \/ CachedView(o, f)' = StoredView(o, f)
  PROVE  D!Follow
<1>1. /\ Stored' = Stored
      /\ Seen' \in [Keys -> Contents \cup {Exists} \cup {Unknown}]
  <2>1. \A k \in Keys : StoredView(k[1], k[2])' = StoredView(k[1], k[2])
    BY DEF StoredView
  <2> QED
    BY <2>1, DirectoryTypedNext DEF Stored
<1>2. ASSUME NEW k \in Keys
      PROVE  \/ Seen'[k] = Seen[k]
             \/ Seen[k] # Unknown /\ Seen'[k] = Stored[k]
  <2>1. PICK o \in Owners, f \in Fields : k = <<o, f>>
    BY DEF Keys
  <2>2. /\ Stored[k] = StoredView(o, f)
        /\ Seen[k] = IF k \in tangled THEN Unknown ELSE CachedView(o, f)
        /\ Seen'[k] = IF k \in tangled' THEN Unknown ELSE CachedView(o, f)'
    BY <2>1 DEF Stored, Seen
  <2>3. CachedView(o, f) # Unknown
    BY ViewsTyped
  <2> QED
    BY <2>1, <2>2, <2>3
<1> QED
  BY <1>1, <1>2 DEF D!Follow, Stored, Seen

(* A field that a transaction is about to write is in the cache as it is    *)
(* stored, unless somebody else writes it, too.                             *)
LEMMA WriterSettled ==
  ASSUME CacheInv, NEW t \in Tasks, pc[t] = "write", NEW o \in Owners, o = op[t].owner,
         NEW f \in op[t].touches, <<o, f>> \notin tangled
  PROVE  CachedView(o, f) = StoredView(o, f)
<1>1. f \in Fields
  BY OpTyped DEF CacheInv, Base
<1>2. ~Pending(o, f)
  <2> SUFFICES ASSUME NEW s \in Tasks, pc[s] \notin {"idle", "write"}, op[s].owner = o,
                      f \in op[s].touches
               PROVE  FALSE
    BY DEF Pending
  <2> QED
    BY DEF CacheInv, Met, Busy
<1> QED
  BY <1>1, <1>2, CacheCoherent DEF Coherent

LEMMA StartRefines ==
  ASSUME CacheInv, CacheInv', NEW t \in Tasks, Start(t)
  PROVE  D!Next
<1>1. TypeOK' /\ tangled \subseteq tangled' /\ UNCHANGED <<tables, cache>>
  BY StartFrame DEF CacheInv, Base, Others
<1>2. ASSUME NEW o \in Owners, NEW f \in Fields
      PROVE  CachedView(o, f)' = CachedView(o, f) /\ StoredView(o, f)' = StoredView(o, f)
  BY <1>1 DEF tables, cache, CachedView, StoredView
<1> QED
  BY <1>1, <1>2, WriteRefines DEF D!Next

(* The transactions, and the SELECT that fails after one.                   *)
LEMMA CommitRefines ==
  ASSUME CacheInv, CacheInv', NEW t \in Tasks,
         InsertRow(t) \/ UpdateRow(t) \/ DeleteRows(t)
         \/ InsertMetaRow(t) \/ UpdateMetaRow(t) \/ DeleteMetaRow(t)
         \/ FailSelect(t)
  PROVE  D!Next
<1>0. /\ Step(t) /\ TypeOK' /\ tangled \subseteq tangled'
      /\ UNCHANGED <<recordCache, metaCache>>
  <2>1. Step(t)
    BY DEF Step
  <2>2. UNCHANGED cache
    BY DEF InsertRow, UpdateRow, DeleteRows, InsertMetaRow, UpdateMetaRow, DeleteMetaRow,
       WriteMeta, Writes, FailSelect
  <2> QED
    BY <2>1, <2>2, StepFrame DEF CacheInv, Base, Others, cache
<1>t. /\ record \in [Owners -> Contents] /\ metas \in [Owners -> [Attrs -> Contents]]
  BY DEF CacheInv, Base, TypeOK
<1>1. PICK o \in Owners : o = op[t].owner
  BY <1>0, StepFrame, OpTyped DEF CacheInv, Base, Own
<1>2. ASSUME NEW p \in Owners, NEW f \in Fields PROVE CachedView(p, f)' = CachedView(p, f)
  BY <1>0 DEF CachedView
<1>3. ASSUME NEW p \in Owners, NEW f \in Fields, <<p, f>> \notin tangled'
      PROVE  StoredView(p, f)' = StoredView(p, f) \/ CachedView(p, f) = StoredView(p, f)
  <2>0. <<p, f>> \notin tangled /\ (f # Record => f \in Attrs)
    BY <1>0, <1>3 DEF Fields
  <2>1. CASE p # o
    <3>1. Elsewhere(t)
      BY <1>0, StepElsewhere DEF CacheInv, Base
    <3>2. record'[p] = record[p] /\ (f # Record => metas'[p][f] = metas[p][f])
      BY <1>1, <1>3, <2>0, <2>1, <3>1 DEF Elsewhere
    <3> QED
      BY <3>2 DEF StoredView
  <2>2. CASE p = o /\ FailSelect(t)
    BY <2>2 DEF FailSelect, tables, StoredView
  <2>3. CASE p = o /\ pc[t] = "write" /\ f \in op[t].touches
    BY <1>1, <2>0, <2>3, WriterSettled
  <2>4. CASE p = o /\ (InsertRow(t) \/ DeleteRows(t))
    <3>1. pc[t] = "write" /\ op[t].touches = Fields
      BY <2>4 DEF InsertRow, DeleteRows, Writes, At, CacheInv, Base, Shape
    <3> QED
      BY <2>3, <2>4, <3>1
  <2>5. CASE p = o /\ UpdateRow(t) /\ f \notin op[t].touches
    <3>1. /\ pc[t] = "write" /\ op[t].value # Absent /\ op[t].field = Record
          /\ Record \in op[t].touches /\ UNCHANGED metas
      BY <2>5 DEF UpdateRow, Writes, At, CacheInv, Base, Shape, MetaKinds
    <3>2. record[o] # Absent
      BY <1>1, <1>3, <2>5 DEF UpdateRow
    <3>3. record'[o] = op[t].value
      BY <1>1, <1>t, <2>5, <3>2 DEF UpdateRow
    <3> QED
      BY <2>5, <3>1, <3>2, <3>3 DEF StoredView
  <2>6. CASE /\ p = o /\ f \notin op[t].touches
             /\ InsertMetaRow(t) \/ UpdateMetaRow(t) \/ DeleteMetaRow(t)
    <3>1. /\ pc[t] = "write" /\ op[t].field \in op[t].touches /\ UNCHANGED record
      BY <2>6 DEF InsertMetaRow, UpdateMetaRow, DeleteMetaRow, WriteMeta, Writes, At,
         CacheInv, Base, Shape
    <3>2. f # Record => metas'[o][f] = metas[o][f]
      BY <1>1, <1>t, <2>0, <2>6, <3>1
      DEF InsertMetaRow, UpdateMetaRow, DeleteMetaRow, WriteMeta
    <3> QED
      BY <2>6, <3>1, <3>2 DEF StoredView
  <2>7. FailSelect(t) \/ pc[t] = "write"
    BY DEF InsertRow, UpdateRow, DeleteRows, InsertMetaRow, UpdateMetaRow, DeleteMetaRow,
       WriteMeta, Writes, At
  <2> QED
    BY <2>1, <2>2, <2>3, <2>4, <2>5, <2>6, <2>7
<1> QED
  BY <1>0, <1>2, <1>3, WriteRefines DEF D!Next

(* The steps that bring a write to the cache.                               *)
Caches(t) ==
  \/ Fail(t) \/ FindRecord(t) \/ PutRecord(t) \/ SelectMetas(t) \/ PutMetas(t)
  \/ SyncRecord(t) \/ UncacheRecord(t) \/ UncacheMetas(t)
  \/ FindList(t) \/ FindNoList(t) \/ RemoveFromNull(t) \/ PutList(t) \/ ChangeMeta(t)

LEMMA CacheStep ==
  ASSUME Refined, NEW t \in Tasks, Caches(t),
         NEW o \in Owners, o = op[t].owner, NEW f \in Fields, <<o, f>> \notin tangled
  PROVE  CachedView(o, f)' = CachedView(o, f) \/ CachedView(o, f)' = StoredView(o, f)
<1>0. /\ Step(t) /\ UNCHANGED <<record, metas, tangled>> /\ (f # Record => f \in Attrs)
  BY DEF Caches, Step, Fail, FindRecord, PutRecord, SelectMetas, PutMetas, SyncRecord,
     UncacheRecord, UncacheMetas, FindList, FindNoList, RemoveFromNull, PutList, ChangeMeta,
     tables, Fields
<1>1. /\ Busy(t) /\ Shape(t) /\ Held(t) /\ TaskInv(t) /\ CacheInv /\ Leftovers(o)
      /\ ~All(o) /\ OwnerInv(o)
  BY <1>0, StepFrame DEF Refined, CacheInv, Base, Own, Busy, All
<1>t. /\ recordCache \in [Owners -> Contents] /\ metaCache \in [Owners -> [Attrs -> Contents]]
      /\ \A p \in Owners : ~listed[p] => metaCache[p] = NoRows
  BY <1>1 DEF CacheInv, Base, TypeOK
<1>p. op[t].kind \notin {"insert", "delete"} => (record[o] = Absent <=> recordCache[o] = Absent)
  BY <1>1, NotAlone DEF OwnerInv, Present, Mid, Busy
<1>2. CASE UNCHANGED cache
  BY <1>2 DEF cache, CachedView
<1>3. CASE PutRecord(t)
  <2>1. pc[t] = "putRecord" /\ recordCache'[o] = op[t].value /\ UNCHANGED metaCache
    BY <1>3, <1>t DEF PutRecord
  <2>2. op[t].kind = "insert" /\ op[t].value # Absent
    BY <1>1, <2>1 DEF Shape, Busy, RecordKinds, TaskInv, Updating
  <2>3. record[o] = op[t].value /\ recordCache[o] = Absent
    BY <1>1, <2>1, <2>2 DEF TaskInv, Inserting, Mid
  <2>4. CASE f = Record
    BY <2>1, <2>3, <2>4 DEF CachedView, StoredView
  <2>5. CASE f # Record
    <3>1. metaCache[o][f] \in {Absent, metas[o][f]}
      <4>1. op[t].touches = Fields
        BY <1>1, <2>2 DEF Shape, Busy
      <4>2. \A s \in Tasks \ {t} : Busy(s) => op[s].owner # o
        BY <1>1, <4>1, Alone DEF CacheInv
      <4> QED
        BY <1>0, <1>1, <2>2, <2>5, <4>2 DEF Leftovers, Mid, Busy, MetaKinds
    <3> QED
      BY <2>1, <2>2, <2>3, <2>5, <3>1 DEF CachedView, StoredView, Shown
  <2> QED
    BY <2>4, <2>5
<1>4. CASE PutMetas(t)
  <2>1. pc[t] = "putMetas" /\ metaCache'[o] = rows[t] /\ UNCHANGED recordCache
    BY <1>4, <1>t DEF PutMetas
  <2>2. op[t].kind = "insert" /\ op[t].value # Absent
    BY <1>1, <2>1 DEF Shape, Busy, RecordKinds, TaskInv, Updating
  <2>3. /\ record[o] = op[t].value /\ recordCache[o] = op[t].value
        /\ f # Record => rows[t][f] = metas[o][f]
    BY <1>0, <1>1, <2>1, <2>2 DEF TaskInv, Inserting, Mid
  <2> QED
    BY <2>1, <2>2, <2>3 DEF CachedView, StoredView
<1>5. CASE SyncRecord(t)
  <2>1. /\ pc[t] = "sync" /\ UNCHANGED metaCache
        /\ recordCache' = IF holds[t] /\ o \in Users
                          THEN [recordCache EXCEPT ![o] = op[t].value]
                          ELSE recordCache
    BY <1>5 DEF SyncRecord
  <2>2. CASE ~(holds[t] /\ o \in Users)
    BY <2>1, <2>2 DEF CachedView
  <2>3. CASE holds[t] /\ o \in Users
    <3>1. op[t].kind = "update" /\ op[t].value # Absent
      BY <1>1, <2>1 DEF Shape, Busy, RecordKinds, TaskInv, Inserting, Mid
    <3>2. recordCache[o] # Absent /\ recordCache'[o] = op[t].value
      BY <1>t, <1>1, <2>1, <2>3 DEF Held
    <3>3. f = Record => record[o] = op[t].value
      BY <1>1, <2>1, <3>1 DEF TaskInv, Updating
    <3> QED
      BY <2>1, <3>1, <3>2, <3>3 DEF CachedView, StoredView
  <2> QED
    BY <2>2, <2>3
<1>6. CASE UncacheRecord(t)
  <2>1. pc[t] = "uncache" /\ recordCache'[o] = Absent /\ op[t].kind = "delete"
    BY <1>6, <1>1, <1>t DEF UncacheRecord, Shape
  <2>2. record[o] = Absent
    BY <1>1, <2>1 DEF TaskInv, Deleting, Mid
  <2> QED
    BY <2>1, <2>2 DEF CachedView, StoredView
<1>7. CASE UncacheMetas(t)
  <2>1. pc[t] = "uncacheMetas" /\ UNCHANGED recordCache /\ op[t].kind = "delete"
    BY <1>7, <1>1 DEF UncacheMetas, Shape
  <2>2. recordCache[o] = Absent
    BY <1>1, <2>1 DEF TaskInv, Deleting, Mid
  <2> QED
    BY <2>1, <2>2 DEF CachedView
<1>8. CASE PutList(t) \/ ChangeMeta(t)
  <2>1. /\ pc[t] \in {"putList", "change"} /\ UNCHANGED recordCache
        /\ op[t].kind \in MetaKinds /\ op[t].field \in Attrs
    BY <1>8, <1>1 DEF PutList, ChangeMeta, Shape, Busy
  <2>2. op[t].kind \notin {"insert", "delete"}
    BY <2>1 DEF MetaKinds
  <2>3. f = op[t].field => metas[o][f] = op[t].value
    BY <1>1, <2>1 DEF TaskInv, Editing, Mid
  <2>4. f # Record => metaCache'[o][f] = IF f = op[t].field THEN op[t].value ELSE metaCache[o][f]
    <3>1. CASE PutList(t)
      <4>1. /\ metaCache'[o] = [NoRows EXCEPT ![op[t].field] = op[t].value]
            /\ metaCache[o] = NoRows
        BY <1>1, <1>t, <3>1 DEF PutList, TaskInv, Aware
      <4> QED
        BY <1>0, <2>1, <4>1 DEF NoRows
    <3>2. CASE ChangeMeta(t)
      <4>1. f = op[t].field => holds[t]
        BY <1>1, <3>2 DEF ChangeMeta, TaskInv, Aware
      <4> QED
        BY <1>0, <1>t, <2>1, <3>2, <4>1 DEF ChangeMeta
    <3> QED
      BY <1>8, <3>1, <3>2
  <2> QED
    BY <1>p, <2>1, <2>2, <2>3, <2>4 DEF CachedView, StoredView
<1>9. \/ UNCHANGED cache
      \/ PutRecord(t) \/ PutMetas(t) \/ SyncRecord(t) \/ UncacheRecord(t)
      \/ UncacheMetas(t) \/ PutList(t) \/ ChangeMeta(t)
  BY DEF Caches, Fail, FindRecord, SelectMetas, FindList, FindNoList, RemoveFromNull
<1> QED
  BY <1>2, <1>3, <1>4, <1>5, <1>6, <1>7, <1>8, <1>9

LEMMA CachesRefines ==
  ASSUME Refined, CacheInv', NEW t \in Tasks, Caches(t)
  PROVE  D!Next
<1>0. Step(t) /\ TypeOK /\ TypeOK' /\ UNCHANGED <<record, metas, tangled>>
  BY DEF Caches, Step, Fail, FindRecord, PutRecord, SelectMetas, PutMetas, SyncRecord,
     UncacheRecord, UncacheMetas, FindList, FindNoList, RemoveFromNull, PutList, ChangeMeta,
     tables, Refined, CacheInv, Base
<1>1. ASSUME NEW o \in Owners, NEW f \in Fields, <<o, f>> \notin tangled
      PROVE  CachedView(o, f)' = CachedView(o, f) \/ CachedView(o, f)' = StoredView(o, f)
  <2>1. CASE o = op[t].owner
    BY <1>1, <2>1, CacheStep
  <2>2. CASE o # op[t].owner
    <3>1. recordCache'[o] = recordCache[o] /\ metaCache'[o] = metaCache[o]
      BY <1>0, <2>2, StepElsewhere DEF Elsewhere, Refined, CacheInv
    <3> QED
      BY <3>1 DEF CachedView
  <2> QED
    BY <2>1, <2>2
<1> QED
  BY <1>0, <1>1, FollowRefines DEF D!Next

(* The maps of CacheService, as UserService writes them, implement the      *)
(* directory that the servers read: a field is found as it is stored, or as *)
(* it was before the one write that is under way, unless it is tangled.     *)
THEOREM CacheImplementsDirectory == Spec => ImplementsDirectory
<1>1. Init => D!Init
  <2> SUFFICES ASSUME Init PROVE D!Init
    OBVIOUS
  <2>1. TypeOK /\ tangled = {} /\ recordCache = record /\ metaCache = metas
    BY TypeInit DEF Init
  <2>2. Stored \in [Keys -> Contents \cup {Exists}]
    BY <2>1, DirectoryTyped
  <2>3. \A k \in Keys : CachedView(k[1], k[2]) = StoredView(k[1], k[2])
    BY <2>1 DEF CachedView, StoredView
  <2> QED
    BY <2>1, <2>2, <2>3 DEF D!Init, Stored
<1>2. Refined /\ Refined' /\ [Next]_vars => [D!Next]_D!vars
  <2> SUFFICES ASSUME Refined, Refined', [Next]_vars PROVE [D!Next]_D!vars
    OBVIOUS
  <2>1. CacheInv /\ CacheInv' /\ TypeOK /\ TypeOK'
    BY DEF Refined, CacheInv, Base
  <2>2. ASSUME NEW t \in Tasks, Start(t) PROVE D!Next
    BY <2>1, <2>2, StartRefines
  <2>3. ASSUME NEW t \in Tasks, Step(t) PROVE D!Next
    BY <2>1, <2>3, CommitRefines, CachesRefines DEF Step, Caches
  <2>4. CASE Crash
    <3>1. /\ UNCHANGED <<record, metas>> /\ tangled' = {}
          /\ recordCache' = record /\ metaCache' = metas
      BY <2>4 DEF Crash, tables
    <3>2. \A k \in Keys : /\ StoredView(k[1], k[2])' = StoredView(k[1], k[2])
                          /\ CachedView(k[1], k[2])' = StoredView(k[1], k[2])
      BY <3>1 DEF CachedView, StoredView
    <3>3. D!Restart
      BY <3>1, <3>2 DEF D!Restart
    <3> QED
      BY <3>3 DEF D!Next
  <2>5. CASE UNCHANGED vars
    <3>1. UNCHANGED <<record, metas, recordCache, metaCache, tangled>>
      BY <2>5 DEF vars, tables, cache
    <3>2. ASSUME NEW o \in Owners, NEW f \in Fields
          PROVE  CachedView(o, f)' = CachedView(o, f)
      BY <3>1 DEF CachedView
    <3> QED
      BY <2>1, <3>1, <3>2, FollowRefines DEF D!Next
  <2> QED
    BY <2>2, <2>3, <2>4, <2>5 DEF Next
<1>3. Spec => []Refined
  BY RefinedInit, RefinedNext, PTL DEF Spec
<1> QED
  BY <1>1, <1>2, <1>3, PTL DEF Spec, ImplementsDirectory, D!Spec
=============================================================================
