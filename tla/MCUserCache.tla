---------------------------- MODULE MCUserCache ----------------------------
(***************************************************************************)
(* Instance of UserCache for TLC.  One of the users has the name of an     *)
(* attribute.  TLC starts from a few contents of the tables that differ in *)
(* what an owner has: attributes, none, or attributes without a record.    *)
(***************************************************************************)
EXTENDS UserCache, TLC

Row(s) == [a \in Attrs |-> IF a \in s THEN "x" ELSE Absent]

MCInit ==
  /\ Init
  /\ \E there \in {{"a", "u"}, {"a", "g"}} :
       record = [o \in Owners |-> IF o \in there THEN "x" ELSE Absent]
  /\ metas = [o \in Owners |-> IF o = "u" THEN Row({"a"}) ELSE Row({})]

MCSpec == MCInit /\ [][Next]_vars /\ \A t \in Tasks : WF_vars(Step(t))
=============================================================================
