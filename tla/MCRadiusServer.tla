-------------------------- MODULE MCRadiusServer --------------------------
(***************************************************************************)
(* Instance of RadiusServer for TLC: two client addresses that differ in   *)
(* the port, one identifier, two authenticators (the identifier is reused  *)
(* for a new request), and one packet the listener or handler refuses.     *)
(***************************************************************************)
EXTENDS RadiusServer, TLC

CONSTANTS h1, p1, p2, i1, a1, a2

Msg(p, a, ty) == [address |-> <<h1, p>>, id |-> i1, auth |-> a, type |-> ty]

MCDatagrams == {Msg(p1, a1, "access"), Msg(p1, a2, "access"),
                Msg(p2, a1, "other"), Msg(p2, a1, "malformed")}

TaskSymmetry == Permutations(Tasks)
=============================================================================
