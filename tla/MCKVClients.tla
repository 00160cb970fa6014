---------------------------- MODULE MCKVClients ----------------------------
(* An instance of KVClients for TLC: two clients of two operations each.  *)
EXTENDS KVClients, TLC

CONSTANTS c1, c2, v1, v2, v3, v4

Values == {"", v1, v2, v3, v4}

TwoClients ==
  <<c1, 1>> :> v1 @@ <<c1, 2>> :> v2 @@ <<c2, 1>> :> v3 @@ <<c2, 2>> :> v4
=============================================================================
