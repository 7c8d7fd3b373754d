------------------------- MODULE MCConcurrentClient -------------------------
(* A small instance of ConcurrentClient for TLC. *)
EXTENDS ConcurrentClient

MCProgram == [TisService   |-> <<"check", "reloadModel", "ping">>,
              IdentityServ |-> <<"GetIdentity", "StoreMessage", "GetIdentity">>]
=============================================================================
