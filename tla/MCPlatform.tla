------------------------------- MODULE MCPlatform -------------------------------
(***************************************************************************)
(* A finite instance of Platform.  The succession of the admin and the     *)
(* configuration hardly touch one another: a behaviour explores one of     *)
(* them, each through its migrations.                                      *)
(***************************************************************************)
EXTENDS Platform

CONSTANTS a1, a2, a3, t1

VARIABLE topic

\* Sets that change a member, a place and a threshold, and one that is refused.
MCSetups == {[signers |-> <<a1, a2>>, threshold |-> 2],
             [signers |-> <<a2, a3>>, threshold |-> 1],
             [signers |-> <<a3, a3>>, threshold |-> 2]}

MCInit ==
    /\ Init
    /\ \/ /\ topic = "succession"
          /\ ~funded /\ ColdGet("yield") = {} /\ ColdGet("whitelist") = {{t1}}
       \/ /\ topic = "configuration"
          /\ LoadMultisigConfig = {} /\ pendingTransfer = {}

MCNext ==
    /\ \/ MigrateColdConfig \/ Migrate
       \/ /\ topic = "succession"
          /\ SuccessionNext \/ SignersNext \/ \E a \in Address: SetAdminRole("Upgrader", a)
       \/ /\ topic = "configuration"
          /\ ConfigNext \/ JobNext \/ Upgrade
    /\ UNCHANGED topic

MCSpec == MCInit /\ [][MCNext]_<<vars, topic>>
=============================================================================
