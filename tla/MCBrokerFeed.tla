---------------------------- MODULE MCBrokerFeed ----------------------------
(***************************************************************************)
(* Instances of BrokerFeed for TLC: a few fills of one order and a few     *)
(* cash events of the pinned account, a fill whose instant no clock        *)
(* reaches, a cash event that cannot be read, a cash event of another      *)
(* account.                                                                *)
(***************************************************************************)
EXTENDS BrokerFeed

CONSTANTS o1

MCOrderOf == [a \in Fills |-> o1]
=============================================================================
