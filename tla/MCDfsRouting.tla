---------------------------- MODULE MCDfsRouting ----------------------------
(***************************************************************************)
(* The depth first failover on the networks of MCIpv4GlobalRouting.        *)
(***************************************************************************)
EXTENDS MCIpv4GlobalRouting, DfsDetour

=============================================================================
