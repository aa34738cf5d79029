------------------------ MODULE MCIpv4Fragmentation ------------------------
(***************************************************************************)
(* Two datagrams over two links, the second link narrower than the first.  *)
(***************************************************************************)
EXTENDS Ipv4Fragmentation

(* Fragments of 4 and then of 2 bytes; the last of 6 bytes is not          *)
(* fragmented again, that of 7 is.                                         *)
TwoLinks == <<4, 2>>
SixAndSeven == <<6, 7>>
OnlySeven == <<7>>

=============================================================================
