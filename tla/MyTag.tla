-------------------------------- MODULE MyTag --------------------------------
(***************************************************************************)
(* The packet tag of src/model/MyTag.h in which the failover algorithms    *)
(* keep their state: a vector of bytes, one byte that says whether the     *)
(* packet has left normal routing and, for every node, the port through    *)
(* which the detour first entered it (parent) and the port it was last     *)
(* sent on (curr).                                                         *)
(***************************************************************************)
EXTENDS Integers

CONSTANT NumberOfSwitches    \* Ipv4GlobalRouting::numberOfSwitches, 4

(* The constructor creates numberOfSwitches zero bytes and appends         *)
(* 2 * numberOfSwitches + 2 more.                                          *)
TagSize == 3 * NumberOfSwitches + 2

TagIndex == 0 .. TagSize - 1

Tag == [TagIndex -> 0 .. 255]

EmptyTag == [i \in TagIndex |-> 0]

ParentIndex(n) == n * 2 + 1

CurrIndex(n) == n * 2 + 2

(* The node ids whose two bytes lie inside the vector: the accessors do    *)
(* not check their index.                                                  *)
FitsTag(n) == CurrIndex(n) \in TagIndex

PacketStart(tag) == tag[0]

ParVal(tag, n) == tag[ParentIndex(n)]

CurrVal(tag, n) == tag[CurrIndex(n)]

SetPacketStart(tag) == [tag EXCEPT ![0] = 1]

SetParentValue(tag, n, v) == [tag EXCEPT ![ParentIndex(n)] = v]

SetCurrValue(tag, n, v) == [tag EXCEPT ![CurrIndex(n)] = v]

=============================================================================
