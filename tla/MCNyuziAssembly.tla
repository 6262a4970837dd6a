-------------------------- MODULE MCNyuziAssembly --------------------------
(* Distances around the reach of both branches, addresses with bits in     *)
(* every part of a split field, and numbers around the limits of every     *)
(* immediate, in 32 bits and with the bits above.                          *)
EXTENDS NyuziAssembly

Reach20 == 2^21
Reach25 == 2^26
MCOffsets == {0, 4, 8188, Reach20 - 4, Reach20, Reach20 + 4, Reach25 - 4, Reach25, Reach25 + 4}
MCSections == {4096, Reach20, Reach25}
MCAddresses == MCOffsets \cup {8191, 8192, 305419896, 2^30 + 8188, -4, -413740406}
MCGotOffsets == {0, 4, 16380, 16384}
MCOtherBits == {{}, 0 .. 31}

Limits == {2^n : n \in {8, 9, 13, 14, 18, 19}}
MCLiterals ==
  {Bits(v) : v \in {0, 1, -1, 8190, 305419896, 305422336, -413740406} \cup Limits
                     \cup {n - 1 : n \in Limits} \cup {-n : n \in Limits}
                     \cup {-n - 1 : n \in Limits}}
    \cup {0 .. 31, {31}, {0, 32}}
MCRegNums == {{}, {0, 3}, 0 .. 4}
=============================================================================
