---------------------------- MODULE MCPacketFlow ----------------------------
(* A content thread, workers and the UDP thread over a pool of packets; the *)
(* second message built is too long for a buffer, its last value is         *)
(* dropped, and the second one received too, it leaves the packet empty.    *)
EXTENDS PacketFlow, TLC

MCMessages == {<<1>>, <<2, 2>>}
MCPayloads == {2, 5}
Symmetry == Permutations(Packets) \cup Permutations(Sessions)
            \cup Permutations(Workers)
=============================================================================
