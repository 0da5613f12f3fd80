----------------------------- MODULE MCNetServer -----------------------------
(* Constants of the NetServer runs: the threads as model values.           *)
EXTENDS NetServerProperties, TLC

CONSTANTS acc, w1, w2, u1, g1

OneWorker == {w1}
TwoWorkers == {w1, w2}
OneUser == {u1}
OneUdp == {g1}

WorkerSymmetry == Permutations(TwoWorkers)

PlainSend == {"sendPacket"}
SendCalls == {"sendPacket", "sendLast"}
FaultCalls == {"sendPacket", "disconnect", "getUDP"}
OtherCalls == {"disconnect", "getUDP"}
=============================================================================
