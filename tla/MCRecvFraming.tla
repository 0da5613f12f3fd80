---------------------------- MODULE MCRecvFraming ----------------------------
(***************************************************************************)
(* Values of the constants of RecvFraming for the runs: a peer that may    *)
(* send wrong codes, and one that does not.                                *)
(***************************************************************************)
EXTENDS RecvFraming

AllCodes == BOOLEAN
GoodCodes == {TRUE}
=============================================================================
