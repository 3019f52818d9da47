----------------------------- MODULE MCFrameGas -----------------------------
(***************************************************************************)
(* Instances of FrameGas for TLC.                                          *)
(***************************************************************************)
EXTENDS FrameGas

Words == 0..2
Limits == {20999, 100000}
Base == {21000}
CostsOfOpcodes == {0, 90000}
Params == {0, 1000000}
Lengths == {0, 400}
=============================================================================
