---------------------------- MODULE MCDmaChannel ----------------------------
(* Instances of DmaChannel for TLC.                                        *)
EXTENDS DmaChannel

OneChannel  == {0}
TwoChannels == {0, 1}
=============================================================================
