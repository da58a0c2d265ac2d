----------------------------- MODULE MCSpiTests -----------------------------
(* The test program of the SPI bus by itself (SpiTests): a case on its own   *)
(* transport, then one on the controller.                                    *)
EXTENDS SpiTests

Hardware(name, frequency, mode, bits, order) ==
    [name |-> name, frequency |-> frequency, mode |-> mode, bits |-> bits, order |-> order,
     target |-> "target 0", length |-> 32]

SessionsUnderTest ==
    {<<[name |-> n], Hardware("loopback", f, m, b, o)>> :
        n \in {"errors", "concurrent"}, f \in {100000, 400000}, m \in {0, 3}, b \in {8, 16}, o \in {0}}

DefaultUnderTest == [frequency |-> 400000, mode |-> 0, bits |-> 8, order |-> 0]

LengthsUnderTest == <<1, 33>>

=============================================================================
