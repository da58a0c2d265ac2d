------------------------------- MODULE MCUart --------------------------------
(* An instance of UartTests for TLC: the port is used for transfers of any   *)
(* kind, its settings are changed in any order, or its test program runs.    *)
EXTENDS UartTests

CONSTANTS u1, u2, u3

VARIABLE user       \* "transfers", "settings" or "test"

all == <<vars, testVars, user>>

DataUnderTest == {<<0>>, <<0, 0>>, <<0, 0, 0>>}
LengthsUnderTest == <<1, Depth + 1, TxSize + 2>>
CasesUnderTest == <<"001", "002", "003", "004", "005", "006", "007", "008", "009", "010">>

NoTest == script = [t \in Threads |-> <<>>] /\ todo = <<>> /\ verdict = "pass"
            /\ got = [t \in Threads |-> <<>>] /\ old = Default

MCInit ==
    /\ Init
    /\ \/ user \in {"transfers", "settings"} /\ NoTest
       \/ user = "test" /\ TestInit /\ ~isconsole

Free(A, u) == user = u /\ A /\ UNCHANGED <<testVars, user>>
Test == user = "test" /\ TestNext /\ UNCHANGED user

MCSpec ==
    /\ MCInit
    /\ [][Free(Transfers, "transfers") \/ Free(Settings, "settings") \/ Test]_all
    /\ \A t \in Users : SF_all(user # "test" /\ Goes(t) /\ UNCHANGED <<testVars, user>>)
    /\ WF_all(Free(Irq, "transfers")) /\ WF_all(Free(Shift, "transfers"))
    /\ WF_all(Free(Rto, "transfers")) /\ WF_all(Test)

\* The test program of the port passes (UartTests).
TestPasses == UartTestPasses
=============================================================================
