-------------------------- MODULE MCTransferReceive --------------------------
(* Small instances of TransferReceive for TLC. *)
EXTENDS TransferReceive

CONSTANTS t1, t2, a, b

\* The versions of a file are interchangeable: every file begins with the first.
FirstVersions == Init /\ source = [t \in Transfers |-> 1]

FirstSpec == FirstVersions /\ [][Next]_vars /\ Fairness
=============================================================================
