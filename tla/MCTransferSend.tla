--------------------------- MODULE MCTransferSend ---------------------------
(* Small instances of TransferSend for TLC. *)
EXTENDS TransferSend

CONSTANTS t1, t2, n1, n2

MCNameSame == [t \in Transfers |-> n1]
MCWrong == [i \in 1 .. NumChunks |-> 0]
MCSums == {NoSum, Whole}
MCAllSums == {NoSum, Whole, MCWrong}
=============================================================================
