-------------------------- MODULE TransferLifecycle --------------------------
(***************************************************************************)
(* What the Transfer Center promises about a transfer, whatever its         *)
(* direction and however its bytes travel: at most MaxConcurrent transfers  *)
(* are active, a transfer that ended well, was cancelled or has expired     *)
(* never moves again, and one that failed comes back only by spending one   *)
(* of its MaxRetries retries and taking a free slot.                        *)
(***************************************************************************)
EXTENDS Naturals, FiniteSets

CONSTANTS Transfers, MaxConcurrent, MaxRetries

VARIABLES phase, tries

Phases == {"none", "active", "failed", "done", "stopped"}

Init ==
    /\ phase = [t \in Transfers |-> "none"]
    /\ tries = [t \in Transfers |-> 0]

Running == {t \in Transfers : phase[t] = "active"}
HasSlot == Cardinality(Running) < MaxConcurrent

Start(t) ==
    /\ phase[t] = "none" /\ HasSlot
    /\ phase' = [phase EXCEPT ![t] = "active"]
    /\ UNCHANGED tries

\* A receive whose source cannot be hashed is inserted as failed.
StartFailed(t) ==
    /\ phase[t] = "none" /\ HasSlot
    /\ phase' = [phase EXCEPT ![t] = "failed"]
    /\ UNCHANGED tries

Fail(t) ==
    /\ phase[t] = "active"
    /\ phase' = [phase EXCEPT ![t] = "failed"]
    /\ UNCHANGED tries

\* The retry command: from failed it needs a slot, from paused it has one.
Spend(t) ==
    /\ tries[t] < MaxRetries
    /\ \/ phase[t] = "active"
       \/ phase[t] = "failed" /\ HasSlot
    /\ phase' = [phase EXCEPT ![t] = "active"]
    /\ tries' = [tries EXCEPT ![t] = @ + 1]

Finish(t) ==
    /\ phase[t] = "active"
    /\ phase' = [phase EXCEPT ![t] = "done"]
    /\ UNCHANGED tries

Stop(t) ==
    /\ phase[t] \in {"active", "failed"}
    /\ phase' = [phase EXCEPT ![t] = "stopped"]
    /\ UNCHANGED tries

Next == \E t \in Transfers :
    Start(t) \/ StartFailed(t) \/ Fail(t) \/ Spend(t) \/ Finish(t) \/ Stop(t)

Spec == Init /\ [][Next]_<<phase, tries>>
=============================================================================
