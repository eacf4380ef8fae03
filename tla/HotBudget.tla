------------------------------- MODULE HotBudget -------------------------------
(***************************************************************************)
(* What the blob runtime promises about hot memory, with none of its       *)
(* mechanism: a blob is admitted to memory in one step, only while the     *)
(* bytes of all admitted blobs stay within the budget; it gives its bytes  *)
(* back once; a process restart forgets every blob.                        *)
(* The specification BlobRuntime is shown to implement this one.           *)
(***************************************************************************)
EXTENDS Naturals, FiniteSets

CONSTANTS
    Ids,        \* identifiers of blobs
    BlobMax,    \* largest blob that may live in memory
    Budget      \* bytes that all blobs in memory may take together

VARIABLES
    phase,      \* phase[i]: has blob i been admitted, and given back?
    bytes       \* bytes[i]: the bytes blob i holds now

vars == <<phase, bytes>>

\* One element for every byte held: its cardinality is the memory in use.
HeldBytes == {b \in Ids \X (1..BlobMax) : b[2] <= bytes[b[1]]}
InUse == Cardinality(HeldBytes)

Init ==
    /\ phase = [i \in Ids |-> "new"]
    /\ bytes = [i \in Ids |-> 0]

\* A blob of s bytes enters memory.
Admit(i) ==
    /\ phase[i] = "new"
    /\ phase' = [phase EXCEPT ![i] = "held"]
    /\ \E s \in 0..BlobMax :
         /\ InUse + s <= Budget
         /\ bytes' = [bytes EXCEPT ![i] = s]

GiveBack(i) ==
    /\ phase[i] = "held"
    /\ phase' = [phase EXCEPT ![i] = "returned"]
    /\ bytes' = [bytes EXCEPT ![i] = 0]

Restart ==
    /\ phase' = [i \in Ids |-> "new"]
    /\ bytes' = [i \in Ids |-> 0]

Next ==
    \/ \E i \in Ids : Admit(i) \/ GiveBack(i)
    \/ Restart

Spec == Init /\ [][Next]_vars
================================================================================
