--------------------------- MODULE DurableRegister ---------------------------
(***************************************************************************)
(* What a file promises its readers and a power cut: a value that changes  *)
(* in one step; a write that returns only when its value is settled; and a *)
(* power cut that keeps the settled or the newest value, never a mixture.  *)
(***************************************************************************)
EXTENDS Naturals

VARIABLES current,    \* what a reader gets
          settled,    \* what is on the medium
          returned    \* the last value whose write returned Ok

RegisterInit == current = settled /\ returned = settled

Put == current' \in Nat /\ current' > current /\ UNCHANGED <<settled, returned>>

Settle == settled' = current /\ UNCHANGED <<current, returned>>

Return == settled' = current /\ returned' = current /\ UNCHANGED current

PowerLoss ==
    current' \in {current, settled} /\ settled' = current' /\ UNCHANGED returned

RegisterNext == Put \/ Settle \/ Return \/ PowerLoss

RegisterSpec == RegisterInit /\ [][RegisterNext]_<<current, settled, returned>>
=============================================================================
