----------------------------- MODULE VmIdentity -----------------------------
(***************************************************************************)
(* What the rotation promises to the guest, without locks, files or        *)
(* commands: one committed UUID, one TPM identity bound to the guest.      *)
(* A start runs the committed UUID with the bound TPM; the UUID changes    *)
(* only while the VM is off; only recreate-tpm gives the TPM up.           *)
(***************************************************************************)

CONSTANTS Uuids, Tpms, NoUuid, NoTpm

VARIABLES
  uuid,       \* the committed UUID
  bound,      \* the TPM identity the guest is bound to, NoTpm: none yet
  running,    \* the UUID the VM runs under, NoUuid: off
  attached    \* the TPM identity plugged into the running guest

vars == <<uuid, bound, running, attached>>

Init == uuid \in Uuids /\ bound = NoTpm /\ running = NoUuid /\ attached = NoTpm

Rotate == /\ running = NoUuid
          /\ uuid' \in Uuids \ {uuid}
          /\ UNCHANGED <<bound, running, attached>>

PowerOn == /\ running = NoUuid
           /\ running' = uuid
           /\ UNCHANGED <<uuid, bound, attached>>

\* The TPM appears in the guest: the bound one, or a first one.
PlugTpm == /\ running # NoUuid /\ attached = NoTpm
           /\ attached' \in IF bound = NoTpm THEN Tpms ELSE {bound}
           /\ bound' = attached'
           /\ UNCHANGED <<uuid, running>>

PowerOff == /\ running # NoUuid
            /\ running' = NoUuid /\ attached' = NoTpm
            /\ UNCHANGED <<uuid, bound>>

Recreate == /\ running = NoUuid
            /\ bound' = NoTpm
            /\ UNCHANGED <<uuid, running, attached>>

Next == Rotate \/ PowerOn \/ PlugTpm \/ PowerOff \/ Recreate

Spec == Init /\ [][Next]_vars

=============================================================================
