------------------------------ MODULE MdaSlots ------------------------------
(***************************************************************************)
(* What one metadata area promises to its users, without its text buffer:  *)
(* two registers, the live version of the VG metadata and the              *)
(* pre-committed one.  The live version changes only when the version that *)
(* was pre-committed replaces it, or when the VG is removed; a crash       *)
(* changes neither.  These are the contracts of vg_precommit, vg_commit,   *)
(* vg_revert and vg_remove in struct metadata_area_ops.                    *)
(***************************************************************************)
CONSTANTS Versions, None

VARIABLES live, pre

slots == <<live, pre>>

Init == live = None /\ pre = None

Precommit == \E v \in Versions : pre' = v /\ UNCHANGED live

Commit == pre # None /\ live' = pre /\ pre' = None

Revert == pre' = None /\ UNCHANGED live

Remove == live' = None /\ pre' \in {pre, None}

Next == Precommit \/ Commit \/ Revert \/ Remove

Spec == Init /\ [][Next]_slots
=============================================================================
