----------------------------- MODULE VgRegister -----------------------------
(***************************************************************************)
(* What the metadata of a volume group looks like to the commands that use *)
(* it: one register, although it is kept in many copies on disk, and       *)
(* perhaps by a daemon that answers for them.  A change takes effect on    *)
(* the disks in one step, not before it is served to commands; effects are *)
(* never undone; and a change whose commit was reported successful is in   *)
(* effect and served.                                                      *)
(***************************************************************************)
EXTENDS Naturals

VARIABLES
    current,    \* the change that a reader of the disks finds
    served,     \* the change that commands are told of
    reported    \* the last change that vg_commit returned success for

register == <<current, served, reported>>

Init == current = 0 /\ served = 0 /\ reported = 0

\* A change is served that is not on the disks, and perhaps never will be.
Offer == served' > served /\ UNCHANGED <<current, reported>>

Change == current' > current /\ served' = current' /\ UNCHANGED reported

Report == served = current /\ reported' = current /\ UNCHANGED <<current, served>>

Next == Offer \/ Change \/ Report

Spec == Init /\ [][Next]_register
=============================================================================
