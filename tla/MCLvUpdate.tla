---------------------------- MODULE MCLvUpdate ----------------------------
(***************************************************************************)
(* LvUpdate with two logical volumes.                                       *)
(***************************************************************************)
EXTENDS LvUpdate

CONSTANTS a, b

Quiet == {"write", "revert", "commit", "preload", "suspend", "activate", "wipe",
          "deactivate"}

\* Callers that handle errors, with every fault after which they can tidy up;
\* and all callers with all faults.
AllScenarios ==
    {[kinds |-> Kinds \ {"raid"}, faults |-> Quiet, maxFaults |-> 2],
     [kinds |-> Kinds, faults |-> Quiet \cup {"crash", "resume"}, maxFaults |-> 2]}

RefreshScenario ==
    {[kinds |-> {"change", "raid", "refresh"}, faults |-> {"suspend"},
      maxFaults |-> 1]}

RevertScenario ==
    {[kinds |-> {"change"}, faults |-> {"suspend"}, maxFaults |-> 1]}
=============================================================================
