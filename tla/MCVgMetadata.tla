---------------------------- MODULE MCVgMetadata ----------------------------
(* Instances of VgMetadata for TLC. *)
EXTENDS VgMetadata

\* Kills and failing writes; ignored flags that change; a device that is gone
\* for some time; commands that read from lvmetad.
AllScenarios ==
    {[maxChanges |-> 3, maxFaults |-> 4, faults |-> {"crash", "io"},
      canIgnore |-> FALSE, useLvmetad |-> FALSE],
     [maxChanges |-> 3, maxFaults |-> 3, faults |-> {"crash"},
      canIgnore |-> TRUE, useLvmetad |-> FALSE],
     [maxChanges |-> 3, maxFaults |-> 1, faults |-> {"unplug"},
      canIgnore |-> FALSE, useLvmetad |-> FALSE],
     [maxChanges |-> 3, maxFaults |-> 3, faults |-> {"crash", "io"},
      canIgnore |-> FALSE, useLvmetad |-> TRUE]}

\* One write fails while the ignored flags change.
IgnoredScenario ==
    {[maxChanges |-> 2, maxFaults |-> 1, faults |-> {"io"},
      canIgnore |-> TRUE, useLvmetad |-> FALSE]}

\* A kill in vg_commit, and the device committed first disappears.
ReturnScenario ==
    {[maxChanges |-> 2, maxFaults |-> 2, faults |-> {"crash", "unplug"},
      canIgnore |-> FALSE, useLvmetad |-> FALSE]}
=============================================================================
