---------------------------- MODULE AirQuality ----------------------------
(***************************************************************************)
(* The readers of the stored readings, each beside the writers: heatmap    *)
(* requests, health advisories and the data-quality check; and the load of *)
(* the fires.  No reader writes what another one reads, so a behaviour has *)
(* one of them, chosen in its initial state, and the others stay idle.     *)
(***************************************************************************)
EXTENDS Heatmap, Advisory, DataQuality

CONSTANTS LastDay, Detections, DayRange, Loads, MaxLoads, MaxFaults

ASSUME FirmsAssumption == LastDay \in Nat

VARIABLES reader, shown, events, manifest, loaded, outcome, load, begun, faults

Fires == INSTANCE Firms

fireVars == <<shown, events, manifest, loaded, outcome, load, begun, faults>>
vars     == <<reader, tables, heatmapVars, advisory, qualityVars, fireVars>>

Init ==
    /\ reader \in {"heatmap", "advisory", "check", "fires"}
    /\ ReadingsInit /\ HeatmapInit /\ AdvisoryInit /\ QualityInit /\ Fires!FirmsInit

Next ==
    /\ UNCHANGED reader
    /\ \/ /\ reader = "heatmap" /\ HeatmapNext
          /\ UNCHANGED <<advisory, qualityVars, fireVars>>
       \/ /\ reader = "advisory" /\ AdvisoryNext
          /\ UNCHANGED <<heatmapVars, qualityVars, fireVars>>
       \/ /\ reader = "check" /\ QualityNext
          /\ UNCHANGED <<heatmapVars, advisory, fireVars>>
       \/ /\ reader = "fires" /\ Fires!FirmsNext
          /\ UNCHANGED <<tables, heatmapVars, advisory, qualityVars>>

Spec == Init /\ [][Next]_vars

-----------------------------------------------------------------------------
(* Properties; those of one reader are in its module *)

TypeOK ==
    ReadingsTypeOK /\ HeatmapTypeOK /\ AdvisoryTypeOK /\ QualityTypeOK /\ Fires!FirmsTypeOK

\* Firms!FiresAreStored: the manifest and the run record tell what was loaded.
FiresAreStored == Fires!FiresAreStored
=============================================================================
