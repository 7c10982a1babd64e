---------------------------- MODULE Configuration ----------------------------
(* AdePTConfiguration, and its messenger: what the commands of a macro,    *)
(* <<setting, value>>, leave in it.  The sizes, thresholds and verbosity   *)
(* are CONSTANTS of the modules that depend on them.                       *)
EXTENDS SequencesExt

Default ==
  [TrackInAllRegions |-> FALSE, CallUserSteppingAction |-> FALSE,
   CallUserTrackingAction |-> FALSE, SpeedOfLight |-> FALSE, AdePTActivated |-> TRUE,
   LastNParticlesOnCPU |-> 0, GPURegionNames |-> <<>>, CPURegionNames |-> <<>>]

(* The names of regions add up, any other value replaces the one before.   *)
Set(configuration, setting, value) == [configuration EXCEPT ![setting] = value]
AddName(configuration, names, name) == [configuration EXCEPT ![names] = Append(@, name)]

SetNewValue(configuration, command) ==
  CASE command[1] = "addGPURegion" -> AddName(configuration, "GPURegionNames", command[2])
    [] command[1] = "removeGPURegion" -> AddName(configuration, "CPURegionNames", command[2])
    [] OTHER -> Set(configuration, command[1], command[2])

Configure(macro) == FoldLeft(SetNewValue, Default, macro)
=============================================================================
