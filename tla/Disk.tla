-------------------------------- MODULE Disk --------------------------------
(***************************************************************************)
(* The disk that the ATA driver drives and the block layer divides, and    *)
(* the tasks that use it.  The drive is external: it has the sectors       *)
(* 0 .. LastSector.                                                        *)
(***************************************************************************)
EXTENDS Integers

CONSTANTS
  Tasks,
  LastSector

ASSUME DiskAssumption == LastSector \in Nat

Sectors == 0 .. LastSector

=============================================================================
