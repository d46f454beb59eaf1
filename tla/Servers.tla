------------------------------ MODULE Servers ------------------------------
(* The servers of a SkipVectorDM cluster (DMConfig of RdmaConfig.h): memory *)
(* servers have the first numbers, compute servers the ones that follow.   *)
EXTENDS Naturals

CONSTANTS MemoryNumber, ComputeNumber

ASSUME ServersAssumption == MemoryNumber \in Nat \ {0} /\ ComputeNumber \in Nat \ {0}

machineNR == MemoryNumber + ComputeNumber
Server == 0..(machineNR - 1)
MemoryServer == 0..(MemoryNumber - 1)
ComputeServer == MemoryNumber..(machineNR - 1)
=============================================================================
