------------------------------- MODULE MCParts -------------------------------
(***************************************************************************)
(* Instances of three parts that share nothing, for TLC: the operations of *)
(* ExecutorOp, the sockets of Descriptors and one Endpoint.  A behaviour   *)
(* is one of each part, while the other two stay as they were at first.    *)
(***************************************************************************)
EXTENDS ExecutorOp, Descriptors, Endpoint, TLC

CONSTANT any6, a6

MCPorts == {<<0, 0>>, <<80, 0>>, <<144, 31>>}
MCBytes4 == {<<127, 0, 0, 1>>, <<10, 2, 3, 4>>}

Symmetry ==
  Permutations(Threads) \cup Permutations(Frames) \cup Permutations(Callers)

PartsInit == Init /\ DescriptorsInit /\ EndpointInit

PartsNext ==
  \/ Next /\ DescriptorsInit /\ EndpointInit
       /\ UNCHANGED <<descriptorVars, endpointVars>>
  \/ DescriptorsNext /\ Init /\ EndpointInit
       /\ UNCHANGED <<vars, endpointVars>>
  \/ EndpointNext /\ Init /\ DescriptorsInit
       /\ UNCHANGED <<vars, descriptorVars>>

PartsSpec == PartsInit /\ [][PartsNext]_<<vars, descriptorVars, endpointVars>>
=============================================================================
