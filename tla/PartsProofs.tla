----------------------------- MODULE PartsProofs -----------------------------
(***************************************************************************)
(* Proofs about the two small parts MCParts runs together.                 *)
(*                                                                         *)
(* Descriptors: socket_ops::socket and socket_ops::close keep every thread *)
(* to its own socket and leak none, for any number of threads and of       *)
(* descriptors.  Endpoint: an endpoint keeps its port, family and scope    *)
(* through every change, for all ports, addresses and scopes.              *)
(***************************************************************************)
EXTENDS Descriptors, Endpoint, TLAPS

-----------------------------------------------------------------------------
(* Descriptors.                                                            *)

(* A close() that has begun its second attempt means that one failed, as   *)
(* long as every thread's number is its own.                               *)
Undisturbed == ~failed => \A t \in Callers : pc[t] = "idle"

DescriptorsInv ==
  DescriptorsTypeOK /\ HoldersOwn /\ NothingLeaks /\ Undisturbed

USE DescriptorsAssumption

LEMMA InitHolds == DescriptorsInit => DescriptorsInv
BY DEF DescriptorsInit, DescriptorsInv, DescriptorsTypeOK, HoldersOwn,
       NothingLeaks, Undisturbed, IsOpen

(* socket() gives a number nobody holds.                                   *)
LEMMA OpenKeeps ==
  ASSUME DescriptorsInv, NEW t \in Callers, NEW mode \in BOOLEAN, Open(t, mode)
  PROVE  DescriptorsInv'
<1> USE DEF DescriptorsInv, DescriptorsTypeOK, IsOpen
<1>1. PICK n \in Numbers :
        /\ owner[n] = NoCaller
        /\ owner' = [owner EXCEPT ![n] = t]
        /\ nonblock' = [nonblock EXCEPT ![n] = mode]
        /\ socket_' = [socket_ EXCEPT ![t] = n]
  BY DEF Open
<1>2. /\ pc[t] = "idle" /\ socket_[t] = invalid_socket
      /\ state_' = [state_ EXCEPT ![t] = mode]
      /\ UNCHANGED <<pc, failed>>
  BY DEF Open
<1>3. DescriptorsTypeOK'
  BY <1>1, <1>2
<1>4. HoldersOwn'
  BY <1>1, <1>2 DEF HoldersOwn
<1>5. NothingLeaks'
  BY <1>1, <1>2 DEF NothingLeaks
<1>6. Undisturbed'
  BY <1>2 DEF Undisturbed
<1> QED
  BY <1>3, <1>4, <1>5, <1>6

(* The first attempt: a success closes the thread's own socket or a        *)
(* failure came before.                                                    *)
LEMMA CloseKeeps ==
  ASSUME DescriptorsInv, NEW t \in Callers, NEW result \in Results,
         Close(t, result)
  PROVE  DescriptorsInv'
<1> USE DEF DescriptorsInv, DescriptorsTypeOK, IsOpen
<1> DEFINE n == socket_[t]
<1>1. /\ pc[t] = "idle" /\ n \in Numbers
      /\ owner' = [owner EXCEPT ![n] = NoCaller]
      /\ failed' = (failed \/ (owner[n] # NoCaller /\ result # "ok"))
      /\ UNCHANGED <<nonblock, state_>>
  BY DEF Close, SystemClose
<1>2. CASE result # "other"
  <2>1. socket_' = [socket_ EXCEPT ![t] = invalid_socket] /\ UNCHANGED pc
    BY <1>2 DEF Close
  <2>2. DescriptorsTypeOK'
    BY <1>1, <2>1
  <2>3. HoldersOwn'
    BY <1>1, <2>1 DEF HoldersOwn
  <2>4. NothingLeaks'
    BY <1>1, <2>1 DEF NothingLeaks
  <2>5. Undisturbed'
    BY <1>1, <1>2, <2>1 DEF Undisturbed
  <2> QED
    BY <2>2, <2>3, <2>4, <2>5
<1>3. CASE result = "other"
  <2>1. pc' = [pc EXCEPT ![t] = "getfl"] /\ UNCHANGED socket_
    BY <1>3 DEF Close
  <2>2. DescriptorsTypeOK'
    BY <1>1, <2>1
  <2>3. failed'
    BY <1>1, <1>3 DEF HoldersOwn
  <2>4. NothingLeaks'
    BY <1>1, <2>1 DEF NothingLeaks
  <2> QED
    BY <2>2, <2>3, <2>4 DEF HoldersOwn, Undisturbed
<1> QED
  BY <1>2, <1>3

(* Once a close() has begun its second attempt, a failure came before.     *)
LEMMA FailedBefore ==
  ASSUME DescriptorsInv, NEW t \in Callers, pc[t] # "idle"
  PROVE  failed
BY DEF DescriptorsInv, DescriptorsTypeOK, Undisturbed

LEMMA FlagsKeep ==
  ASSUME DescriptorsInv, NEW t \in Callers, GetFlags(t) \/ SetFlags(t)
  PROVE  DescriptorsInv'
<1> USE DEF DescriptorsInv, DescriptorsTypeOK, IsOpen
<1>1. failed /\ failed' = failed /\ UNCHANGED <<owner, socket_>>
  BY FailedBefore DEF GetFlags, SetFlags
<1>2. DescriptorsTypeOK'
  BY DEF GetFlags, SetFlags
<1>3. NothingLeaks'
  BY <1>1 DEF NothingLeaks
<1> QED
  BY <1>1, <1>2, <1>3 DEF HoldersOwn, Undisturbed

LEMMA CloseAgainKeeps ==
  ASSUME DescriptorsInv, NEW t \in Callers, NEW ok \in BOOLEAN, CloseAgain(t, ok)
  PROVE  DescriptorsInv'
<1> USE DEF DescriptorsInv, DescriptorsTypeOK, IsOpen
<1> DEFINE n == socket_[t]
<1>1. /\ n \in Numbers
      /\ owner' = [owner EXCEPT ![n] = NoCaller]
      /\ socket_' = [socket_ EXCEPT ![t] = invalid_socket]
      /\ pc' = [pc EXCEPT ![t] = "idle"]
      /\ UNCHANGED <<nonblock, state_>>
  BY DEF CloseAgain, SystemClose
<1>2. failed' /\ failed
  BY FailedBefore DEF CloseAgain, SystemClose
<1>3. DescriptorsTypeOK'
  BY <1>1, <1>2
<1>4. NothingLeaks'
  BY <1>1 DEF NothingLeaks
<1> QED
  BY <1>2, <1>3, <1>4 DEF HoldersOwn, Undisturbed

THEOREM DescriptorsInvariant == DescriptorsSpec => []DescriptorsInv
<1>1. DescriptorsInv /\ [DescriptorsNext]_descriptorVars => DescriptorsInv'
  <2> SUFFICES ASSUME DescriptorsInv, [DescriptorsNext]_descriptorVars
               PROVE  DescriptorsInv'
    OBVIOUS
  <2>1. CASE DescriptorsNext
    BY <2>1, OpenKeeps, CloseKeeps, FlagsKeep, CloseAgainKeeps
       DEF DescriptorsNext
  <2>2. CASE UNCHANGED descriptorVars
    BY <2>2 DEF descriptorVars, DescriptorsInv, DescriptorsTypeOK, HoldersOwn,
                NothingLeaks, Undisturbed, IsOpen
  <2> QED
    BY <2>1, <2>2
<1> QED
  BY <1>1, InitHolds, PTL DEF DescriptorsSpec

(* close, socket: every number and flag has its type, and whoever is in    *)
(* the middle of a close holds a number.                                   *)
THEOREM DescriptorsTyped == DescriptorsSpec => []DescriptorsTypeOK
BY DescriptorsInvariant, PTL DEF DescriptorsInv

(* close, socket: no socket leaks, and only a failed close() lets a thread *)
(* reach the socket of another.                                            *)
THEOREM SocketsStayOwned == DescriptorsSpec => []SocketsOwned
<1>1. DescriptorsInv => SocketsOwned
  BY DEF DescriptorsInv, SocketsOwned
<1> QED
  BY <1>1, DescriptorsInvariant, PTL

-----------------------------------------------------------------------------
(* Endpoint.                                                               *)

Port == {p \in Seq(0 .. 255) : Len(p) = 2}

(* What is true of every address a user can have.                          *)
IsAddress(addr) ==
  /\ addr.family \in {"v4", "v6"} /\ addr.scope \in Nat
  /\ addr.family = "v4" => addr.scope = 0

(* The sockaddr holds what was last set, in the byte order of the network. *)
Holds(data, port, addr) ==
  /\ data.port = host_to_network(port)
  /\ data.family = addr.family
  /\ data.scope = addr.scope % ScopeLimit
  /\ data.family = "v4" => data.bytes = INADDR_ANY
  /\ DOMAIN data = {"family", "port", "bytes", "scope"}

EndpointInv ==
  /\ last_port \in Port
  /\ IsAddress(last_address)
  /\ Holds(data_, last_port, last_address)

USE EndpointAssumption

LEMMA ZeroScope == 0 % ScopeLimit = 0
OBVIOUS

(* network_to_host undoes host_to_network.                                 *)
LEMMA PortRoundTrip ==
  ASSUME NEW port \in Port
  PROVE  network_to_host(host_to_network(port)) = port
<1>1. port = [i \in 1 .. 2 |-> port[i]] /\ Len(port) = 2
  BY DEF Port
<1> DEFINE r == [i \in 1 .. 2 |-> port[2 - i + 1]]
<1>2. host_to_network(port) = r
  BY <1>1 DEF host_to_network, Reverse
<1>3. Len(r) = 2 /\ r[1] = port[2] /\ r[2] = port[1]
  OBVIOUS
<1>4. network_to_host(r) = [i \in 1 .. 2 |-> r[2 - i + 1]]
  BY <1>3 DEF network_to_host, Reverse
<1>5. \A i \in 1 .. 2 : r[2 - i + 1] = port[i]
  BY <1>3
<1> QED
  BY <1>1, <1>2, <1>4, <1>5

LEMMA AnyRoundTrip ==
  host_to_network(network_to_host(INADDR_ANY)) = INADDR_ANY
<1> DEFINE r == network_to_host(INADDR_ANY)
<1>1. Len(INADDR_ANY) = 4 /\ \A i \in 1 .. 4 : INADDR_ANY[i] = 0
  BY DEF INADDR_ANY
<1>2. r = [i \in 1 .. 4 |-> 0]
  BY <1>1 DEF network_to_host, Reverse
<1>3. Len(r) = 4 /\ \A i \in 1 .. 4 : r[i] = 0
  BY <1>2
<1>4. host_to_network(r) = [i \in 1 .. 4 |-> 0]
  BY <1>3 DEF host_to_network, Reverse
<1>5. INADDR_ANY = [i \in 1 .. 4 |-> 0]
  BY DEF INADDR_ANY
<1> QED
  BY <1>4, <1>5

LEMMA AddressesAre == \A addr \in Addresses : IsAddress(addr)
<1>1. \A text, b : \A addr \in make_address(text, b) : IsAddress(addr)
  BY DEF make_address, V4, V6, IsAddress
<1>2. \A b \in Bytes16, s \in Scopes \cup {0} : IsAddress(V6(b, s))
  BY DEF V6, IsAddress
<1> QED
  BY <1>1, <1>2 DEF Addresses

LEMMA OfAddressHolds ==
  ASSUME NEW addr, IsAddress(addr), NEW port, NEW e \in OfAddress(addr, port)
  PROVE  Holds(e, port, addr)
<1>1. CASE addr.family = "v4"
  <2>1. e = Data("v4", host_to_network(port), INADDR_ANY, 0)
    BY <1>1 DEF OfAddress
  <2> QED
    BY <1>1, <2>1, ZeroScope DEF Data, Holds, IsAddress
<1>2. CASE addr.family = "v6"
  <2>1. \E b : e = Data("v6", host_to_network(port), b, addr.scope % ScopeLimit)
    BY <1>2 DEF OfAddress
  <2> QED
    BY <1>2, <2>1 DEF Data, Holds
<1> QED
  BY <1>1, <1>2 DEF IsAddress

LEMMA OfFamilyHolds ==
  ASSUME NEW family \in {"v4", "v6"}, NEW port, NEW addr, IsAddress(addr),
         addr.family = family, addr.scope = 0
  PROVE  Holds(OfFamily(family, port), port, addr)
BY ZeroScope DEF OfFamily, Data, Wildcard, Holds

THEOREM EndpointInvariant == EndpointSpec => []EndpointInv
<1>1. EndpointInit => EndpointInv
  <2> SUFFICES ASSUME EndpointInit PROVE EndpointInv
    OBVIOUS
  <2>1. last_port \in Port
    BY DEF EndpointInit, Port
  <2>2. IsAddress(last_address) /\ last_address.family = "v4"
        /\ last_address.scope = 0
    BY DEF EndpointInit, V4, IsAddress
  <2> QED
    BY <2>1, <2>2, OfFamilyHolds DEF EndpointInit, EndpointInv
<1>2. EndpointInv /\ [EndpointNext]_endpointVars => EndpointInv'
  <2> SUFFICES ASSUME EndpointInv, [EndpointNext]_endpointVars
               PROVE  EndpointInv'
    OBVIOUS
  <2>0. \A p \in Ports : p \in Port
    BY DEF Port
  <2>1. ASSUME NEW port \in Ports, SetPort(port) PROVE EndpointInv'
    <3>1. /\ data_' = [data_ EXCEPT !.port = host_to_network(port)]
          /\ last_port' = port /\ last_address' = last_address
      BY <2>1 DEF SetPort
    <3>2. Holds(data_', last_port', last_address')
      BY <3>1 DEF EndpointInv, Holds
    <3> QED
      BY <3>1, <3>2, <2>0 DEF EndpointInv
  <2>2. ASSUME NEW port \in Ports, NEW family \in {"v4", "v6"},
               MakeOfFamily(family, port)
        PROVE EndpointInv'
    <3>1. /\ IsAddress(last_address') /\ last_address'.family = family
          /\ last_address'.scope = 0
      BY <2>2 DEF MakeOfFamily, IsAddress
    <3> QED
      BY <2>2, <2>0, <3>1, OfFamilyHolds DEF MakeOfFamily, EndpointInv
  <2>3. ASSUME NEW port \in Ports, NEW addr \in Addresses,
               MakeOfAddress(addr, port)
        PROVE EndpointInv'
    BY <2>3, <2>0, AddressesAre, OfAddressHolds DEF MakeOfAddress, EndpointInv
  <2>4. ASSUME NEW addr \in Addresses, SetAddress(addr) PROVE EndpointInv'
    <3>1. GetPort(data_) = last_port
      BY PortRoundTrip DEF EndpointInv, Holds, GetPort
    <3> QED
      BY <2>4, <3>1, AddressesAre, OfAddressHolds DEF SetAddress, EndpointInv
  <2>5. CASE UNCHANGED endpointVars
    BY <2>5 DEF endpointVars, EndpointInv
  <2> QED
    BY <2>1, <2>2, <2>3, <2>4, <2>5 DEF EndpointNext
<1> QED
  BY <1>1, <1>2, PTL DEF EndpointSpec

(* endpoint: the port, the family and the scope are the ones last set,     *)
(* and an IPv4 address is INADDR_ANY.                                      *)
THEOREM EndpointKeepsAll == EndpointSpec => []EndpointKeeps
<1>1. EndpointInv => EndpointKeeps
  <2> SUFFICES ASSUME EndpointInv PROVE EndpointKeeps
    OBVIOUS
  <2>1. GetPort(data_) = last_port
    BY PortRoundTrip DEF EndpointInv, Holds, GetPort
  <2>2. CASE data_.family = "v4"
    <3>1. GetAddress(data_) = V4(INADDR_ANY)
      BY <2>2, AnyRoundTrip DEF EndpointInv, Holds, GetAddress, V4OfUint
    <3> QED
      BY <2>1, <2>2, <3>1, ZeroScope
         DEF EndpointInv, Holds, IsAddress, EndpointKeeps, V4
  <2>3. CASE data_.family = "v6"
    <3>1. GetAddress(data_) = V6(data_.bytes, data_.scope)
      BY <2>3 DEF GetAddress
    <3> QED
      BY <2>1, <2>3, <3>1 DEF EndpointInv, Holds, EndpointKeeps, V6
  <2> QED
    BY <2>2, <2>3 DEF EndpointInv, Holds, IsAddress
<1> QED
  BY <1>1, EndpointInvariant, PTL
==============================================================================
