------------------------------ MODULE Endpoint -------------------------------
(***************************************************************************)
(* ip::detail::endpoint and the addresses it is made of (endpoint.hpp,     *)
(* address.hpp, address_v4.hpp, address_v6.hpp), with the byte order and   *)
(* the parsing of socket_ops.cc.                                           *)
(*                                                                         *)
(* An integer of 16 or 32 bits is the sequence of its bytes as they lie in *)
(* memory.  The host is little-endian: the functions that change the byte  *)
(* order reverse it.                                                       *)
(***************************************************************************)
EXTENDS Integers, SequencesExt

CONSTANTS
  Ports,         (* ports, in host byte order                                *)
  Bytes4,        (* IPv4 addresses, as bytes from left to right              *)
  Bytes16,       (* IPv6 addresses, other than ::                            *)
  Unspecified,   (* ::                                                       *)
  Scopes,        (* scope ids other than 0                                   *)
  ScopeLimit     (* 2^32: sin6_scope_id has 32 bits, scope_id() 64           *)

ASSUME EndpointAssumption ==
  /\ Unspecified \notin Bytes16 /\ ScopeLimit \in Nat \ {0}
  /\ Scopes \subseteq Nat \ {0}
  /\ \A p \in Ports : p \in Seq(0 .. 255) /\ Len(p) = 2
  /\ \A b \in Bytes4 : b \in Seq(0 .. 255) /\ Len(b) = 4

VARIABLES
  data_,         (* the sockaddr of an endpoint                              *)
  (* history *)
  last_port,     (* the port it was last given                               *)
  last_address   (* the address it was last given                            *)

endpointVars == <<data_, last_port, last_address>>

INADDR_ANY == <<0, 0, 0, 0>>

-----------------------------------------------------------------------------
(* Byte order.                                                             *)
network_to_host(x) == Reverse(x)

(* Variant: the bytes stay as they are.                                    *)
unconverted(x) == x

host_to_network(x) == Reverse(x)

-----------------------------------------------------------------------------
(* Addresses.                                                              *)

(* address_v4 of bytes, and of an integer; it keeps the bytes.             *)
V4(bytes) == [family |-> "v4", bytes |-> bytes, scope |-> 0]
V4OfUint(n) == V4(host_to_network(n))

V6(bytes, scope) == [family |-> "v6", bytes |-> bytes, scope |-> scope]

(* address_v6::to_bytes has no return statement: it gives any bytes.       *)
to_bytes(addr) == Bytes16 \cup {Unspecified}

(* Texts: "v4" and "v6" are what ::inet_pton accepts, with or without %    *)
(* and a scope; a text is long when the % comes too late for src_buf.      *)
Texts == [kind : {"v4", "v6", "none"}, scoped : BOOLEAN, long : BOOLEAN]

(* inet_pton: whether the text is an address of the family.  A scope is    *)
(* only understood, and a late % refused, for IPv6.                        *)
inet_pton(family, text) ==
  IF family = "v6" THEN text.kind = "v6" /\ ~(text.scoped /\ text.long)
                   ELSE text.kind = "v4" /\ ~text.scoped

(* make_address of a text with these bytes: IPv4, then IPv6, of which      *)
(* make_address_v6 drops the bytes and the scope; {} is an error.          *)
make_address(text, bytes) ==
  IF inet_pton("v4", text) THEN {V4(bytes)}
  ELSE IF inet_pton("v6", text) THEN {V6(Unspecified, 0)} ELSE {}

(* What a user can have: made of bytes or parsed.                          *)
Addresses == {V6(b, s) : b \in Bytes16, s \in Scopes \cup {0}} \cup
             UNION {make_address(text, b) : text \in Texts, b \in Bytes4}

-----------------------------------------------------------------------------
(* Endpoints.  sin_port and sin6_port share their place.                   *)
Data(family, port, bytes, scope) ==
  [family |-> family, port |-> port, bytes |-> bytes, scope |-> scope]

(* The bytes of an address that is not specified.                          *)
Wildcard(family) == IF family = "v4" THEN INADDR_ANY ELSE Unspecified

(* endpoint(family, port).                                                 *)
OfFamily(family, port) == Data(family, host_to_network(port), Wildcard(family), 0)

(* endpoint(addr, port).  An IPv4 address is stored, and then overwritten  *)
(* by INADDR_ANY.                                                          *)
OfAddress(addr, port) ==
  IF addr.family = "v4"
  THEN {Data("v4", host_to_network(port), INADDR_ANY, 0)}
  ELSE {Data("v6", host_to_network(port), b, addr.scope % ScopeLimit) :
          b \in to_bytes(addr)}

(* port() and address().                                                   *)
GetPort(e) == network_to_host(e.port)

GetAddress(e) ==
  IF e.family = "v4" THEN V4OfUint(network_to_host(e.bytes))
                     ELSE V6(e.bytes, e.scope)

(* A new endpoint is assigned.                                             *)
MakeOfFamily(family, port) ==
  /\ data_' = OfFamily(family, port)
  /\ last_port' = port
  /\ last_address' = [family |-> family, bytes |-> Wildcard(family), scope |-> 0]

MakeOfAddress(addr, port) ==
  /\ data_' \in OfAddress(addr, port)
  /\ last_port' = port /\ last_address' = addr

(* port(port).                                                             *)
SetPort(port) ==
  /\ data_' = [data_ EXCEPT !.port = host_to_network(port)]
  /\ last_port' = port
  /\ UNCHANGED last_address

(* Variant: the new address comes with no port.                            *)
SetAddressOnly(addr) ==
  /\ data_' \in OfAddress(addr, <<0, 0>>)
  /\ last_address' = addr
  /\ UNCHANGED last_port

(* address(addr): an endpoint made of the address and the old port is      *)
(* assigned.                                                               *)
SetAddress(addr) ==
  /\ data_' \in OfAddress(addr, GetPort(data_))
  /\ last_address' = addr
  /\ UNCHANGED last_port

-----------------------------------------------------------------------------
(* endpoint(): IPv4 and port 0.                                            *)
EndpointInit ==
  /\ last_port = <<0, 0>> /\ last_address = V4(INADDR_ANY)
  /\ data_ = OfFamily("v4", last_port)

EndpointNext ==
  \/ \E port \in Ports :
       \/ SetPort(port)
       \/ \E family \in {"v4", "v6"} : MakeOfFamily(family, port)
       \/ \E addr \in Addresses : MakeOfAddress(addr, port)
  \/ \E addr \in Addresses : SetAddress(addr)

EndpointSpec == EndpointInit /\ [][EndpointNext]_endpointVars

-----------------------------------------------------------------------------
(* Properties.                                                             *)

(* endpoint keeps the port, in the byte order of the network, through      *)
(* every change of the address and of its family; the family and the scope *)
(* are those of the last address, the scope cut to 32 bits; and an IPv4    *)
(* address is INADDR_ANY, whatever was set.                                *)
EndpointKeeps ==
  LET addr == GetAddress(data_)
  IN /\ GetPort(data_) = last_port
     /\ addr.family = last_address.family
     /\ addr.scope = last_address.scope % ScopeLimit
     /\ addr.family = "v4" => addr.bytes = INADDR_ANY
==============================================================================
