----------------------------- MODULE Descriptors -----------------------------
(***************************************************************************)
(* socket_ops::socket and socket_ops::close (socket_ops.cc) of several     *)
(* threads, each with a socket of its own, on the one table of descriptor  *)
(* numbers of the process.                                                 *)
(*                                                                         *)
(* A step is one system call.  close() of a number that fails has closed   *)
(* it all the same, as on Linux, and socket() gives the lowest number that *)
(* is free: what close does after a failure may meet another thread's      *)
(* socket under the number.                                                *)
(***************************************************************************)
EXTENDS Integers, FiniteSets

CONSTANTS
  Callers,       (* threads that open and close sockets                      *)
  Numbers,       (* the descriptor numbers of the process                    *)
  MayFail,       (* close() may report an error                              *)
  invalid_socket,
  NoCaller

ASSUME DescriptorsAssumption ==
  /\ Numbers \subseteq Nat /\ MayFail \in BOOLEAN
  /\ invalid_socket \notin Numbers /\ NoCaller \notin Callers

VARIABLES
  (* the kernel *)
  owner,         (* who opened the socket a number denotes, or NoCaller      *)
  nonblock,      (* O_NONBLOCK of the socket a number denotes                *)
  (* of each thread *)
  socket_,       (* its number, or invalid_socket                            *)
  state_,        (* whether its flags have one of non_blocking               *)
  pc,            (* the next system call of its close(), or "idle"           *)
  (* history *)
  failed         (* a close() of an open number reported an error            *)

descriptorVars == <<owner, nonblock, socket_, state_, pc, failed>>

DescriptorsTypeOK ==
  /\ owner \in [Numbers -> Callers \cup {NoCaller}]
  /\ nonblock \in [Numbers -> BOOLEAN]
  /\ socket_ \in [Callers -> Numbers \cup {invalid_socket}]
  /\ state_ \in [Callers -> BOOLEAN]
  /\ pc \in [Callers -> {"idle", "getfl", "setfl", "close"}]
  /\ failed \in BOOLEAN
  /\ \A t \in Callers : pc[t] # "idle" => socket_[t] # invalid_socket

-----------------------------------------------------------------------------
IsOpen(n) == owner[n] # NoCaller

(* socket(), with or without SOCK_NONBLOCK.                                *)
Open(t, mode) ==
  /\ pc[t] = "idle" /\ socket_[t] = invalid_socket
  /\ \E n \in Numbers :
       /\ ~IsOpen(n) /\ \A m \in Numbers : m < n => IsOpen(m)
       /\ owner' = [owner EXCEPT ![n] = t]
       /\ nonblock' = [nonblock EXCEPT ![n] = mode]
       /\ socket_' = [socket_ EXCEPT ![t] = n]
  /\ state_' = [state_ EXCEPT ![t] = mode]
  /\ UNCHANGED <<pc, failed>>

(* ::close(sockfd): whoever's socket it is.                                *)
SystemClose(n, ok) ==
  /\ ok => IsOpen(n)
  /\ ~ok => ~IsOpen(n) \/ MayFail
  /\ owner' = [owner EXCEPT ![n] = NoCaller]
  /\ failed' = (failed \/ (IsOpen(n) /\ ~ok))

(* How a close() may end: EAGAIN, to which EWOULDBLOCK is another name, is *)
(* not an error of a number that is closed.                                *)
Results == {"ok", "EAGAIN", "other"}

(* Variant: close tries again whatever the result.                         *)
CloseTwice(t, result) ==
  /\ pc[t] = "idle" /\ socket_[t] # invalid_socket
  /\ SystemClose(socket_[t], result = "ok")
  /\ pc' = [pc EXCEPT ![t] = "getfl"]
  /\ UNCHANGED <<nonblock, socket_, state_>>

(* close begins; of invalid_socket it does nothing.  The caller forgets    *)
(* the number after a success, and after EAGAIN, of which the code does    *)
(* not try again: the test for either of its names excludes it.            *)
Close(t, result) ==
  /\ pc[t] = "idle" /\ socket_[t] # invalid_socket
  /\ result = "EAGAIN" => IsOpen(socket_[t])
  /\ SystemClose(socket_[t], result = "ok")
  /\ IF result = "other"
     THEN pc' = [pc EXCEPT ![t] = "getfl"] /\ UNCHANGED socket_
     ELSE socket_' = [socket_ EXCEPT ![t] = invalid_socket] /\ UNCHANGED pc
  /\ UNCHANGED <<nonblock, state_>>

(* Switch to blocking mode: fcntl(F_GETFL) ...                             *)
GetFlags(t) ==
  /\ pc[t] = "getfl"
  /\ IF IsOpen(socket_[t])
     THEN pc' = [pc EXCEPT ![t] = "setfl"] /\ UNCHANGED state_
     ELSE /\ pc' = [pc EXCEPT ![t] = "close"]
          /\ state_' = [state_ EXCEPT ![t] = FALSE]
  /\ UNCHANGED <<owner, nonblock, socket_, failed>>

(* ... then fcntl(F_SETFL), and state &= ~non_blocking.                    *)
SetFlags(t) ==
  /\ pc[t] = "setfl"
  /\ nonblock' = [nonblock EXCEPT ![socket_[t]] = FALSE]
  /\ state_' = [state_ EXCEPT ![t] = FALSE]
  /\ pc' = [pc EXCEPT ![t] = "close"]
  /\ UNCHANGED <<owner, socket_, failed>>

(* The second ::close, and the caller forgets the number.                  *)
CloseAgain(t, ok) ==
  /\ pc[t] = "close"
  /\ SystemClose(socket_[t], ok)
  /\ socket_' = [socket_ EXCEPT ![t] = invalid_socket]
  /\ pc' = [pc EXCEPT ![t] = "idle"]
  /\ UNCHANGED <<nonblock, state_>>

-----------------------------------------------------------------------------
DescriptorsInit ==
  /\ owner = [n \in Numbers |-> NoCaller]
  /\ nonblock = [n \in Numbers |-> FALSE]
  /\ socket_ = [t \in Callers |-> invalid_socket]
  /\ state_ = [t \in Callers |-> FALSE]
  /\ pc = [t \in Callers |-> "idle"]
  /\ failed = FALSE

DescriptorsNext ==
  \E t \in Callers :
    \/ \E mode \in BOOLEAN : Open(t, mode)
    \/ \E result \in Results : Close(t, result)
    \/ \E ok \in BOOLEAN : CloseAgain(t, ok)
    \/ GetFlags(t) \/ SetFlags(t)

DescriptorsSpec == DescriptorsInit /\ [][DescriptorsNext]_descriptorVars

-----------------------------------------------------------------------------
(* Properties.                                                             *)

(* As long as no close() of an open descriptor reported an error, every    *)
(* thread's number denotes the socket it opened, in the mode it gave it:   *)
(* only the second attempt of close reaches a socket of another thread.    *)
HoldersOwn ==
  ~failed => \A t \in Callers :
    (pc[t] = "idle" /\ socket_[t] # invalid_socket) =>
      /\ owner[socket_[t]] = t
      /\ nonblock[socket_[t]] = state_[t]

(* No socket stays open that nobody holds the number of, whatever fails.   *)
NothingLeaks ==
  \A n \in Numbers : IsOpen(n) => socket_[owner[n]] = n

SocketsOwned == HoldersOwn /\ NothingLeaks
==============================================================================
