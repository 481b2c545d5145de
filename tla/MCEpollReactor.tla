--------------------------- MODULE MCEpollReactor ---------------------------
(***************************************************************************)
(* Instances of EpollReactor for TLC.                                      *)
(***************************************************************************)
EXTENDS EpollReactor, TLC

CONSTANTS d1, d2, o1, o2, o3

SameDescriptor == [o \in Ops |-> d1]
TwoDescriptors == [o \in Ops |-> IF o = o1 THEN d1 ELSE d2]

ReadAndWrites == [o \in Ops |-> IF o = o1 THEN "read" ELSE "write"]
OneOfEachKind == [o \in Ops |-> IF o = o1 THEN "read"
                                ELSE IF o = o2 THEN "write" ELSE "except"]

AllSpeculative == [o \in Ops |-> TRUE]
(* One of the writes is started as a connect is: without speculation. *)
Mixed == [o \in Ops |-> o # o3]
(* Writes are started as a connect is: without speculation. *)
Connects == [o \in Ops |-> Kind[o] # "write"]

(* Writes are started as continuations, as the next part of an             *)
(* asynchronous write is.                                                  *)
WritesContinue == [o \in Ops |-> Kind[o] = "write"]

ThreadSymmetry == Permutations(Threads)
=============================================================================
