-------------------------- MODULE ExecutorContract ---------------------------
(***************************************************************************)
(* What io_context promises to those who post functions to it: a function  *)
(* is called at most once, to its end, by a thread inside run(); none is   *)
(* started while the context is stopped; those that were never started are *)
(* destroyed with the context, and only once none is being called.         *)
(***************************************************************************)
CONSTANT Ops

VARIABLES
  status,    (* what became of each function                                 *)
  stopped    (* the context was told, or decided, to stop                    *)

vars == <<status, stopped>>

TypeOK ==
  /\ status \in [Ops -> {"new", "pending", "running", "done", "destroyed"}]
  /\ stopped \in BOOLEAN

(* Nobody initialises stopped_: see the README.                            *)
Init == status = [op \in Ops |-> "new"] /\ stopped \in BOOLEAN

Move(op, from, to) == /\ status[op] = from
                      /\ status' = [status EXCEPT ![op] = to]
                      /\ UNCHANGED stopped

Submit(op) == Move(op, "new", "pending")
Start(op)  == ~stopped /\ Move(op, "pending", "running")
Finish(op) == Move(op, "running", "done")

Stop    == stopped' = TRUE /\ UNCHANGED status
Restart == stopped' = FALSE /\ UNCHANGED status

Destroy ==
  /\ \A op \in Ops : status[op] # "running"
  /\ status' = [op \in Ops |-> IF status[op] = "pending" THEN "destroyed"
                               ELSE status[op]]
  /\ UNCHANGED stopped

Next == \/ \E op \in Ops : Submit(op) \/ Start(op) \/ Finish(op)
        \/ Stop \/ Restart \/ Destroy

Spec == Init /\ [][Next]_vars
=============================================================================
