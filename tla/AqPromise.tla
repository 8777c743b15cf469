----------------------------- MODULE AqPromise ------------------------------
(***************************************************************************)
(* What asynchronous queued I/O promises for its requests, numbered as     *)
(* they were accepted: they are given to the system in that order, each    *)
(* once, except that one that a signal kept from being started may be      *)
(* given again; and once a call has acted on a request's outcome, nothing  *)
(* more happens to it.                                                     *)
(***************************************************************************)
EXTENDS Naturals

CONSTANT Request

VARIABLES accepted, fate, over

Init ==
  /\ accepted = 0
  /\ fate = [r \in Request |-> "none"]
  /\ over = {}

Accept ==
  /\ accepted + 1 \in Request
  /\ accepted' = accepted + 1
  /\ fate' = [fate EXCEPT ![accepted + 1] = "queued"]
  /\ UNCHANGED over

Pending(r) == fate[r] \in {"queued", "interrupted"} /\ r \notin over

(* Requests that are pending are given to the system, the oldest first.    *)
Give ==
  /\ fate' \in [Request -> {"none", "queued", "started", "interrupted", "done", "failed"}]
  /\ \A r \in Request : fate'[r] # fate[r] =>
       Pending(r) /\ fate'[r] \in {"started", "interrupted", "failed"}
  /\ \A r, u \in Request :
       r < u /\ fate'[r] = "queued" => fate'[u] \in {"none", "queued"}
  /\ UNCHANGED <<accepted, over>>

Finish(r) ==
  /\ fate[r] = "started"
  /\ \E how \in {"done", "failed"} : fate' = [fate EXCEPT ![r] = how]
  /\ UNCHANGED <<accepted, over>>

(* A call acts on the outcome: it reports it, or lets the request go.      *)
Use(r) ==
  /\ fate[r] \in {"done", "failed", "interrupted"}
  /\ over' = over \cup {r}
  /\ UNCHANGED <<accepted, fate>>

Next == Accept \/ Give \/ \E r \in Request : Finish(r) \/ Use(r)

Spec == Init /\ [][Next]_<<accepted, fate, over>>
=============================================================================
