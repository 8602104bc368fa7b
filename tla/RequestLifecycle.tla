-------------------------- MODULE RequestLifecycle --------------------------
(***************************************************************************)
(* What the reconcilers together promise about one KrknTargetRequest,      *)
(* without caches, versions, Secrets or crashes: the status only moves     *)
(* forward, an operator contributes at most once and only while the        *)
(* request is pending, a contribution never changes afterwards, and a      *)
(* completed request has at least one contribution and is final until it   *)
(* is deleted.                                                             *)
(***************************************************************************)
CONSTANTS Operators, Snapshots, None

VARIABLES status, data

lifecycle == <<status, data>>

LInit ==
  /\ status = "unset"
  /\ data = [o \in Operators |-> None]

Accept ==
  /\ status = "unset"
  /\ status' = "pending"
  /\ UNCHANGED data

Contribute(o, s) ==
  /\ status = "pending" /\ data[o] = None
  /\ data' = [data EXCEPT ![o] = s]
  /\ status' \in {"pending", "Completed"}

Complete ==
  /\ status = "pending" /\ \E o \in Operators : data[o] # None
  /\ status' = "Completed"
  /\ UNCHANGED data

Delete ==
  /\ status # "deleted"
  /\ status' = "deleted"
  /\ UNCHANGED data

LNext ==
  \/ Accept
  \/ \E o \in Operators, s \in Snapshots : Contribute(o, s)
  \/ Complete
  \/ Delete

LSpec == LInit /\ [][LNext]_lifecycle
=============================================================================
