-------------------------- MODULE ConfigLifecycle --------------------------
(***************************************************************************)
(* What the reconcilers together promise about one                         *)
(* KrknOperatorTargetProviderConfig.  Unlike a target request, a config    *)
(* has no "already contributed": an operator republishes its schema, and   *)
(* may still do so when others have just completed the config.  But it     *)
(* only ever writes its own entry, an entry never goes away, the status    *)
(* only moves forward, and a completed config has a contribution.          *)
(***************************************************************************)
CONSTANTS Operators, Schemas, None

VARIABLES status, data

lifecycle == <<status, data>>

CInit ==
  /\ status = "unset"
  /\ data = [o \in Operators |-> None]

Accept ==
  /\ status = "unset"
  /\ status' = "pending"
  /\ UNCHANGED data

Publish(o, s) ==
  /\ status \in {"pending", "Completed"}
  /\ data' = [data EXCEPT ![o] = s]
  /\ UNCHANGED status

Complete ==
  /\ status = "pending" /\ \E o \in Operators : data[o] # None
  /\ status' = "Completed"
  /\ UNCHANGED data

Delete ==
  /\ status # "deleted"
  /\ status' = "deleted"
  /\ UNCHANGED data

CNext ==
  \/ Accept
  \/ \E o \in Operators, s \in Schemas : Publish(o, s)
  \/ Complete
  \/ Delete

CSpec == CInit /\ [][CNext]_lifecycle
============================================================================
