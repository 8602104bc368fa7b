----------------------------- MODULE ProbePool -----------------------------
(***************************************************************************)
(* probeManagedClusters of krkntargetrequest_controller.go: a pool of at   *)
(* most maxConcurrentClusterProbes goroutines takes cluster indices from   *)
(* an unbuffered channel, probes the health endpoints of each cluster's    *)
(* API (cluster_liveness.go) and writes results[i], while the caller sends *)
(* the indices, closes the channel and waits for the WaitGroup.            *)
(*                                                                         *)
(* What a cluster answers is given by answers[i]: the reply to each of     *)
(* /readyz, /livez and /healthz in turn, or the empty sequence when no     *)
(* request is made because its URL or CA bundle is invalid.                *)
(***************************************************************************)
EXTENDS Naturals, Sequences

CONSTANTS
  Inputs,      \* len(inputs)
  MaxWorkers,  \* maxConcurrentClusterProbes
  Answers      \* what a cluster may answer

Endpoints == 3
Replies == {"error",    \* no response: refused, TLS failure, 2 s deadline
            "missing",  \* HTTP 404 or 405
            "bad",      \* any other response outside 2xx
            "ok"}       \* HTTP 2xx

ASSUME SizeAssumption == Inputs \in Nat \ {0} /\ MaxWorkers \in Nat \ {0}
ASSUME AnswersAssumption == Answers \subseteq {<< >>} \cup [1..Endpoints -> Replies]

VARIABLES
  answers,  \* what each cluster answers
  main,     \* the caller: "send", "wait" or "returned"
  next,     \* the index the caller sends next
  worker,   \* "receive", "probe" or "exited"
  job,      \* the index a worker is probing
  endpoint, \* the endpoint it requests next
  results   \* the slice of results

vars == <<answers, main, next, worker, job, endpoint, results>>

Jobs    == 1..Inputs
Workers == 1..(IF Inputs < MaxWorkers THEN Inputs ELSE MaxWorkers)

\* clusterLivenessResult, and the zero value of a slot not yet written.
Liveness == [online : BOOLEAN, healthy : BOOLEAN]
Unset    == [online |-> FALSE, healthy |-> FALSE]
Result(online, healthy) == [online |-> online, healthy |-> healthy]

\* The clusterLivenessResult that cluster_liveness.go defines for a cluster: the first
\* endpoint that exists decides, and any response at all means online.
LivenessOf(a) ==
  [online  |-> a # << >> /\ a[1] # "error",
   healthy |-> a # << >> /\ \E k \in 1..Endpoints :
                 a[k] = "ok" /\ \A j \in 1..(k - 1) : a[j] = "missing"]

\* Mutant of Send: the index is not advanced.
SendAgain(w) ==
  /\ main = "send" /\ next <= Inputs
  /\ worker[w] = "receive"
  /\ worker' = [worker EXCEPT ![w] = "probe"]
  /\ job' = [job EXCEPT ![w] = next]
  /\ endpoint' = [endpoint EXCEPT ![w] = IF answers[next] = << >> THEN 0 ELSE 1]
  /\ next' \in {next, next + 1}
  /\ UNCHANGED <<answers, main, results>>

\* The caller hands the next index to a worker ready to receive.  An invalid
\* URL or CA bundle is found before any endpoint is requested.
Send(w) ==
  /\ main = "send" /\ next <= Inputs
  /\ worker[w] = "receive"
  /\ worker' = [worker EXCEPT ![w] = "probe"]
  /\ job' = [job EXCEPT ![w] = next]
  /\ endpoint' = [endpoint EXCEPT ![w] = IF answers[next] = << >> THEN 0 ELSE 1]
  /\ next' = next + 1
  /\ UNCHANGED <<answers, main, results>>

\* Mutant of Store: the next free slot instead of results[i].
StoreInOrder(w, r) ==
  /\ results' = [results EXCEPT ![next - 1] = r]
  /\ worker' = [worker EXCEPT ![w] = "receive"]
  /\ UNCHANGED <<answers, main, next, job, endpoint>>

\* results[i] = ..., and back to the channel.
Store(w, r) ==
  /\ results' = [results EXCEPT ![job[w]] = r]
  /\ worker' = [worker EXCEPT ![w] = "receive"]
  /\ UNCHANGED <<answers, main, next, job, endpoint>>

\* checkClusterAPILiveness returns before the first request.
ProbeInvalid(w) ==
  /\ worker[w] = "probe" /\ endpoint[w] = 0
  /\ Store(w, Unset)

\* One iteration of the loop over clusterHealthEndpoints.
ProbeEndpoint(w) ==
  /\ worker[w] = "probe" /\ endpoint[w] \in 1..Endpoints
  /\ LET reply == answers[job[w]][endpoint[w]] IN
     \/ /\ reply = "missing"
        /\ endpoint' = [endpoint EXCEPT ![w] = @ + 1]
        /\ UNCHANGED <<answers, main, next, worker, job, results>>
     \/ /\ reply # "missing"
        /\ Store(w, Result(reply # "error" \/ endpoint[w] > 1, reply = "ok"))

\* Mutant of ProbeUnsupported: the loop goes on past the last endpoint.
ProbePastEnd(w) ==
  /\ worker[w] = "probe" /\ endpoint[w] = Endpoints + 1
  /\ endpoint' = [endpoint EXCEPT ![w] = @ + 1]
  /\ UNCHANGED <<answers, main, next, worker, job, results>>

\* Mutant of ProbeUnsupported: the endpoints are tried again.
ProbeAgain(w) ==
  /\ worker[w] = "probe" /\ endpoint[w] > Endpoints
  /\ endpoint' = [endpoint EXCEPT ![w] = 1]
  /\ UNCHANGED <<answers, main, next, worker, job, results>>

\* No endpoint exists: online, but not healthy.
ProbeUnsupported(w) ==
  /\ worker[w] = "probe" /\ endpoint[w] > Endpoints
  /\ Store(w, Result(TRUE, FALSE))

\* The caller has sent every index and closes the channel.
Close ==
  /\ main = "send" /\ next > Inputs
  /\ main' = "wait"
  /\ UNCHANGED <<answers, next, worker, job, endpoint, results>>

\* The channel is closed: the worker's loop ends and it calls workers.Done.
Exit(w) ==
  /\ worker[w] = "receive" /\ main # "send"
  /\ worker' = [worker EXCEPT ![w] = "exited"]
  /\ UNCHANGED <<answers, main, next, job, endpoint, results>>

\* Mutant of Wait: the caller returns as soon as one worker is not probing.
WaitForOne ==
  /\ main = "wait"
  /\ \E w \in Workers : worker[w] # "probe"
  /\ main' = "returned"
  /\ UNCHANGED <<answers, next, worker, job, endpoint, results>>

\* workers.Wait returns when every worker has called Done.
Wait ==
  /\ main = "wait"
  /\ \A w \in Workers : worker[w] = "exited"
  /\ main' = "returned"
  /\ UNCHANGED <<answers, next, worker, job, endpoint, results>>

\* Nothing is left to do.
Finished == main = "returned" /\ UNCHANGED vars

Init ==
  /\ answers \in [Jobs -> Answers]
  /\ main = "send"
  /\ next = 1
  /\ worker = [w \in Workers |-> "receive"]
  /\ job = [w \in Workers |-> 0]
  /\ endpoint = [w \in Workers |-> 0]
  /\ results = [i \in Jobs |-> Unset]

Next ==
  \/ \E w \in Workers :
       Send(w) \/ ProbeInvalid(w) \/ ProbeEndpoint(w) \/ ProbeUnsupported(w) \/ Exit(w)
  \/ Close
  \/ Wait
  \/ Finished

Spec == Init /\ [][Next]_vars

\* A goroutine that can run does: requests end within clusterLivenessTimeout.
Fairness ==
  /\ \A w \in Workers :
       /\ WF_vars(Send(w))
       /\ WF_vars(ProbeInvalid(w) \/ ProbeEndpoint(w) \/ ProbeUnsupported(w))
       /\ WF_vars(Exit(w))
  /\ WF_vars(Close)
  /\ WF_vars(Wait)

FairSpec == Spec /\ Fairness

-----------------------------------------------------------------------------
\* Every variable has its type.
TypeOK ==
  /\ answers \in [Jobs -> Answers]
  /\ main \in {"send", "wait", "returned"}
  /\ next \in 1..(Inputs + 1)
  /\ worker \in [Workers -> {"receive", "probe", "exited"}]
  /\ job \in [Workers -> 0..Inputs]
  /\ endpoint \in [Workers -> 0..(Endpoints + 1)]
  /\ results \in [Jobs -> Liveness]

\* When probeManagedClusters returns, results[i] is the liveness of the i-th
\* cluster, however the probes interleaved and in whatever order they ended.
ResultsInOrder ==
  main = "returned" => \A i \in Jobs : results[i] = LivenessOf(answers[i])

\* No two goroutines probe the same cluster, so results[i] has one writer.
OneProbePerCluster ==
  \A v, w \in Workers :
    v # w /\ worker[v] = "probe" /\ worker[w] = "probe" => job[v] # job[w]

\* Once the caller has the slice, no goroutine writes to it any more.
NoWriteAfterReturn ==
  [][main = "returned" => results' = results]_vars

\* The call returns: no index is left unsent, no goroutine waits for ever.
Returns == <>(main = "returned")
============================================================================
