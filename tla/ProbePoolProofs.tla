-------------------------- MODULE ProbePoolProofs --------------------------
(***************************************************************************)
(* Proofs about ProbePool: whatever the number of clusters, the number of  *)
(* workers and the answers, the caller gets the liveness of every cluster  *)
(* in its own slot, and nobody writes to the slice after that.             *)
(***************************************************************************)
EXTENDS ProbePool, TLAPS

Probing(w, i) == worker[w] = "probe" /\ job[w] = i

\* The caller has sent everything once it has closed the channel, and every
\* worker has left once it has returned.
CallerInv ==
  /\ main # "send" => next = Inputs + 1
  /\ \A w \in Workers : worker[w] = "exited" => main # "send"
  /\ main = "returned" => \A w \in Workers : worker[w] = "exited"

\* A worker probes an index already sent, and all endpoints before the one it
\* requests next do not exist.
ProbeInv ==
  \A w \in Workers : worker[w] = "probe" =>
    /\ job[w] \in 1..(next - 1)
    /\ endpoint[w] = 0 <=> answers[job[w]] = << >>
    /\ \A j \in 1..(endpoint[w] - 1) : answers[job[w]][j] = "missing"

\* Every index sent is being probed or has its result.
ResultInv ==
  \A i \in Jobs : i < next =>
    (\E w \in Workers : Probing(w, i)) \/ results[i] = LivenessOf(answers[i])

IInv == TypeOK /\ CallerInv /\ ProbeInv /\ ResultInv /\ OneProbePerCluster

-----------------------------------------------------------------------------
USE SizeAssumption, AnswersAssumption

\* The invariant holds before the first index is sent.
LEMMA InitIInv == Init => IInv
  BY DEF Init, IInv, TypeOK, CallerInv, ProbeInv, ResultInv, OneProbePerCluster,
         Probing, Jobs, Liveness, Unset, Endpoints

\* Writing the liveness of the cluster a worker is probing into its slot, as
\* results[i] = ... does, preserves the invariant.
LEMMA StoreIInv ==
  ASSUME IInv, NEW w \in Workers, NEW r \in Liveness,
         worker[w] = "probe", r = LivenessOf(answers[job[w]]), Store(w, r)
  PROVE  IInv'
<1>1. TypeOK'
  BY DEF IInv, TypeOK, Store
<1>2. CallerInv'
  BY DEF IInv, TypeOK, CallerInv, ProbeInv, Store
<1>3. ProbeInv'
  BY DEF IInv, TypeOK, ProbeInv, Store
<1>4. job[w] \in Jobs
  BY DEF IInv, TypeOK, ProbeInv, Jobs
<1>5. ResultInv'
  <2> SUFFICES ASSUME NEW i \in Jobs, i < next,
                      ~\E v \in Workers : Probing(v, i)'
               PROVE  results'[i] = LivenessOf(answers[i])
    BY DEF ResultInv, Store
  <2>1. CASE i = job[w]
    BY <2>1, <1>4 DEF Store, IInv, TypeOK
  <2>2. CASE i # job[w]
    <3>1. \A v \in Workers : Probing(v, i) => Probing(v, i)'
      BY <2>2 DEF Probing, Store, IInv, TypeOK
    <3>2. results[i] = LivenessOf(answers[i])
      BY <3>1 DEF IInv, ResultInv
    <3> QED BY <2>2, <3>2, <1>4 DEF Store, IInv, TypeOK
  <2> QED BY <2>1, <2>2
<1>6. OneProbePerCluster'
  BY DEF IInv, TypeOK, OneProbePerCluster, Store
<1> QED BY <1>1, <1>2, <1>3, <1>5, <1>6 DEF IInv

\* Every step of the pool preserves the invariant.
LEMMA NextIInv == IInv /\ [Next]_vars => IInv'
<1> SUFFICES ASSUME IInv, [Next]_vars PROVE IInv'
  OBVIOUS
<1> USE DEF Endpoints
<1>1. ASSUME NEW w \in Workers, Send(w) PROVE IInv'
  <2>1. TypeOK'
    BY <1>1 DEF Send, IInv, TypeOK
  <2>2. CallerInv'
    BY <1>1 DEF Send, IInv, TypeOK, CallerInv
  <2>3. ProbeInv'
    <3> SUFFICES ASSUME NEW v \in Workers, worker'[v] = "probe"
                 PROVE  /\ job'[v] \in 1..(next' - 1)
                        /\ endpoint'[v] = 0 <=> answers[job'[v]] = << >>
                        /\ \A j \in 1..(endpoint'[v] - 1) : answers[job'[v]][j] = "missing"
      BY <1>1 DEF ProbeInv, Send
    <3>1. CASE v = w
      BY <1>1, <3>1 DEF Send, IInv, TypeOK
    <3>2. CASE v # w
      BY <1>1, <3>2 DEF Send, IInv, TypeOK, ProbeInv
    <3> QED BY <3>1, <3>2
  <2>4. ResultInv'
    <3> SUFFICES ASSUME NEW i \in Jobs, i < next'
                 PROVE  (\E v \in Workers : Probing(v, i)') \/ results[i] = LivenessOf(answers[i])
      BY <1>1 DEF ResultInv, Send
    <3>1. CASE i = next
      BY <1>1, <3>1 DEF Send, Probing, IInv, TypeOK
    <3>2. CASE i # next
      <4>1. i < next
        BY <1>1, <3>2 DEF Send, IInv, TypeOK, Jobs
      <4>2. \A v \in Workers : Probing(v, i) => Probing(v, i)'
        BY <1>1 DEF Probing, Send, IInv, TypeOK
      <4> QED BY <4>1, <4>2 DEF IInv, ResultInv
    <3> QED BY <3>1, <3>2
  <2>5. OneProbePerCluster'
    BY <1>1 DEF Send, IInv, TypeOK, OneProbePerCluster, ProbeInv
  <2> QED BY <2>1, <2>2, <2>3, <2>4, <2>5 DEF IInv
<1>2. ASSUME NEW w \in Workers, ProbeInvalid(w) PROVE IInv'
  <2>1. Unset = LivenessOf(answers[job[w]]) /\ Unset \in Liveness
    BY <1>2 DEF ProbeInvalid, IInv, ProbeInv, LivenessOf, Unset, Liveness
  <2> QED BY <1>2, <2>1, StoreIInv DEF ProbeInvalid
<1>3. ASSUME NEW w \in Workers, ProbeEndpoint(w) PROVE IInv'
  <2> DEFINE a == answers[job[w]]
             k == endpoint[w]
             reply == a[k]
  <2>1. a \in [1..3 -> Replies] /\ a # << >> /\ k \in 1..3
    BY <1>3 DEF ProbeEndpoint, IInv, TypeOK, ProbeInv, Jobs
  <2>2. \A j \in 1..(k - 1) : a[j] = "missing"
    BY <1>3 DEF ProbeEndpoint, IInv, ProbeInv
  <2>3. CASE reply = "missing" /\ UNCHANGED <<answers, main, next, worker, job, results>>
                /\ endpoint' = [endpoint EXCEPT ![w] = @ + 1]
    <3>1. TypeOK'
      BY <2>1, <2>3 DEF IInv, TypeOK
    <3>2. ProbeInv'
      BY <2>1, <2>2, <2>3 DEF IInv, TypeOK, ProbeInv
    <3>3. CallerInv' /\ ResultInv' /\ OneProbePerCluster'
      BY <2>3 DEF IInv, CallerInv, ResultInv, OneProbePerCluster, Probing
    <3> QED BY <3>1, <3>2, <3>3 DEF IInv
  <2>4. CASE reply # "missing" /\ Store(w, Result(reply # "error" \/ k > 1, reply = "ok"))
    <3>1. (a[1] # "error") <=> (reply # "error" \/ k > 1)
      BY <2>1, <2>2, <2>4
    <3>2. (\E m \in 1..3 : a[m] = "ok" /\ \A j \in 1..(m - 1) : a[j] = "missing")
            <=> reply = "ok"
      BY <2>1, <2>2, <2>4
    <3>3. Result(reply # "error" \/ k > 1, reply = "ok") = LivenessOf(a)
      BY <2>1, <3>1, <3>2 DEF Result, LivenessOf
    <3>4. Result(reply # "error" \/ k > 1, reply = "ok") \in Liveness
      BY DEF Result, Liveness
    <3> QED BY <1>3, <2>4, <3>3, <3>4, StoreIInv DEF ProbeEndpoint
  <2> QED BY <1>3, <2>3, <2>4 DEF ProbeEndpoint
<1>4. ASSUME NEW w \in Workers, ProbeUnsupported(w) PROVE IInv'
  <2> DEFINE a == answers[job[w]]
  <2>1. a \in [1..3 -> Replies] /\ a # << >> /\ endpoint[w] = 4
    BY <1>4, SMTT(30) DEF ProbeUnsupported, IInv, TypeOK, ProbeInv, Jobs
  <2>2. \A j \in 1..3 : a[j] = "missing"
    BY <1>4, <2>1 DEF ProbeUnsupported, IInv, ProbeInv
  <2>3. Result(TRUE, FALSE) = LivenessOf(a)
    <3>1. a[1] # "error" /\ ~\E m \in 1..3 : a[m] = "ok"
      BY <2>2
    <3> QED BY <2>1, <3>1 DEF Result, LivenessOf
  <2>4. Result(TRUE, FALSE) \in Liveness
    BY DEF Result, Liveness
  <2> QED BY <1>4, <2>3, <2>4, StoreIInv DEF ProbeUnsupported
<1>5. ASSUME NEW w \in Workers, Exit(w) PROVE IInv'
  <2>1. TypeOK' /\ CallerInv' /\ ProbeInv' /\ OneProbePerCluster'
    BY <1>5 DEF Exit, IInv, TypeOK, CallerInv, ProbeInv, OneProbePerCluster
  <2>2. \A v \in Workers, i \in Jobs : Probing(v, i) => Probing(v, i)'
    BY <1>5 DEF Exit, Probing, IInv, TypeOK
  <2>3. ResultInv'
    BY <1>5, <2>2 DEF Exit, IInv, ResultInv
  <2> QED BY <2>1, <2>3 DEF IInv
<1>6. CASE Close
  BY <1>6 DEF Close, IInv, TypeOK, CallerInv, ProbeInv, ResultInv, OneProbePerCluster, Probing
<1>7. CASE Wait
  BY <1>7 DEF Wait, IInv, TypeOK, CallerInv, ProbeInv, ResultInv, OneProbePerCluster, Probing
<1>8. CASE UNCHANGED vars
  BY <1>8 DEF vars, IInv, TypeOK, CallerInv, ProbeInv, ResultInv, OneProbePerCluster, Probing
<1> QED BY <1>1, <1>2, <1>3, <1>4, <1>5, <1>6, <1>7, <1>8 DEF Next, Finished

\* The inductive invariant of the pool holds in every state.
THEOREM PoolInvariant == Spec => []IInv
  BY InitIInv, NextIInv, PTL DEF Spec

\* The types of the pool: every worker's index and endpoint are in range.
THEOREM PoolTypes == Spec => []TypeOK
<1>1. IInv => TypeOK
  BY DEF IInv
<1> QED BY <1>1, PoolInvariant, PTL

\* When probeManagedClusters returns, every cluster has its own liveness in
\* its own slot, whatever the number of clusters, workers and their answers.
THEOREM ResultsCorrect == Spec => []ResultsInOrder
<1>1. IInv => ResultsInOrder
  BY DEF IInv, TypeOK, CallerInv, ResultInv, ResultsInOrder, Probing, Jobs
<1> QED BY <1>1, PoolInvariant, PTL

\* At no time do two goroutines probe the same cluster.
THEOREM SingleWriter == Spec => []OneProbePerCluster
<1>1. IInv => OneProbePerCluster
  BY DEF IInv
<1> QED BY <1>1, PoolInvariant, PTL

\* No goroutine writes to the slice once the caller has it.
THEOREM NoLateWrite == Spec => NoWriteAfterReturn
<1>1. IInv /\ [Next]_vars => [main = "returned" => results' = results]_vars
  <2> SUFFICES ASSUME IInv, [Next]_vars, main = "returned" PROVE results' = results
    OBVIOUS
  <2>1. \A w \in Workers : worker[w] = "exited"
    BY DEF IInv, CallerInv
  <2> QED BY <2>1 DEF Next, Send, ProbeInvalid, ProbeEndpoint, ProbeUnsupported, Exit,
                      Close, Wait, Finished, vars
<1> QED BY <1>1, PoolInvariant, PTL DEF Spec, NoWriteAfterReturn
============================================================================
