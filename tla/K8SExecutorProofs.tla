------------------------- MODULE K8SExecutorProofs -------------------------
(* Machine-checked proofs about K8SExecutor, for every value of the       *)
(* constants that satisfies ConstantsAssumption.                           *)
EXTENDS K8SExecutor, TLAPS

USE ConstantsAssumption

-----------------------------------------------------------------------------
(* Type correctness.                                                       *)

LEMMA InitTypeOK == Init => TypeOK
<1>. SUFFICES ASSUME Init PROVE TypeOK
  OBVIOUS
<1>1. remote \in [UIDs -> RemoteRecord]
  BY DEF Init
<1>2. mon \in [MonitorThreads -> MonStates]
  BY DEF Init, MonStates
<1>. QED BY <1>1, <1>2 DEF Init, TypeOK

(* gather_inflight_jobs yields a uid, or NoUID, for every hash.           *)
LEMMA GatheredType ==
    ASSUME TypeOK PROVE Gathered \in [Hashes -> UIDs \cup {NoUID}]
<1>. SUFFICES ASSUME NEW h \in Hashes
              PROVE  Gathered[h] \in UIDs \cup {NoUID}
  BY DEF Gathered
<1>1. CASE \E u \in UIDs : Listed(u) /\ remote[u].hash = h
  BY <1>1, Zenon DEF Gathered
<1>2. CASE ~\E u \in UIDs : Listed(u) /\ remote[u].hash = h
  BY <1>2 DEF Gathered, TypeOK
<1>. QED BY <1>1, <1>2

LEMMA SubmitRouteTypeOK ==
    ASSUME TypeOK, NEW j \in Jobs, SubmitRoute(j) PROVE TypeOK'
<1>1. Gathered \in [Hashes -> UIDs \cup {NoUID}]
  BY GatheredType
<1>. DEFINE pre == IF isRunning THEN preexisting ELSE Gathered
            h   == JobHash[j]
            u   == pre[h]
<1>2. pre \in [Hashes -> UIDs \cup {NoUID}] /\ h \in Hashes
  BY <1>1 DEF TypeOK
<1>3. jobSt' \in [Jobs -> {"new", "submitted", "raised"}]
  BY DEF SubmitRoute, TypeOK
<1>6. UNCHANGED <<isRunning, arrFlush, mon, batch, remote, outFile, errFile,
                  reported, verdict, fatal, stopCalled>>
  BY DEF SubmitRoute
<1>4. CASE j \notin NoCacheJobs /\ u # NoUID
  <2>1. u \in UIDs
    BY <1>2, <1>4
  <2>2. preexisting' \in [Hashes -> UIDs \cup {NoUID}]
        /\ reunions' \in [UIDs -> Nat]
    BY <1>2, <1>4, <2>1 DEF SubmitRoute, TypeOK
  <2>3. pending' \in [UIDs -> Jobs \cup {NoJob}] /\ sched' \in {"idle", "routed", "stopping"}
    BY <1>4 DEF SubmitRoute, TypeOK
  <2>4. UNCHANGED <<arrBuf, arrAlive, arrExit>>
    BY <1>4 DEF SubmitRoute
  <2>. QED BY <1>3, <1>6, <2>2, <2>3, <2>4 DEF TypeOK
<1>5. CASE ~(j \notin NoCacheJobs /\ u # NoUID)
  <2>1. preexisting' \in [Hashes -> UIDs \cup {NoUID}]
    BY <1>2, <1>5 DEF SubmitRoute
  <2>2. arrBuf' \subseteq Jobs /\ arrAlive' \in BOOLEAN /\ arrExit' \in BOOLEAN
    <3>1. AddJob(j)
      BY <1>5 DEF SubmitRoute
    <3>. QED BY <3>1 DEF AddJob, TypeOK
  <2>3. UNCHANGED <<pending, reunions>> /\ sched' = "routed"
    BY <1>5 DEF SubmitRoute
  <2>. QED BY <1>3, <1>6, <2>1, <2>2, <2>3 DEF TypeOK
<1>. QED BY <1>4, <1>5

LEMMA ArrayerTypeOK ==
    ASSUME TypeOK, ArrayerFlush \/ ArrayerExit \/ \E j \in Jobs : SubmitSingleJob(j)
    PROVE  TypeOK'
<1>1. CASE ArrayerFlush
  BY <1>1 DEF ArrayerFlush, TypeOK
<1>2. CASE ArrayerExit
  BY <1>2 DEF ArrayerExit, TypeOK
<1>3. CASE \E j \in Jobs : SubmitSingleJob(j)
  <2>. PICK j \in Jobs : SubmitSingleJob(j)
    BY <1>3
  <2>1. CASE \/ JobTask[j] \in ScriptTasks
             \/ \E v \in UIDs : Listed(v) /\ remote[v].hash = JobHash[j]
    BY <2>1 DEF SubmitSingleJob, ArrayerCrash, TypeOK
  <2>2. CASE ~(\/ JobTask[j] \in ScriptTasks
               \/ \E v \in UIDs : Listed(v) /\ remote[v].hash = JobHash[j])
    <3>. PICK u \in UIDs :
            /\ remote' = [remote EXCEPT ![u] =
                            [hash |-> JobHash[j], st |-> "active", gone |-> FALSE,
                             fails |-> 0]]
            /\ pending' = [pending EXCEPT ![u] = j]
            /\ arrFlush' = arrFlush \ {j}
            /\ UNCHANGED arrAlive
      BY <2>2 DEF SubmitSingleJob
    <3>1. remote' \in [UIDs -> RemoteRecord]
      BY DEF TypeOK, RemoteRecord, RemoteStates
    <3>2. pending' \in [UIDs -> Jobs \cup {NoJob}]
      BY DEF TypeOK
    <3>. QED BY <3>1, <3>2 DEF SubmitSingleJob, TypeOK
  <2>. QED BY <2>1, <2>2
<1>. QED BY <1>1, <1>2, <1>3

LEMMA MonitorTypeOK ==
    ASSUME TypeOK, NEW t \in MonitorThreads,
           \/ MonitorLoop(t)
           \/ \E r \in batch[t] : MonitorProcess(t, r)
           \/ MonitorSleep(t)
           \/ MonitorStopBegin(t)
           \/ MonitorStopEnd(t)
    PROVE  TypeOK'
<1>1. CASE MonitorLoop(t)
  <2>1. mon' \in [MonitorThreads -> MonStates]
    BY <1>1 DEF MonitorLoop, TypeOK, MonStates
  <2>2. batch' \in [MonitorThreads -> SUBSET StatusRecord]
    <3>1. {[uid |-> u, st |-> remote[u].st] : u \in {v \in Registered : Listed(v)}}
            \subseteq StatusRecord
      BY DEF TypeOK, StatusRecord, RemoteRecord, Registered
    <3>. QED BY <1>1, <3>1 DEF MonitorLoop, TypeOK
  <2>. QED BY <1>1, <2>1, <2>2 DEF MonitorLoop, TypeOK
<1>2. CASE \E r \in batch[t] : MonitorProcess(t, r)
  <2>. PICK r \in batch[t] : MonitorProcess(t, r)
    BY <1>2
  <2>1. r \in StatusRecord
    BY DEF TypeOK
  <2>2. batch[t] \ {r} \in SUBSET StatusRecord
    BY DEF TypeOK
  <2>3. CASE JobStatus(r) = "SKIP"
    BY <2>2, <2>3 DEF MonitorProcess, TypeOK
  <2>4. CASE JobStatus(r) # "SKIP" /\ pending[r.uid] = NoJob
    BY <2>4 DEF MonitorProcess, MonitorFails, TypeOK, MonStates
  <2>5. CASE JobStatus(r) # "SKIP" /\ pending[r.uid] # NoJob
    <3>. DEFINE j == pending[r.uid]
                h == JobHash[j]
    <3>1. j \in Jobs /\ r.uid \in UIDs
      BY <2>1, <2>5 DEF TypeOK, StatusRecord
    <3>2. pending' = [pending EXCEPT ![r.uid] = NoJob]
      BY <2>5 DEF MonitorProcess
    <3>3. pending' \in [UIDs -> Jobs \cup {NoJob}]
      BY <3>2 DEF TypeOK
    <3>4. CASE JobStatus(r) = "SUCCEEDED"
      <4>1. Report(j, IF outFile[h] THEN "done" ELSE "rejected")
            /\ batch' = [batch EXCEPT ![t] = @ \ {r}] /\ UNCHANGED <<mon, fatal>>
        BY <2>5, <3>4 DEF MonitorProcess
      <4>2. reported' \in [Jobs -> Nat] /\ verdict' \in [Jobs -> {"none", "done", "rejected"}]
        BY <4>1, <3>1 DEF Report, TypeOK
      <4>3. batch' \in [MonitorThreads -> SUBSET StatusRecord]
        BY <4>1, <2>2 DEF TypeOK
      <4>. QED BY <4>1, <4>2, <4>3, <3>3 DEF MonitorProcess, TypeOK
    <3>5. CASE JobStatus(r) # "SUCCEEDED" /\ RejectReached(r, h)
      <4>1. Report(j, "rejected")
            /\ batch' = [batch EXCEPT ![t] = @ \ {r}] /\ UNCHANGED <<mon, fatal>>
        BY <2>5, <3>5 DEF MonitorProcess
      <4>2. reported' \in [Jobs -> Nat] /\ verdict' \in [Jobs -> {"none", "done", "rejected"}]
        BY <4>1, <3>1 DEF Report, TypeOK
      <4>3. batch' \in [MonitorThreads -> SUBSET StatusRecord]
        BY <4>1, <2>2 DEF TypeOK
      <4>. QED BY <4>1, <4>2, <4>3, <3>3 DEF MonitorProcess, TypeOK
    <3>6. CASE JobStatus(r) # "SUCCEEDED" /\ ~RejectReached(r, h)
      <4>1. MonitorFails(t) /\ UNCHANGED <<reported, verdict>>
        BY <2>5, <3>6 DEF MonitorProcess
      <4>. QED BY <4>1, <3>3 DEF MonitorProcess, MonitorFails, TypeOK, MonStates
    <3>. QED BY <3>4, <3>5, <3>6
  <2>. QED BY <2>3, <2>4, <2>5
<1>3. CASE MonitorSleep(t)
  BY <1>3 DEF MonitorSleep, TypeOK, MonStates
<1>4. CASE MonitorStopBegin(t)
  BY <1>4 DEF MonitorStopBegin, TypeOK, MonStates
<1>5. CASE MonitorStopEnd(t)
  BY <1>5 DEF MonitorStopEnd, TypeOK, MonStates
<1>. QED BY <1>1, <1>2, <1>3, <1>4, <1>5

LEMMA NextTypeOK == TypeOK /\ [Next]_vars => TypeOK'
<1>. SUFFICES ASSUME TypeOK, [Next]_vars PROVE TypeOK'
  OBVIOUS
<1>1. CASE \E j \in Jobs : SubmitRoute(j)
  BY <1>1, SubmitRouteTypeOK
<1>2. CASE SubmitStart
  BY <1>2 DEF SubmitStart, TypeOK, MonStates
<1>3. CASE StopBegin \/ StopEnd
  BY <1>3 DEF StopBegin, StopEnd, TypeOK
<1>4. CASE ArrayerFlush \/ ArrayerExit \/ \E j \in Jobs : SubmitSingleJob(j)
  BY <1>4, ArrayerTypeOK
<1>5. CASE \E t \in MonitorThreads :
              \/ MonitorLoop(t)
              \/ \E r \in batch[t] : MonitorProcess(t, r)
              \/ MonitorSleep(t)
              \/ MonitorStopBegin(t)
              \/ MonitorStopEnd(t)
  BY <1>5, MonitorTypeOK
<1>6. CASE \E u \in UIDs : \E o \in Outcomes : RemoteFinish(u, o)
  <2>. PICK u \in UIDs, o \in Outcomes : RemoteFinish(u, o)
    BY <1>6
  <2>1. remote[u] \in RemoteRecord
    BY DEF TypeOK
  <2>2. remote' \in [UIDs -> RemoteRecord]
    BY <2>1 DEF RemoteFinish, TypeOK, RemoteRecord, RemoteStates
  <2>3. outFile' \in [Hashes -> BOOLEAN] /\ errFile' \in [Hashes -> BOOLEAN]
    BY DEF RemoteFinish, TypeOK
  <2>. QED BY <2>2, <2>3 DEF RemoteFinish, TypeOK
<1>9. CASE \E u \in UIDs : \E o \in Outcomes : RemoteRetry(u, o)
  <2>. PICK u \in UIDs, o \in Outcomes : RemoteRetry(u, o)
    BY <1>9
  <2>1. remote[u] \in RemoteRecord /\ remote[u].fails < BackoffLimit
    BY DEF TypeOK, RemoteRetry
  <2>. DEFINE rec == remote[u]
  <2>5. rec.fails + 1 \in 0..BackoffLimit
    BY <2>1 DEF RemoteRecord
  <2>2. [remote[u] EXCEPT !.st = "retrying", !.fails = @ + 1] \in RemoteRecord
    BY <2>1, <2>5 DEF RemoteRecord, RemoteStates
  <2>3. remote' \in [UIDs -> RemoteRecord]
    BY <2>2 DEF RemoteRetry, TypeOK
  <2>4. errFile' \in [Hashes -> BOOLEAN]
    BY <2>1 DEF RemoteRetry, TypeOK, RemoteRecord
  <2>. QED BY <2>3, <2>4 DEF RemoteRetry, TypeOK
<1>7. CASE \E u \in UIDs : RemoteDelete(u)
  <2>. PICK u \in UIDs : RemoteDelete(u)
    BY <1>7
  <2>1. remote[u] \in RemoteRecord
    BY DEF TypeOK
  <2>2. [remote[u] EXCEPT !.gone = TRUE] \in RemoteRecord
    BY <2>1 DEF RemoteRecord
  <2>3. remote' \in [UIDs -> RemoteRecord]
    BY <2>2 DEF RemoteDelete, TypeOK
  <2>. QED BY <2>3 DEF RemoteDelete, TypeOK
<1>8. CASE UNCHANGED vars
  BY <1>8 DEF vars, TypeOK
<1>. QED BY <1>1, <1>2, <1>3, <1>4, <1>5, <1>6, <1>7, <1>8, <1>9 DEF Next

(* The executor's state always has the shape TypeOK describes.             *)
THEOREM TypeCorrect == Spec => []TypeOK
BY InitTypeOK, NextTypeOK, PTL DEF Spec

-----------------------------------------------------------------------------
(* No job is reported twice.  InFlightOnce is inductive together with      *)
(* TypeOK; the lemmas below are the four ways a step can move a job:       *)
(* not at all, out of the arrayer buffers, into pending_k8s_jobs, and out  *)
(* of pending_k8s_jobs by the pop that precedes a report.                  *)

(* A step that leaves jobs, buffers, registry and reports alone.           *)
LEMMA InFlightUnchanged ==
    ASSUME InFlightOnce,
           UNCHANGED <<jobSt, arrBuf, arrFlush, pending, reported>>
    PROVE  InFlightOnce'
BY DEF InFlightOnce, NoDoubleReport

(* A step that only takes jobs out of the arrayer's buffers (a flush that  *)
(* moves a task group into the flush set, or a crash that drops it).       *)
LEMMA InFlightShrink ==
    ASSUME TypeOK, InFlightOnce,
           arrBuf' \cup arrFlush' \subseteq arrBuf \cup arrFlush,
           arrBuf' \cap arrFlush' = {},
           UNCHANGED <<jobSt, pending, reported>>
    PROVE  InFlightOnce'
BY DEF InFlightOnce, NoDoubleReport, TypeOK

(* A step that puts an unreported job j, found nowhere in the registry,    *)
(* under the key u of pending_k8s_jobs, and takes it out of the buffers.   *)
LEMMA InFlightRegister ==
    ASSUME TypeOK, InFlightOnce, NEW j \in Jobs, NEW u \in UIDs,
           reported[j] = 0,
           \A v \in UIDs : pending[v] # j,
           pending' = [pending EXCEPT ![u] = j],
           arrBuf' \cup arrFlush' \subseteq (arrBuf \cup arrFlush) \ {j},
           arrBuf' \cap arrFlush' = {},
           jobSt'[j] # "new",
           \A k \in Jobs \ {j} : jobSt'[k] = jobSt[k],
           UNCHANGED reported
    PROVE  InFlightOnce'
<1>1. \A k \in Jobs : jobSt'[k] = "new" =>
          /\ k \notin arrBuf' \cup arrFlush'
          /\ \A v \in UIDs : pending'[v] # k
          /\ reported'[k] = 0
  BY DEF InFlightOnce, TypeOK
<1>2. \A k \in arrBuf' \cup arrFlush' :
          reported'[k] = 0 /\ \A v \in UIDs : pending'[v] # k
  BY DEF InFlightOnce, TypeOK
<1>3. \A v, w \in UIDs : pending'[v] # NoJob /\ pending'[v] = pending'[w] => v = w
  BY DEF InFlightOnce, TypeOK
<1>4. \A v \in UIDs : pending'[v] # NoJob => reported'[pending'[v]] = 0
  BY DEF InFlightOnce, TypeOK
<1>. QED BY <1>1, <1>2, <1>3, <1>4 DEF InFlightOnce, NoDoubleReport

(* The pop of key u of pending_k8s_jobs, followed by one report of the     *)
(* job it held, or by none (the monitor failed after the pop).             *)
LEMMA InFlightPop ==
    ASSUME TypeOK, InFlightOnce, NEW u \in UIDs,
           pending[u] # NoJob,
           pending' = [pending EXCEPT ![u] = NoJob],
           \/ reported' = [reported EXCEPT ![pending[u]] = @ + 1]
           \/ reported' = reported,
           UNCHANGED <<jobSt, arrBuf, arrFlush>>
    PROVE  InFlightOnce'
<1>. DEFINE j == pending[u]
<1>1. j \in Jobs /\ reported[j] = 0 /\ jobSt[j] # "new"
  BY DEF InFlightOnce, TypeOK
<1>2. \A v \in UIDs \ {u} : pending[v] # j
  BY DEF InFlightOnce, TypeOK
<1>3. j \notin arrBuf \cup arrFlush
  BY DEF InFlightOnce, TypeOK
<1>4. \A k \in Jobs \ {j} : reported'[k] = reported[k]
  BY <1>1 DEF TypeOK
<1>5. reported'[j] <= 1 /\ reported' \in [Jobs -> Nat]
  BY <1>1 DEF TypeOK
<1>. QED BY <1>1, <1>2, <1>3, <1>4, <1>5 DEF InFlightOnce, NoDoubleReport, TypeOK

(* The scheduler hands a new job over: it becomes "submitted" or "raised" *)
(* and, at most, enters the arrayer buffer.                                *)
LEMMA InFlightHandOver ==
    ASSUME TypeOK, InFlightOnce, NEW j \in Jobs, NEW st,
           jobSt[j] = "new", st # "new",
           jobSt' = [jobSt EXCEPT ![j] = st],
           arrBuf' \subseteq arrBuf \cup {j},
           UNCHANGED <<arrFlush, pending, reported>>
    PROVE  InFlightOnce'
<1>1. j \notin arrFlush /\ reported[j] = 0 /\ \A v \in UIDs : pending[v] # j
  BY DEF InFlightOnce
<1>. QED BY <1>1 DEF InFlightOnce, NoDoubleReport, TypeOK

LEMMA SubmitRouteInFlight ==
    ASSUME TypeOK, InFlightOnce, NEW j \in Jobs, SubmitRoute(j)
    PROVE  InFlightOnce'
<1>. DEFINE pre == IF isRunning THEN preexisting ELSE Gathered
            h   == JobHash[j]
            u   == pre[h]
<1>1. pre \in [Hashes -> UIDs \cup {NoUID}] /\ h \in Hashes
  BY GatheredType DEF TypeOK
<1>2. jobSt[j] = "new" /\ UNCHANGED <<arrFlush, reported>>
  BY DEF SubmitRoute
<1>3. reported[j] = 0 /\ j \notin arrBuf \cup arrFlush /\ \A v \in UIDs : pending[v] # j
  BY <1>2 DEF InFlightOnce
<1>4. CASE j \notin NoCacheJobs /\ u # NoUID /\ Listed(u)
  <2>1. u \in UIDs
    BY <1>1, <1>4
  <2>2. pending' = [pending EXCEPT ![u] = j] /\ UNCHANGED arrBuf
        /\ jobSt' = [jobSt EXCEPT ![j] = "submitted"]
    BY <1>4 DEF SubmitRoute
  <2>3. arrBuf' \cup arrFlush' \subseteq (arrBuf \cup arrFlush) \ {j}
        /\ arrBuf' \cap arrFlush' = {}
    BY <1>2, <1>3, <2>2 DEF InFlightOnce
  <2>4. jobSt'[j] # "new" /\ \A k \in Jobs \ {j} : jobSt'[k] = jobSt[k]
    BY <2>2 DEF TypeOK
  <2>. QED BY <1>2, <1>3, <2>1, <2>2, <2>3, <2>4, InFlightRegister
<1>5. CASE j \notin NoCacheJobs /\ u # NoUID /\ ~Listed(u)
  <2>1. jobSt' = [jobSt EXCEPT ![j] = "raised"] /\ UNCHANGED <<arrBuf, pending>>
    BY <1>5 DEF SubmitRoute
  <2>. QED BY <1>2, <2>1, InFlightHandOver
<1>6. CASE ~(j \notin NoCacheJobs /\ u # NoUID)
  <2>1. jobSt' = [jobSt EXCEPT ![j] = "submitted"] /\ UNCHANGED pending
        /\ AddJob(j)
    BY <1>6 DEF SubmitRoute
  <2>2. arrBuf' \subseteq arrBuf \cup {j}
    BY <2>1 DEF AddJob
  <2>. QED BY <1>2, <2>1, <2>2, InFlightHandOver
<1>. QED BY <1>4, <1>5, <1>6

LEMMA ArrayerFlushInFlight ==
    ASSUME TypeOK, InFlightOnce, ArrayerFlush
    PROVE  InFlightOnce'
<1>. PICK task \in {JobTask[j] : j \in arrBuf} :
        LET group == {j \in arrBuf : JobTask[j] = task}
        IN  /\ arrBuf' = arrBuf \ group
            /\ IF Cardinality(group) < MinArraySize
               THEN arrFlush' = group /\ UNCHANGED arrAlive
               ELSE arrAlive' = FALSE /\ UNCHANGED arrFlush
  BY DEF ArrayerFlush
<1>. DEFINE group == {j \in arrBuf : JobTask[j] = task}
<1>1. arrFlush = {} /\ arrBuf' = arrBuf \ group
      /\ (arrFlush' = group \/ arrFlush' = arrFlush)
  BY DEF ArrayerFlush
<1>2. arrBuf' \cup arrFlush' \subseteq arrBuf \cup arrFlush /\ arrBuf' \cap arrFlush' = {}
  BY <1>1
<1>3. UNCHANGED <<jobSt, pending, reported>>
  BY DEF ArrayerFlush
<1>. QED BY <1>2, <1>3, InFlightShrink

LEMMA SubmitSingleJobInFlight ==
    ASSUME TypeOK, InFlightOnce, NEW j \in Jobs, SubmitSingleJob(j)
    PROVE  InFlightOnce'
<1>1. j \in arrFlush /\ UNCHANGED <<arrBuf, jobSt, reported>>
  BY DEF SubmitSingleJob
<1>2. CASE \/ JobTask[j] \in ScriptTasks
           \/ \E v \in UIDs : Listed(v) /\ remote[v].hash = JobHash[j]
  <2>1. arrFlush' = {} /\ UNCHANGED pending
    BY <1>2 DEF SubmitSingleJob, ArrayerCrash
  <2>. QED BY <1>1, <2>1, InFlightShrink
<1>3. CASE ~(\/ JobTask[j] \in ScriptTasks
             \/ \E v \in UIDs : Listed(v) /\ remote[v].hash = JobHash[j])
  <2>. PICK u \in UIDs : /\ pending' = [pending EXCEPT ![u] = j]
                         /\ arrFlush' = arrFlush \ {j}
    BY <1>3 DEF SubmitSingleJob
  <2>1. reported[j] = 0 /\ \A v \in UIDs : pending[v] # j /\ jobSt[j] # "new"
    BY <1>1 DEF InFlightOnce
  <2>2. arrBuf' \cup arrFlush' \subseteq (arrBuf \cup arrFlush) \ {j}
        /\ arrBuf' \cap arrFlush' = {}
    BY <1>1 DEF InFlightOnce
  <2>. QED BY <1>1, <2>1, <2>2, InFlightRegister
<1>. QED BY <1>2, <1>3

LEMMA MonitorProcessInFlight ==
    ASSUME TypeOK, InFlightOnce, NEW t \in MonitorThreads, NEW r \in batch[t],
           MonitorProcess(t, r)
    PROVE  InFlightOnce'
<1>1. UNCHANGED <<jobSt, arrBuf, arrFlush>>
  BY DEF MonitorProcess
<1>2. CASE JobStatus(r) = "SKIP" \/ pending[r.uid] = NoJob
  <2>. UNCHANGED <<pending, reported>>
    BY <1>2 DEF MonitorProcess
  <2>. QED BY <1>1, InFlightUnchanged
<1>3. CASE JobStatus(r) # "SKIP" /\ pending[r.uid] # NoJob
  <2>1. r.uid \in UIDs
    BY DEF TypeOK, StatusRecord
  <2>2. pending' = [pending EXCEPT ![r.uid] = NoJob]
    BY <1>3 DEF MonitorProcess
  <2>3. \/ reported' = [reported EXCEPT ![pending[r.uid]] = @ + 1]
        \/ reported' = reported
    BY <1>3 DEF MonitorProcess, Report
  <2>. QED BY <1>1, <1>3, <2>1, <2>2, <2>3, InFlightPop
<1>. QED BY <1>2, <1>3

LEMMA NextInFlight ==
    TypeOK /\ InFlightOnce /\ [Next]_vars => InFlightOnce'
<1>. SUFFICES ASSUME TypeOK, InFlightOnce, [Next]_vars PROVE InFlightOnce'
  OBVIOUS
<1>1. CASE \E j \in Jobs : SubmitRoute(j)
  BY <1>1, SubmitRouteInFlight
<1>2. CASE ArrayerFlush
  BY <1>2, ArrayerFlushInFlight
<1>3. CASE \E j \in Jobs : SubmitSingleJob(j)
  BY <1>3, SubmitSingleJobInFlight
<1>4. CASE \E t \in MonitorThreads : \E r \in batch[t] : MonitorProcess(t, r)
  BY <1>4, MonitorProcessInFlight
<1>5. CASE \/ SubmitStart \/ StopBegin \/ StopEnd \/ ArrayerExit
           \/ \E t \in MonitorThreads :
                 \/ MonitorLoop(t) \/ MonitorSleep(t)
                 \/ MonitorStopBegin(t) \/ MonitorStopEnd(t)
           \/ \E u \in UIDs :
                 \/ \E o \in Outcomes : RemoteFinish(u, o) \/ RemoteRetry(u, o)
                 \/ RemoteDelete(u)
           \/ UNCHANGED vars
  <2>. UNCHANGED <<jobSt, arrBuf, arrFlush, pending, reported>>
    BY <1>5 DEF SubmitStart, StopBegin, StopEnd, ArrayerExit, MonitorLoop,
                MonitorSleep, MonitorStopBegin, MonitorStopEnd, RemoteFinish,
                RemoteRetry, RemoteDelete, vars
  <2>. QED BY InFlightUnchanged
<1>. QED BY <1>1, <1>2, <1>3, <1>4, <1>5 DEF Next

(* The registry invariant InFlightOnce (checked by the run inflight): a   *)
(* job is in at most one of the arrayer buffer, a flush, or one key of     *)
(* pending_k8s_jobs, only after the scheduler handed it over, and is       *)
(* unreported while it is there.                                           *)
THEOREM InFlightOnceHolds == Spec => [](TypeOK /\ InFlightOnce)
<1>1. Init => TypeOK /\ InFlightOnce
  BY InitTypeOK DEF Init, InFlightOnce, NoDoubleReport
<1>2. TypeOK /\ InFlightOnce /\ [Next]_vars => TypeOK' /\ InFlightOnce'
  BY NextTypeOK, NextInFlight
<1>. QED BY <1>1, <1>2, PTL DEF Spec

(* No job is ever reported to the scheduler twice (NoDoubleReport, checked *)
(* by the run safety): _process_job_status pops a k8s Job from            *)
(* pending_k8s_jobs before done_job/reject_job, and a job enters the       *)
(* registry once, through _submit's reunification or _submit_single_job.  *)
THEOREM NoDoubleReportHolds == Spec => []NoDoubleReport
<1>1. TypeOK /\ InFlightOnce => NoDoubleReport
  BY DEF InFlightOnce
<1>. QED BY <1>1, InFlightOnceHolds, PTL
=============================================================================
