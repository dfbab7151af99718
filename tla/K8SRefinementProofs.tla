------------------------- MODULE K8SRefinementProofs -------------------------
(* The executor implements K8SJobsAbstract under the mapping HeldJobs,     *)
(* for every value of the constants.  Every step of the executor is shown *)
(* to be a step of the abstract specification or a stutter of it, using    *)
(* the invariant InFlightOnce proved in K8SExecutorProofs.                 *)
EXTENDS K8SExecutorProofs

USE ConstantsAssumption

-----------------------------------------------------------------------------
(* A step that moves no job in or out of the executor and changes nothing *)
(* the scheduler sees is an abstract stutter.                              *)
LEMMA HeldStutter ==
    ASSUME UNCHANGED <<jobSt, arrBuf, arrFlush, pending, reported, verdict, fatal>>
    PROVE  UNCHANGED Abs!avars
BY DEF Abs!avars, HeldJobs

(* A step that only releases held jobs, and may raise the fatal error, is  *)
(* an abstract drop.                                                       *)
LEMMA HeldDrop ==
    ASSUME HeldJobs' \subseteq HeldJobs,
           fatal' \in {fatal, TRUE},
           UNCHANGED <<jobSt, reported, verdict>>
    PROVE  Abs!ANext \/ UNCHANGED Abs!avars
<1>. DEFINE lost == HeldJobs \ HeldJobs'
<1>1. lost \in SUBSET HeldJobs /\ HeldJobs' = HeldJobs \ lost
  OBVIOUS
<1>2. Abs!ADrop(lost)
  BY <1>1 DEF Abs!ADrop
<1>. QED BY <1>1, <1>2 DEF Abs!ANext

-----------------------------------------------------------------------------
LEMMA SubmitRouteRefines ==
    ASSUME TypeOK, InFlightOnce, NEW j \in Jobs, SubmitRoute(j)
    PROVE  Abs!ANext
<1>. DEFINE pre == IF isRunning THEN preexisting ELSE Gathered
            h   == JobHash[j]
            u   == pre[h]
<1>1. pre \in [Hashes -> UIDs \cup {NoUID}] /\ h \in Hashes
  BY GatheredType DEF TypeOK
<1>2. jobSt[j] = "new" /\ UNCHANGED <<arrFlush, reported, verdict, fatal>>
  BY DEF SubmitRoute
<1>3. j \notin HeldJobs
  BY <1>2 DEF InFlightOnce, HeldJobs
<1>4. CASE j \notin NoCacheJobs /\ u # NoUID /\ Listed(u)
  <2>1. u \in UIDs
    BY <1>1, <1>4
  <2>2. pending' = [pending EXCEPT ![u] = j] /\ UNCHANGED arrBuf
        /\ jobSt' = [jobSt EXCEPT ![j] = "submitted"]
    BY <1>4 DEF SubmitRoute
  <2>. DEFINE lost == IF pending[u] = NoJob THEN {} ELSE {pending[u]}
  <2>3. lost \in SUBSET HeldJobs
    BY <2>1 DEF HeldJobs, TypeOK
  <2>4. HeldJobs' = (HeldJobs \ lost) \cup {j}
    <3>1. \A k \in lost : k \notin arrBuf \cup arrFlush
          /\ \A v \in UIDs \ {u} : pending[v] # k
      BY <2>1 DEF InFlightOnce, TypeOK
    <3>. QED BY <1>2, <2>1, <2>2, <3>1 DEF HeldJobs, TypeOK
  <2>. QED BY <1>2, <2>2, <2>3, <2>4 DEF Abs!ANext, Abs!ASubmit
<1>5. CASE j \notin NoCacheJobs /\ u # NoUID /\ ~Listed(u)
  <2>1. jobSt' = [jobSt EXCEPT ![j] = "raised"] /\ UNCHANGED <<arrBuf, pending>>
    BY <1>5 DEF SubmitRoute
  <2>2. HeldJobs' = HeldJobs
    BY <1>2, <2>1 DEF HeldJobs
  <2>. QED BY <1>2, <2>1, <2>2 DEF Abs!ANext, Abs!ARefuse
<1>6. CASE ~(j \notin NoCacheJobs /\ u # NoUID)
  <2>1. jobSt' = [jobSt EXCEPT ![j] = "submitted"] /\ UNCHANGED pending
        /\ AddJob(j)
    BY <1>6 DEF SubmitRoute
  <2>2. HeldJobs' = (HeldJobs \ {}) \cup {j}
    BY <1>2, <2>1 DEF AddJob, HeldJobs
  <2>. QED BY <1>2, <2>1, <2>2 DEF Abs!ANext, Abs!ASubmit
<1>. QED BY <1>4, <1>5, <1>6

LEMMA ArrayerRefines ==
    ASSUME TypeOK, ArrayerFlush \/ ArrayerExit \/ \E j \in Jobs : SubmitSingleJob(j)
    PROVE  Abs!ANext \/ UNCHANGED Abs!avars
<1>1. CASE ArrayerFlush
  <2>. PICK task \in {JobTask[j] : j \in arrBuf} :
          LET group == {j \in arrBuf : JobTask[j] = task}
          IN  /\ arrBuf' = arrBuf \ group
              /\ IF Cardinality(group) < MinArraySize
                 THEN arrFlush' = group /\ UNCHANGED arrAlive
                 ELSE arrAlive' = FALSE /\ UNCHANGED arrFlush
    BY <1>1 DEF ArrayerFlush
  <2>. DEFINE group == {j \in arrBuf : JobTask[j] = task}
  <2>1. arrBuf' = arrBuf \ group /\ (arrFlush' = group \/ arrFlush' = arrFlush)
    OBVIOUS
  <2>2. UNCHANGED <<jobSt, pending, reported, verdict, fatal>>
    BY <1>1 DEF ArrayerFlush
  <2>3. HeldJobs' \subseteq HeldJobs
    BY <2>1, <2>2 DEF HeldJobs
  <2>. QED BY <2>2, <2>3, HeldDrop
<1>2. CASE ArrayerExit
  BY <1>2, HeldStutter DEF ArrayerExit
<1>3. CASE \E j \in Jobs : SubmitSingleJob(j)
  <2>. PICK j \in Jobs : SubmitSingleJob(j)
    BY <1>3
  <2>1. j \in arrFlush /\ UNCHANGED <<arrBuf, jobSt, reported, verdict, fatal>>
    BY DEF SubmitSingleJob
  <2>2. CASE \/ JobTask[j] \in ScriptTasks
             \/ \E v \in UIDs : Listed(v) /\ remote[v].hash = JobHash[j]
    <3>1. arrFlush' = {} /\ UNCHANGED pending
      BY <2>2 DEF SubmitSingleJob, ArrayerCrash
    <3>2. HeldJobs' \subseteq HeldJobs
      BY <2>1, <3>1 DEF HeldJobs
    <3>. QED BY <2>1, <3>2, HeldDrop
  <2>3. CASE ~(\/ JobTask[j] \in ScriptTasks
               \/ \E v \in UIDs : Listed(v) /\ remote[v].hash = JobHash[j])
    <3>. PICK u \in UIDs : /\ pending' = [pending EXCEPT ![u] = j]
                           /\ arrFlush' = arrFlush \ {j}
      BY <2>3 DEF SubmitSingleJob
    <3>1. HeldJobs' \subseteq HeldJobs
      BY <2>1 DEF HeldJobs, TypeOK
    <3>. QED BY <2>1, <3>1, HeldDrop
  <2>. QED BY <2>2, <2>3
<1>. QED BY <1>1, <1>2, <1>3

LEMMA MonitorProcessRefines ==
    ASSUME TypeOK, InFlightOnce, NEW t \in MonitorThreads, NEW r \in batch[t],
           MonitorProcess(t, r)
    PROVE  Abs!ANext \/ UNCHANGED Abs!avars
<1>1. UNCHANGED <<jobSt, arrBuf, arrFlush>> /\ r.uid \in UIDs
  BY DEF MonitorProcess, TypeOK, StatusRecord
<1>2. CASE JobStatus(r) = "SKIP"
  <2>. UNCHANGED <<pending, reported, verdict, fatal>>
    BY <1>2 DEF MonitorProcess
  <2>. QED BY <1>1, HeldStutter
<1>3. CASE JobStatus(r) # "SKIP" /\ pending[r.uid] = NoJob
  <2>1. UNCHANGED <<pending, reported, verdict>> /\ fatal' = TRUE
    BY <1>3 DEF MonitorProcess, MonitorFails
  <2>2. HeldJobs' \subseteq HeldJobs
    BY <1>1, <2>1 DEF HeldJobs
  <2>. QED BY <1>1, <2>1, <2>2, HeldDrop
<1>4. CASE JobStatus(r) # "SKIP" /\ pending[r.uid] # NoJob
  <2>. DEFINE j == pending[r.uid]
              h == JobHash[j]
  <2>1. j \in Jobs /\ reported[j] = 0 /\ j \in HeldJobs
    BY <1>1, <1>4 DEF InFlightOnce, TypeOK, HeldJobs
  <2>2. pending' = [pending EXCEPT ![r.uid] = NoJob]
    BY <1>4 DEF MonitorProcess
  <2>3. HeldJobs' = HeldJobs \ {j}
    <3>1. j \notin arrBuf \cup arrFlush /\ \A v \in UIDs \ {r.uid} : pending[v] # j
      BY <1>1, <2>1 DEF InFlightOnce, TypeOK
    <3>. QED BY <1>1, <2>2, <3>1 DEF HeldJobs, TypeOK
  <2>4. CASE JobStatus(r) = "SUCCEEDED"
    <3>1. /\ reported' = [reported EXCEPT ![j] = @ + 1]
          /\ verdict' = [verdict EXCEPT ![j] = IF outFile[h] THEN "done" ELSE "rejected"]
          /\ UNCHANGED fatal
      BY <1>4, <2>4 DEF MonitorProcess, Report
    <3>2. reported' = [reported EXCEPT ![j] = 1]
      BY <2>1, <3>1 DEF TypeOK
    <3>3. Abs!AReport(j, IF outFile[h] THEN "done" ELSE "rejected")
      BY <1>1, <2>1, <2>3, <3>1, <3>2 DEF Abs!AReport
    <3>. QED BY <2>1, <3>3 DEF Abs!ANext
  <2>5. CASE JobStatus(r) # "SUCCEEDED" /\ RejectReached(r, h)
    <3>1. /\ reported' = [reported EXCEPT ![j] = @ + 1]
          /\ verdict' = [verdict EXCEPT ![j] = "rejected"]
          /\ UNCHANGED fatal
      BY <1>4, <2>5 DEF MonitorProcess, Report
    <3>2. reported' = [reported EXCEPT ![j] = 1]
      BY <2>1, <3>1 DEF TypeOK
    <3>3. Abs!AReport(j, "rejected")
      BY <1>1, <2>1, <2>3, <3>1, <3>2 DEF Abs!AReport
    <3>. QED BY <2>1, <3>3 DEF Abs!ANext
  <2>6. CASE JobStatus(r) # "SUCCEEDED" /\ ~RejectReached(r, h)
    <3>1. UNCHANGED <<reported, verdict>> /\ fatal' = TRUE
      BY <1>4, <2>6 DEF MonitorProcess, MonitorFails
    <3>. QED BY <1>1, <2>3, <3>1, HeldDrop
  <2>. QED BY <2>4, <2>5, <2>6
<1>. QED BY <1>2, <1>3, <1>4

LEMMA NextRefines ==
    TypeOK /\ InFlightOnce /\ [Next]_vars => [Abs!ANext]_Abs!avars
<1>. SUFFICES ASSUME TypeOK, InFlightOnce, [Next]_vars
              PROVE  Abs!ANext \/ UNCHANGED Abs!avars
  OBVIOUS
<1>1. CASE \E j \in Jobs : SubmitRoute(j)
  BY <1>1, SubmitRouteRefines
<1>2. CASE ArrayerFlush \/ ArrayerExit \/ \E j \in Jobs : SubmitSingleJob(j)
  BY <1>2, ArrayerRefines
<1>3. CASE \E t \in MonitorThreads : \E r \in batch[t] : MonitorProcess(t, r)
  BY <1>3, MonitorProcessRefines
<1>4. CASE \E t \in MonitorThreads : MonitorLoop(t) \/ MonitorSleep(t)
  <2>. UNCHANGED <<jobSt, arrBuf, arrFlush, pending, reported, verdict, fatal>>
    BY <1>4 DEF MonitorLoop, MonitorSleep
  <2>. QED BY HeldStutter
<1>5. CASE \E t \in MonitorThreads : MonitorStopBegin(t) \/ MonitorStopEnd(t)
  <2>. UNCHANGED <<jobSt, arrBuf, arrFlush, pending, reported, verdict, fatal>>
    BY <1>5 DEF MonitorStopBegin, MonitorStopEnd
  <2>. QED BY HeldStutter
<1>6. CASE SubmitStart \/ StopBegin \/ StopEnd
  <2>. UNCHANGED <<jobSt, arrBuf, arrFlush, pending, reported, verdict, fatal>>
    BY <1>6 DEF SubmitStart, StopBegin, StopEnd
  <2>. QED BY HeldStutter
<1>7. CASE \E u \in UIDs :
              \/ \E o \in Outcomes : RemoteFinish(u, o) \/ RemoteRetry(u, o)
              \/ RemoteDelete(u)
  <2>. UNCHANGED <<jobSt, arrBuf, arrFlush, pending, reported, verdict, fatal>>
    BY <1>7 DEF RemoteFinish, RemoteRetry, RemoteDelete
  <2>. QED BY HeldStutter
<1>8. CASE UNCHANGED vars
  <2>. UNCHANGED <<jobSt, arrBuf, arrFlush, pending, reported, verdict, fatal>>
    BY <1>8 DEF vars
  <2>. QED BY HeldStutter
<1>. QED BY <1>1, <1>2, <1>3, <1>4, <1>5, <1>6, <1>7, <1>8 DEF Next

(* The executor implements K8SJobsAbstract (AbstractSpec, checked by the   *)
(* run refinement): whatever the interleaving of the scheduler, the        *)
(* arrayer, the monitor threads and the cluster, every report is of a job  *)
(* the executor holds, at most once, and jobs only enter through submit(). *)
THEOREM Refinement == Spec => AbstractSpec
<1>1. Init => Abs!AInit
  BY DEF Init, Abs!AInit, HeldJobs
<1>2. TypeOK /\ InFlightOnce /\ [Next]_vars => [Abs!ANext]_Abs!avars
  BY NextRefines
<1>. QED BY <1>1, <1>2, InFlightOnceHolds, PTL DEF Spec, AbstractSpec, Abs!ASpec
=============================================================================
