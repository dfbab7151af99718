------------------------- MODULE K8SFaithfulProofs -------------------------
(* The executor's reports agree with the cluster and the scratch files    *)
(* (ReportFaithful), proved for every value of the constants, any pod     *)
(* retry limit included.  A Job still retrying a failed pod is read as     *)
(* FAILED (status.failed > 0), but is never reported: without an error     *)
(* file parse_task_error raises, with one job.status.conditions[-1]        *)
(* raises TypeError.  The run pod_retry shows the job lost that way.       *)
EXTENDS K8SExecutorProofs

USE ConstantsAssumption

(* Why a report is faithful.  A k8s Job of a uid keeps its hash once it   *)
(* exists and a terminal status once it has one; the scratch output file  *)
(* is only ever written.  So it suffices that, when _process_job_status   *)
(* pops a uid, the Job of that uid carries the eval hash of the popped    *)
(* job, and that a terminal status in a describe answer is still the      *)
(* Job's status.  The first holds because pending_k8s_jobs and            *)
(* preexisting_k8s_jobs only ever map to Jobs created for, or listed      *)
(* under, that hash; the second because terminal statuses never change.   *)

\* preexisting_k8s_jobs maps a hash to a Job listed under that hash.
PreexistingFaithful ==
    \A h \in Hashes :
       preexisting[h] # NoUID =>
          /\ remote[preexisting[h]].st # "unused"
          /\ remote[preexisting[h]].hash = h

\* pending_k8s_jobs maps a uid to a job whose eval hash names that Job.
PendingFaithful ==
    \A u \in UIDs :
       pending[u] # NoJob =>
          /\ remote[u].st # "unused"
          /\ remote[u].hash = JobHash[pending[u]]

\* A terminal status in a describe answer is still the Job's status.
BatchFaithful ==
    \A t \in MonitorThreads : \A r \in batch[t] :
       r.st \in Terminal => remote[r.uid].st = r.st

FaithfulInv ==
    /\ TypeOK
    /\ PreexistingFaithful
    /\ PendingFaithful
    /\ BatchFaithful
    /\ ReportFaithful

-----------------------------------------------------------------------------
(* What no step undoes: a created k8s Job keeps its hash and never becomes *)
(* unused again, a terminal status is final, and a scratch output file is  *)
(* never removed.                                                          *)
RemoteKept ==
    \A u \in UIDs :
       /\ remote[u].st # "unused" =>
             remote'[u].st # "unused" /\ remote'[u].hash = remote[u].hash
       /\ remote[u].st \in Terminal => remote'[u].st = remote[u].st

FilesKept == \A h \in Hashes : outFile[h] => outFile'[h]

LEMMA NextKeeps ==
    ASSUME TypeOK, [Next]_vars PROVE RemoteKept /\ FilesKept
<1>1. CASE UNCHANGED <<remote, outFile>>
  BY <1>1 DEF RemoteKept, FilesKept
<1>2. CASE \E j \in Jobs : SubmitSingleJob(j)
  <2>. PICK j \in Jobs : SubmitSingleJob(j)
    BY <1>2
  <2>1. CASE \/ JobTask[j] \in ScriptTasks
             \/ \E v \in UIDs : Listed(v) /\ remote[v].hash = JobHash[j]
    BY <2>1, <1>1 DEF SubmitSingleJob, ArrayerCrash
  <2>2. CASE ~(\/ JobTask[j] \in ScriptTasks
               \/ \E v \in UIDs : Listed(v) /\ remote[v].hash = JobHash[j])
    <3>. PICK u \in UIDs :
            /\ remote[u].st = "unused"
            /\ remote' = [remote EXCEPT ![u] =
                            [hash |-> JobHash[j], st |-> "active", gone |-> FALSE,
                             fails |-> 0]]
      BY <2>2 DEF SubmitSingleJob
    <3>1. UNCHANGED outFile
      BY DEF SubmitSingleJob
    <3>. QED BY <3>1 DEF RemoteKept, FilesKept, TypeOK, Terminal
  <2>. QED BY <2>1, <2>2
<1>3. CASE \E u \in UIDs, o \in Outcomes : RemoteFinish(u, o)
  <2>. PICK u \in UIDs, o \in Outcomes : RemoteFinish(u, o)
    BY <1>3
  <2>1. remote' = [remote EXCEPT ![u].st =
                     IF o \in {"ok", "noOutput"} THEN "succeeded" ELSE "failed"]
        /\ remote[u].st \in Running
    BY DEF RemoteFinish
  <2>2. RemoteKept
    BY <2>1 DEF RemoteKept, TypeOK, Running, Terminal
  <2>3. FilesKept
    BY DEF RemoteFinish, FilesKept, TypeOK
  <2>. QED BY <2>2, <2>3
<1>4. CASE \E u \in UIDs, o \in Outcomes : RemoteRetry(u, o)
  <2>. PICK u \in UIDs, o \in Outcomes : RemoteRetry(u, o)
    BY <1>4
  <2>1. remote' = [remote EXCEPT ![u].st = "retrying", ![u].fails = @ + 1]
        /\ remote[u].st \in Running /\ UNCHANGED outFile
    BY DEF RemoteRetry
  \* A retry starts from a running Job: no terminal status is touched.
  <2>. QED BY <2>1 DEF RemoteKept, FilesKept, TypeOK, Running, Terminal
<1>5. CASE \E u \in UIDs : RemoteDelete(u)
  <2>. PICK u \in UIDs : RemoteDelete(u)
    BY <1>5
  <2>1. remote' = [remote EXCEPT ![u].gone = TRUE] /\ UNCHANGED outFile
    BY DEF RemoteDelete
  <2>. QED BY <2>1 DEF RemoteKept, FilesKept, TypeOK
<1>6. CASE \/ \E j \in Jobs : SubmitRoute(j)
           \/ SubmitStart \/ StopBegin \/ StopEnd \/ ArrayerFlush \/ ArrayerExit
           \/ \E t \in MonitorThreads :
                 \/ MonitorLoop(t) \/ MonitorSleep(t)
                 \/ MonitorStopBegin(t) \/ MonitorStopEnd(t)
                 \/ \E r \in batch[t] : MonitorProcess(t, r)
  <2>. UNCHANGED <<remote, outFile>>
    BY <1>6 DEF SubmitRoute, SubmitStart, StopBegin, StopEnd, ArrayerFlush,
                ArrayerExit, MonitorLoop, MonitorSleep, MonitorStopBegin,
                MonitorStopEnd, MonitorProcess
  <2>. QED BY <1>1
<1>. QED BY <1>1, <1>2, <1>3, <1>4, <1>5, <1>6 DEF Next, vars

-----------------------------------------------------------------------------
(* Each conjunct carries over a step that leaves its own variable alone.   *)
LEMMA KeepPreexisting ==
    ASSUME TypeOK, PreexistingFaithful, RemoteKept, UNCHANGED preexisting
    PROVE  PreexistingFaithful'
BY DEF PreexistingFaithful, RemoteKept, TypeOK

LEMMA KeepPending ==
    ASSUME TypeOK, PendingFaithful, RemoteKept, UNCHANGED pending
    PROVE  PendingFaithful'
BY DEF PendingFaithful, RemoteKept, TypeOK

LEMMA KeepBatch ==
    ASSUME TypeOK, BatchFaithful, RemoteKept, UNCHANGED batch
    PROVE  BatchFaithful'
BY DEF BatchFaithful, RemoteKept, TypeOK, StatusRecord

LEMMA KeepReport ==
    ASSUME ReportFaithful, RemoteKept, FilesKept, UNCHANGED verdict
    PROVE  ReportFaithful'
<1>. SUFFICES ASSUME NEW j \in Jobs
              PROVE  /\ verdict'[j] = "done" =>
                           /\ outFile'[JobHash[j]]
                           /\ \E u \in UIDs : remote'[u].hash = JobHash[j]
                                              /\ remote'[u].st = "succeeded"
                     /\ verdict'[j] = "rejected" =>
                           \E u \in UIDs : remote'[u].hash = JobHash[j]
                                           /\ remote'[u].st \in Terminal
  BY DEF ReportFaithful
<1>1. JobHash[j] \in Hashes
  OBVIOUS
<1>2. ASSUME NEW u \in UIDs, remote[u].st \in Terminal
      PROVE  remote'[u].hash = remote[u].hash /\ remote'[u].st = remote[u].st
  BY <1>2 DEF RemoteKept, Terminal
<1>. QED BY <1>1, <1>2 DEF ReportFaithful, FilesKept, Terminal
-----------------------------------------------------------------------------
(* gather_inflight_jobs files each hash under a Job listed with that name, *)
(* or keeps the old entry.                                                 *)
LEMMA GatheredFaithful ==
    ASSUME TypeOK, PreexistingFaithful, NEW h \in Hashes, Gathered[h] # NoUID
    PROVE  remote[Gathered[h]].st # "unused" /\ remote[Gathered[h]].hash = h
<1>1. CASE \E u \in UIDs : Listed(u) /\ remote[u].hash = h
  <2>1. Listed(Gathered[h]) /\ remote[Gathered[h]].hash = h
    BY <1>1, Zenon DEF Gathered
  <2>. QED BY <2>1 DEF Listed
<1>2. CASE ~\E u \in UIDs : Listed(u) /\ remote[u].hash = h
  BY <1>2 DEF Gathered, PreexistingFaithful
<1>. QED BY <1>1, <1>2

(* _submit: the entry it claims names a Job of the job's own hash, so the *)
(* uid it registers does too.                                              *)
LEMMA SubmitRouteFaithful ==
    ASSUME TypeOK, PreexistingFaithful, PendingFaithful,
           NEW j \in Jobs, SubmitRoute(j)
    PROVE  PreexistingFaithful' /\ PendingFaithful'
<1>. DEFINE pre == IF isRunning THEN preexisting ELSE Gathered
            h   == JobHash[j]
            u   == pre[h]
<1>1. UNCHANGED remote
  BY DEF SubmitRoute
<1>2. pre \in [Hashes -> UIDs \cup {NoUID}]
  BY GatheredType DEF TypeOK
<1>3. \A g \in Hashes : pre[g] # NoUID =>
         remote[pre[g]].st # "unused" /\ remote[pre[g]].hash = g
  BY GatheredFaithful DEF PreexistingFaithful
<1>4. CASE j \notin NoCacheJobs /\ u # NoUID
  <2>1. preexisting' = [pre EXCEPT ![h] = NoUID]
        /\ (pending' = pending \/ pending' = [pending EXCEPT ![u] = j])
    BY <1>4 DEF SubmitRoute
  <2>2. u \in UIDs /\ remote[u].st # "unused" /\ remote[u].hash = h
    BY <1>2, <1>3, <1>4
  <2>3. PreexistingFaithful'
    BY <1>1, <1>2, <1>3, <2>1 DEF PreexistingFaithful
  <2>4. PendingFaithful'
    BY <1>1, <2>1, <2>2 DEF PendingFaithful, TypeOK
  <2>. QED BY <2>3, <2>4
<1>5. CASE ~(j \notin NoCacheJobs /\ u # NoUID)
  <2>1. preexisting' = pre /\ UNCHANGED pending
    BY <1>5 DEF SubmitRoute
  <2>. QED BY <1>1, <1>3, <2>1 DEF PreexistingFaithful, PendingFaithful
<1>. QED BY <1>4, <1>5

(* _submit_single_job registers a fresh Job created under the job's hash. *)
LEMMA SubmitSingleJobFaithful ==
    ASSUME TypeOK, PendingFaithful, NEW j \in Jobs, SubmitSingleJob(j)
    PROVE  PendingFaithful'
<1>1. CASE \/ JobTask[j] \in ScriptTasks
           \/ \E v \in UIDs : Listed(v) /\ remote[v].hash = JobHash[j]
  BY <1>1 DEF SubmitSingleJob, ArrayerCrash, PendingFaithful
<1>2. CASE ~(\/ JobTask[j] \in ScriptTasks
             \/ \E v \in UIDs : Listed(v) /\ remote[v].hash = JobHash[j])
  <2>. PICK u \in UIDs :
          /\ remote' = [remote EXCEPT ![u] =
                          [hash |-> JobHash[j], st |-> "active", gone |-> FALSE,
                           fails |-> 0]]
          /\ pending' = [pending EXCEPT ![u] = j]
    BY <1>2 DEF SubmitSingleJob
  <2>. QED BY DEF PendingFaithful, TypeOK
<1>. QED BY <1>1, <1>2

(* k8s_describe_jobs answers with the Jobs' current statuses.              *)
LEMMA MonitorLoopFaithful ==
    ASSUME TypeOK, BatchFaithful, NEW t \in MonitorThreads, MonitorLoop(t)
    PROVE  BatchFaithful'
<1>1. UNCHANGED remote
  BY DEF MonitorLoop
<1>2. \/ batch' = [batch EXCEPT ![t] =
                    {[uid |-> u, st |-> remote[u].st] :
                        u \in {v \in Registered : Listed(v)}}]
      \/ UNCHANGED batch
  BY DEF MonitorLoop
<1>. SUFFICES ASSUME NEW s \in MonitorThreads, NEW r \in batch'[s]
              PROVE  r.st \in Terminal => remote'[r.uid].st = r.st
  BY DEF BatchFaithful
<1>3. CASE s = t /\ batch' # batch
  <2>1. PICK u \in UIDs : r = [uid |-> u, st |-> remote[u].st]
    BY <1>2, <1>3 DEF TypeOK, Registered
  <2>. QED BY <1>1, <2>1
<1>4. CASE ~(s = t /\ batch' # batch)
  <2>1. r \in batch[s]
    BY <1>2, <1>4 DEF TypeOK
  <2>. QED BY <1>1, <2>1 DEF BatchFaithful
<1>. QED BY <1>3, <1>4
(* _process_job_status: a report is made only for a terminal status in    *)
(* the describe answer, of the Job named after the popped job's hash: a   *)
(* done_job needs SUCCEEDED and the output file, a reject_job SUCCEEDED    *)
(* or FAILED, and a FAILED reject_job is reached only for a failed Job     *)
(* (RejectReached: a retrying one raises first).                          *)
LEMMA MonitorProcessFaithful ==
    ASSUME TypeOK, PendingFaithful, BatchFaithful, ReportFaithful,
           NEW t \in MonitorThreads, NEW r \in batch[t], MonitorProcess(t, r)
    PROVE  PendingFaithful' /\ BatchFaithful' /\ ReportFaithful'
<1>1. UNCHANGED <<remote, outFile>>
  BY DEF MonitorProcess
<1>2. r.uid \in UIDs /\ r.st \in RemoteStates
  BY DEF TypeOK, StatusRecord
<1>3. PendingFaithful'
  <2>1. pending' = pending \/ pending' = [pending EXCEPT ![r.uid] = NoJob]
    BY DEF MonitorProcess
  <2>. QED BY <1>1, <2>1 DEF PendingFaithful, TypeOK
<1>4. BatchFaithful'
  <2>1. \/ batch' = batch
        \/ batch' = [batch EXCEPT ![t] = @ \ {r}]
        \/ batch' = [batch EXCEPT ![t] = {}]
    BY DEF MonitorProcess, MonitorFails
  <2>. QED BY <1>1, <2>1 DEF BatchFaithful, TypeOK
<1>5. ReportFaithful'
  <2>. DEFINE j == pending[r.uid]
              h == JobHash[j]
  <2>1. CASE JobStatus(r) = "SKIP" \/ pending[r.uid] = NoJob
    <3>1. UNCHANGED verdict
      BY <2>1 DEF MonitorProcess
    <3>. QED BY <1>1, <3>1 DEF ReportFaithful
  <2>2. CASE JobStatus(r) # "SKIP" /\ pending[r.uid] # NoJob
    <3>1. j \in Jobs /\ remote[r.uid].st # "unused" /\ remote[r.uid].hash = h
      BY <1>2, <2>2 DEF PendingFaithful, TypeOK
    <3>2. \/ verdict' = verdict
          \/ JobStatus(r) = "SUCCEEDED"
             /\ verdict' = [verdict EXCEPT ![j] = IF outFile[h] THEN "done" ELSE "rejected"]
          \/ JobStatus(r) = "FAILED" /\ r.st = "failed"
             /\ verdict' = [verdict EXCEPT ![j] = "rejected"]
      BY <2>2 DEF MonitorProcess, Report, MonitorFails, JobStatus, RejectReached
    <3>3. JobStatus(r) = "SUCCEEDED" => remote[r.uid].st = "succeeded"
      BY DEF JobStatus, CanOverrideFailed, BatchFaithful, Terminal
    <3>4. r.st = "failed" => remote[r.uid].st = "failed"
      BY DEF BatchFaithful, Terminal
    <3>. QED BY <1>1, <1>2, <3>1, <3>2, <3>3, <3>4 DEF ReportFaithful, Terminal, TypeOK
  <2>. QED BY <2>1, <2>2
<1>. QED BY <1>3, <1>4, <1>5
-----------------------------------------------------------------------------
LEMMA FaithfulInit ==
    ASSUME Init PROVE FaithfulInv
<1>1. TypeOK
  BY InitTypeOK
<1>3. PreexistingFaithful /\ PendingFaithful /\ BatchFaithful /\ ReportFaithful
  BY DEF Init, PreexistingFaithful, PendingFaithful, BatchFaithful, ReportFaithful
<1>. QED BY <1>1, <1>3 DEF FaithfulInv

LEMMA FaithfulStep ==
    ASSUME FaithfulInv, [Next]_vars PROVE FaithfulInv'
<1>1. TypeOK /\ TypeOK'
  BY NextTypeOK DEF FaithfulInv
<1>2. RemoteKept /\ FilesKept
  BY <1>1, NextKeeps
<1>. USE <1>1, <1>2 DEF FaithfulInv
<1>3. CASE \E j \in Jobs : SubmitRoute(j)
  <2>. PICK j \in Jobs : SubmitRoute(j)
    BY <1>3
  <2>. UNCHANGED <<batch, verdict>>
    BY DEF SubmitRoute
  <2>. QED BY SubmitRouteFaithful, KeepBatch, KeepReport
<1>4. CASE \E j \in Jobs : SubmitSingleJob(j)
  <2>. PICK j \in Jobs : SubmitSingleJob(j)
    BY <1>4
  <2>. UNCHANGED <<preexisting, batch, verdict>>
    BY DEF SubmitSingleJob, ArrayerCrash
  <2>. QED BY SubmitSingleJobFaithful, KeepPreexisting, KeepBatch, KeepReport
<1>5. CASE \E t \in MonitorThreads : MonitorLoop(t)
  <2>. PICK t \in MonitorThreads : MonitorLoop(t)
    BY <1>5
  <2>. UNCHANGED <<preexisting, pending, verdict>>
    BY DEF MonitorLoop
  <2>. QED BY MonitorLoopFaithful, KeepPreexisting, KeepPending, KeepReport
<1>6. CASE \E t \in MonitorThreads : \E r \in batch[t] : MonitorProcess(t, r)
  <2>. PICK t \in MonitorThreads : \E r \in batch[t] : MonitorProcess(t, r)
    BY <1>6
  <2>. PICK r \in batch[t] : MonitorProcess(t, r)
    OBVIOUS
  <2>. UNCHANGED preexisting
    BY DEF MonitorProcess
  <2>. QED BY MonitorProcessFaithful, KeepPreexisting
<1>7. CASE \/ SubmitStart \/ StopBegin \/ StopEnd \/ ArrayerFlush \/ ArrayerExit
           \/ \E t \in MonitorThreads :
                 MonitorSleep(t) \/ MonitorStopBegin(t) \/ MonitorStopEnd(t)
           \/ \E u \in UIDs :
                 \/ \E o \in Outcomes : RemoteFinish(u, o) \/ RemoteRetry(u, o)
                 \/ RemoteDelete(u)
           \/ UNCHANGED vars
  <2>. UNCHANGED <<preexisting, pending, batch, verdict>>
    BY <1>7 DEF SubmitStart, StopBegin, StopEnd, ArrayerFlush, ArrayerExit,
                MonitorSleep, MonitorStopBegin, MonitorStopEnd, RemoteFinish,
                RemoteRetry, RemoteDelete, vars
  <2>. QED BY KeepPreexisting, KeepPending, KeepBatch, KeepReport
<1>. QED BY <1>3, <1>4, <1>5, <1>6, <1>7 DEF Next

(* spec 4.5 and 7, faithful reports (ReportFaithful, checked by the run   *)
(* safety, and with one pod retry by the run liveness): done_job is only   *)
(* called for a job whose k8s Job succeeded and whose output file exists, *)
(* and reject_job only for one whose k8s Job terminated, whatever the      *)
(* interleaving of the scheduler, the arrayer, the monitor threads and the *)
(* cluster, and whatever backoffLimit the cluster applies.                 *)
THEOREM ReportFaithfulHolds == Spec => []ReportFaithful
<1>1. Init => FaithfulInv
  BY FaithfulInit
<1>2. FaithfulInv /\ [Next]_vars => FaithfulInv'
  BY FaithfulStep
<1>3. FaithfulInv => ReportFaithful
  BY DEF FaithfulInv
<1>. QED BY <1>1, <1>2, <1>3, PTL DEF Spec
-----------------------------------------------------------------------------
(* A report step pops the uid of a terminated Job of the job's own hash.  *)
LEMMA ReportStep ==
    ASSUME FaithfulInv, [Next]_vars PROVE ReportPops
<1>. USE DEF FaithfulInv
<1>. SUFFICES ASSUME NEW j \in Jobs, reported'[j] # reported[j]
              PROVE  \E u \in UIDs : /\ pending[u] = j
                                     /\ pending'[u] = NoJob
                                     /\ remote[u].hash = JobHash[j]
                                     /\ remote[u].st \in Terminal
  BY DEF ReportPops
<1>1. CASE \E t \in MonitorThreads : \E r \in batch[t] : MonitorProcess(t, r)
  <2>. PICK t \in MonitorThreads : \E r \in batch[t] : MonitorProcess(t, r)
    BY <1>1
  <2>. PICK r \in batch[t] : MonitorProcess(t, r)
    OBVIOUS
  <2>1. r.uid \in UIDs /\ r.st \in RemoteStates
    BY DEF TypeOK, StatusRecord
  <2>2. /\ JobStatus(r) # "SKIP"
        /\ pending[r.uid] # NoJob
        /\ pending' = [pending EXCEPT ![r.uid] = NoJob]
        /\ reported' = [reported EXCEPT ![pending[r.uid]] = @ + 1]
    BY DEF MonitorProcess, Report, MonitorFails
  <2>3. pending[r.uid] = j
    BY <2>1, <2>2 DEF TypeOK
  <2>4. remote[r.uid].hash = JobHash[j] /\ remote[r.uid].st \in Terminal
    <3>1. r.st \in Terminal
      BY <2>1, <2>2 DEF MonitorProcess, Report, MonitorFails, JobStatus,
                        CanOverrideFailed, RejectReached, Terminal
    <3>. QED BY <2>1, <2>3, <3>1 DEF PendingFaithful, BatchFaithful
  <2>. QED BY <2>1, <2>2, <2>3, <2>4 DEF TypeOK
<1>2. CASE ~\E t \in MonitorThreads : \E r \in batch[t] : MonitorProcess(t, r)
  <2>. UNCHANGED reported
    BY <1>2 DEF Next, vars, SubmitRoute, SubmitStart, StopBegin, StopEnd,
                ArrayerFlush, SubmitSingleJob, ArrayerCrash, ArrayerExit,
                MonitorLoop, MonitorSleep, MonitorStopBegin, MonitorStopEnd,
                RemoteFinish, RemoteRetry, RemoteDelete
  <2>. QED OBVIOUS
<1>. QED BY <1>1, <1>2

(* spec 4.5, reports of terminated Jobs only (ReportOnTerminalJob, checked *)
(* by the run liveness, with one pod retry): for any pod retry limit,    *)
(* every done_job or reject_job of _process_job_status comes with the pop *)
(* of the uid of a k8s Job named after that job's eval hash, and that Job *)
(* has succeeded or failed; a Job still running is never reported on.      *)
THEOREM ReportOnTerminalJobHolds == Spec => ReportOnTerminalJob
<1>1. Init => FaithfulInv
  BY FaithfulInit
<1>2. FaithfulInv /\ [Next]_vars => FaithfulInv'
  BY FaithfulStep
<1>3. FaithfulInv /\ [Next]_vars => [ReportPops]_vars
  BY ReportStep
<1>. QED BY <1>1, <1>2, <1>3, PTL DEF Spec, ReportOnTerminalJob
=============================================================================
