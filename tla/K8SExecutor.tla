---------------------------- MODULE K8SExecutor ----------------------------
(***************************************************************************)
(* The K8S executor of redun (src/redun/executors/k8s.py), cluster mode    *)
(* (debug = False).  Four threads of control share the executor's state:   *)
(*                                                                         *)
(*   - the scheduler's thread, which calls submit()/_submit() and stop(); *)
(*   - the JobArrayer's flushing thread, which calls back into            *)
(*     _submit_single_job() / _submit_array_job();                        *)
(*   - one or more monitor threads running _monitor() (a new one is       *)
(*     started by _start() whenever is_running is False);                 *)
(*   - the Kubernetes cluster, whose Job objects run, finish and may be   *)
(*     deleted (TTL), and the S3 scratch space the remote task writes.    *)
(*                                                                         *)
(* Data is abstracted: a k8s Job name "<prefix>-<hash>" is represented by  *)
(* the hash it encodes (NoHash for names from which                        *)
(* get_hash_from_job_name extracts nothing of ours, e.g. array names),   *)
(* a uid is a model value, the scratch files of a job are the flags        *)
(* outFile/errFile at the job's eval hash (get_job_scratch_file keys them  *)
(* by the eval hash).                                                      *)
(***************************************************************************)
EXTENDS Naturals, FiniteSets

CONSTANTS
    Jobs,           \* logical redun jobs the scheduler may submit
    Hashes,         \* eval hashes
    JobHash,        \* job.eval_hash, a function Jobs -> Hashes
    JobTask,        \* job.task, a function Jobs -> task names
    ScriptTasks,    \* the tasks with task.script set
    NoCacheJobs,    \* jobs whose "cache" task option is False
    UIDs,           \* k8s Job uids (metadata.uid)
    PreUIDs,        \* uids of k8s Jobs already on the cluster at start
    MinArraySize,   \* JobArrayer min_array_size
    MonitorThreads, \* ids for the threads _start() may create
    Outcomes,       \* how a remote run may end: "ok", "noOutput", "raised", "killed"
    TTLDelete,      \* whether the cluster deletes finished k8s Jobs
    BackoffLimit,   \* pod retries of a k8s Job: k8s_submit sets none, so the
                    \* cluster's default (6) applies
    NoJob, NoUID, NoHash

ASSUME ConstantsAssumption ==
    /\ JobHash \in [Jobs -> Hashes]
    /\ NoCacheJobs \subseteq Jobs
    /\ PreUIDs \subseteq UIDs
    /\ MinArraySize \in Nat \ {0}
    /\ MonitorThreads # {}
    /\ Outcomes \subseteq {"ok", "noOutput", "raised", "killed"}
    /\ TTLDelete \in BOOLEAN
    /\ BackoffLimit \in Nat
    /\ NoJob \notin Jobs /\ NoUID \notin UIDs /\ NoHash \notin Hashes

VARIABLES
    isRunning,   \* self.is_running
    pending,     \* self.pending_k8s_jobs: uid -> job, NoJob when absent
    preexisting, \* self.preexisting_k8s_jobs: hash -> uid, NoUID when absent
    arrBuf,      \* JobArrayer.pending (jobs added, not yet flushed)
    arrFlush,    \* jobs a flush popped and is submitting one by one
    arrAlive,    \* the JobArrayer thread is alive
    arrExit,     \* the JobArrayer exit flag set by JobArrayer.stop()
    mon,         \* program counter of each monitor thread
    batch,       \* per monitor thread: statuses returned by k8s_describe_jobs
    sched,       \* the scheduler thread: "idle", "routed" (in _submit before
                 \* _start), "stopping" (in stop(), joining the arrayer)
    remote,      \* uid -> [hash, st, gone]: the k8s Job objects
    outFile,     \* hash -> the scratch output file exists
    errFile,     \* hash -> the scratch error file exists
    jobSt,       \* job -> "new", "submitted", "raised" (submit raised)
    reported,    \* job -> number of done_job/reject_job calls for it
    verdict,     \* job -> "none", "done", "rejected": the last report
    fatal,       \* reject_job(None, error) was called
    stopCalled,  \* the scheduler called stop()
    reunions     \* uid -> times _submit claimed it from preexisting

vars == <<isRunning, pending, preexisting, arrBuf, arrFlush, arrAlive, arrExit,
          mon, batch, sched, remote, outFile, errFile, jobSt, reported,
          verdict, fatal, stopCalled, reunions>>

MonStates == {"off", "loop", "poll", "stopping", "joining"}
\* "retrying": still active, with status.failed > 0 (a pod failed and the
\* Job controller started another one).
RemoteStates == {"unused", "active", "retrying", "succeeded", "failed"}
Running == {"active", "retrying"}
Terminal == {"succeeded", "failed"}
StatusRecord == [uid : UIDs, st : RemoteStates]
RemoteRecord == [hash : Hashes \cup {NoHash}, st : RemoteStates, gone : BOOLEAN,
                 fails : 0..BackoffLimit]

\* A k8s Job the API still knows (list/describe return it).
Listed(u) == remote[u].st # "unused" /\ ~remote[u].gone

\* The uids that are keys of pending_k8s_jobs.
Registered == {u \in UIDs : pending[u] # NoJob}

-----------------------------------------------------------------------------
(* gather_inflight_jobs: list every k8s Job (get_jobs ignores statuses);   *)
(* each non-array name with a hash overwrites preexisting[hash].  Names    *)
(* are unique among listed Jobs, so at most one uid carries a hash.        *)
GatheredAnyName ==  \* mutant: the "if job_hash" check dropped
    [h \in Hashes \cup {NoHash} |->
        IF \E u \in UIDs : Listed(u) /\ remote[u].hash = h
        THEN CHOOSE u \in UIDs : Listed(u) /\ remote[u].hash = h
        ELSE IF h \in Hashes THEN preexisting[h] ELSE NoUID]

Gathered ==
    [h \in Hashes |->
        IF \E u \in UIDs : Listed(u) /\ remote[u].hash = h
        THEN CHOOSE u \in UIDs : Listed(u) /\ remote[u].hash = h
        ELSE preexisting[h]]

(* JobArrayer.add_job: buffer the job and start() its thread if dead.      *)
AddJob(j) ==
    /\ arrBuf' = arrBuf \cup {j}
    /\ IF arrAlive THEN UNCHANGED <<arrAlive, arrExit>>
                   ELSE arrAlive' = TRUE /\ arrExit' = FALSE

SubmitRouteSwallowed(j) ==  \* mutant: the IndexError of a gone Job caught
    /\ sched = "idle"
    /\ jobSt[j] = "new"
    /\ LET pre == IF isRunning THEN preexisting ELSE Gathered
           h   == JobHash[j]
           u   == pre[h]
       IN  IF j \notin NoCacheJobs /\ u # NoUID
           THEN /\ preexisting' = [pre EXCEPT ![h] = NoUID]
                /\ reunions' = [reunions EXCEPT ![u] = @ + 1]
                /\ jobSt' = [jobSt EXCEPT ![j] = "submitted"]
                /\ sched' = "routed"
                /\ IF Listed(u) THEN pending' = [pending EXCEPT ![u] = j]
                                ELSE UNCHANGED pending
                /\ UNCHANGED <<arrBuf, arrAlive, arrExit>>
           ELSE /\ preexisting' = pre
                /\ AddJob(j)
                /\ jobSt' = [jobSt EXCEPT ![j] = "submitted"]
                /\ sched' = "routed"
                /\ UNCHANGED <<pending, reunions>>
    /\ UNCHANGED <<isRunning, arrFlush, mon, batch, remote, outFile, errFile,
                   reported, verdict, fatal, stopCalled>>

(* _submit, up to (not including) _start(): gather inflight jobs on the   *)
(* first submission (is_running False), then reunite with a preexisting   *)
(* k8s Job of the same eval hash if the cache option allows, else hand    *)
(* the job to the arrayer.  k8s_describe_jobs([uid])[0] raises IndexError *)
(* when the cached Job no longer exists: the exception leaves _submit.    *)
SubmitRoute(j) ==
    /\ sched = "idle"
    /\ jobSt[j] = "new"
    /\ LET pre == IF isRunning THEN preexisting ELSE Gathered
           h   == JobHash[j]
           u   == pre[h]
       IN  IF j \notin NoCacheJobs /\ u # NoUID
           THEN /\ preexisting' = [pre EXCEPT ![h] = NoUID]
                /\ reunions' = [reunions EXCEPT ![u] = @ + 1]
                /\ IF Listed(u)
                   THEN /\ pending' = [pending EXCEPT ![u] = j]
                        /\ jobSt' = [jobSt EXCEPT ![j] = "submitted"]
                        /\ sched' = "routed"
                   ELSE /\ jobSt' = [jobSt EXCEPT ![j] = "raised"]
                        /\ UNCHANGED <<pending, sched>>
                /\ UNCHANGED <<arrBuf, arrAlive, arrExit>>
           ELSE /\ preexisting' = pre
                /\ AddJob(j)
                /\ jobSt' = [jobSt EXCEPT ![j] = "submitted"]
                /\ sched' = "routed"
                /\ UNCHANGED <<pending, reunions>>
    /\ UNCHANGED <<isRunning, arrFlush, mon, batch, remote, outFile, errFile,
                   reported, verdict, fatal, stopCalled>>

(* _start(): start a monitor thread unless is_running.                     *)
SubmitStart ==
    /\ sched = "routed"
    /\ sched' = "idle"
    /\ IF isRunning
       THEN UNCHANGED <<isRunning, mon>>
       ELSE \E t \in MonitorThreads :
               /\ mon[t] = "off"
               /\ isRunning' = TRUE
               /\ mon' = [mon EXCEPT ![t] = "loop"]
    /\ UNCHANGED <<pending, preexisting, arrBuf, arrFlush, arrAlive, arrExit,
                   batch, remote, outFile, errFile, jobSt, reported, verdict,
                   fatal, stopCalled, reunions>>

(* Thread.join() on the arrayer thread that stop() flagged returns once   *)
(* that thread has ended: none is alive, or add_job has since started a   *)
(* new one (which clears the flag, and only starts when none is alive).   *)
ArrayerJoined == ~arrAlive \/ ~arrExit

(* stop() called by the scheduler: arrayer.stop() sets the exit flag and  *)
(* joins the arrayer thread, then is_running = False.                     *)
StopBegin ==
    /\ sched = "idle"
    /\ sched' = "stopping"
    /\ arrExit' = TRUE
    /\ UNCHANGED <<isRunning, pending, preexisting, arrBuf, arrFlush, arrAlive,
                   mon, batch, remote, outFile, errFile, jobSt, reported,
                   verdict, fatal, stopCalled, reunions>>

StopEnd ==
    /\ sched = "stopping"
    /\ ArrayerJoined
    /\ sched' = "idle"
    /\ isRunning' = FALSE
    /\ stopCalled' = TRUE
    /\ UNCHANGED <<pending, preexisting, arrBuf, arrFlush, arrAlive, arrExit,
                   mon, batch, remote, outFile, errFile, jobSt, reported,
                   verdict, fatal, reunions>>
-----------------------------------------------------------------------------
(* The JobArrayer thread (redun.job_array, outside this file): a flush     *)
(* pops all buffered jobs of one task description and decrements          *)
(* num_pending, then submits them: one by one with _submit_single_job     *)
(* below min_array_size, else as one _submit_array_job.                    *)
(* _submit_array_job raises before submitting anything: NotImplementedError *)
(* for a script task, otherwise AttributeError on self.aws_region.  An     *)
(* exception ends the arrayer thread.                                      *)
ArrayerFlush ==
    /\ arrAlive
    /\ arrFlush = {}
    /\ \E task \in {JobTask[j] : j \in arrBuf} :
         LET group == {j \in arrBuf : JobTask[j] = task}
         IN  /\ arrBuf' = arrBuf \ group
             /\ IF Cardinality(group) < MinArraySize
                THEN arrFlush' = group /\ UNCHANGED arrAlive
                ELSE arrAlive' = FALSE /\ UNCHANGED arrFlush
    /\ UNCHANGED <<isRunning, pending, preexisting, arrExit, mon, batch, sched,
                   remote, outFile, errFile, jobSt, reported, verdict, fatal,
                   stopCalled, reunions>>

(* _submit_single_job(job): submit_command for a script task raises        *)
(* NameError (get_batch_job_name); submit_task creates a k8s Job named     *)
(* "<prefix>-<eval_hash>", which the API refuses (409) while a Job of that *)
(* name exists; otherwise the new uid is added to pending_k8s_jobs.        *)
ArrayerCrash ==
    /\ arrAlive' = FALSE
    /\ arrFlush' = {}
    /\ UNCHANGED <<pending, remote>>

SubmitSingleJob(j) ==
    /\ j \in arrFlush
    /\ IF \/ JobTask[j] \in ScriptTasks
          \/ \E v \in UIDs : Listed(v) /\ remote[v].hash = JobHash[j]
       THEN ArrayerCrash
       ELSE \E u \in UIDs :
              /\ remote[u].st = "unused"
              /\ remote' = [remote EXCEPT ![u] =
                              [hash |-> JobHash[j], st |-> "active", gone |-> FALSE,
                               fails |-> 0]]
              /\ pending' = [pending EXCEPT ![u] = j]
              /\ arrFlush' = arrFlush \ {j}
              /\ UNCHANGED arrAlive
    /\ UNCHANGED <<isRunning, preexisting, arrBuf, arrExit, mon, batch, sched,
                   outFile, errFile, jobSt, reported, verdict, fatal,
                   stopCalled, reunions>>

(* The arrayer loop sees its exit flag between flushes and ends.           *)
ArrayerExit ==
    /\ arrAlive
    /\ arrExit
    /\ arrFlush = {}
    /\ arrAlive' = FALSE
    /\ UNCHANGED <<isRunning, pending, preexisting, arrBuf, arrFlush, arrExit,
                   mon, batch, sched, remote, outFile, errFile, jobSt,
                   reported, verdict, fatal, stopCalled, reunions>>

-----------------------------------------------------------------------------
(* _monitor, loop head: while is_running and (pending_k8s_jobs or          *)
(* arrayer.num_pending), describe all pending uids in one call; the answer *)
(* holds the k8s Jobs the API still knows, with their status at that time. *)
MonitorLoop(t) ==
    /\ mon[t] = "loop"
    /\ IF isRunning /\ (Registered # {} \/ arrBuf # {})
       THEN /\ batch' = [batch EXCEPT ![t] =
                           {[uid |-> u, st |-> remote[u].st] :
                               u \in {v \in Registered : Listed(v)}}]
            /\ mon' = [mon EXCEPT ![t] = "poll"]
       ELSE /\ mon' = [mon EXCEPT ![t] = "stopping"]
            /\ UNCHANGED batch
    /\ UNCHANGED <<isRunning, pending, preexisting, arrBuf, arrFlush, arrAlive,
                   arrExit, sched, remote, outFile, errFile, jobSt, reported,
                   verdict, fatal, stopCalled, reunions>>

(* An exception escapes the loop: reject_job(None, error), then stop().    *)
MonitorFails(t) ==
    /\ fatal' = TRUE
    /\ batch' = [batch EXCEPT ![t] = {}]
    /\ mon' = [mon EXCEPT ![t] = "stopping"]

(* reject_job / done_job for job j.                                        *)
Report(j, v) ==
    /\ reported' = [reported EXCEPT ![j] = @ + 1]
    /\ verdict' = [verdict EXCEPT ![j] = v]

(* _can_override_failed: the check for known infrastructure failures      *)
(* (DOCKER_INSPECT_ERROR) is commented out; it always answers False.       *)
CanOverrideFailedAlways(r) == TRUE  \* mutant: the override taken for every failure

CanOverrideFailed(r) == FALSE

(* _process_job_status, the status: succeeded > 0 is SUCCEEDED, failed > 0 *)
(* is FAILED unless overridden, anything else is skipped.  A Job whose pod *)
(* failed and is being retried already has failed > 0.                     *)
JobStatusSucceededOnly(r) ==  \* mutant: the failed > 0 branch forgotten
    IF r.st = "succeeded" THEN "SUCCEEDED" ELSE "SKIP"

JobStatus(r) ==
    CASE r.st = "succeeded"               -> "SUCCEEDED"
      [] r.st \in {"failed", "retrying"}  -> IF CanOverrideFailed(r) THEN "SUCCEEDED"
                                                                     ELSE "FAILED"
      [] OTHER                             -> "SKIP"

(* The FAILED branch reaches reject_job: parse_task_error finds the error  *)
(* file, job.status.conditions is a list (None while the Job still runs    *)
(* its pod retries: conditions[-1] raises TypeError, which the except of   *)
(* KeyError and IndexError lets through), and parse_task_logs finds the    *)
(* Job again.                                                              *)
RejectReachedAnyStatus(r, h) ==  \* mutant: TypeError caught with KeyError
    errFile[h] /\ ~remote[r.uid].gone

RejectReached(r, h) ==
    /\ errFile[h]
    /\ r.st = "failed"
    /\ ~remote[r.uid].gone

(* _process_job_status(r), the rest: the uid is popped (KeyError when      *)
(* absent); SUCCEEDED reports done_job if the output file exists, else     *)
(* reject_job(FileNotFoundError); FAILED parses the error file: without    *)
(* one parse_task_error raises (TypeError on job["attempts"], NameError on *)
(* K8SBatchError); with one, job.status.conditions[-1] raises TypeError   *)
(* while the Job still retries (conditions is None; only KeyError and      *)
(* IndexError are caught), parse_task_logs re-describes the uid, [0]       *)
(* raising IndexError once the Job is gone; else reject_job.               *)
MonitorProcessNoPop(t, r) ==  \* mutant: pending_k8s_jobs[uid] read, not popped
    /\ mon[t] = "poll"
    /\ r \in batch[t]
    /\ IF JobStatus(r) = "SKIP"
       THEN /\ batch' = [batch EXCEPT ![t] = @ \ {r}]
            /\ UNCHANGED <<pending, mon, reported, verdict, fatal>>
       ELSE IF pending[r.uid] = NoJob
       THEN /\ MonitorFails(t)
            /\ UNCHANGED <<pending, reported, verdict>>
       ELSE LET j == pending[r.uid]
                h == JobHash[j]
            IN  /\ UNCHANGED pending
                /\ IF JobStatus(r) = "SUCCEEDED"
                   THEN /\ Report(j, IF outFile[h] THEN "done" ELSE "rejected")
                        /\ batch' = [batch EXCEPT ![t] = @ \ {r}]
                        /\ UNCHANGED <<mon, fatal>>
                   ELSE IF RejectReached(r, h)
                   THEN /\ Report(j, "rejected")
                        /\ batch' = [batch EXCEPT ![t] = @ \ {r}]
                        /\ UNCHANGED <<mon, fatal>>
                   ELSE /\ MonitorFails(t)
                        /\ UNCHANGED <<reported, verdict>>
    /\ UNCHANGED <<isRunning, preexisting, arrBuf, arrFlush, arrAlive, arrExit,
                   sched, remote, outFile, errFile, jobSt, stopCalled, reunions>>

MonitorProcess(t, r) ==
    /\ mon[t] = "poll"
    /\ r \in batch[t]
    /\ IF JobStatus(r) = "SKIP"
       THEN /\ batch' = [batch EXCEPT ![t] = @ \ {r}]
            /\ UNCHANGED <<pending, mon, reported, verdict, fatal>>
       ELSE IF pending[r.uid] = NoJob
       THEN /\ MonitorFails(t)
            /\ UNCHANGED <<pending, reported, verdict>>
       ELSE LET j == pending[r.uid]
                h == JobHash[j]
            IN  /\ pending' = [pending EXCEPT ![r.uid] = NoJob]
                /\ IF JobStatus(r) = "SUCCEEDED"
                   THEN /\ Report(j, IF outFile[h] THEN "done" ELSE "rejected")
                        /\ batch' = [batch EXCEPT ![t] = @ \ {r}]
                        /\ UNCHANGED <<mon, fatal>>
                   ELSE IF RejectReached(r, h)
                   THEN /\ Report(j, "rejected")
                        /\ batch' = [batch EXCEPT ![t] = @ \ {r}]
                        /\ UNCHANGED <<mon, fatal>>
                   ELSE /\ MonitorFails(t)
                        /\ UNCHANGED <<reported, verdict>>
    /\ UNCHANGED <<isRunning, preexisting, arrBuf, arrFlush, arrAlive, arrExit,
                   sched, remote, outFile, errFile, jobSt, stopCalled, reunions>>

(* The describe answer is exhausted: time.sleep(interval), loop again.     *)
MonitorSleep(t) ==
    /\ mon[t] = "poll"
    /\ batch[t] = {}
    /\ mon' = [mon EXCEPT ![t] = "loop"]
    /\ UNCHANGED <<isRunning, pending, preexisting, arrBuf, arrFlush, arrAlive,
                   arrExit, batch, sched, remote, outFile, errFile, jobSt,
                   reported, verdict, fatal, stopCalled, reunions>>

(* The thread's final self.stop(): arrayer.stop() sets the exit flag and   *)
(* joins the arrayer thread; then is_running = False and the thread ends.  *)
MonitorStopBegin(t) ==
    /\ mon[t] = "stopping"
    /\ mon' = [mon EXCEPT ![t] = "joining"]
    /\ arrExit' = TRUE
    /\ UNCHANGED <<isRunning, pending, preexisting, arrBuf, arrFlush, arrAlive,
                   batch, sched, remote, outFile, errFile, jobSt, reported,
                   verdict, fatal, stopCalled, reunions>>

MonitorStopEnd(t) ==
    /\ mon[t] = "joining"
    /\ ArrayerJoined
    /\ mon' = [mon EXCEPT ![t] = "off"]
    /\ isRunning' = FALSE
    /\ UNCHANGED <<pending, preexisting, arrBuf, arrFlush, arrAlive, arrExit,
                   batch, sched, remote, outFile, errFile, jobSt, reported,
                   verdict, fatal, stopCalled, reunions>>

-----------------------------------------------------------------------------
(* The cluster: a running k8s Job ends.  "ok": the task wrote its output   *)
(* and the pod succeeded; "noOutput": succeeded without an output file;    *)
(* "raised": the task raised, the error file is written, the pod failed;   *)
(* "killed": the pod failed without writing anything (OOM, timeout).  A   *)
(* failed pod fails the Job only once BackoffLimit retries are used up.    *)
RemoteFinish(u, o) ==
    /\ remote[u].st \in Running
    /\ remote[u].hash \in Hashes
    /\ o \in {"raised", "killed"} => remote[u].fails = BackoffLimit
    /\ LET h == remote[u].hash IN
       /\ remote' = [remote EXCEPT ![u].st =
                       IF o \in {"ok", "noOutput"} THEN "succeeded" ELSE "failed"]
       /\ outFile' = IF o = "ok" THEN [outFile EXCEPT ![h] = TRUE] ELSE outFile
       /\ errFile' = IF o = "raised" THEN [errFile EXCEPT ![h] = TRUE] ELSE errFile
    /\ UNCHANGED <<isRunning, pending, preexisting, arrBuf, arrFlush, arrAlive,
                   arrExit, mon, batch, sched, jobSt, reported, verdict, fatal,
                   stopCalled, reunions>>

(* A pod fails while retries are left: the Job counts the failure and     *)
(* stays active with a new pod, which runs the same command.              *)
RemoteRetry(u, o) ==
    /\ remote[u].st \in Running
    /\ remote[u].hash \in Hashes
    /\ o \in {"raised", "killed"}
    /\ remote[u].fails < BackoffLimit
    /\ remote' = [remote EXCEPT ![u].st = "retrying", ![u].fails = @ + 1]
    /\ errFile' = IF o = "raised" THEN [errFile EXCEPT ![remote[u].hash] = TRUE]
                                  ELSE errFile
    /\ UNCHANGED <<isRunning, pending, preexisting, arrBuf, arrFlush, arrAlive,
                   arrExit, mon, batch, sched, outFile, jobSt, reported, verdict,
                   fatal, stopCalled, reunions>>

(* The cluster deletes a finished k8s Job (ttlSecondsAfterFinished).       *)
RemoteDelete(u) ==
    /\ TTLDelete
    /\ remote[u].st \in Terminal
    /\ ~remote[u].gone
    /\ remote' = [remote EXCEPT ![u].gone = TRUE]
    /\ UNCHANGED <<isRunning, pending, preexisting, arrBuf, arrFlush, arrAlive,
                   arrExit, mon, batch, sched, outFile, errFile, jobSt,
                   reported, verdict, fatal, stopCalled, reunions>>

-----------------------------------------------------------------------------
Init ==
    /\ isRunning = FALSE
    /\ pending = [u \in UIDs |-> NoJob]
    /\ preexisting = [h \in Hashes |-> NoUID]
    /\ arrBuf = {}
    /\ arrFlush = {}
    /\ arrAlive = FALSE
    /\ arrExit = FALSE
    /\ mon = [t \in MonitorThreads |-> "off"]
    /\ batch = [t \in MonitorThreads |-> {}]
    /\ sched = "idle"
    \* Jobs left on the cluster by earlier runs or by others, with unique names.
    /\ remote \in {r \in [UIDs -> RemoteRecord] :
                     /\ \A u \in UIDs \ PreUIDs :
                          r[u] = [hash |-> NoHash, st |-> "unused", gone |-> FALSE,
                                  fails |-> 0]
                     /\ \A u \in PreUIDs : r[u].st # "unused" /\ ~r[u].gone
                     /\ \A u \in PreUIDs :
                          /\ r[u].st = "active" => r[u].fails = 0
                          /\ r[u].st = "retrying" => r[u].fails > 0
                          /\ r[u].st = "failed" => r[u].fails = BackoffLimit
                     /\ \A u, v \in PreUIDs :
                          u # v /\ r[u].hash \in Hashes => r[u].hash # r[v].hash}
    \* Scratch files left by earlier runs.
    /\ outFile \in [Hashes -> BOOLEAN]
    /\ errFile \in [Hashes -> BOOLEAN]
    /\ jobSt = [j \in Jobs |-> "new"]
    /\ reported = [j \in Jobs |-> 0]
    /\ verdict = [j \in Jobs |-> "none"]
    /\ fatal = FALSE
    /\ stopCalled = FALSE
    /\ reunions = [u \in UIDs |-> 0]

Next ==
    \/ \E j \in Jobs : SubmitRoute(j)
    \/ SubmitStart
    \/ StopBegin
    \/ StopEnd
    \/ ArrayerFlush
    \/ \E j \in Jobs : SubmitSingleJob(j)
    \/ ArrayerExit
    \/ \E t \in MonitorThreads :
          \/ MonitorLoop(t)
          \/ \E r \in batch[t] : MonitorProcess(t, r)
          \/ MonitorSleep(t)
          \/ MonitorStopBegin(t)
          \/ MonitorStopEnd(t)
    \/ \E u \in UIDs :
          \/ \E o \in Outcomes : RemoteFinish(u, o) \/ RemoteRetry(u, o)
          \/ RemoteDelete(u)

(* Threads run until they block: the executor's own threads, the          *)
(* scheduler thread once inside submit()/stop(), and every k8s Job         *)
(* eventually ends.  The scheduler need not submit or stop at all.         *)
Fairness ==
    /\ WF_vars(SubmitStart)
    /\ WF_vars(StopEnd)
    /\ WF_vars(ArrayerFlush)
    /\ \A j \in Jobs : WF_vars(SubmitSingleJob(j))
    /\ WF_vars(ArrayerExit)
    /\ \A t \in MonitorThreads :
          /\ WF_vars(MonitorLoop(t))
          /\ WF_vars(\E r \in batch[t] : MonitorProcess(t, r))
          /\ WF_vars(MonitorSleep(t))
          /\ WF_vars(MonitorStopBegin(t))
          /\ WF_vars(MonitorStopEnd(t))
    /\ \A u \in UIDs : WF_vars(\E o \in Outcomes : RemoteFinish(u, o) \/ RemoteRetry(u, o))

Spec == Init /\ [][Next]_vars

FairSpec == Spec /\ Fairness

-----------------------------------------------------------------------------
TypeOK ==
    /\ isRunning \in BOOLEAN
    /\ pending \in [UIDs -> Jobs \cup {NoJob}]
    /\ preexisting \in [Hashes -> UIDs \cup {NoUID}]
    /\ arrBuf \subseteq Jobs
    /\ arrFlush \subseteq Jobs
    /\ arrAlive \in BOOLEAN
    /\ arrExit \in BOOLEAN
    /\ mon \in [MonitorThreads -> MonStates]
    /\ batch \in [MonitorThreads -> SUBSET StatusRecord]
    /\ sched \in {"idle", "routed", "stopping"}
    /\ remote \in [UIDs -> RemoteRecord]
    /\ outFile \in [Hashes -> BOOLEAN]
    /\ errFile \in [Hashes -> BOOLEAN]
    /\ jobSt \in [Jobs -> {"new", "submitted", "raised"}]
    /\ reported \in [Jobs -> Nat]
    /\ verdict \in [Jobs -> {"none", "done", "rejected"}]
    /\ fatal \in BOOLEAN
    /\ stopCalled \in BOOLEAN
    /\ reunions \in [UIDs -> Nat]

(* The scheduler hears about every job at most once: _process_job_status   *)
(* pops the uid before reporting, so neither two monitor threads that saw  *)
(* the same status nor two consecutive polls report a job twice.           *)
NoDoubleReport == \A j \in Jobs : reported[j] <= 1

(* Why no job is reported twice: a job is in at most one place at a time  *)
(* (the arrayer buffer, a flush under way, or one key of                    *)
(* pending_k8s_jobs), only a job the scheduler has handed over gets there,  *)
(* it is unreported while there, and the pop in _process_job_status takes *)
(* it out for good.  This is the inductive form of NoDoubleReport.         *)
InFlightOnce ==
    /\ \A j \in Jobs : jobSt[j] = "new" =>
          /\ j \notin arrBuf \cup arrFlush
          /\ \A u \in UIDs : pending[u] # j
          /\ reported[j] = 0
    /\ arrBuf \cap arrFlush = {}
    /\ \A j \in arrBuf \cup arrFlush :
          reported[j] = 0 /\ \A u \in UIDs : pending[u] # j
    /\ \A u, v \in UIDs : pending[u] # NoJob /\ pending[u] = pending[v] => u = v
    /\ \A u \in UIDs : pending[u] # NoJob => reported[pending[u]] = 0
    /\ NoDoubleReport

(* A done_job is only for a job whose k8s Job (the one named after its     *)
(* eval hash) succeeded and whose output file exists; a reject_job only    *)
(* for one whose k8s Job of that hash has terminated.                      *)
ReportFaithful ==
    \A j \in Jobs :
        /\ verdict[j] = "done" =>
              /\ outFile[JobHash[j]]
              /\ \E u \in UIDs : remote[u].hash = JobHash[j] /\ remote[u].st = "succeeded"
        /\ verdict[j] = "rejected" =>
              \E u \in UIDs : remote[u].hash = JobHash[j] /\ remote[u].st \in Terminal

\* A step that reports job j pops the uid of a terminated Job of j's hash.
ReportPops ==
    \A j \in Jobs :
       reported'[j] # reported[j] =>
          \E u \in UIDs : /\ pending[u] = j
                         /\ pending'[u] = NoJob
                         /\ remote[u].hash = JobHash[j]
                         /\ remote[u].st \in Terminal

(* spec 4.5: _process_job_status reports a job only when it pops the uid   *)
(* of the k8s Job named after that job's eval hash, and only once that Job *)
(* has terminated (succeeded or failed); running Jobs are skipped.         *)
ReportOnTerminalJob == [][ReportPops]_vars

(* spec 3 and 8: a preexisting k8s Job found by the scan is claimed by at  *)
(* most one submission; a second submission of the same hash falls        *)
(* through to a normal submission.                                         *)
CacheEntryClaimedOnce == \A u \in UIDs : reunions[u] <= 1

(* spec 3: a job handed to the executor stays in flight (arrayer buffer,   *)
(* a flush under way, or pending_k8s_jobs) until it is reported.           *)
SubmittedJobTracked ==
    \A j \in Jobs :
        jobSt[j] = "submitted" /\ reported[j] = 0 =>
            j \in arrBuf \cup arrFlush \/ \E u \in UIDs : pending[u] = j

(* spec 4.4/7: every submitted job is eventually reported, unless the      *)
(* executor failed (reject_job(None, ...)) or the scheduler stopped it.    *)
EventuallyReported ==
    \A j \in Jobs :
        jobSt[j] = "submitted" ~> (reported[j] > 0 \/ fatal \/ stopCalled)

(* While the executor runs, every k8s Job in pending_k8s_jobs is          *)
(* eventually classified and popped by a monitor thread (or the monitor    *)
(* fails): _monitor keeps describing the pending uids until each one has   *)
(* reached a terminal status and been processed.                           *)
PendingDrained ==
    \A u \in UIDs :
        (pending[u] # NoJob /\ isRunning) ~> (pending[u] = NoJob \/ ~isRunning \/ fatal)
-----------------------------------------------------------------------------
(* Refinement.  The jobs the executor holds are those in the arrayer's     *)
(* buffer, in a flush under way, or under a key of pending_k8s_jobs; what  *)
(* the scheduler sees (jobSt, reported, verdict, fatal) is shared with the *)
(* abstract specification unchanged.                                       *)
HeldJobs ==
    {j \in Jobs : j \in arrBuf \cup arrFlush \/ \E u \in UIDs : pending[u] = j}

Abs == INSTANCE K8SJobsAbstract WITH held <- HeldJobs

(* Every behaviour of the executor is one of K8SJobsAbstract: a job is     *)
(* reported only while the executor holds it, at most once, and it enters *)
(* the executor only through submit(); every other change of the held    *)
(* set is a drop.                                                          *)
AbstractSpec == Abs!ASpec
=============================================================================
