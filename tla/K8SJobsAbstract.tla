--------------------------- MODULE K8SJobsAbstract ---------------------------
(***************************************************************************)
(* What the K8S executor promises its scheduler, with every thread, k8s    *)
(* Job and scratch file abstracted away.  A job the scheduler submits is   *)
(* either refused at once (the submission raised) or held by the executor; *)
(* a held job is reported once, done or rejected, and is then released.   *)
(* Held jobs may also be dropped without a report, possibly together with *)
(* an executor-fatal error: the executor's code has such paths, and the   *)
(* abstraction names them instead of hiding them.                          *)
(***************************************************************************)
CONSTANTS Jobs

VARIABLES
    jobSt,     \* job -> "new", "submitted", "raised"
    held,      \* the submitted jobs the executor still holds
    reported,  \* job -> number of reports
    verdict,   \* job -> "none", "done", "rejected"
    fatal      \* the executor reported an executor-fatal error

avars == <<jobSt, held, reported, verdict, fatal>>

AInit ==
    /\ jobSt = [j \in Jobs |-> "new"]
    /\ held = {}
    /\ reported = [j \in Jobs |-> 0]
    /\ verdict = [j \in Jobs |-> "none"]
    /\ fatal = FALSE

(* submit(job) returns and the executor holds the job; it may displace     *)
(* jobs it held before.                                                    *)
ASubmit(j) ==
    /\ jobSt[j] = "new"
    /\ jobSt' = [jobSt EXCEPT ![j] = "submitted"]
    /\ \E lost \in SUBSET held : held' = (held \ lost) \cup {j}
    /\ UNCHANGED <<reported, verdict, fatal>>

(* submit(job) raises to the scheduler.                                    *)
ARefuse(j) ==
    /\ jobSt[j] = "new"
    /\ jobSt' = [jobSt EXCEPT ![j] = "raised"]
    /\ UNCHANGED <<held, reported, verdict, fatal>>

(* done_job / reject_job for a held job, which is then released.           *)
AReport(j, v) ==
    /\ j \in held
    /\ reported[j] = 0
    /\ held' = held \ {j}
    /\ reported' = [reported EXCEPT ![j] = 1]
    /\ verdict' = [verdict EXCEPT ![j] = v]
    /\ UNCHANGED <<jobSt, fatal>>

(* Held jobs are released unreported, and reject_job(None, error) may be   *)
(* called.                                                                 *)
ADrop(lost) ==
    /\ lost \subseteq held
    /\ held' = held \ lost
    /\ fatal' \in {fatal, TRUE}
    /\ UNCHANGED <<jobSt, reported, verdict>>

ANext ==
    \/ \E j \in Jobs : ASubmit(j) \/ ARefuse(j)
    \/ \E j \in Jobs, v \in {"done", "rejected"} : AReport(j, v)
    \/ \E lost \in SUBSET held : ADrop(lost)

ASpec == AInit /\ [][ANext]_avars
=============================================================================
