\* Progress of the monitor loop: distinct eval hashes and tasks, no script
\* task, arrays below min_array_size, no deletion, no preexisting k8s Job,
\* and "raised" runs, with one pod retry per k8s Job: a Job is rejected after
\* its last pod, and the monitor dies on a Job still retrying (line 930).
\* Each report stays faithful to the k8s Job across the retry, and pops the
\* uid of a terminated k8s Job of the job's own hash.
CONSTANTS
    j1 = j1
    j2 = j2
    j3 = j3
    h1 = h1
    h2 = h2
    t1 = t1
    t2 = t2
    Jobs = {j1, j2}
    Hashes = {h1, h2}
    JobHash <- MCJobHashDistinct
    JobTask <- MCJobTaskDistinct
    ScriptTasks = {}
    NoCacheJobs = {}
    UIDs = {u1, u2}
    PreUIDs = {}
    MinArraySize = 3
    MonitorThreads = {m1}
    Outcomes = {"ok", "raised"}
    TTLDelete = FALSE
    BackoffLimit = 1
    NoJob = NoJob
    NoUID = NoUID
    NoHash = NoHash
SPECIFICATION FairSpec
INVARIANT ReportFaithful
PROPERTY ReportOnTerminalJob
PROPERTY PendingDrained
