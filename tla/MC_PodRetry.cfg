\* A pod that raises while the k8s Job still has retries left (the cluster
\* default backoffLimit, which k8s_submit never overrides): two jobs.
CONSTANTS
    j1 = j1
    j2 = j2
    j3 = j3
    h1 = h1
    h2 = h2
    t1 = t1
    t2 = t2
    Jobs = {j1, j2}
    Hashes = {h1, h2}
    JobHash <- MCJobHashDistinct
    JobTask <- MCJobTaskDistinct
    ScriptTasks = {}
    NoCacheJobs = {j1, j2}
    UIDs = {u1, u2}
    PreUIDs = {}
    MinArraySize = 3
    MonitorThreads = {m1}
    Outcomes = {"ok", "raised"}
    TTLDelete = FALSE
    BackoffLimit = 1
    NoJob = NoJob
    NoUID = NoUID
    NoHash = NoHash
SPECIFICATION Spec
INVARIANT SubmittedJobTracked
