\* Two jobs of one eval hash, distinct tasks, caching allowed, no earlier
\* k8s Job: the second falls through to a normal submission.
CONSTANTS
    j1 = j1
    j2 = j2
    j3 = j3
    h1 = h1
    h2 = h2
    t1 = t1
    t2 = t2
    Jobs = {j1, j2}
    Hashes = {h1, h2}
    JobHash <- MCJobHash
    JobTask <- MCJobTaskDistinct
    ScriptTasks = {}
    NoCacheJobs = {}
    UIDs = {u1, u2}
    PreUIDs = {}
    MinArraySize = 3
    MonitorThreads = {m1}
    Outcomes = {"ok"}
    TTLDelete = FALSE
    BackoffLimit = 0
    NoJob = NoJob
    NoUID = NoUID
    NoHash = NoHash
SPECIFICATION Spec
INVARIANT SubmittedJobTracked
