\* A k8s Job that fails without writing the scratch error file (killed by
\* OOM or a timeout): no reunification, no arrays, no name conflicts.
CONSTANTS
    j1 = j1
    j2 = j2
    j3 = j3
    h1 = h1
    h2 = h2
    t1 = t1
    t2 = t2
    Jobs = {j1, j2}
    Hashes = {h1, h2}
    JobHash <- MCJobHashDistinct
    JobTask <- MCJobTaskDistinct
    ScriptTasks = {}
    NoCacheJobs = {j1, j2}
    UIDs = {u1, u2}
    PreUIDs = {}
    MinArraySize = 3
    MonitorThreads = {m1}
    Outcomes = {"ok", "killed"}
    TTLDelete = FALSE
    BackoffLimit = 0
    NoJob = NoJob
    NoUID = NoUID
    NoHash = NoHash
SPECIFICATION Spec
INVARIANT SubmittedJobTracked
