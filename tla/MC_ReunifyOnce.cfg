\* Spec 8: a scanned k8s Job is claimed by one submission only.
CONSTANTS
    j1 = j1
    j2 = j2
    j3 = j3
    h1 = h1
    h2 = h2
    t1 = t1
    t2 = t2
    Jobs = {j1, j2}
    Hashes = {h1}
    JobHash <- MCJobHash
    JobTask <- MCJobTask
    ScriptTasks <- MCScriptTasks
    NoCacheJobs = {}
    UIDs = {u1, u2, u3}
    PreUIDs = {u1}
    MinArraySize = 2
    MonitorThreads = {m1, m2}
    Outcomes = {"ok", "noOutput", "raised", "killed"}
    TTLDelete = TRUE
    BackoffLimit = 0
    NoJob = NoJob
    NoUID = NoUID
    NoHash = NoHash
SPECIFICATION Spec
INVARIANT CacheEntryClaimedOnce
