\* Liveness of reporting when every k8s Job succeeds with its output: no
\* reunification, arrays, script tasks, name conflicts or deletion.
CONSTANTS
    j1 = j1
    j2 = j2
    j3 = j3
    h1 = h1
    h2 = h2
    t1 = t1
    t2 = t2
    Jobs = {j1, j2}
    Hashes = {h1, h2}
    JobHash <- MCJobHashDistinct
    JobTask <- MCJobTaskDistinct
    ScriptTasks = {}
    NoCacheJobs = {j1, j2}
    UIDs = {u1, u2}
    PreUIDs = {}
    MinArraySize = 3
    MonitorThreads = {m1}
    Outcomes = {"ok"}
    TTLDelete = FALSE
    BackoffLimit = 0
    NoJob = NoJob
    NoUID = NoUID
    NoHash = NoHash
SPECIFICATION FairSpec
PROPERTY EventuallyReported
