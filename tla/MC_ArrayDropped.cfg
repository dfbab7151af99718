\* Two jobs of one task reach min_array_size: _submit_array_job is the only
\* way out of the flush; every remote run succeeds.
CONSTANTS
    j1 = j1
    j2 = j2
    j3 = j3
    h1 = h1
    h2 = h2
    t1 = t1
    t2 = t2
    Jobs = {j1, j2}
    Hashes = {h1, h2}
    JobHash <- MCJobHashDistinct
    JobTask <- MCJobTask
    ScriptTasks = {}
    NoCacheJobs = {}
    UIDs = {u1, u2}
    PreUIDs = {}
    MinArraySize = 2
    MonitorThreads = {m1}
    Outcomes = {"ok"}
    TTLDelete = FALSE
    BackoffLimit = 0
    NoJob = NoJob
    NoUID = NoUID
    NoHash = NoHash
SPECIFICATION Spec
INVARIANT SubmittedJobTracked
