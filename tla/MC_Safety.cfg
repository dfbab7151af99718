\* All paths of the executor: reunification, arrays, name conflicts, k8s
\* Job deletion, external stop and a second monitor thread.
CONSTANTS
    j1 = j1
    j2 = j2
    j3 = j3
    h1 = h1
    h2 = h2
    t1 = t1
    t2 = t2
    Jobs = {j1, j2}
    Hashes = {h1}
    JobHash <- MCJobHash
    JobTask <- MCJobTask
    ScriptTasks <- MCScriptTasks
    NoCacheJobs = {j2}
    UIDs = {u1, u2, u3}
    PreUIDs = {u1}
    MinArraySize = 2
    MonitorThreads = {m1, m2}
    Outcomes = {"ok", "noOutput", "raised", "killed"}
    TTLDelete = TRUE
    BackoffLimit = 0
    NoJob = NoJob
    NoUID = NoUID
    NoHash = NoHash
SPECIFICATION Spec
INVARIANT TypeOK
INVARIANT NoDoubleReport
INVARIANT ReportFaithful
