\* Refinement of K8SJobsAbstract, and the inductive invariant InFlightOnce
\* that its proof and the proof of NoDoubleReport rest on, on the instance
\* of MC_Safety.
\* The "noOutput" outcome only changes the verdict, which the abstract
\* specification leaves free; it is left out to keep the run short.
CONSTANTS
    j1 = j1
    j2 = j2
    j3 = j3
    h1 = h1
    h2 = h2
    t1 = t1
    t2 = t2
    Jobs = {j1, j2}
    Hashes = {h1}
    JobHash <- MCJobHash
    JobTask <- MCJobTask
    ScriptTasks <- MCScriptTasks
    NoCacheJobs = {j2}
    UIDs = {u1, u2, u3}
    PreUIDs = {u1}
    MinArraySize = 2
    MonitorThreads = {m1, m2}
    Outcomes = {"ok", "raised", "killed"}
    TTLDelete = TRUE
    BackoffLimit = 0
    NoJob = NoJob
    NoUID = NoUID
    NoHash = NoHash
SPECIFICATION Spec
INVARIANT InFlightOnce
PROPERTY AbstractSpec
