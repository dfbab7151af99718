# Verification of the redun K8S executor

This directory holds the TLA+ model of `src/redun/executors/k8s.py`. The
model covers `K8SExecutor` in cluster mode (`debug = False`). The directory
also holds the TLC configurations that check the model on small instances,
TLAPS proofs, and `PROJECT.json`.

| Module | Models |
|--------|--------|
| `K8SExecutor` | the executor's threads, its shared state and the cluster |
| `K8SJobsAbstract` | what the executor promises the scheduler, refined by `K8SExecutor` |
| `TaskOptions` | option and tag resolution (`__init__` defaults, `_get_job_options`) and what `submit_task` / `k8s_submit` make of them |
| `JobName` | `get_k8s_job_name`, `is_array_job_name`, `get_hash_from_job_name` |
| `K8SExecutorProofs`, `K8SFaithfulProofs`, `K8SRefinementProofs`, `TaskOptionsProofs`, `JobNameProofs` | the TLAPS proofs |
| `MC_K8SExecutor`, `MC_TaskOptions`, `MC_JobName` | model values for TLC |

`PROJECT.json` `PROJECT.json`
records:
- the components;
- the runs;
- the mutants;
- the map from every TLA+ definition to the source lines it translates;
- the findings;
- the hazards.

## The system

The executor is driven by four threads of control, and all four share its
state.

| Actor | Code | What it does |
|-------|------|--------------|
| scheduler thread | `submit`, `submit_script`, `_submit`, `_start`, `stop` | routes each job: reunite it with a k8s Job already on the cluster (`preexisting_k8s_jobs`), or hand it to the `JobArrayer`; starts a monitor thread when `is_running` is False |
| JobArrayer thread (`redun.job_array`) | callbacks `_submit_single_job`, `_submit_array_job` | buffers jobs; a flush pops one task group and submits it singly below `min_array_size`, else as one array |
| monitor thread(s) | `_monitor`, `_process_job_status`, `parse_task_error`, `parse_task_logs` | while running and something is pending: describe all registered uids, classify each status, pop the uid, report `done_job` / `reject_job`; on any exception `reject_job(None, error)`; finally `stop()` |
| cluster + S3 scratch | the Job's `redun oneshot` command built by `submit_task` | the Job runs and ends, writing the output or error file at the scratch paths of its eval hash; `ttlSecondsAfterFinished` may delete it |

The shared state consists of three things:
- `pending_k8s_jobs` (uid → job);
- `preexisting_k8s_jobs` (eval hash → uid);
- `is_running`.

It also includes the arrayer's buffer and `num_pending`. No lock protects
any of it.

## Module `K8SExecutor`

- **Constants:** jobs, eval hashes, and the maps `JobHash` and `JobTask`.
  The other constants are:
  - script tasks;
  - `NoCacheJobs`, the jobs whose `cache` option is False;
  - uids and `PreUIDs` (k8s Jobs already on the cluster at start);
  - `MinArraySize`;
  - the monitor thread ids;
  - the possible outcomes of a remote run;
  - `TTLDelete`;
  - `BackoffLimit`, the pod retries of a k8s Job. `k8s_submit` sets no
    `backoffLimit`, so the cluster default (6) applies; the model takes 0 or 1.
- **Data abstraction:**
  - A k8s Job name `<prefix>-<hash>` is represented by the hash that
    `get_hash_from_job_name` extracts. `NoHash` stands for a name that yields
    no hash of ours.
  - A scratch file is a Boolean per eval hash, because
    `get_job_scratch_file` keys the files by eval hash.

Each variable corresponds to code as follows.

| Variable | Code |
|----------|------|
| `isRunning` | `self.is_running` |
| `pending` | `self.pending_k8s_jobs` |
| `preexisting` | `self.preexisting_k8s_jobs` |
| `arrBuf`, `arrFlush`, `arrAlive`, `arrExit` | the arrayer's buffer, the group a flush is submitting, its thread, and its exit flag |
| `mon`, `batch` | each monitor thread's program counter, and the statuses of its current describe call |
| `sched` | the scheduler thread inside `_submit` or `stop()` |
| `remote`, `outFile`, `errFile` | the k8s Jobs (hash, status, deleted) and the scratch files |
| `jobSt`, `reported`, `verdict`, `fatal`, `stopCalled`, `reunions` | what the scheduler sees, plus history counters used by properties |

Each action corresponds to code as follows.

| Action | Code |
|--------|------|
| `SubmitRoute(j)` | `_submit` up to `_start()`: the rescan when not running, the reunification (pop, describe, `[0]` IndexError once the Job is gone), or `arrayer.add_job` (`AddJob`) |
| `SubmitStart` | `_start()`: a new monitor thread unless `is_running` |
| `StopBegin`, `StopEnd` | `stop()` from the scheduler: `arrayer.stop()` (flag and join), then `is_running = False` |
| `ArrayerFlush` | a flush: pop one task group; small groups go to `_submit_single_job`. Otherwise `_submit_array_job`, which always raises (NotImplementedError for scripts, AttributeError on `self.aws_region`), and the exception ends the arrayer thread |
| `SubmitSingleJob(j)` | `_submit_single_job`: scripts raise NameError (`get_batch_job_name`). Creating a Job whose name exists fails with a conflict. Otherwise a fresh uid becomes active and is registered |
| `ArrayerExit` | the arrayer thread sees its exit flag |
| `MonitorLoop(t)` | the loop head and one `k8s_describe_jobs` snapshot of the registered uids the API still lists |
| `MonitorProcess(t, r)` | `_process_job_status` (next table) |
| `MonitorSleep(t)` | `time.sleep(interval)` |
| `MonitorStopBegin(t)`, `MonitorStopEnd(t)` | the monitor's final `self.stop()` |
| `RemoteFinish(u, o)` | a k8s Job ends: `ok` writes the output file, `raised` writes the error file, `noOutput` and `killed` write nothing. A failing pod ends the Job only once its retries are spent |
| `RemoteRetry(u, o)` | a pod fails (`raised` or `killed`) while the Job has retries left: the Job stays running, `status.failed` grows, and a `raised` pod has already written the error file |
| `RemoteDelete(u)` | TTL deletion of a finished Job |

`MonitorProcess(t, r)` models the whole of `_process_job_status`, in this
order:
1. A status that is neither succeeded nor failed is skipped.
2. Popping an absent uid raises KeyError.
3. Otherwise the uid is popped, and then:
   - on success, `done_job` if the output file exists, else `reject_job`;
   - on failure with an error file, `reject_job` (`RejectReached`), unless
     the Job is still running a pod retry or is gone. A retrying Job has
     `status.conditions` None, so `conditions[-1]` raises TypeError at line
     930, which `except (KeyError, IndexError)` does not catch. For a gone
     Job the log fetch raises IndexError;
   - on failure without an error file, `parse_task_error` raises (TypeError on
     `k8s_job_metadata["attempts"]`, NameError on `K8SBatchError`).
4. Every exception ends the loop via `MonitorFails`.

The `JobArrayer` lives in `redun.job_array`, which is not part of this
repository's source. `AddJob`, `ArrayerJoined`, `ArrayerCrash` and
`ArrayerExit` are therefore modelled from its documented behaviour and marked
`spec_modelled` in the map. `RemoteDelete` is the cluster's TTL controller,
and is marked the same way. `RemoteRetry` is the cluster's Job controller retrying a
failed pod. No code of this repository does it (`k8s_submit` only leaves
`backoffLimit` unset), so it is not in the map.

`Init` is a freshly constructed executor. The cluster may already hold k8s
Jobs with unique names, in any status and with any hash (or none). Scratch
files may also be left from earlier runs.

**Fairness** (`FairSpec`):
- Each thread that has started an operation finishes it. This is weak
  fairness on every executor thread action.
- Every k8s Job eventually ends: weak fairness on `RemoteFinish` per uid.
- The scheduler need not submit or stop, and TTL deletion need not happen.

These assumptions are justified as follows:
- The executor's threads never wait on one another except in `join`, whose
  guard is modelled.
- `time.sleep` always returns.
- Jobs that never end (k8s_submit drops `timeout`) fall outside the
  assumption, and this is listed as a hazard.

## Module `K8SJobsAbstract` and the refinement

`K8SJobsAbstract` is what the scheduler can rely on, with every thread, k8s
Job and file abstracted away. A job is submitted (`ASubmit`) or refused at
once (`ARefuse`). A held job is reported once, done or rejected, and then
released (`AReport`). Held jobs may also be released unreported, possibly
with `reject_job(None, error)` (`ADrop`). The last action is there because
the code has such paths (the findings below): the abstraction names them
rather than hiding them.

`K8SExecutor` instantiates it with `held <- HeldJobs`: the jobs in the
arrayer buffer, in a flush being submitted, or under a key of
`pending_k8s_jobs`. Every other variable maps to itself. `AbstractSpec` is
checked by the run `refinement` and proved by `Refinement`.

## Module `TaskOptions`

A Python dict is a TLA+ function on its keys, and `{**a, **b}` is
`DictUpdate(a, b)`. The state is the executor's config section, the job's
options, the options `_get_job_options` resolved and the k8s Job object
`k8s_submit` created.

| Definition | Code |
|------------|------|
| `DefaultTaskOptions` | `default_task_options` in `__init__` (lines 665-676) |
| `MergedOptions`, `DefaultTags`, `TagsOf`, `MergedTags`, `GetJobOptions` | `_get_job_options` (946-989) |
| `GetK8sJobOptions` | `get_k8s_job_options` (193-210) |
| `K8sJobName`, `SubmitTask` | `submit_task`, cluster branch (298-318) |
| `K8sSubmit` | `k8s_submit` (46-72) |
| `ResolveOptions` | the call of `_get_job_options` in `_submit` |

The values are model values and small sets. The `cache` option's effect on
routing stays in `K8SExecutor`, as the constant `NoCacheJobs`.

## Module `JobName`

A string is a sequence of tokens: `"-"`, `"x"` (a character other than `-`
and the letters of `array`) and `"array"`. Distinct sequences spell
distinct strings. `GetK8sJobName` builds `<prefix>-<hash>[-array]`.
`GetHashFromJobName` strips `-array` and then applies the regex
`.*-(?P<hash>[^-]+)`; `LastSplit` is where the greedy `.*` stops.
`GatheredHash` is what `gather_inflight_jobs` files a listed name under.
`K8SExecutor` represents a Job name by its hash, and `NameRoundTrip` is what
justifies that abstraction.

## Runs

`MC_K8SExecutor.tla` gives the model values:
- `MCJobHash` and `MCJobTask`: two jobs share a hash and a task, so
  reunification, name conflicts and arrays happen;
- `MCJobHashDistinct` and `MCJobTaskDistinct`: every job has its own hash
  and task.

| Run | Config | Expect | Properties | What it shows |
|-----|--------|--------|------------|---------------|
| safety | `MC_Safety.cfg` | pass | TypeOK, NoDoubleReport, ReportFaithful | with two monitor threads, a preexisting Job, three uids, arrays (`MinArraySize` 2), name conflicts, TTL deletion and all four outcomes, no job is reported twice, and `done_job` / `reject_job` agree with the k8s Job and the scratch files (3.8M states, about 70 s) |
| liveness | `MC_Liveness.cfg` | pass | ReportFaithful, ReportOnTerminalJob, PendingDrained | under `FairSpec`, while the executor runs, every registered k8s Job is eventually popped, or the monitor fails. With one pod retry (`BackoffLimit` 1) and tasks that raise, every report pops the uid of a terminated k8s Job of the job's hash, and none is made of a Job still retrying (about 270k states, 90 s) |
| refinement | `MC_Refinement.cfg` | pass | InFlightOnce, AbstractSpec | on the safety instance (without the `noOutput` outcome, which only changes a verdict), the inductive invariant of the proofs holds and the executor implements `K8SJobsAbstract` under `HeldJobs` (2.6M states, about 2 min) |
| task_options | `MC_TaskOptions.cfg` | pass | TagPrecedence | every config and job over two values, two prefixes, two tag keys (one an identity key) and two tag values resolves the k8s tags with the spec's precedence (130k states) |
| job_name | `MC_JobName.cfg` | pass | NameRoundTrip | every prefix of up to three tokens, `-` and `array` included, and every hash of up to three characters, single or array: the parser gives the hash back and the scan skips array names |
| reunify_once | `MC_ReunifyOnce.cfg` | violation | CacheEntryClaimedOnce | a k8s Job found by the scan is claimed twice |
| failed_job_lost | `MC_FailedJobLost.cfg` | violation | SubmittedJobTracked | a killed k8s Job loses its redun job |
| stop_race | `MC_StopRace.cfg` | violation | EventuallyReported | the monitor can exit with a job still on its way to the registry |
| pod_retry | `MC_PodRetry.cfg` | violation | SubmittedJobTracked | a Job whose first pod raised, still running its retry, is popped, and the monitor dies at line 930 before reporting it |
| array_dropped | `MC_ArrayDropped.cfg` | violation | SubmittedJobTracked | jobs flushed as an array are never submitted nor reported |
| name_conflict | `MC_NameConflict.cfg` | violation | SubmittedJobTracked | a second job of a hash whose Job exists is lost to the name conflict |
| options_dropped | `MC_OptionsDropped.cfg` | violation | OptionsReachCluster | the resolved resources, timeout and tags never reach the k8s Job |

**Bounds.**
- Two jobs with one shared hash are the least that exhibits the following:
  - reunification contention;
  - the Job-name conflict;
  - an array of size `MinArraySize = 2`.
- Three uids give room for one preexisting Job and one new Job per job.
- Two monitor threads exhibit the overlap between a stopping monitor and the
  one a new `_start()` creates.
- Every counter in the model is bounded by the number of jobs and uids, so
  no artificial bound is needed.
- The liveness run uses one monitor thread and distinct hashes, to keep the
  fair-cycle search under two minutes. It has `BackoffLimit` 1: a retry
  adds a Job state between active and failed, and one retry is enough to
  exercise it. With its "raised" outcome, the rejection of a failed Job and
  the crash on a retrying one both happen. The safety and refinement runs
  keep 0: with one retry the safety instance grows to 17M states and six
  minutes. `ReportFaithful` is proved for every retry limit.
- `TaskOptions` enumerates every config and job over its sets: both merges
  see each key absent, set in one layer, or set in both.
- `JobName` takes prefixes up to three tokens, which include `redun-job`'s
  shape (`x-x`), a trailing `-`, a `--` and a prefix ending in `array`.

**Action coverage.** All actions of `K8SExecutor` fire in the safety run,
except `RemoteRetry`, which fires in the liveness run. The script-task branch
of `SubmitSingleJob` (NameError on `get_batch_job_name`, line 399) is
reachable only with a job of a script task, which the passing instances do
not have. With one (`JobTask <- MCJobTaskDistinct`, `ScriptTasks <-
MCScriptTasks`) it ends the arrayer thread and violates `SubmittedJobTracked`
exactly as the name conflict does; it is listed as a hazard rather than a
run of its own.

**Mutants.** Each property of a passing run is killed by a plausible bug in
the definition it is about:

| Mutant | Killed property |
|--------|-----------------|
| `GatheredAnyName` (the `if job_hash` check dropped) | TypeOK |
| `MonitorProcessNoPop` (the uid read instead of popped) | NoDoubleReport, InFlightOnce and ReportOnTerminalJob |
| `CanOverrideFailedAlways` | ReportFaithful (safety) |
| `RejectReachedAnyStatus` (TypeError caught with KeyError at line 931, so a retrying Job is rejected) | ReportFaithful (liveness) |
| `JobStatusSucceededOnly` (the `failed > 0` branch forgotten) | PendingDrained |
| `SubmitRouteSwallowed` (the IndexError of a gone Job caught, the job taken as submitted) | AbstractSpec |
| `MergedTagsIdentityLast` (identity tags merged after the job's) | TagPrecedence |
| `LastSplitNonGreedy` (`.*?` for `.*` in the regex) | NameRoundTrip |

## Findings

1. **Reunify twice.** `_submit` rescans the cluster whenever `is_running` is
   False (line 1024), which includes every submission after `stop()`. The
   rescan puts back a k8s Job that an earlier job has already claimed. A
   second job of the same hash then claims it, and
   `pending_k8s_jobs[uid] = job` overwrites the first job, which is never
   reported.
2. **Failed job lost.** `_process_job_status` pops the uid (line 896) before
   it calls `parse_task_error`, and that call raises for any failed k8s Job
   without an error file. An OOM-killed or timed-out Job is such a case. The
   popped job is never reported individually, and the whole executor stops
   with `reject_job(None, error)`.
3. **Stop race.** The monitor's loop test (line 800) reads
   `pending_k8s_jobs` and `num_pending` without a lock. The arrayer
   decrements `num_pending` before `_submit_single_job` registers the uid. The
   monitor can therefore stop in that window, and the job is never polled.

4. **Pod retry kills the monitor.** `_process_job_status` (line 884) takes
   `status.failed > 0` as a failed Job. That field counts failed pods, and
   `k8s_submit` sets no `backoffLimit`, so the cluster default of 6 retries
   applies. A Job whose first pod raised is still active, yet the monitor
   pops its uid. `parse_task_error` reads the error file, and then
   `job.status.conditions[-1]` (line 930) raises TypeError on the `None`
   conditions of a running Job. The monitor thread dies and the job is never
   reported. Catching TypeError there would be worse: the job would be
   rejected while its retry may still succeed (mutant
   `RejectReachedAnyStatus`).
5. **Arrays dropped.** `_submit_array_job` passes `aws_region=self.aws_region`
   (line 1146). The executor never sets that attribute, and `submit_task`
   takes no such argument. The exception ends the arrayer thread after the
   group was popped, so every job batched into an array is lost.
6. **Name conflict.** The spec (section 8) says a second submission of a
   hash whose cache entry was consumed falls through to normal submission.
   That submission names the k8s Job `<prefix>-<eval_hash>` again, and the API
   refuses it while the first Job exists (line 68). The job is lost, and the
   arrayer thread ends.
7. **Options dropped.** `k8s_submit` (line 68) builds the Job from
   `job_name`, `image` and `command` only. The resolved vcpus, memory, gpus,
   retries and timeout are dropped, and the merged tags never even reach it
   (`get_k8s_job_options` forwards the key `batch_tags`, line 205). The spec
   says timeout is a cluster-side option.

## Proofs

### `K8SExecutorProofs.tla`

All the proofs hold for every value of the constants that satisfies
`ConstantsAssumption`.

- `TypeCorrect`: `Spec => []TypeOK`. It has one lemma per group of actions,
  and uses the lemma `GatheredType` for the result of the rescan.
- `InFlightOnceHolds`: `Spec => [](TypeOK /\ InFlightOnce)`.
- `NoDoubleReportHolds`: `Spec => []NoDoubleReport`.

`NoDoubleReport` (`reported[j] <= 1`) is not inductive on its own. A step
that reports j is safe only if j was unreported while it sat in
`pending_k8s_jobs`, and if no other key held it. The strengthening
`InFlightOnce` says five things:
- a job is in at most one place (the buffer, a flush, or one key of the
  registry);
- it is unreported while it is there;
- only a job handed over by `_submit` gets there;
- a new job is nowhere;
- the registry holds each job under at most one key.

Every step moves jobs in one of four ways, and each way is a lemma:
- `InFlightUnchanged`: nothing moves;
- `InFlightShrink`: jobs leave the arrayer buffers;
- `InFlightRegister`: a job enters a key;
- `InFlightPop`: a key is popped and its job reported once.

To add to this, in order, `InFlightHandOver`, `SubmitRouteInFlight`,
`ArrayerFlushInFlight`, `SubmitSingleJobInFlight`, `MonitorProcessInFlight`
and `NextInFlight` show that each action is one of these moves. This holds
even when a second `_submit` overwrites a key, because the overwritten job
simply leaves the registry.

### `K8SRefinementProofs.tla`

`Refinement`: `Spec => AbstractSpec`. The initial state maps to `AInit`.
For the step, `NextRefines` shows, with one lemma per action group, that
every step is an abstract step or a stutter under `HeldJobs`:
- `SubmitRouteRefines`: a hand-over to the arrayer is `ASubmit`; a
  reunification is `ASubmit` that may displace the job the overwritten key
  held; a raise is `ARefuse`;
- `ArrayerRefines`: a flush, a crash of the thread and a registration only
  move or release held jobs (a registration releases the job of a key it
  overwrites), so each is `ADrop` of what it releases or a stutter
  (`HeldDrop`);
- `MonitorProcessRefines`: a pop with a report is `AReport`; a pop that
  raises is `ADrop` of that job with the executor-fatal error (`HeldDrop`).

`AReport` needs the job unreported. That comes from `InFlightOnce`, so the
proof rests on `InFlightOnceHolds`.

### `K8SFaithfulProofs.tla`

- `ReportFaithfulHolds`: `Spec => []ReportFaithful`.
- `ReportOnTerminalJobHolds`: `Spec => ReportOnTerminalJob`.

Both hold for every value of the constants that satisfies
`ConstantsAssumption`, any `BackoffLimit` included. A retrying Job is read as
FAILED but never reported: either `parse_task_error` raises or
`conditions[-1]` does. The price of that is the job lost (run pod_retry),
not an unfaithful report.

`ReportFaithful` alone is not inductive: a report is faithful only if the
record it came from still describes the k8s Job. The inductive invariant
`FaithfulInv` adds:
- `PreexistingFaithful`: a uid in the scan's cache names a live Job of that
  hash;
- `PendingFaithful`: every uid in `pending_k8s_jobs` names a live Job of the
  hash of the job it maps to;
- `BatchFaithful`: a terminal status in a monitor thread's snapshot is the
  Job's status now.

The argument rests on `NextKeeps`. No step, a pod retry included, removes a
Job's record or changes its hash or its terminal status (`RemoteKept`), and
no step deletes a scratch file (`FilesKept`). A snapshot taken by
`MonitorLoop` therefore stays true until `MonitorProcess` uses it. The lemmas
`Keep*` carry each conjunct over the steps that leave its variables alone.
`ReportOnTerminalJobHolds` follows from `FaithfulInv` by `ReportStep`.

### `JobNameProofs.tla`

- `NameRoundTripHolds`: `Spec => []NameRoundTrip`, for every set of
  prefixes over `{x, -, array}` and every set of non-empty hashes
  (`NameAssumption`).

The argument works on the name without its suffix, `Core(p, h)`, which is
`p \o <<"-">> \o h`:
- `CoreSplit`: the last `-` not followed by `-` is the one just before the
  hash, whatever dashes the prefix holds.
- `CoreHash`: the hash group from there is the whole hash.
- `CoreNotArray`: the core does not end with `-array`, because it ends with
  a hash character.
- `ArrayStrip`: an array name ends with `-array`, and stripping the suffix
  gives back the core.

`RoundTrip` puts these together for both kinds of name. The regex is
modelled by its last split rather than recursively, so no induction over
strings is needed.

### `TaskOptionsProofs.tla`

- `TagPrecedenceHolds`: `OSpec => []TagPrecedence`.

It holds for every set of values, prefixes, tag keys and identity keys
satisfying `OptionsAssumption`. The invariant `OInv` says that the resolved
options, once there, are exactly `GetJobOptions` of an input dict without
Absent entries. `TagsResolved` computes the result of the tag merge key by
key.

### Model-checked only

The following stay with TLC only:
- The liveness properties (`PendingDrained`, and the violated
  `EventuallyReported`), because TLAPS cannot reason about fairness or
  ENABLED.
- The mutants. They show that each property depends on the code it names.

## Not modelled

- **Debug (local Docker) mode.** Its branches index k8s response objects as
  dicts and are broken.
- **`kill_jobs` and `get_array_child_jobs`.** They are not reached from the
  control flow.
- **The contents of the k8s Job object** (`create_job_object`, image,
  command line). `TaskOptions` records only which options reach it.
- **Which run wrote a scratch file.** Output and error files are one flag
  per eval hash. A file left by an earlier run of the same hash decides the
  report of a new k8s Job, and no property tells the two runs apart.
- **Log text, code packaging and result values.** They are data only.

## Plan for the next sittings

1. **`JobArrayer` module.** The arrayer thread alone: a bounded buffer,
   timer-driven flushes and the crash paths, with a liveness property that
   every popped job reaches the registry or is reported.
2. **Proofs of the arrayer.** If `JobArrayer` is written, prove its
   buffer bound and the hand-off to the registry.
3. **Liveness of the scheduler contract.** A fair version of
   `K8SJobsAbstract` in which every held job is eventually reported or
   dropped, checked as a property of `FairSpec`.
