---------------------------- MODULE TaskOptions ----------------------------
(***************************************************************************)
(* Task-option resolution of the K8S executor and what one submission     *)
(* hands to the cluster (src/redun/executors/k8s.py):                      *)
(*                                                                         *)
(*   K8SExecutor.__init__      the executor-level default_task_options;    *)
(*   _get_job_options          defaults, then job options, then the merged *)
(*                             k8s_tags (config tags, identity tags, job   *)
(*                             tags);                                      *)
(*   submit_task               the k8s Job name from job_name_prefix and   *)
(*                             the eval hash, the options for k8s_submit   *)
(*                             chosen by get_k8s_job_options;              *)
(*   k8s_submit                the k8s Job object it creates.              *)
(*                                                                         *)
(* A Python dict is a TLA+ function on the set of its keys; {**a, **b} is  *)
(* DictUpdate(a, b).  Inputs are given as records whose Absent fields are  *)
(* keys the dict does not have.                                            *)
(***************************************************************************)
EXTENDS Naturals

CONSTANTS
    Values,        \* ints a config or a job may give vcpus, memory, timeout
    Prefixes,      \* job_name_prefix values
    TagKeys,       \* k8s tag keys
    TagValues,     \* k8s tag values
    IdentityKeys,  \* keys of the default identity tags (redun_job_id, ...)
    Identity,      \* the value of an identity tag
    Hash,          \* the job's eval hash
    Absent         \* a key a dict does not have

ASSUME OptionsAssumption ==
    /\ IdentityKeys \subseteq TagKeys
    /\ Absent \notin Values /\ Absent \notin Prefixes /\ Absent \notin TagValues
    /\ Absent \notin Nat /\ Absent # "None" /\ Identity # Absent

\* The dict a record of optional entries stands for.
AsDict(r) == [k \in {x \in DOMAIN r : r[x] # Absent} |-> r[k]]

\* {**under, **over}: the keys of both, the value of over winning.
DictUpdate(under, over) ==
    [k \in DOMAIN under \cup DOMAIN over |->
        IF k \in DOMAIN over THEN over[k] ELSE under[k]]

EmptyDict == [k \in {} |-> Absent]

TagDicts == UNION {[D -> TagValues] : D \in SUBSET TagKeys}

\* What redun.ini may say: vcpus, memory, job_name_prefix, k8s_tags (JSON),
\* default_k8s_tags.
Configs ==
    [vcpus : Values, memory : Values, prefix : Prefixes,
     k8sTags : TagDicts \cup {Absent}, defaultTags : BOOLEAN]

\* job.get_options(): the task's options and the job's overrides.
JobOptionRecords ==
    [vcpus : Values \cup {Absent}, timeout : Values \cup {Absent},
     job_name_prefix : Prefixes \cup {Absent}, k8s_tags : TagDicts \cup {Absent}]

VARIABLES
    config,       \* the executor's config section
    jobOptions,   \* job.get_options(), as a dict
    taskOptions,  \* what _get_job_options returned, Absent before
    k8sJob        \* the k8s Job object k8s_submit created, Absent before

ovars == <<config, jobOptions, taskOptions, k8sJob>>

-----------------------------------------------------------------------------
(* K8SExecutor.__init__: the executor-level task options, with gpus,      *)
(* retries and role at their unconfigured values (0, 1, None); k8s_tags   *)
(* only when the config has them.                                          *)
DefaultTaskOptions ==
    LET base == [vcpus |-> config.vcpus, gpus |-> 0, memory |-> config.memory,
                 retries |-> 1, role |-> "None", job_name_prefix |-> config.prefix]
    IN  IF config.k8sTags = Absent THEN base
        ELSE [k \in DOMAIN base \cup {"k8s_tags"} |->
                 IF k = "k8s_tags" THEN config.k8sTags ELSE base[k]]

\* The identity tags, when use_default_k8s_tags.
DefaultTags ==
    IF config.defaultTags THEN [k \in IdentityKeys |-> Identity] ELSE EmptyDict

\* A dict's entry, or the empty dict: d.get(key, {}).
TagsOf(d) == IF "k8s_tags" \in DOMAIN d THEN d["k8s_tags"] ELSE EmptyDict

(* {**self.default_task_options, **job_options}.                           *)
MergedOptions == DictUpdate(DefaultTaskOptions, jobOptions)

(* {**defaults k8s_tags, **default_tags, **job k8s_tags}.                  *)
MergedTagsIdentityLast ==  \* mutant: identity tags merged last
    DictUpdate(DictUpdate(TagsOf(DefaultTaskOptions), TagsOf(jobOptions)), DefaultTags)

MergedTags ==
    DictUpdate(DictUpdate(TagsOf(DefaultTaskOptions), DefaultTags), TagsOf(jobOptions))

(* _get_job_options: k8s_tags is set only when the merged tags are not     *)
(* empty.                                                                  *)
GetJobOptions ==
    IF DOMAIN MergedTags = {} THEN MergedOptions
    ELSE [k \in DOMAIN MergedOptions \cup {"k8s_tags"} |->
             IF k = "k8s_tags" THEN MergedTags ELSE MergedOptions[k]]

(* get_k8s_job_options: the keys forwarded to k8s_submit.  The merged tags *)
(* are under "k8s_tags"; the key forwarded is "batch_tags".                *)
GetK8sJobOptions(opts) ==
    LET keys == {"vcpus", "gpus", "memory", "role", "retries", "privileged",
                 "job_def_name", "autocreate_job", "timeout", "batch_tags"}
    IN  [k \in keys \cap DOMAIN opts |-> opts[k]]

(* get_k8s_job_name: "<prefix>-<hash>", the prefix defaulting to "k8s-job". *)
K8sJobName(opts) ==
    <<IF "job_name_prefix" \in DOMAIN opts THEN opts["job_name_prefix"]
      ELSE "k8s-job", Hash>>

(* k8s_submit: k8s_utils.create_job_object(job_name, image, command); none *)
(* of the keyword options reaches the object.                              *)
K8sSubmit(name, kwargs) == [name |-> name, options |-> EmptyDict]

-----------------------------------------------------------------------------
Init ==
    /\ config \in Configs
    /\ \E r \in JobOptionRecords : jobOptions = AsDict(r)
    /\ taskOptions = Absent
    /\ k8sJob = Absent

(* _submit (and _submit_single_job) call _get_job_options(job).            *)
ResolveOptions ==
    /\ taskOptions = Absent
    /\ taskOptions' = GetJobOptions
    /\ UNCHANGED <<config, jobOptions, k8sJob>>

(* submit_task, cluster mode, for one job: k8s_submit with the job name     *)
(* and get_k8s_job_options(job_options).                                   *)
SubmitTask ==
    /\ taskOptions # Absent
    /\ k8sJob = Absent
    /\ k8sJob' = K8sSubmit(K8sJobName(taskOptions), GetK8sJobOptions(taskOptions))
    /\ UNCHANGED <<config, jobOptions, taskOptions>>

ONext == ResolveOptions \/ SubmitTask

OSpec == Init /\ [][ONext]_ovars

-----------------------------------------------------------------------------
\* The tag a key should carry: the job's, else the identity tag, else the
\* configured one.
ExpectedTag(t) ==
    IF t \in DOMAIN TagsOf(jobOptions) THEN TagsOf(jobOptions)[t]
    ELSE IF config.defaultTags /\ t \in IdentityKeys THEN Identity
    ELSE IF t \in DOMAIN TagsOf(DefaultTaskOptions) THEN TagsOf(DefaultTaskOptions)[t]
    ELSE Absent

(* spec 4.1 and 8, tag merge precedence: the resolved k8s_tags hold every  *)
(* configured, identity and job tag, a job tag winning over an identity    *)
(* tag and both over a configured one ({a:1,b:2} + {b:3,c:4} is            *)
(* {a:1,b:3,c:4}).                                                         *)
TagPrecedence ==
    LET tagged == {t \in TagKeys : ExpectedTag(t) # Absent}
    IN  taskOptions # Absent /\ tagged # {} =>
            /\ "k8s_tags" \in DOMAIN taskOptions
            /\ DOMAIN taskOptions["k8s_tags"] = tagged
            /\ \A t \in tagged : taskOptions["k8s_tags"][t] = ExpectedTag(t)

(* spec 2 and 4.6: the resolved resources, timeout and tags configure the  *)
(* remote job ("timeout is a cluster-side configuration option").  The    *)
(* k8s Job k8s_submit creates carries every resolved vcpus, memory,        *)
(* timeout and k8s_tags value.                                             *)
OptionsReachCluster ==
    k8sJob # Absent =>
        \A k \in {"vcpus", "memory", "timeout", "k8s_tags"} \cap DOMAIN taskOptions :
            k \in DOMAIN k8sJob.options /\ k8sJob.options[k] = taskOptions[k]
=============================================================================
