-------------------------- MODULE TaskOptionsProofs --------------------------
(* _get_job_options resolves options and tags as the spec orders them, for *)
(* every config, every job's options and every set of tag keys.            *)
EXTENDS TaskOptions, TLAPS

USE OptionsAssumption

\* The state is the config, the job's options and, once resolved, exactly
\* what _get_job_options returns for them.
OInv ==
    /\ config \in Configs
    /\ \E r \in JobOptionRecords : jobOptions = AsDict(r)
    /\ taskOptions \in {Absent, GetJobOptions}

LEMMA OInvInductive == OSpec => []OInv
<1>1. Init => OInv
  BY DEF Init, OInv
<1>2. OInv /\ [ONext]_ovars => OInv'
  <2>. SUFFICES ASSUME OInv, [ONext]_ovars PROVE OInv'
    OBVIOUS
  <2>1. UNCHANGED <<config, jobOptions>>
    BY DEF ONext, ResolveOptions, SubmitTask, ovars
  <2>2. GetJobOptions' = GetJobOptions
    BY <2>1 DEF GetJobOptions, MergedOptions, MergedTags, DefaultTaskOptions,
                DefaultTags, TagsOf
  <2>3. taskOptions' \in {taskOptions, GetJobOptions}
    BY DEF ONext, ResolveOptions, SubmitTask, ovars
  <2>. QED BY <2>1, <2>2, <2>3 DEF OInv
<1>. QED BY <1>1, <1>2, PTL DEF OSpec

-----------------------------------------------------------------------------
(* Facts about the inputs: no entry of a dict is Absent.                   *)
LEMMA JobOptionsShape ==
    ASSUME NEW r \in JobOptionRecords
    PROVE  /\ DOMAIN AsDict(r) \subseteq {"vcpus", "timeout", "job_name_prefix", "k8s_tags"}
           /\ \A k \in DOMAIN AsDict(r) : AsDict(r)[k] # Absent
           /\ TagsOf(AsDict(r)) \in TagDicts
<1>1. DOMAIN AsDict(r) = {x \in {"vcpus", "timeout", "job_name_prefix", "k8s_tags"} :
                            r[x] # Absent}
  BY DEF AsDict, JobOptionRecords
<1>2. \A k \in DOMAIN AsDict(r) : AsDict(r)[k] = r[k]
  BY DEF AsDict
<1>3. EmptyDict \in TagDicts
  <2>1. EmptyDict \in [{} -> TagValues]
    BY DEF EmptyDict
  <2>. QED BY <2>1 DEF TagDicts
<1>4. TagsOf(AsDict(r)) \in TagDicts
  <2>1. CASE r.k8s_tags # Absent
    BY <1>1, <1>2, <2>1 DEF TagsOf, JobOptionRecords
  <2>2. CASE r.k8s_tags = Absent
    BY <1>1, <1>3, <2>2 DEF TagsOf
  <2>. QED BY <2>1, <2>2
<1>. QED BY <1>1, <1>2, <1>4

LEMMA DefaultsShape ==
    ASSUME config \in Configs
    PROVE  /\ \A k \in DOMAIN DefaultTaskOptions \ {"k8s_tags"} :
                 DefaultTaskOptions[k] # Absent
           /\ TagsOf(DefaultTaskOptions) \in TagDicts
           /\ DefaultTags \in [(IF config.defaultTags THEN IdentityKeys ELSE {}) -> {Identity}]
<1>1. EmptyDict \in TagDicts
  <2>1. EmptyDict \in [{} -> TagValues]
    BY DEF EmptyDict
  <2>. QED BY <2>1 DEF TagDicts
<1>2. \A k \in DOMAIN DefaultTaskOptions \ {"k8s_tags"} : DefaultTaskOptions[k] # Absent
  BY DEF DefaultTaskOptions, Configs
<1>3. TagsOf(DefaultTaskOptions) \in TagDicts
  <2>1. CASE config.k8sTags = Absent
    BY <1>1, <2>1 DEF TagsOf, DefaultTaskOptions
  <2>2. CASE config.k8sTags # Absent
    BY <2>2 DEF TagsOf, DefaultTaskOptions, Configs
  <2>. QED BY <2>1, <2>2
<1>4. DefaultTags \in [(IF config.defaultTags THEN IdentityKeys ELSE {}) -> {Identity}]
  BY DEF DefaultTags, EmptyDict
<1>. QED BY <1>2, <1>3, <1>4

-----------------------------------------------------------------------------
(* The tags: the merged tags are defined exactly on the keys some layer   *)
(* sets, with the value ExpectedTag names.                                 *)
LEMMA TagsResolved ==
    ASSUME config \in Configs, NEW r \in JobOptionRecords, jobOptions = AsDict(r)
    PROVE  /\ DOMAIN MergedTags = {t \in TagKeys : ExpectedTag(t) # Absent}
           /\ \A t \in DOMAIN MergedTags : MergedTags[t] = ExpectedTag(t)
<1>. DEFINE cfgTags == TagsOf(DefaultTaskOptions)
            jobTags == TagsOf(jobOptions)
<1>1. cfgTags \in TagDicts /\ jobTags \in TagDicts
  BY JobOptionsShape, DefaultsShape
<1>2. /\ DOMAIN cfgTags \subseteq TagKeys /\ \A t \in DOMAIN cfgTags : cfgTags[t] \in TagValues
      /\ DOMAIN jobTags \subseteq TagKeys /\ \A t \in DOMAIN jobTags : jobTags[t] \in TagValues
  BY <1>1 DEF TagDicts
<1>3. DefaultTags \in [(IF config.defaultTags THEN IdentityKeys ELSE {}) -> {Identity}]
  BY DefaultsShape
<1>4. DOMAIN MergedTags = DOMAIN cfgTags \cup DOMAIN DefaultTags \cup DOMAIN jobTags
  BY DEF MergedTags, DictUpdate
<1>5. \A t \in DOMAIN MergedTags :
         MergedTags[t] = IF t \in DOMAIN jobTags THEN jobTags[t]
                         ELSE IF t \in DOMAIN DefaultTags THEN DefaultTags[t]
                         ELSE cfgTags[t]
  BY <1>4 DEF MergedTags, DictUpdate
<1>6. \A t \in TagKeys :
         ExpectedTag(t) = IF t \in DOMAIN jobTags THEN jobTags[t]
                          ELSE IF t \in DOMAIN DefaultTags THEN Identity
                          ELSE IF t \in DOMAIN cfgTags THEN cfgTags[t]
                          ELSE Absent
  BY <1>3 DEF ExpectedTag
<1>. QED BY <1>2, <1>3, <1>4, <1>5, <1>6

-----------------------------------------------------------------------------
(* Tag merge precedence (TagPrecedence, checked by the run task_options):  *)
(* the resolved k8s_tags hold exactly the configured, identity and job     *)
(* tags, a job tag winning over an identity tag and both over a configured *)
(* one, for every config, job and set of tag keys.                         *)
THEOREM TagPrecedenceHolds == OSpec => []TagPrecedence
<1>1. OInv => TagPrecedence
  <2>. DEFINE tagged == {t \in TagKeys : ExpectedTag(t) # Absent}
  <2>. SUFFICES ASSUME OInv, taskOptions # Absent, tagged # {}
                PROVE  /\ "k8s_tags" \in DOMAIN taskOptions
                       /\ DOMAIN taskOptions["k8s_tags"] = tagged
                       /\ \A t \in tagged : taskOptions["k8s_tags"][t] = ExpectedTag(t)
    BY DEF TagPrecedence
  <2>1. taskOptions = GetJobOptions
    BY DEF OInv
  <2>2. PICK r \in JobOptionRecords : jobOptions = AsDict(r)
    BY DEF OInv
  <2>3. DOMAIN MergedTags = tagged /\ \A t \in tagged : MergedTags[t] = ExpectedTag(t)
    BY <2>2, TagsResolved DEF OInv
  <2>4. "k8s_tags" \in DOMAIN GetJobOptions /\ GetJobOptions["k8s_tags"] = MergedTags
    BY <2>3 DEF GetJobOptions
  <2>. QED BY <2>1, <2>3, <2>4
<1>. QED BY <1>1, OInvInductive, PTL
=============================================================================
