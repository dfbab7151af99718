--------------------------- MODULE MC_TaskOptions ---------------------------
EXTENDS TaskOptions

\* Two tag keys: one only a config or a job sets, one that is also an
\* identity tag, so that all three layers can collide on a key.
MCTagKeys == {"a", "redun_job_id"}
MCIdentityKeys == {"redun_job_id"}
=============================================================================
