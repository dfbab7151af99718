------------------------------ MODULE JobName ------------------------------
(***************************************************************************)
(* The k8s Job names of the executor (src/redun/executors/k8s.py):         *)
(* get_k8s_job_name builds "<prefix>-<hash>[-array]", is_array_job_name    *)
(* tests the suffix, and get_hash_from_job_name recovers the eval hash     *)
(* that gather_inflight_jobs uses as the reunification key.  K8SExecutor  *)
(* represents a Job name by the hash it encodes; this module checks that   *)
(* the parser gives back exactly that hash.                                *)
(*                                                                         *)
(* A string is a sequence of tokens: "-", "x" standing for a character    *)
(* that is neither "-" nor one of a, r, y, and "array" standing for those *)
(* five letters.  Distinct sequences spell distinct strings, and "-array" *)
(* is the token pair <<"-", "array">>.  Eval hashes are hex digests: a     *)
(* sequence of "x" (their r- and y-free letters).                          *)
(***************************************************************************)
EXTENDS Naturals, Sequences, FiniteSets

CONSTANTS
    Prefixes,   \* job_name_prefix values, as token sequences
    HashSet,    \* eval hashes, as token sequences
    NoMatch     \* None

Dash == "-"
ArraySuffix == <<Dash, "array">>   \* "-" + ARRAY_JOB_SUFFIX

Tokens == {"x", Dash, "array"}

\* job_name_prefix is any string; an eval hash is a non-empty hex digest.
ASSUME NameAssumption ==
    /\ Prefixes \subseteq Seq(Tokens)
    /\ HashSet \subseteq Seq({"x"}) \ {<<>>}

EndsWith(s, t) == Len(s) >= Len(t) /\ SubSeq(s, Len(s) - Len(t) + 1, Len(s)) = t

NoDash(s) == \A i \in 1..Len(s) : s[i] # Dash

(* is_array_job_name: job_name.endswith("-array").                         *)
IsArrayJobName(s) == EndsWith(s, ArraySuffix)

(* get_k8s_job_name: "{prefix}-{hash}" plus "-array" for an array job.     *)
GetK8sJobName(prefix, hash, array) ==
    prefix \o <<Dash>> \o hash \o (IF array THEN ArraySuffix ELSE <<>>)

\* re.match(".*-(?P<hash>[^-]+)", s): the greedy ".*" backtracks to the last
\* "-" followed by a character other than "-"; the group takes the run of
\* such characters after it.  re.match anchors at the start only.
LastSplitNonGreedy(s) ==  \* mutant: ".*?-", the first such "-"
    LET I == {i \in 1..(Len(s) - 1) : s[i] = Dash /\ s[i + 1] # Dash}
    IN  CHOOSE i \in I : \A k \in I : i <= k

LastSplit(s) ==
    LET I == {i \in 1..(Len(s) - 1) : s[i] = Dash /\ s[i + 1] # Dash}
    IN  CHOOSE i \in I : \A k \in I : k <= i

HashGroup(s) ==
    IF \E i \in 1..(Len(s) - 1) : s[i] = Dash /\ s[i + 1] # Dash
    THEN LET i == LastSplit(s)
             e == CHOOSE e \in (i + 1)..Len(s) :
                     /\ NoDash(SubSeq(s, i + 1, e))
                     /\ e = Len(s) \/ s[e + 1] = Dash
         IN  SubSeq(s, i + 1, e)
    ELSE NoMatch

(* get_hash_from_job_name: strip a "-array" suffix, then the regex; None   *)
(* when it does not match.                                                 *)
GetHashFromJobName(s) ==
    HashGroup(IF EndsWith(s, ArraySuffix)
              THEN SubSeq(s, 1, Len(s) - Len(ArraySuffix)) ELSE s)

(* gather_inflight_jobs, for one listed Job name: the hash a non-array     *)
(* name yields, if any (the "if job_hash" test drops None).                *)
GatheredHash(s) ==
    IF IsArrayJobName(s) THEN NoMatch ELSE GetHashFromJobName(s)

-----------------------------------------------------------------------------
\* The executor submits a name and, in a later process, lists it again.
VARIABLES name, array

Init ==
    /\ name = <<>>
    /\ array = FALSE

(* submit_task (or _submit_array_job) names a new k8s Job.                 *)
NameJob ==
    /\ name = <<>>
    /\ \E p \in Prefixes, h \in HashSet, a \in BOOLEAN :
          name' = GetK8sJobName(p, h, a) /\ array' = a

Next == NameJob

Spec == Init /\ [][Next]_<<name, array>>

\* The hash and prefix a name was built from.
Built(p, h, a) == name = GetK8sJobName(p, h, a) /\ array = a

(* spec 6, naming convention: a Job named after a job's eval hash is found *)
(* again under that hash by gather_inflight_jobs, whatever "-" the prefix  *)
(* holds, and an array Job is never taken for a single job; the parser     *)
(* also gives the hash back from an array Job's name.                      *)
NameRoundTrip ==
    name # <<>> =>
        \A p \in Prefixes, h \in HashSet :
            Built(p, h, array) =>
                /\ GetHashFromJobName(name) = h
                /\ IsArrayJobName(name) = array
                /\ GatheredHash(name) = IF array THEN NoMatch ELSE h
=============================================================================
