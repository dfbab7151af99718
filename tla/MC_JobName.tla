---------------------------- MODULE MC_JobName ----------------------------
EXTENDS JobName

\* Token strings of length at most n.
MCStrings(S, n) == UNION {[1..k -> S] : k \in 0..n}

\* Prefixes of up to three tokens, "-" and "array" included (the default is
\* "redun-job", which holds a "-"); hex hashes of one to three characters.
MCPrefixes == MCStrings({"x", "-", "array"}, 3)
MCHashSet == MCStrings({"x"}, 3) \ {<<>>}
=============================================================================
