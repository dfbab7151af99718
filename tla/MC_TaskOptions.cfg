\* Every config (vcpus, memory, prefix, tags, default_k8s_tags) and every
\* job's options over two values, two prefixes and two tag keys.
CONSTANTS
    Values = {1, 2}
    Prefixes = {"redun-job", "p"}
    TagKeys <- MCTagKeys
    TagValues = {"x", "y"}
    IdentityKeys <- MCIdentityKeys
    Identity = "identity"
    Hash = "h"
    Absent = Absent
SPECIFICATION OSpec
INVARIANT TagPrecedence
CHECK_DEADLOCK FALSE
