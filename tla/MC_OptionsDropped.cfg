\* The options one submission resolved, against the k8s Job it creates.
CONSTANTS
    Values = {1, 2}
    Prefixes = {"redun-job", "p"}
    TagKeys <- MCTagKeys
    TagValues = {"x", "y"}
    IdentityKeys <- MCIdentityKeys
    Identity = "identity"
    Hash = "h"
    Absent = Absent
SPECIFICATION OSpec
CHECK_DEADLOCK FALSE
INVARIANT OptionsReachCluster
