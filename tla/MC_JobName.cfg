\* Every prefix of up to three tokens and every hash of up to three hex
\* characters, as single and as array Job names.
CONSTANTS
    Prefixes <- MCPrefixes
    HashSet <- MCHashSet
    NoMatch = NoMatch
SPECIFICATION Spec
INVARIANT NameRoundTrip
CHECK_DEADLOCK FALSE
