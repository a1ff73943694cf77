\* Two namespaces, one route and two filters (Cond, Filter), prefixes and
\* paths of up to three segments: is every route and filter mounted on the
\* application placed at the prefixes it was mounted through?
CONSTANTS
    n1 = n1
    n2 = n2
    App = App
    Namespaces <- MCNamespaces
    Prefix <- MCPrefix
    Segs <- MCSegs
    StrPrefix <- MCStrPrefix
    MaxObjs = 1
    MaxFilters = 2
    MaxDepth = 3
SPECIFICATION Spec
INVARIANT MountedAtPrefix
CHECK_DEADLOCK FALSE
