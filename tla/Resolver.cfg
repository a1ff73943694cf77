\* Every directory reachable by four edits, enough for the fragment and
\* include chains a mutant must break; every file is an entry.
CONSTANTS
    Order <- MCOrder
    Names <- MCNames
    DefNames <- MCDefNames
    Ext <- MCExt
    TemplateExt <- MCTemplateExt
    MaxInv = 2
    MaxEdits = 4
SPECIFICATION Spec
INVARIANT ParentRelativeResolution
INVARIANT IncludesBound
INVARIANT SiblingFragmentsBound
