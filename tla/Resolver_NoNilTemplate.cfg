\* Every directory reachable by three edits, enough for the sibling and
\* include chain of the counterexample; every file is an entry.
CONSTANTS
    Order <- MCOrder
    Names <- MCNames
    DefNames <- MCDefNames
    Ext <- MCExt
    TemplateExt <- MCTemplateExt
    MaxInv = 2
    MaxEdits = 3
SPECIFICATION Spec
INVARIANT NoNilTemplate
