\* The smallest results that can lose a row: a cursor that fails once it has
\* handed over a document.
CONSTANTS
    MaxRows = 2
    PageSize = 2
    MaxFrom = 0
SPECIFICATION Spec
INVARIANT NoRowLost
