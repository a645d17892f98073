SPECIFICATION Spec
CONSTANTS
    Requests = {r1, r2}
    Ids = {1, 2, 3}
    None = None
    EmailTexts <- Emails
    NameTexts <- Names
SYMMETRY Symmetry
INVARIANTS
    TypeOK
    EmailOnlyToOwner
    SpellingsMeet
PROPERTIES
    OnlyOwnerChanges
