SPECIFICATION Spec
CONSTANTS
    Commands = {c1, c2, c3}
    NoCommand = NoCommand
    MaxTokens = 4
    MaxAdmissions = 2
SYMMETRY Symmetry
INVARIANTS
    TypeOK
    UsersKeepTheirWorkspace
    NothingIsLeftBehind
    AuthorityFollowsOwners
