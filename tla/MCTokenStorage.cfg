CONSTANTS
    Files = {f1, f2}
    Tokens = {t1, t2}
    Migrations = {m1, m2}
    Resets = {r1, r2}
    Malformed = Malformed
    None = None
    MaxBusy = 2
SPECIFICATION TokenSpec
INVARIANTS
    NoResurrection
    SavedTokenStays
    CrashKeepsAToken
CONSTRAINT FewBusy
SYMMETRY Symmetry
