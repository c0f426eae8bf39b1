SPECIFICATION Spec
CONSTANTS
    c1 = c1
    c2 = c2
    alice = alice
    bob = bob
    Conns <- MCConns
    Names <- MCNames
    Blank = Blank
    Passwords = {p1, p2}
    Short = Short
    Long = Long
    Forged = Forged
    Nothing = Nothing
    TokenLife = 1
    MaxUsers = 2
    MaxTime = 1
    DbMayFail = TRUE
SYMMETRY Symmetry
INVARIANTS TypeOK TokensNameTheirUser ProofIsFresh
PROPERTIES CredentialsWork
