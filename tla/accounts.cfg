\* Registrations of one address, logins and identified requests.
CONSTANTS
    ada = ada  Ada = Ada  pw1 = pw1  pw2 = pw2
    Requests = {p1, p2, p3}
    Spellings = {ada, Ada}
    lower <- Lowercase
    Passwords = {pw1, pw2}
    AuthInputs <- SameAddress
SPECIFICATION FairSpec
INVARIANTS AccountsInv OneAccountPerEmail TokensNameTheirOwner ConflictMeansTaken
PROPERTIES RegisteredCanLogIn DeactivationRevokes EveryRequestAnswered
