\* Credential side: TOTP construction, one-time passwords, verify, and Auth's
\* token expiry against the broker's.
CONSTANTS
    Throws_ = Throws_
    None_ = None_
    Absent_ = Absent_
    NonInt_ = NonInt_
    Fresh_ = Fresh_
    Throws <- Throws_
    None <- None_
    Absent <- Absent_
    NonInt <- NonInt_
    Fresh <- Fresh_
    Hmac <- MCHmac
    Skew = 1
    Secrets <- MCSecrets
    DigitChoices = {5, 6, 8}
    PeriodChoices = {0, 1, 2}
    AlgoChoices = {"SHA1"}
    Windows = {0, 1, 2}
    LoginShapes <- MCLoginShapes
    RefreshShapes <- MCRefreshShapes
    Lifetime <- MCLifetime
    MaxTime = 4
    MaxIssue = 2
    MaxRtt = 2
SPECIFICATION Spec
INVARIANTS
    TypeOK
    SecretDecodesRFC4648
    CodeMatchesRFC
    VerifyMatchesWindow
    ExpiryConservative
    RequestTargetMatchesRfc3986
\* The clock stops at MaxTime and the broker issues at most MaxIssue tokens:
\* the session then has nothing left to do.
CHECK_DEADLOCK FALSE
