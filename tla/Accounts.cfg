SPECIFICATION Spec
CONSTANTS
    Users = {u1, u2}
    Browsers = {b1, b2}
    Numbers = {n1, n2}
    Tans = {t1, t2}
    Links = {l1, l2}
    MaxFaults = 1
    None = None
CONSTRAINT TwoRows
CONSTRAINT SettingsApart
SYMMETRY Symmetry
INVARIANT TypeOK
INVARIANT TokenIffSms
INVARIANT OneLoginPerToken
INVARIANT TwoFactors
INVARIANT NumberWasCalled
INVARIANT OneChangePerLink
INVARIANT NewestLinkWorks
INVARIANT LinksAreMailed
CHECK_DEADLOCK FALSE
