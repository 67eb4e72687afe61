SPECIFICATION CaptchaSpec
CONSTANTS
    Flows = {s1, s2}
    Proxies = {p1, p2}
    None = None
INVARIANT
    OnlyThePersonEndsIt
