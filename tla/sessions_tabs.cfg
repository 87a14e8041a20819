CONSTANTS
    desktop = desktop
    laptop = laptop
    first = first
    second = second
    third = third
    Browsers = {desktop, laptop}
    Tabs = {first, second, third}
    BrowserOf <- TwoBrowsers
    MaxTokens = 3
    MaxMishaps = 1
SPECIFICATION Spec
CHECK_DEADLOCK FALSE
SYMMETRY TabSymmetry
INVARIANTS
    TypeOK
    CookieIsCurrent
    SignOutRevokes
PROPERTIES
    RevocationIsFinal
