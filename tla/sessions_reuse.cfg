CONSTANTS
    desktop = desktop
    laptop = laptop
    first = first
    second = second
    third = third
    Browsers = {desktop, laptop}
    Tabs = {first, third}
    BrowserOf <- OneTabEach
    MaxTokens = 3
    MaxMishaps = 1
SPECIFICATION Spec
CHECK_DEADLOCK FALSE
PROPERTIES
    ReuseRevokesAll
