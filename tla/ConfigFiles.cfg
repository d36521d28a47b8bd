CONSTANTS
    Characters = {"s", "n", "k", "y", "u", "8", "?"}
    KeyBuffer = 5
    UrlBuffer = 4
    PortBuffer = 4
    Answers <- SomeAnswers
    Keys <- SomeKeys
    Urls <- SomeUrls
    Ports <- SomePorts
    Garbage <- SomeGarbage
    MayClose = TRUE
    MaxStarts = 3
SPECIFICATION FairSpec
INVARIANTS
    TypeOK
    InputAligned
    FileHoldsConfig
PROPERTIES
    GreeterEnds
