SPECIFICATION Spec
CONSTANTS
    Clients = {1, 2}
    Asks <- MCAsks
    Lists <- MCLists
    Static <- MCStatic
    Aliases <- MCAliases
    Overrides <- MCOverrides
    Local <- MCLocal
    Claude <- MCClaude
    Family <- MCFamily
    Version <- MCVersion
    MaxVersion = 50
    DefaultModel = "opus-4.8"
    SearchModel = "sol"
INVARIANTS
    ModelIsMeant
    EffortSupported
    RoutedAsListed
    AdvertisedIsRouted
