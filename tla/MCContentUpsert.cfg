SPECIFICATION FairSpec
CONSTANTS
    Searches = {r1, r2, r3}
    Bodies <- Pages
    IdsFor <- TwoIds
INVARIANTS
    ContentInv
    OnlyRankingsCollide
PROPERTIES
    CatalogueSpec
    EveryRequestEnds
