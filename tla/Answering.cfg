SPECIFICATION FairSpec
CONSTANTS
    ahead = ahead
    behind = behind
    anna = anna
    boris = boris
    guest = guest
    NoUser = NoUser
    NoProvider = NoProvider
    Users <- MCUsers
    Providers <- MCProviders
    ProviderOf <- MCProviderOf
    OffsetOf <- MCOffsetOf
    Bookings <- MCBookings
    Services <- MCServices
    Slots <- MCSlots
    Calendar <- MCCalendar
    Changing <- MCChanging
    Messages <- MCMessages
    Now <- MCNow
    PageSize = 2
    Refusals = {"upstream", "rate_limit"}
    Pieces = 2
    MaxMessages = 2
    MaxChanges = 1
    MaxFaults = 1
CHECK_DEADLOCK FALSE
INVARIANTS
    TypeOK
    ProviderIsActors
    OfferedFits
    ClaimsAreTrue
    ListIsWhole
    SlotsAreNext
    ActsOnFinishedAnswer
PROPERTIES EveryMessageEnds
