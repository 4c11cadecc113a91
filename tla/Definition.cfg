SPECIFICATION Spec
CONSTANTS
    FileType <- Files
    Ipv6Hosts <- Hosts
    Caps <- HostCaps
    DisableKvm = FALSE
    Unit = 8
    DefaultNetwork = {"default"}
    Guests <- MCGuests
    Systems <- MCSystems
    Changes <- MCChanges
    NewResources <- MCNew
    SystemChanges <- MCSystemChanges
    Outside <- MCOutside
    MaxRequests = 2
PROPERTY OthersKept
PROPERTY OnlyAsked
PROPERTY ReadsBack
CHECK_DEADLOCK FALSE
