\* Any I/O call may fail, the process and the power at any point.
SPECIFICATION Spec
CONSTANTS
    ssid = ssid
    region = region
    Names <- MCNames
    Values <- MCValues
    Factory <- MCFactory
    Custom <- MCCustom
    Bootstrap <- MCBootstrap
    Offers <- MCOffers
    OneTime <- MCOneTime
    IoFaults = TRUE
    Missing = Missing
INVARIANTS
    TypeOK
    WholeIsKnown
    SuccessIsDurable
    LoadsTheMerge
