\* No I/O fault: a kill while the current file is written.
SPECIFICATION Spec
CONSTANTS
    ssid = ssid
    region = region
    Names <- MCNames
    Values <- MCValues
    Factory <- MCFactory
    Custom <- MCCustom
    Bootstrap <- MCBootstrap
    Offers <- MCOffers
    OneTime <- MCOneTime
    IoFaults = FALSE
    Missing = Missing
INVARIANT FailsOver
