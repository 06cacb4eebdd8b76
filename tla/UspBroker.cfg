\* Two services with overlapping paths, one over both sockets; a subscription to one node and
\* one to another and 'Device.'; a table for one service or for both; one failure anywhere.
SPECIFICATION Spec
VIEW View
CONSTRAINT Short
CONSTANTS
    Services <- MCServices
    Uses <- MCUses
    MaxServices = {1, 2}
    Nodes <- MCNodes
    CoreNodes <- MCCore
    Offers <- MCOffers
    Trusted <- MCTrusted
    GsdmAnswers <- MCAnswers
    Subs = {1, 2}
    Specs <- MCSpecs
    LateAnswers = FALSE
    Ids = {1, 2, 3, 4, 5, 6, 7, 8}
    MaxFaults = 1
INVARIANTS
    NoOverlap
    OwnedIsRegistered
    BrokerInv
PROPERTY NoTheft
CHECK_DEADLOCK FALSE
