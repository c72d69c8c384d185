SPECIFICATION FairSpec
CONSTANTS
    Catalogue <- MCCatalogue
    Intervals <- MCUnequal
    None = None
    Unreadable = Unreadable
    MaxRequests = 3
INVARIANT TypeOK
INVARIANT ShownAsAnnounced
PROPERTY PlayButtonTrue
PROPERTY RunButtonReturns
PROPERTY PlaybackEnds
\* A page whose catalogue could not be loaded does nothing more.
CHECK_DEADLOCK FALSE
