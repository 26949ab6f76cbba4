\* Two clicks, two offers, two candidates.
CONSTANTS
    Ids = {i1, i2}
    NoId = NoId
    MaxClicks = 2
    MaxOffers = 2
    MaxIce = 2
SPECIFICATION FairSpec
INVARIANTS AnswerFitsOffer AsksForOne NoEarlyCandidate CandidateOnce SessionsNeverMix CacheDrained
PROPERTIES OfferAnswered
CHECK_DEADLOCK FALSE
