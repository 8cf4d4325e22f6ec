SPECIFICATION Spec
CONSTANTS
    Requests = {r1, r2}
    r1 = r1
    r2 = r2
    ProfileSeq <- TwoProfiles
    Deployments <- TwoDeployments
SYMMETRY Symmetry
INVARIANT DecisionIsCurrent
INVARIANT ListingIsPrepared
INVARIANT StrangersLearnNothing
