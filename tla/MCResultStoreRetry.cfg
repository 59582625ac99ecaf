SPECIFICATION Spec
CONSTANTS
    w1 = w1
    w2 = w2
    None = None
    Torn = Torn
    Writers <- MCWriters
    Bundles <- MCBundles
    Publications <- MCPublications
    Policies <- MCPolicies
    MaxErrors = 1
    MaxKills = 1
INVARIANTS
    RetryFinishesPromotion
