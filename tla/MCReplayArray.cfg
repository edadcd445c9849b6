SPECIFICATION FairSpec
CONSTANTS
    gpu_1 = gpu_1
    gpu_2 = gpu_2
    node = node
    full_ensemble = full_ensemble
    cosine_mlp = cosine_mlp
    lda_mlp = lda_mlp
    mlp_lda = mlp_lda
    cosine = cosine
    lda = lda
    mlp = mlp
    Nothing = Nothing
    Combos <- MCCombos
    Sweeps <- MCSweeps
    FirstScorer <- MCFirstScorer
    Seeds = {1}
    JudgedPairs = {1}
    Workers <- MCWorkers
    NodeOf <- MCNodeOf
    MaxKills = 2
    MaxForces = 1
INVARIANTS
    CompleteMeansFinished
    TableIsWhole
PROPERTIES
    PairsPaidOnce
    EveryTaskCompletes
