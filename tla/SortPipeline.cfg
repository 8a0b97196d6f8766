SPECIFICATION FairSpec
CONSTANTS
    Fragments <- MCFragments
    Batches <- MCBatches
    Trials <- MCTrials
    XonLimit = 2
    XoffLimit = 3
    MaxBatches = 3
INVARIANTS PipelineInv MergeIsRight
PROPERTIES IsConduit XonAgain
