SPECIFICATION Spec
CONSTANTS
  NumBlocks = 4
  BlockSize = 2
  r1 = r1
  r2 = r2
  r3 = r3
  Requests = {r1, r2, r3}
  Text <- Texts
  PromptLen <- Prompts
  ReportFull = {r1}
  Priority = FALSE
  Rank <- RankOf
INVARIANTS RefsAreHolders HashesAgree TablesHoldOwnKV NoPhantom PrefixClosed FaultFree CachedKVRight
PROPERTIES
  InUseUndisturbed
