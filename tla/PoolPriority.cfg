SPECIFICATION Spec
CONSTANTS
  NumBlocks = 5
  BlockSize = 2
  r1 = r1
  r2 = r2
  r3 = r3
  Requests = {r1, r2, r3}
  Text <- Texts
  PromptLen <- Prompts
  ReportFull = {r1}
  Priority = TRUE
  Rank <- RankOf
INVARIANTS
  CachedKVRight
