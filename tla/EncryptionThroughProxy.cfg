\* The filters as the proxy calls them: one filter chain, one plain batch.
SPECIFICATION Spec
CONSTANTS
  MaxInt16 = 2
  MaxArrayLength = 3
  MaxRequestSize = 642
  Configured <- MCConfigured
  Bare = {FALSE}
  Batches <- PlainBatches
  Versions = {9}
  ReplyCases = {}
  Rewrite <- RewriteReply
  AcksCases = {}
  RecordCases = {}
  MaxLog = 1
  MaxRestarts = 0
INVARIANT EncryptsOnProduce
