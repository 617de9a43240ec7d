\* Two encryption filters, two batches in the log, one restart; replies of all versions.
SPECIFICATION Spec
CONSTANTS
  MaxInt16 = 2
  MaxArrayLength = 3
  MaxRequestSize = 642
  Configured <- MCConfigured
  Bare = {TRUE,FALSE}
  Batches <- MCBatches
  Versions = {9,13}
  ReplyCases <- MCReplyCases
  Rewrite <- RewriteReply
  AcksCases <- MCAcksCases
  RecordCases <- MCRecordCases
  MaxLog = 2
  MaxRestarts = 1
INVARIANTS TypeOK StoredAsEncrypted RestoredOrRefused RecordLengthsAgree ReplyIsFaithful AcksJudgedRight
