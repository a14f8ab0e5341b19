SPECIFICATION MetricsSpec
CONSTANTS
  JsonlQueue <- MCJsonlQueue
  HttpQueue <- MCHttpQueue
  BatchSize <- MCBatchSize
  MaxSeq <- MCMaxSeq
INVARIANTS MetricsTypeOK ExitKeepsRecords
PROPERTIES RefinesChannel SinksEnd
\* The process ends.
CHECK_DEADLOCK FALSE
