\* A bucket of 6 bytes refilled at 1 byte per ms, packets of 2 and 7 bytes
\* at priorities 0 and 1, two enqueue calls and 4 ms: the 2-byte packets
\* always fit in the bucket, the 7-byte one never does.
CONSTANTS
  Sizes = {2, 7}
  Priorities = {0, 1}
  InitBitrate = 8000
  Bitrates = {8000}
  BucketSize = 6
  MaxQueueSize = 2
  MaxEnqueues = 2
  MaxTime = 4
SPECIFICATION LiveSpec
PROPERTY FittingPacketsLeave
