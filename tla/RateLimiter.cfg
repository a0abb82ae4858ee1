SPECIFICATION Spec
CONSTANTS
  Buckets = {"ip:key1", "ip:key2"}
  Shards = 2
  ShardOf <- MCShardOf
  Max = 2
  Window = 2
  MaxLag = 2
  NoTracker = NoTracker
  NoAnswer = NoAnswer
  Asleep = Asleep
INVARIANTS
  TypeOK
  SlidingBound
  PassForgets
PROPERTIES
  ImplementsFixedWindow
  IdleBucketsForgotten
