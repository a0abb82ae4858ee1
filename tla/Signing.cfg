SPECIFICATION Spec
CONSTANTS
  AlgNames = {"", "aes-256-gcm", "rsa-pss"}
  Normal <- MCNormal
  NamesRsa = {"rsa-pss"}
  Workers = {w1, w2}
  Tenants = {t1, t2, other}
  Messages = {m1}
  RsaKeys = {r1, r2}
  Shards = {1, 2}
  ShardOf <- MCShardOf
  MaxKept = 1
  BadB64 = BadB64
  Garbage = Garbage
  NoKey = NoKey
  NoSig = NoSig
  Idle = Idle
  Refused = Refused
  other = other
  Free = Free
INVARIANTS
  TypeOK
  VerifiesWhatWasSigned
  LockedWhileGenerating
PROPERTIES
  ImplementsKeyOnce
  ShardsServe
