SPECIFICATION TenantSpec
CONSTANTS
  k1 = k1
  k2 = k2
  k3 = k3
  Keys = {k1, k2, k3}
  Ids = {"primary", "previous", "kek-2", "kek-3"}
  Suffixes = {"PRIMARY", "previous", "KEK_2"}
  SuffixId <- MCSuffixId
  Unset = Unset
  BadHex = BadHex
  NoKey = NoKey
  Tenants = {"default", "acme", ""}
  TenantVars = {"ACME"}
  TenantOf <- MCTenantOf
  NoStore = NoStore
  AlgNames = {"", "aes-256-gcm"}
  Normal <- MCNormal
  BadB64 = BadB64
  BadNonce = BadNonce
  Garbage = Garbage
  EmptyPart = EmptyPart
  TooLong = TooLong
  OverSize = OverSize
  Absent = Absent
  Down = Down
  NoReply = NoReply
  Refused = Refused
  UnknownKeyId = UnknownKeyId
  DecryptionFailed = DecryptionFailed
  Faults = {}
  Deks = {d1}
  Plaintexts = {p1}
  Purposes = {"default", ""}
  Environments <- MCEnvironments
INVARIANTS
  NoDataLoss
