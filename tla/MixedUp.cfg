SPECIFICATION Spec
CONSTANTS
  k1 = k1
  k2 = k2
  k3 = k3
  k4 = k4
  Keys = {k1, k2}
  Ids = {"primary", "previous", "kek-2"}
  Suffixes = {"KEK_2", "kek_2"}
  SuffixId <- MCSuffixId
  Unset = Unset
  BadHex = BadHex
  NoKey = NoKey
  Tenants = {"default", "acme", ""}
  TenantVars = {"ACME"}
  TenantOf <- MCTenantOf
  NoStore = NoStore
  AlgNames = {"", "aes-256-gcm", " AES-256-GCM", "chacha20-poly1305", "x25519", "3des"}
  Normal <- MCNormal
  BadB64 = BadB64
  BadNonce = BadNonce
  Garbage = Garbage
  EmptyPart = EmptyPart
  TooLong = TooLong
  OverSize = OverSize
  Absent = Absent
  Down = Down
  NoReply = NoReply
  Refused = Refused
  UnknownKeyId = UnknownKeyId
  DecryptionFailed = DecryptionFailed
  Faults = {BadB64, BadNonce, Garbage, EmptyPart, TooLong}
  Deks = {d1, d2}
  Plaintexts = {p1, p2}
  Purposes = {"default", ""}
  Environments <- MixEnvironments
SYMMETRY Symmetry
INVARIANTS
  TypeOK
  Authentic
