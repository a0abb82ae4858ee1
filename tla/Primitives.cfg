SPECIFICATION MCSpec
CONSTANTS
  Tenants <- MCTenants
  Purposes <- MCPurposes
  Ids <- MCIds
  Algorithms <- MCAlgorithms
  Aes <- MCAes
  AlgNames = {"", "sha256", "sha-256", " SHA256", "sha512", "sha-512", "sha3-256", "sha3_256",
              "blake2b", "blake2b-512", "blake2b512", "aes-256-gcm", "md5"}
  Normal <- MCNormal
  Data = {d1, d2}
  d1 = d1
  BadB64 = BadB64
  NoDigest = NoDigest
INVARIANTS
  TypeOK
  BindsMetadata
  HashTypeOK
  OneNameOneDigest
