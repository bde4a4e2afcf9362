SPECIFICATION Spec
CONSTANTS
  Walker = {w1}
  RRType = {"A", "CNAME", "DNAME", "DNSKEY", "DS", "MX", "NS", "NSEC", "NSEC3", "SOA"}
  Question <- KeyQuestion
  MaxAliasHops = 1
  Anchors <- MCAnchors
  UseCache = FALSE
  Record <- MCRecord
  Signature <- MCSignature
  Ask <- MCAsk
  Reply <- MCReply
  Damaged <- MCDamaged
  ZoneKey <- MCZoneKey
  Published <- MCPublished
  MaxWorld = 2
  MaxTime = 0
  MaxFaults = 1
  None = None
  Key <- MCKey
  KeyTag <- MCKeyTag
  Unsupported = {}
  Hash <- MCHash
INVARIANT SecureKeysPublished
