SPECIFICATION Spec
CONSTANTS
  Walker = {w1}
  RRType = {"A", "CNAME", "DNAME", "DNSKEY", "DS", "MX", "NS", "NSEC", "NSEC3", "SOA"}
  Question <- MCQuestion
  MaxAliasHops = 3
  Anchors <- MCAnchors
  UseCache = TRUE
  Record <- MCRecord
  Signature <- MCSignature
  Ask <- MCAsk
  Reply <- MCReply
  Damaged <- MCDamaged
  ZoneKey <- MCZoneKey
  Published <- MCPublished
  MaxWorld = 1
  MaxTime = 0
  MaxFaults = 0
  None = None
  Key <- MCKey
  KeyTag <- MCKeyTag
  Unsupported = {}
  Hash <- MCHash
INVARIANT VerdictIsReference
INVARIANT AskedOnce
