SPECIFICATION Spec
CONSTANTS
  Walker = {w1, w2}
  RRType = {"A", "CNAME", "DNAME", "DNSKEY", "DS", "MX", "NS", "NSEC", "NSEC3", "SOA"}
  Question <- MCQuestion
  MaxAliasHops = 1
  Anchors <- MCAnchors
  UseCache = TRUE
  Record <- MCRecord
  Signature <- MCSignature
  Ask <- MCAsk
  Reply <- MCReply
  Damaged <- MCDamaged
  ZoneKey <- MCZoneKey
  Published <- MCPublished
  MaxWorld = 2
  MaxTime = 1
  MaxFaults = 1
  None = None
  Key <- MCKey
  KeyTag <- MCKeyTag
  Unsupported = {}
  Hash <- MCHash
INVARIANT TypeOK
INVARIANT ZoneKeysAuthentic
INVARIANT SecureIsAuthentic
INVARIANT BogusEndsChain
INVARIANT AbsenceIsAttested
INVARIANT AbsenceWasTrue
INVARIANT TrustInvariant
SYMMETRY Symmetry
