SPECIFICATION FairSpec
CONSTANTS
  Walker = {w1}
  RRType = {"A", "CNAME", "DNAME", "DNSKEY", "DS", "MX", "NS", "NSEC", "NSEC3", "SOA"}
  Question <- MCQuestion
  MaxAliasHops = 2
  Anchors <- MCAnchors
  UseCache = FALSE
  Record <- MCRecord
  Signature <- MCSignature
  Ask <- MCAsk
  Reply <- MCReply
  Damaged <- MCDamaged
  ZoneKey <- MCZoneKey
  Published <- MCPublished
  MaxWorld = 1
  MaxTime = 0
  MaxFaults = 2
  None = None
  Key <- MCKey
  KeyTag <- MCKeyTag
  Unsupported <- MCUnsupported
  Hash <- MCHash
INVARIANT AliasesLinked
INVARIANT AliasesAuthentic
INVARIANT ChainIsPath
INVARIANT CodeMatchesVerdict
PROPERTY ChainGrows
PROPERTY ImplementsValidation
PROPERTY CallsReturn
