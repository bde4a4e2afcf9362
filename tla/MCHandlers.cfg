SPECIFICATION Spec
CONSTANTS
  Goroutine = {g1, g2}
  Registry = {"default", "verifier"}
  Type = {"DS", "TLSA", "SVCB", "MX"}
  Factory = {"dsFactory", "ownFactory", "tlsaFactory", "svcbFactory"}
  ds = ds
  tlsa = tlsa
  svcb = svcb
  bad = bad
  mx = mx
  Record = {ds, tlsa, svcb, mx, bad}
  TypeOf <- MCTypeOf
  Form <- MCForm
  HasRData <- MCHasRData
  Accepts <- MCAccepts
  Decoded = {"SVCB"}
  BuiltIn = {"MX"}
  Offered <- MCOffered
  RegisterOrder <- MCRegisterOrder
  Generic = Generic
  None = None
INVARIANT HandlersTypeOK
INVARIANT RegistriesIndependent
