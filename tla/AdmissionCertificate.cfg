SPECIFICATION Spec
CONSTANTS
  RewriteFrom <- From
  RewriteTo <- To
  NoHost = NoHost
  NoService = NoService
  ServicePorts <- Ports
  i1 = i1
  i2 = i2
  Ing = {i1, i2}
  Contents <- SomeContents
  Classes = {"nginx"}
  Snippets = {"f1"}
  Auths = {"a1"}
  NoIngress = NoIngress
  NoOwner = NoOwner
  Gone = Gone
  Operator = FALSE
  MaxVersion = 2
  MaxEvents = 1
  MaxFails = 0
SYMMETRY Symmetry
INVARIANTS CertificateCovers
CHECK_DEADLOCK FALSE
