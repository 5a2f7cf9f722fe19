SPECIFICATION Spec
CONSTANTS
  RewriteFrom <- From
  RewriteTo <- To
  NoHost = NoHost
  NoService = NoService
  ServicePorts <- Ports
  Name = {1, 2, 3}
  Contents <- SomeContents
  MaxEvents = 4
  MaxFails = 1
INVARIANTS TypeOK RoutesCurrent RequestsRouted OneServerDirective HostsRenamed
CHECK_DEADLOCK FALSE
