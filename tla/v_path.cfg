SPECIFICATION Spec
CONSTANTS
  Servers <- TwoServers
  Address <- Ports
  Host <- OneHost
  Fds <- Numbers
  MaxJobs = 2
  MaxClients = 3
INVARIANT PathDownTrue
