SPECIFICATION Spec
CONSTANTS
  localhost = localhost
  remote = remote
  bits = bits
  Words <- MCWords
  Texts = {localhost, remote, bits}
  Empty = Empty
  HostsFiles <- TightFile
  Faults <- NoFaults
INVARIANTS
  PortsInInterval
\* every process ends
CHECK_DEADLOCK FALSE
