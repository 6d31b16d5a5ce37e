SPECIFICATION FairSpec
CONSTANTS
  localhost = localhost
  remote = remote
  bits = bits
  Words <- MCWords
  Texts = {localhost, remote, bits}
  Empty = Empty
  HostsFiles <- AllFiles
  Faults <- SomeFaults
INVARIANTS
  MeetingPoint
  NoPortTwice
  Wired
  PortsOfInterval
  InvConfiguration
PROPERTIES
  EverybodyConfigured
\* every process ends
CHECK_DEADLOCK FALSE
