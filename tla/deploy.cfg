SPECIFICATION Spec
CONSTANTS
  None = None
  Names = {a1, a2}
  Runs = {r1, r2}
  Old = Old
  Agent = a1
  Neighbours = {other}
  Installed = {"autogent-nostr"}
  Ambient <- Shell
  MaxFaults = 1
  Jobs = {j1, j2}
  First = First
  Profiles = {p1, p2}
  MaxErrors = 1
  r1 = r1
  r2 = r2
  j1 = j1
  j2 = j2
  p1 = p1
  p2 = p2
  a1 = a1
  a2 = a2
  owner = owner
  relay = relay
  shellModel = shellModel
  ownModel = ownModel
  x = x
  y = y
  other = other
  Commands = {c1, c2, c3, c4, c5}
  MaxDeaths = 1
  c1 = c1
  c2 = c2
  c3 = c3
  c4 = c4
  c5 = c5
INVARIANTS
  OneProcess
  LaunchIsAuthoritative
  AgentsCanBoot
  OneAccountOneAgent
  RegistryKeepsWork
  
CHECK_DEADLOCK FALSE
