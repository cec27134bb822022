SPECIFICATION TunnelSpec
CONSTANTS
  Hosts = {h1, h2, h3}
  LocalPorts = {p1, p2}
  Nowhere = Nowhere
INVARIANTS
  NothingLeftBehind
  FilesKept
PROPERTIES
  ImplementsTunnelService
