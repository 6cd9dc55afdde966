CONSTANTS
  HttpPorts = {80, 81}
  RtspPorts = {554}
  SubPorts = {1024}
  Contested = {81}
  Stubs = {"none"}
  VigiPort = 20443
  TlsPort = 8443
  MaxOutages = 1
SPECIFICATION Spec
INVARIANTS FailureStops
