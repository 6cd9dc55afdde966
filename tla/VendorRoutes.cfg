CONSTANTS
  HttpPorts = {80}
  RtspPorts = {554}
  SubPorts = {1024}
  Contested = {}
  Stubs = {"routes"}
  VigiPort = 20443
  TlsPort = 8443
  MaxOutages = 0
SPECIFICATION Spec
INVARIANTS VendorRoutesBack
