\* Two clients of the plugin and one of the MCP server; seconds in proportion:
\* the timeouts and the margin fit the lifetime, the call may outlast the margin.
CONSTANTS
  Client = {a, b, mcp}
  SelfMinting = {mcp}
  TTL = 6
  MAX_TTL = 7
  SKEW = 2
  MARGIN = 2
  TOKEN_TIMEOUT = 1
  CALL_TIMEOUT = 3
  Offset <- Offsets
  MaxAge = 8
  NoToken = NoToken
SPECIFICATION IdSpec
SYMMETRY Symmetry
INVARIANT
  HonestCallAccepted
