\* Two profile updates and two webhooks share two connections and one event loop.
CONSTANTS
  Patches = {u1, u2}
  Webhooks = {h1, h2}
  Connections = 2
  PrefKeys = {weekly}
  Defaults <- MCDefaults
  Free = Free
SPECIFICATION LoopSpec
\* The process can really hang.
CHECK_DEADLOCK FALSE
PROPERTIES
  RequestsEndOrHang
