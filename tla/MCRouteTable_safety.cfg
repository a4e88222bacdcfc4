SPECIFICATION Spec
CONSTANTS
  Portal <- PortalRoutes
  SLOTS = 4
  Others = {"other"}
INVARIANT TypeOK
INVARIANT NeverFull
INVARIANT PortalIsServed
PROPERTY RefinesMap
