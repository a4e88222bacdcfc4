----------------------------- MODULE MCRouteTable -----------------------------
(* Three routes stand for the portal's fourteen.                                *)
EXTENDS RouteTable

PortalRoutes == <<"/", "/settings", "/status">>

=============================================================================
