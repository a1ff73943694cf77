\* Routes at /, /a, /a/b and /a/:id in two methods, and every call of
\* UnregisterFixedRoute on a fixed path: does a call ever remove a route
\* registered at another path, or leave the route at its own path?
CONSTANTS
    Methods = {"GET", "POST"}
    Segs = {"a", "b"}
    Wild = ":id"
    Routes <- MCRoutes
    MaxLeaves = 3
SPECIFICATION Spec
PROPERTY UnregisterOnlyFixedRoute
CHECK_DEADLOCK FALSE
