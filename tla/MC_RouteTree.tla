--------------------------- MODULE MC_RouteTree ---------------------------
(* Model-checking instance of RouteTree: two methods, routes at the root, *)
(* at /a, at /a/b and at /a/:id.                                          *)
EXTENDS RouteTree

MCRoutes == {<<>>, <<"a">>, <<"a", "b">>, <<"a", ":id">>}
=============================================================================
