---------------------------- MODULE MC_Namespace ----------------------------
(* Two namespaces, "/v1" and "/api", and rootpaths "/users", "/v1" and  *)
(* "/v1x" ("/v1" is a string prefix of "/v1x").                         *)
EXTENDS Namespace, TLC

CONSTANTS n1, n2

MCNamespaces == {n1, n2}
MCPrefix == (n1 :> <<"v1">>) @@ (n2 :> <<"api">>)
MCSegs == {"users", "v1", "v1x", "api"}
MCStrPrefix == {<<s, s>> : s \in MCSegs} \cup {<<"v1", "v1x">>}
=============================================================================
