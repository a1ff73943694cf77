--------------------------- MODULE MC_StartHooks ---------------------------
(* Two application hooks, one of which registers the other when it runs, *)
(* two built-in hooks standing for the six, and three addresses: a host, *)
(* a port alone, and a host with a port that does not parse.            *)
EXTENDS StartHooks, TLC

CONSTANTS u1, u2, registerTemplate, registerAdmin, none

MCUserHooks == {u1, u2}
MCBuiltins == <<registerTemplate, registerAdmin>>
MCAddsHook == (u1 :> u2) @@ (u2 :> none) @@ (registerTemplate :> none) @@ (registerAdmin :> none)
MCAddrs == {"localhost", ":8089", "localhost:80x"}
MCSplit == ("localhost" :> <<"localhost">>) @@ (":8089" :> <<"", "8089">>)
           @@ ("localhost:80x" :> <<"localhost", "80x">>)
MCAtoi == ("8089" :> 8089) @@ ("80x" :> 0)
=============================================================================
