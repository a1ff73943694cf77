--------------------------- MODULE MC_Resolver ---------------------------
(* A views directory with three root templates beside the entry and one *)
(* in a subdirectory; names reaching a root file, the subdirectory file, *)
(* the root file from the subdirectory ("../"), a file that does not     *)
(* exist, and two fragments.                                             *)
EXTENDS Resolver

MCOrder == << <<"page.tpl">>, <<"parts.tpl">>, <<"shared.tpl">>, <<"sub", "child.tpl">>,
              <<"widgets.tpl">> >>

MCNames == { <<"shared.tpl">>, <<"sub", "child.tpl">>, <<"..", "shared.tpl">>,
             <<"missing.tpl">>, <<"w">>, <<"v">> }

MCDefNames == { <<"w">>, <<"v">> }

MCExt == ("page.tpl" :> "tpl") @@ ("parts.tpl" :> "tpl") @@ ("shared.tpl" :> "tpl")
         @@ ("child.tpl" :> "tpl") @@ ("widgets.tpl" :> "tpl") @@ ("missing.tpl" :> "tpl")
         @@ ("sub" :> "") @@ (".." :> "") @@ ("w" :> "") @@ ("v" :> "")

MCTemplateExt == {"tpl", "html"}
=============================================================================
