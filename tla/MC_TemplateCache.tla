------------------------- MODULE MC_TemplateCache -------------------------
(* Model-checking instance of TemplateCache: a views directory holding   *)
(* a layout at its root and one page in a subdirectory, and a second     *)
(* view path that is never registered at startup.                        *)
EXTENDS TemplateCache, TLC

MCListing == {<<"layout.tpl">>, <<"user/index.tpl">>}

\* Edits in DEV after which getTemplate returns a unit or an error (a nil
\* template is stored and unlocked as a unit is).
MCEditsRecoverable == {"ok", "parseErr"}

\* Edits that also make getTemplate panic.
MCEditsAll == {"ok", "parseErr", "missingRef", "deleted", "nilFragment", "nilFragmentCall"}

\* Edits in PROD: one of each outcome ("nilFragmentCall" panics as
\* "missingRef" does) and a deletion, which the walk skips.
MCEditsProd == {"ok", "parseErr", "nilFragment", "missingRef", "deleted"}

\* DEV rebuilds on every render and keeps to edits it recovers from (a
\* panic under the lock is the hang cache_hang shows); PROD never
\* rebuilds after startup.
MCEditKinds == [m \in {"dev", "prod"} |-> IF m = "dev" THEN MCEditsRecoverable ELSE MCEditsProd]

\* Every kind of edit in either mode.
MCEditKindsAll == [m \in {"dev", "prod"} |-> MCEditsAll]

MCSymmetry == Permutations(Requests)
=============================================================================
