------------------------------ MODULE Resolver ------------------------------
(***************************************************************************)
(* The dependency resolver of template.go: getTemplate, its first pass   *)
(* getTplDeep (file inclusion, parent-relative "../" names) and its      *)
(* second pass _getTemplate (names declared by sibling files), as        *)
(* recursive operators over a template directory.                        *)
(*                                                                       *)
(* A path or a template name is a sequence of path segments. A file's    *)
(* content is abstracted to what the two regular expressions find in it  *)
(* (the names of its {{template "..."}} actions in order, and of its     *)
(* {{define "..."}} blocks) and to whether it parses. The shared         *)
(* html/template namespace is a function from template name to the file  *)
(* whose text defined it; a later definition replaces an earlier one.    *)
(***************************************************************************)
EXTENDS Naturals, Sequences, FiniteSets, SequencesExt, TLC

CONSTANTS
    Order,      \* the template files of the directory, in lexical order
    Names,      \* names a {{template}} action may carry
    DefNames,   \* names a {{define}} block may carry
    Ext,        \* path segment -> its extension ("" when none)
    TemplateExt \* iziTemplateExt, the recognised extensions

Files == ToSet(Order)

\* A file as the resolver sees it.
Content == [inv: Seq(Names), defs: SUBSET DefNames, ok: BOOLEAN]

-----------------------------------------------------------------------------
(* Paths.                                                                *)

\* filepath.Clean of a relative path: "." dropped, ".." cancels the
\* segment before it, leading ".." kept.
CleanStep(acc, seg) ==
    IF seg = "." THEN acc
    ELSE IF seg = ".." /\ acc # <<>> /\ Last(acc) # ".." THEN Front(acc)
    ELSE Append(acc, seg)

Clean(p) == FoldLeft(CleanStep, <<>>, p)

\* filepath.Dir: "." (the empty sequence) for a name without a directory.
Dir(p) == IF p = <<>> THEN <<>> ELSE Front(p)

\* filepath.HasPrefix(file, "../")
IsParentRel(n) == Len(n) > 1 /\ n[1] = ".."

HasTemplateExt(n) == n # <<>> /\ Ext[Last(n)] \in TemplateExt

\* The files of the entry's subdirectory, as BuildTemplate passes them.
Others(e) == SelectSeq(Order, LAMBDA f : Dir(f) = Dir(e))

-----------------------------------------------------------------------------
(* The resolver. Every call threads one record                          *)
(*   ns     the namespace (template name -> defining file)               *)
(*   log    the getTplDeep calls made, in order: name, the file that     *)
(*          referred to it ("by", <<>> for a top-level call), the file   *)
(*          it was resolved to                                            *)
(*   panic  "none", "missing" (can't find template file) or "nil"        *)
(*          (a method called on a nil *template.Template)                *)
(*   t      the *template.Template the Go code holds is non-nil          *)
(*   err    the Go err variable is non-nil                               *)
(*   subs   the {{template}} matches getTplDeep returned                 *)
(* and returns it updated.                                               *)

\* Mutant: every name joined to the root.
RelPathFromRoot(file, parent) == Clean(file)

\* The file getTplDeep reads: a "../" name is joined to the directory
\* of its parent, any other name to the root.
RelPath(file, parent) ==
    IF IsParentRel(file) THEN Clean(Dir(parent) \o file) ELSE Clean(file)

\* t.New(file).Parse(data): the name is bound at once, the defines when
\* the text parses.
Parsed(x, file, rel, c) ==
    IF c[rel].ok
    THEN [x EXCEPT !.ns = [d \in c[rel].defs |-> rel] @@ ((file :> rel) @@ @), !.err = FALSE]
    ELSE [x EXCEPT !.ns = (file :> rel) @@ @, !.t = FALSE, !.err = TRUE, !.subs = <<>>]

\* getTplDeep's return after its loop: (t, allSub, nil) or (nil, [], err).
DeepReturn(x, subs) ==
    IF x.err THEN [x EXCEPT !.t = FALSE, !.subs = <<>>]
    ELSE [x EXCEPT !.t = TRUE, !.subs = subs]

RECURSIVE TplDeep(_, _, _, _, _), DeepLoop(_, _, _, _, _, _), ParseSibling(_, _, _, _),
          SiblingReturn(_, _, _), ByDefine(_, _, _, _, _), Pass2(_, _, _, _, _)

\* getTplDeep(root, file, parent, t): the file's existence is checked
\* first (panic), then t.New on the template held (panic when nil), then
\* Parse; the loop runs over the file's matches. "by" is the referring
\* file, for the log.
TplDeep(file, parent, by, c, x) ==
    LET rel     == RelPath(file, parent)
        rParent == IF IsParentRel(file) THEN rel ELSE file
        x0      == [x EXCEPT !.log = Append(@, [name |-> file, by |-> by, file |-> rel])]
    IN CASE rel \notin Files -> [x0 EXCEPT !.panic = "missing"]
         [] ~x.t             -> [x0 EXCEPT !.panic = "nil"]
         [] ~c[rel].ok       -> Parsed(x0, file, rel, c)
         [] OTHER            -> DeepReturn(DeepLoop(c[rel].inv, 1, rParent, rel, c,
                                                    Parsed(x0, file, rel, c)),
                                           c[rel].inv)

\* Mutant: the loop stops after the first file it includes.
DeepLoopBreak(subs, i, rParent, by, c, x) ==
    IF x.panic # "none" \/ x.err \/ i > Len(subs) THEN x
    ELSE IF subs[i] \in DOMAIN x.ns \/ ~HasTemplateExt(subs[i])
    THEN DeepLoop(subs, i + 1, rParent, by, c, x)
    ELSE [TplDeep(subs[i], rParent, by, c, x) EXCEPT !.t = TRUE]

\* getTplDeep's loop over the matches: a name already in the namespace
\* (t.Lookup) or without a template extension is skipped, any other is
\* included; the included template is dropped (t stays), its error is
\* returned.
DeepLoop(subs, i, rParent, by, c, x) ==
    IF x.panic # "none" \/ x.err \/ i > Len(subs) THEN x
    ELSE DeepLoop(subs, i + 1, rParent, by, c,
                  IF subs[i] \in DOMAIN x.ns \/ ~HasTemplateExt(subs[i]) THEN x
                  ELSE [TplDeep(subs[i], rParent, by, c, x) EXCEPT !.t = TRUE])

\* Mutant: a sibling's own matches are not resolved.
ParseSiblingFlat(f, others, c, x) == TplDeep(f, <<>>, <<>>, c, x)

\* t, subMods1, err = getTplDeep(root, otherFile, "", t), then
\* _getTemplate over the sibling's own matches when it parsed. The
\* error is only logged, but the nil template replaces t.
ParseSibling(f, others, c, x) == SiblingReturn(others, c, TplDeep(f, <<>>, <<>>, c, x))

SiblingReturn(others, c, x) ==
    IF x.panic # "none" \/ x.err \/ x.subs = <<>> THEN x
    ELSE Pass2(x.subs, others, c, 1, x)

\* The second loop of _getTemplate for name m: every sibling whose text
\* declares m is parsed (the break only leaves the loop over its
\* declarations). ioutil.ReadFile of each sibling resets err.
ByDefine(m, others, k, c, x) ==
    IF x.panic # "none" \/ k > Len(others) THEN x
    ELSE ByDefine(m, others, k + 1, c,
                  IF m \in c[others[k]].defs THEN ParseSibling(others[k], others, c, x)
                  ELSE [x EXCEPT !.err = FALSE])

\* _getTemplate(t, root, subMods, others...) from match j on: for every
\* match not in the namespace (t.Lookup, which panics on a nil t), first
\* a sibling of that exact name, then every sibling declaring it. err is
\* the last one assigned.
Pass2(subs, others, c, j, x) ==
    IF x.panic # "none" \/ j > Len(subs) THEN x
    ELSE IF ~x.t THEN [x EXCEPT !.panic = "nil"]
    ELSE Pass2(subs, others, c, j + 1,
               IF subs[j] \in DOMAIN x.ns THEN x
               ELSE ByDefine(subs[j], others, 1, c,
                             IF subs[j] \in ToSet(others)
                             THEN ParseSibling(subs[j], others, c, x) ELSE x))

\* What getTemplate hands back.
Kind(x) ==
    CASE x.panic # "none" -> "panic"
      [] x.err            -> "error"
      [] ~x.t             -> "nil"
      [] OTHER            -> "unit"

\* getTemplate: pass 1 on the entry, then _getTemplate over its matches
\* (starting with err nil) unless pass 1 failed.
EntryReturn(others, c, x) ==
    IF x.panic # "none" \/ x.err THEN x ELSE Pass2(x.subs, others, c, 1, x)

Outcome(x) == [st |-> x, kind |-> Kind(x)]

\* getTemplate(root, file, others...): the final state and the outcome.
GetTemplate(e, c) ==
    Outcome(EntryReturn(Others(e), c,
                        TplDeep(e, <<>>, <<>>, c,
                                [ns |-> [n \in {} |-> e], log |-> <<>>, panic |-> "none",
                                 t |-> TRUE, err |-> FALSE, subs |-> <<>>])))

-----------------------------------------------------------------------------
(* The resolver checked over every template directory reachable by a     *)
(* bounded number of edits from one whose files are all empty: every     *)
(* file of the directory is an entry, as in BuildTemplate.               *)

CONSTANTS
    MaxInv,     \* bound on the {{template}} actions of a file
    MaxEdits    \* bound on the edits

VARIABLES content, edits

rvars == <<content, edits>>

Init ==
    /\ content = [f \in Files |-> [inv |-> <<>>, defs |-> {}, ok |-> TRUE]]
    /\ edits = 0

\* A {{template "n"}} action is added to a file.
AddInvoke(f, n) ==
    /\ edits < MaxEdits /\ Len(content[f].inv) < MaxInv
    /\ content' = [content EXCEPT ![f].inv = Append(@, n)]
    /\ edits' = edits + 1

\* A {{define "d"}} block is added to a file.
AddDefine(f, d) ==
    /\ edits < MaxEdits /\ d \notin content[f].defs
    /\ content' = [content EXCEPT ![f].defs = @ \cup {d}]
    /\ edits' = edits + 1

\* A file is left with a syntax error.
Break(f) ==
    /\ edits < MaxEdits /\ content[f].ok
    /\ content' = [content EXCEPT ![f].ok = FALSE]
    /\ edits' = edits + 1

Done == edits = MaxEdits /\ UNCHANGED rvars

Next ==
    \/ \E f \in Files, n \in Names : AddInvoke(f, n)
    \/ \E f \in Files, d \in DefNames : AddDefine(f, d)
    \/ \E f \in Files : Break(f)
    \/ Done

Spec == Init /\ [][Next]_rvars

-----------------------------------------------------------------------------
(* Reference definitions, from the spec (sections 4.2, 4.3).             *)

Result(e) == GetTemplate(e, content)

\* The file a name denotes when the file at path "by" refers to it.
Target(n, by) == IF IsParentRel(n) THEN Clean(Dir(by) \o n) ELSE Clean(n)

\* A name with one of the template extensions (spec 4.2 step 3).
TemplateFileName(n) == n # <<>> /\ Ext[Last(n)] \in TemplateExt

\* The files the first pass reaches from e: e and every file named, with
\* a template extension, by a file it reaches.
Reach(e) ==
    LET named(f) == {Target(n, f) : n \in {m \in ToSet(content[f].inv) : TemplateFileName(m)}}
        step(S) == S \cup UNION {named(f) : f \in S \cap Files}
        RECURSIVE iter(_, _)
        iter(S, k) == IF k = 0 THEN S ELSE iter(step(S), k - 1)
    IN iter({e}, Cardinality(Files))

\* Some file of e's subdirectory is named n or declares n.
SiblingDeclares(e, n) == \E f \in ToSet(Others(e)) : f = n \/ n \in content[f].defs

\* Files getTemplate parsed, and those it parsed by a top-level call
\* (the entry and the siblings pulled in by the second pass).
ParsedFiles(r) == {l.file : l \in ToSet(r.st.log)}
TopParsed(r) == {l.file : l \in {x \in ToSet(r.st.log) : x.by = <<>>}}

-----------------------------------------------------------------------------
(* Properties.                                                           *)

\* Spec 4.2 step 1 and the parent-relative example of section 8: every
\* getTplDeep call reads the file its name denotes relative to the file
\* that named it ("../shared.tpl" from sub/child.tpl is shared.tpl), as
\* the rParent threaded through the recursion must ensure.
ResolvedByTarget(r) == \A l \in ToSet(r.st.log) : l.file = Target(l.name, l.by)

ParentRelativeResolution == \A e \in Files : ResolvedByTarget(Result(e))

\* When getTemplate returns a unit, every name with a template extension
\* that any parsed file invokes is bound in the namespace: the first
\* pass follows includes transitively, through cycles and diamonds.
IncludesBoundIn(r) ==
    r.kind = "unit" =>
        \A f \in ParsedFiles(r), n \in Names :
            (n \in ToSet(content[f].inv) /\ TemplateFileName(n)) => n \in DOMAIN r.st.ns

IncludesBound == \A e \in Files : IncludesBoundIn(Result(e))

\* Names invoked by the files r parsed (by a top-level call only, when
\* onlyTop) that a sibling of e declares are bound, when getTemplate
\* returned a unit.
FragmentsBoundIn(e, r, onlyTop) ==
    r.kind = "unit" =>
        \A f \in IF onlyTop THEN TopParsed(r) ELSE ParsedFiles(r), n \in Names :
            (n \in ToSet(content[f].inv) /\ SiblingDeclares(e, n)) => n \in DOMAIN r.st.ns

\* Spec 4.3 and section 8: when getTemplate returns a unit, every name
\* invoked by the entry, or by a sibling the second pass pulled in, that
\* a sibling declares is bound, forward references between siblings
\* included.
SiblingFragmentsBound == \A e \in Files : FragmentsBoundIn(e, Result(e), TRUE)

\* Spec 4.2 (Pass 1 returns the matches of the whole descent) and 4.3:
\* every name invoked by any parsed file, an included one too, that a
\* sibling declares is bound when getTemplate returns a unit.
TransitiveFragmentsBound ==
    \A e \in Files : FragmentsBoundIn(e, Result(e), FALSE)

\* Spec section 7: a malformed file is a build-class error reported to
\* the caller. getTemplate never returns a nil template without an
\* error, and never calls a method on a nil template.
NotNil(r) == r.kind # "nil" /\ r.st.panic # "nil"

NoNilTemplate == \A e \in Files : NotNil(Result(e))
=============================================================================
