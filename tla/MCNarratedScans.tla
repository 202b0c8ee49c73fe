-------------------------- MODULE MCNarratedScans --------------------------
(* A codebase of the directories app, api/core and web/core and the package *)
(* org.core, and an earlier version of it without web/core.  The file in    *)
(* app imports "core", "../api/core/main" and "org.core.*", the one in      *)
(* api/core imports "...web.core" and the one in org.core "app".            *)
EXTENDS NarratedScans
CONSTANTS r1, r2

AllParts == {"app", "api", "web", "org", "core", "main"}
Widths == [p \in AllParts |-> IF p \in {"core", "main"} THEN 4 ELSE 3]

Import(form, up, parts, star) ==
    [form |-> form, up |-> up, parts |-> parts, star |-> star]
SourceFile(dir, package, imports, entries) ==
    [dir |-> dir, package |-> package, imports |-> imports, entries |-> entries]

(* An entrypoint is named after its file.                                   *)
Main == [sep |-> "none", parts |-> <<"main.py">>]

App == SourceFile(<<"app">>, <<>>,
           {Import("name", 0, <<"core">>, FALSE),
            Import("path", 1, <<"api", "core", "main">>, FALSE),
            Import("name", 0, <<"org", "core">>, TRUE)}, {Main})
Api == SourceFile(<<"api", "core">>, <<>>,
           {Import("dots", 3, <<"web", "core">>, FALSE)}, {})
Web == SourceFile(<<"web", "core">>, <<>>, {}, {})
Org == SourceFile(<<"web", "core">>, <<"org", "core">>,
           {Import("name", 0, <<"app">>, FALSE)}, {})

TwoCodes == {{App, Api, Org}, {App, Api, Web, Org}}
(* One answer names a module that only the second of them has, and the      *)
(* other nothing but a module that neither has.                             *)
TwoAnswers == {{Main, Dir(<<"web", "core">>)}, {Dir(<<"lib">>)}}

OneCode == {{App, Api, Web, Org}}
TwoRuns == {r1, r2}
English == {"en"}
TwoLanguages == {"en", "es"}
=============================================================================
