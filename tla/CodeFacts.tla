------------------------------ MODULE CodeFacts ------------------------------
(***************************************************************************)
(* What the scan derives from the files it selects: languages, parsed      *)
(* files, manifests and secrets one file at a time, and from all parsed    *)
(* files entrypoints, layers, calls between modules and the HTTP surface.  *)
(*                                                                         *)
(* Contents are names; what is in them is given by the constants.          *)
(***************************************************************************)
EXTENDS SourceTree, Syntax

CONSTANTS
    Ext,            \* the extension of a name, after its last dot
    NgModules, NgComponents,    \* the names in .module.ts and .component.ts
    Ast,            \* the syntax tree of a content
    Manifest,       \* what is in a content that is read as a manifest
    Secrets,        \* the rules that match its lines, in order
    Bytes,          \* its size
    MaxParseBytes, MaxSecretBytes, MaxFindings,
    MaxDeclModules  \* how ambiguous the name of a call may be

ASSUME FactsAssumption ==
    /\ Names \subseteq DOMAIN Ext
    /\ DOMAIN Ast = Contents /\ DOMAIN Manifest = Contents
    /\ DOMAIN Secrets = Contents /\ \A c \in Contents : Secrets[c] \in Seq(ToSet(Secrets[c]))
    /\ Bytes \in [Contents -> Nat]
    /\ {MaxParseBytes, MaxSecretBytes, MaxDeclModules} \subseteq Nat
    /\ MaxFindings \in Nat \ {0}
    /\ \A c \in Contents : /\ Manifest[c].deps \in Seq(ToSet(Manifest[c].deps))
                           /\ Manifest[c].shape # "whole" => Manifest[c].deps = <<>>
                           /\ IsSyntaxTree(Ast[c])

-----------------------------------------------------------------------------
(* ExtensionLanguageDetector *)
Extensions ==
    [java |-> "java", kt |-> "kotlin", kts |-> "kotlin", ts |-> "typescript",
     mts |-> "typescript", cts |-> "typescript", tsx |-> "tsx", js |-> "javascript",
     mjs |-> "javascript", cjs |-> "javascript", jsx |-> "tsx", py |-> "python",
     pyi |-> "python", html |-> "html", htm |-> "html"]
Language(p) ==
    IF Ext[Name(p)] \in DOMAIN Extensions THEN Extensions[Ext[Name(p)]] ELSE "unknown"

(* A file that is too large, or of a language without grammar, only counts. *)
IsParsed(p, c) == Language(p) \in DOMAIN Specs /\ Bytes[c] <= MaxParseBytes
ParseRaises(p, c) == IsParsed(p, c) /\ TooDeep(Ast[c], Language(p))

NoFacts == [symbols |-> <<>>, imports |-> {}, package |-> <<>>, calls |-> {},
            routes |-> {}, http_calls |-> {}]
ParsedFile(p, c) ==
    LET facts == IF IsParsed(p, c) THEN Parse(Ast[c], Language(p)) ELSE NoFacts
    IN  [path |-> p, dir |-> SubSeq(p, 1, Len(p) - 1), language |-> Language(p),
         package |-> facts.package, imports |-> facts.imports,
         symbols |-> facts.symbols, calls |-> facts.calls,
         routes |-> facts.routes, http_calls |-> facts.http_calls]

-----------------------------------------------------------------------------
(* CompositeManifestDetector.  A manifest is whole, malformed (the reader   *)
(* of its format refuses it) or misshapen (read, and not of the shape that  *)
(* is expected: an array for an object, a number for a list).               *)
Stacks(names, p) == [i \in 1..Len(names) |-> [name |-> names[i], evidence |-> p]]
If(condition, name) == IF condition THEN <<name>> ELSE <<>>

(* _py_frameworks looks at the dependencies of all manifests so far.        *)
Frameworks(deps) ==
    LET names == {deps[i].name : i \in DOMAIN deps}
    IN  If("fastapi" \in names, "FastAPI") \o If("django" \in names, "Django")
        \o If("flask" \in names, "Flask")

(* A misshapen one raises what detect does not catch.                       *)
ManifestRaises(p, c) ==
    Name(p) \in {"package.json", "pyproject.toml"} /\ Manifest[c].shape = "misshapen"

(* A manifest that cannot be read counts as a malformed one: what is added  *)
(* before it is read stays.                                                 *)
Unread == [shape |-> "malformed", deps |-> <<>>, marks |-> {}]

DependenciesIn(p, m) ==
    IF Name(p) \in {"pom.xml", "build.gradle", "build.gradle.kts", "package.json",
                    "pyproject.toml", "requirements.txt"}
    THEN [i \in 1..Len(m.deps) |-> [name |-> m.deps[i], manifest |-> p]]
    ELSE <<>>

(* deps: the dependencies so far, those of this manifest included.          *)
StacksIn(p, m, deps) ==
    LET Has(d) == d \in ToSet(m.deps)
        Readable == m.shape = "whole"
    IN  CASE Name(p) = "pom.xml" ->
               Stacks(<<"Maven">> \o If(Has("org.springframework"), "Spring"), p)
          [] Name(p) \in {"build.gradle", "build.gradle.kts"} ->
               Stacks(<<"Gradle">> \o If("spring" \in m.marks, "Spring")
                                   \o If("android" \in m.marks, "Android"), p)
          [] Name(p) \in {"settings.gradle", "settings.gradle.kts"} -> Stacks(<<"Gradle">>, p)
          [] Name(p) = "package.json" ->
               Stacks(<<"npm">> \o If(Has("@angular/core"), "Angular"), p)
          [] Name(p) = "angular.json" -> Stacks(<<"Angular">>, p)
          [] Name(p) = "pyproject.toml" ->
               Stacks(<<"Python">> \o If(Readable /\ "poetry" \in m.marks, "Poetry")
                      \o If(Readable /\ "poetry" \notin m.marks, "pip")
                      \o (IF Readable THEN Frameworks(deps) ELSE <<>>), p)
          [] Name(p) = "requirements.txt" ->
               Stacks(<<"Python", "pip">> \o (IF Readable THEN Frameworks(deps) ELSE <<>>), p)
          [] Name(p) = "setup.py" -> Stacks(<<"Python">>, p)
          [] OTHER -> <<>>

(* _dedupe_stacks: the first manifest that shows a stack is its evidence.   *)
DedupeStacks(stacks) ==
    LET IsFirst(i) == \A j \in 1..(i - 1) : stacks[j].name # stacks[i].name
    IN  {stacks[i] : i \in {i \in DOMAIN stacks : IsFirst(i)}}

-----------------------------------------------------------------------------
(* RegexSecretScanner: a file that is large is passed over, and the scan    *)
(* ends with the finding that fills the list.                               *)
SecretsIn(p, c) ==
    IF Bytes[c] > MaxSecretBytes THEN <<>>
    ELSE [i \in 1..Len(Secrets[c]) |-> [rule |-> Secrets[c][i], path |-> p, line |-> i]]
Full(findings) == Len(findings) >= MaxFindings

(* Mutant: a file adds all of its findings to a list that is almost full.   *)
CappedNever(findings) == findings

Capped(findings) ==
    IF Full(findings) THEN SubSeq(findings, 1, MaxFindings) ELSE findings

-----------------------------------------------------------------------------
(* detect_entrypoints.  An entrypoint of a file is named after its first    *)
(* class, or after the file.                                                *)
ClassName(f) ==
    LET classes == {i \in DOMAIN f.symbols : f.symbols[i].kind = "class"}
    IN  IF classes = {} THEN Name(f.path) ELSE f.symbols[Min(classes)].name

SpringWeb == <<"org", "springframework", "web">>
SpringBoot == <<"org", "springframework", "boot", "autoconfigure", "SpringBootApplication">>
Declared(f, kind, name) == [name |-> name, kind |-> kind] \in ToSet(f.symbols)

EntrypointsOf(f) ==
    LET Entry(condition, kind, name) ==
            If(condition, [name |-> name, kind |-> kind, file |-> f.path,
                           module |-> ModuleOf(f)])
    IN  CASE f.language \in {"java", "kotlin"} ->
               Entry(\E i \in f.imports : IsPrefix(SpringWeb, i.parts),
                     "http_endpoint", ClassName(f))
               \o Entry(\E i \in f.imports : i.parts = SpringBoot /\ ~i.star,
                        "app_bootstrap", ClassName(f))
               \o Entry(Declared(f, "method", "main"), "cli_main", ClassName(f))
          [] f.language \in {"typescript", "tsx"} ->
               Entry(Name(f.path) \in NgModules, "ng_module", ClassName(f))
               \o Entry(Name(f.path) \in NgComponents, "ui_component", ClassName(f))
          [] f.language = "python" ->
               Entry(Declared(f, "function", "main") \/ Name(f.path) = "__main__.py",
                     "cli_main", Name(f.path))
          [] OTHER -> <<>>

Entrypoints(files) ==
    LET found[n \in 0..Len(files)] ==
            IF n = 0 THEN <<>> ELSE found[n - 1] \o EntrypointsOf(files[n])
    IN  found[Len(files)]

(* derive_static_features: a feature for each kind of entrypoint.           *)
StaticFeatures(entrypoints) ==
    LET eps == ToSet(entrypoints)
        OfKind(k) == {e \in eps : e.kind = k}
    IN  {[name |-> k, modules |-> {e.module : e \in OfKind(k)},
          related |-> {e.name : e \in OfKind(k)}] : k \in {e.kind : e \in eps}}

-----------------------------------------------------------------------------
(* build_call_edges: a name that too many modules declare is not resolved.  *)
CallEdges(files) ==
    LET callable == {"class", "interface", "object", "function"}
        Declarers(name) ==
            {ModuleOf(f) : f \in {g \in ToSet(files) :
                \E i \in DOMAIN g.symbols :
                    g.symbols[i].name = name /\ g.symbols[i].kind \in callable}}
        Targets(name) ==
            IF Cardinality(Declarers(name)) <= MaxDeclModules THEN Declarers(name) ELSE {}
    IN  UNION {{<<ModuleOf(f), m>> : m \in UNION {Targets(n) : n \in f.calls}
                                             \ {ModuleOf(f)}} : f \in ToSet(files)}

(* collect_http *)
(* Mutant: the module of a route is its directory, whatever its package.    *)
HttpRoutesByDir(files) ==
    UNION {{[method |-> r.method, path |-> r.path, module |-> Dir(f.dir),
             file |-> f.path, handler |-> r.handler] : r \in f.routes} : f \in ToSet(files)}

HttpRoutes(files) ==
    UNION {{[method |-> r.method, path |-> r.path, module |-> ModuleOf(f),
             file |-> f.path, handler |-> r.handler] : r \in f.routes} : f \in ToSet(files)}
HttpCalls(files) ==
    UNION {{[method |-> c.method, path |-> c.path, module |-> ModuleOf(f),
             file |-> f.path] : c \in f.http_calls} : f \in ToSet(files)}

-----------------------------------------------------------------------------
(* infer_architecture: the first layer that has one of the parts of the id  *)
(* as its keyword.                                                          *)
LayerKeywords ==
  << <<"presentation", {"controller", "resource", "rest", "endpoint", "api", "web",
                        "cli", "routes"}>>,
     <<"ui", {"component", "page", "view", "widget"}>>,
     <<"data", {"repository", "repositories", "repo", "dao", "persistence", "mapper",
                "store"}>>,
     <<"application", {"service", "services", "usecase", "usecases", "use_case",
                       "use_cases", "handler", "facade", "application", "registry",
                       "registries", "pipeline", "orchestration"}>>,
     <<"infrastructure", {"infrastructure", "infra", "adapter", "adapters", "gateway",
                          "gateways", "integration", "integrations", "parsing",
                          "detection"}>>,
     <<"domain", {"domain", "entity", "entities", "model", "port", "ports"}>>,
     <<"config", {"config", "configuration", "bootstrap", "settings"}>>,
     <<"shared", {"util", "utils", "common", "shared", "helper", "core"}>> >>

LayerOf(m) ==
    LET matching == {i \in DOMAIN LayerKeywords : ToSet(m.parts) \cap LayerKeywords[i][2] # {}}
    IN  IF matching = {} THEN "other" ELSE LayerKeywords[Min(matching)][1]
=============================================================================
