---------------------------- MODULE ScanPipeline ----------------------------
(***************************************************************************)
(* One run of application/pipeline/scan_pipeline.py: the import of a       *)
(* location into a workspace of its own, three walks over the workspace    *)
(* (parse, manifests, secrets), the documentation and its export.  A local *)
(* directory is copied file by file while somebody may be working in it,   *)
(* and may hold the workspace itself.  The narrative is in NarratedScans.  *)
(***************************************************************************)
EXTENDS DocPages

CONSTANTS
    Requests,   \* what is scanned, with which options
    Changes,    \* what somebody may do to a file: <<path, content or None>>
    Orders,     \* in which a process may iterate over the module ids
    MaxEdits, MaxErrors     \* bounds on those, and on failures of the file system

ASSUME BoundsAssumption == MaxEdits \in Nat /\ MaxErrors \in Nat

(* A tree of files; none of them is a directory as well.                    *)
IsTree(files) ==
    /\ files \in [DOMAIN files -> Contents]
    /\ DOMAIN files \subseteq Seq(Names) \ {Root}
    /\ \A p, q \in DOMAIN files : p \notin Above(q)

(* source.inside is where in a directory the workspace is, if it is in it.  *)
(* It is new, so that it holds no file of the directory.                    *)
Apart(p, inside) == p # inside /\ inside \notin Above(p) /\ p \notin Above(inside)

ASSUME RequestsAssumption ==
    /\ \A r \in Requests :
          LET location == r[1]
          IN  /\ r = <<location, r[2]>> /\ IsTree(location.tree)
              /\ r[2].excludes \in Seq(ToSet(r[2].excludes))
              /\ location.inside \in Seq(Names)
              /\ location.inside = Root \/ location.kind = "dir"
              /\ \A p \in DOMAIN location.tree : Apart(p, location.inside)
    /\ \A c \in Changes : c[1] \in Seq(Names) \ {Root} /\ c[2] \in Contents \cup {None}

(* The files there can be: at a location, after an edit, and in an archive  *)
(* without the directory around them.  IdRank tells their modules apart.    *)
Given == {c[1] : c \in Changes} \cup UNION {DOMAIN r[1].tree : r \in Requests}
FilePaths == Given \cup {Tail(p) : p \in {q \in Given : Len(q) > 1}}

ASSUME IdsAssumption ==
    LET ids == {ModuleOf(ParsedFile(p, c)) : p \in FilePaths, c \in Contents}
    IN  \A m, n \in ids : IdRank[m] \in Int /\ (IdRank[m] = IdRank[n] => m = n)

VARIABLES
    pc, source, opts,
    order,      \* in which this process iterates over the module ids
    tree,       \* the files at the location now
    head,       \* the files of its last commit
    ws,         \* the files of the workspace
    ref,        \* base_ref, as the files it stands for
    open,       \* copytree: what is left to copy of the directories that are open
    lost,       \* copytree: a file could not be copied
    todo,       \* what is left of the walk
    parsed,     \* the files parsed, in order
    others,     \* those that only count
    stacks, deps, secrets,
    bundle,     \* the pages in the folder of the documentation
    failure,    \* what the caller gets
    edits, errors   \* history, for the bounds

world == <<source, opts, order, tree, head>>
import == <<ws, ref, open, lost>>
facts == <<parsed, others, stacks, deps, secrets>>
vars == <<pc, world, import, todo, facts, bundle, failure, edits, errors>>

NoRef == [kind |-> "none", files |-> NoTree]
Passes == <<"files", "manifests", "secrets", "document">>
Pc == {"idle", "copy", "export", "done", "failed"} \cup ToSet(Passes)

Init ==
    /\ pc = "idle"
    /\ \E r \in Requests : source = r[1] /\ opts = r[2]
    /\ order \in Orders
    /\ tree = source.tree /\ head = source.tree
    /\ ws = NoTree /\ ref = NoRef /\ open = {} /\ lost = FALSE
    /\ todo = {}
    /\ parsed = <<>> /\ others = {} /\ stacks = <<>> /\ deps = <<>> /\ secrets = <<>>
    /\ bundle = [s \in ToSet(Pages) |-> "old"]
    /\ failure = "none"
    /\ edits = 0 /\ errors = 0

(* A CodebaseArchitectError (domain), or any other exception.               *)
Fail(kind) == pc' = "failed" /\ failure' = kind

(* A failure of the file system.                                            *)
Error == errors < MaxErrors /\ errors' = errors + 1

-----------------------------------------------------------------------------
(* Somebody works in the directory.  What happens to it after the copy has  *)
(* no effect on the run.                                                    *)
IsFilePath(p) ==
    /\ ~IsDir(tree, p) /\ Above(p) \cap DOMAIN tree = {}
    /\ Apart(p, source.inside)

Edit(p, c) ==
    /\ pc \in {"idle", "copy"} /\ source.kind = "dir"
    /\ edits < MaxEdits /\ edits' = edits + 1
    /\ IsFilePath(p)
    /\ tree' = [q \in (DOMAIN tree \ {p}) \cup (IF c = None THEN {} ELSE {p}) |->
                    IF q = p THEN c ELSE tree[q]]
    /\ tree' # tree
    /\ UNCHANGED <<pc, source, opts, order, head, import, todo, facts, bundle, failure, errors>>

Commit ==
    /\ pc \in {"idle", "copy"} /\ HasSha(source)
    /\ head # tree
    /\ head' = tree
    /\ UNCHANGED <<pc, source, opts, order, tree, import, todo, facts, bundle, failure, edits,
                   errors>>

-----------------------------------------------------------------------------
(* The import.  Each of the three passes over the workspace begins at its  *)
(* root.                                                                    *)
(* Mutant: the passes begin where the archive was extracted to.             *)
ImportedAround(files, r) ==
    /\ pc' = "files"
    /\ ws' = files /\ ref' = r
    /\ todo' = Entries(tree, Root)

Imported(files, r) ==
    /\ pc' = "files"
    /\ ws' = files /\ ref' = r
    /\ todo' = Entries(files, Root)

(* Mutant: the checksum is taken of the files that are there by now.        *)
ChecksumRefOfSource(files) ==
    [kind |-> "checksum",
     files |-> Checksum(IF source.kind = "dir" THEN tree ELSE files)]

ChecksumRef(files) == [kind |-> "checksum", files |-> Checksum(files)]
CommitRef == IF HasSha(source) THEN [kind |-> "commit", files |-> head] ELSE NoRef

(* git clone; a repository that is empty has no HEAD.                       *)
FetchRemote ==
    /\ pc = "idle" /\ Provider(source) = "git_remote"
    /\ \/ Imported(tree, CommitRef) /\ UNCHANGED failure
       \/ Fail("domain") /\ UNCHANGED <<ws, ref, todo>>     \* no git, or it fails
    /\ UNCHANGED <<world, open, lost, facts, bundle, edits, errors>>

(* An archive that is not of the format of its provider, or has a member    *)
(* outside of the destination, is refused before it is extracted; to        *)
(* extract any other may fail, with an error that is not one of the domain. *)
FetchArchive ==
    /\ pc = "idle" /\ Provider(source) \in {"zip", "targz"}
    /\ LET format == IF Provider(source) = "zip" THEN "zip" ELSE "tar"
           files == Collapsed(tree, format = "zip")
       IN  IF source.format = format /\ ~source.escapes
           THEN \/ Imported(files, ChecksumRef(files)) /\ UNCHANGED <<failure, errors>>
                \/ Error /\ Fail("other") /\ UNCHANGED <<ws, ref, todo>>
           ELSE Fail("domain") /\ UNCHANGED <<ws, ref, todo, errors>>
    /\ UNCHANGED <<world, open, lost, facts, bundle, edits>>

FetchNothing ==
    /\ pc = "idle" /\ Provider(source) = "none"
    /\ Fail("domain")
    /\ UNCHANGED <<world, import, todo, facts, bundle, edits, errors>>

-----------------------------------------------------------------------------
(* copy_tree.  What the source holds while it is copied: the workspace is a *)
(* part of it if it lies inside, and was made before the copy begins.       *)
View ==
    LET copies == IF source.inside = Root THEN {} ELSE {source.inside \o p : p \in DOMAIN ws}
    IN  [p \in DOMAIN tree \cup copies |->
            IF p \in copies THEN ws[SubSeq(p, Len(source.inside) + 1, Len(p))] ELSE tree[p]]

(* os.scandir: the entries of a directory, and whether each is one.         *)
Listing(d) ==
    LET toInside == {e \in Above(source.inside) \cup {source.inside} : e # Root}
        own == {e \in toInside : Len(e) = Len(d) + 1 /\ SubSeq(e, 1, Len(d)) = d}
    IN  {[path |-> e, dir |-> e \in own \/ IsDir(View, e)] : e \in Entries(View, d) \cup own}

(* Mutant: the copy goes into its own destination.                          *)
SkipsOwn(e) == Name(e.path) \in IgnoredDirs

Skips(e) == Name(e.path) \in IgnoredDirs \/ e.path = source.inside
Copied(d) == {e \in Listing(d) : ~Skips(e)}

StartCopy ==
    /\ pc = "idle" /\ Provider(source) \in {"local_git", "folder"}
    /\ pc' = "copy"
    /\ ref' = IF Provider(source) = "local_git" THEN CommitRef ELSE NoRef
    /\ open' = Copied(Root)
    /\ UNCHANGED <<world, ws, lost, todo, facts, bundle, failure, edits, errors>>

(* The copy is depth first; a directory is listed when it is come to.  One  *)
(* that has become a file, or has gone with its last file, is reported in   *)
(* the end.                                                                 *)
CopyDir(e) ==
    /\ e.dir
    /\ open' = (open \ {e}) \cup Copied(e.path)
    /\ \/ e.path \notin DOMAIN View /\ UNCHANGED lost
       \/ Listing(e.path) = {} /\ lost' = TRUE
    /\ UNCHANGED <<ws, errors>>

(* A file that is gone since it was listed, or cannot be read, is reported  *)
(* in the end.                                                              *)
CopyFile(e) ==
    /\ ~e.dir
    /\ open' = open \ {e}
    /\ \/ /\ e.path \in DOMAIN View
          /\ ws' = [p \in DOMAIN ws \cup {e.path} |-> IF p = e.path THEN View[p] ELSE ws[p]]
          /\ UNCHANGED <<lost, errors>>
       \/ /\ IF e.path \in DOMAIN View THEN Error ELSE UNCHANGED errors
          /\ lost' = TRUE
          /\ UNCHANGED ws

CopyNext ==
    /\ pc = "copy"
    /\ \E e \in open : /\ \A o \in open : Len(o.path) <= Len(e.path)
                       /\ CopyDir(e) \/ CopyFile(e)
    /\ UNCHANGED <<pc, world, ref, todo, facts, bundle, failure, edits>>

CopyEnds ==
    /\ pc = "copy" /\ open = {}
    /\ IF lost THEN Fail("other") /\ UNCHANGED <<ws, ref, todo>>
       ELSE /\ Imported(ws, IF ref = NoRef THEN ChecksumRef(ws) ELSE ref)
            /\ UNCHANGED failure
    /\ UNCHANGED <<world, open, lost, facts, bundle, edits, errors>>

-----------------------------------------------------------------------------
(* Workspace.iter_files, in each of the three passes.                       *)
InPass == pc \in {"files", "manifests", "secrets"}
Advance(p) == todo' = Walk(ws, opts, todo, p)

PassBy ==
    /\ InPass
    /\ \E p \in todo : IsNext(p, todo) /\ ~Yields(ws, opts, p) /\ Advance(p)
    /\ UNCHANGED <<pc, world, import, facts, bundle, failure, edits, errors>>

(* The next pass, if there is one: without a scanner nobody looks for       *)
(* secrets.                                                                 *)
Walks(pass) == pass \in {"files", "manifests"} \/ (pass = "secrets" /\ opts.scanner)

EndPass ==
    /\ InPass /\ todo = {}
    /\ pc' = Passes[1 + CHOOSE i \in 1..3 : Passes[i] = pc]
    /\ todo' = IF Walks(pc') THEN Entries(ws, Root) ELSE {}
    /\ UNCHANGED <<world, import, facts, bundle, failure, edits, errors>>

(* BuildCodeModelUseCase.execute: a file that cannot be read only counts;   *)
(* the parser is not in the try.                                            *)
ParseFile(p) ==
    /\ pc = "files" /\ IsNext(p, todo) /\ Yields(ws, opts, p)
    /\ \/ /\ IF Language(p) = "unknown" THEN UNCHANGED errors ELSE Error
          /\ others' = others \cup {p}
          /\ Advance(p)
          /\ UNCHANGED <<pc, parsed, failure>>
       \/ /\ Language(p) # "unknown" /\ ParseRaises(p, ws[p])
          /\ Fail("other")
          /\ UNCHANGED <<parsed, others, todo, errors>>
       \/ /\ Language(p) # "unknown" /\ ~ParseRaises(p, ws[p])
          /\ parsed' = Append(parsed, ParsedFile(p, ws[p]))
          /\ Advance(p)
          /\ UNCHANGED <<pc, others, failure, errors>>
    /\ UNCHANGED <<world, import, stacks, deps, secrets, bundle, edits>>

(* Mutant: a manifest that cannot be read, or is malformed, fails the scan. *)
ReadManifestStrictly(p) ==
    /\ pc = "manifests" /\ IsNext(p, todo) /\ Yields(ws, opts, p)
    /\ \/ /\ (ManifestRaises(p, ws[p]) /\ UNCHANGED errors) \/ Error
          /\ Fail("other")
          /\ UNCHANGED <<stacks, deps, todo>>
       \/ LET m == Manifest[ws[p]]
          IN  /\ ~ManifestRaises(p, ws[p])
              /\ deps' = deps \o DependenciesIn(p, m)
              /\ stacks' = stacks \o StacksIn(p, m, deps')
              /\ Advance(p)
              /\ UNCHANGED <<pc, failure, errors>>
    /\ UNCHANGED <<world, import, parsed, others, secrets, bundle, edits>>

(* ManifestDetector.detect: what is not readable, or no manifest, is passed *)
(* over; one that is well-formed but of another shape raises.               *)
ReadManifest(p) ==
    /\ pc = "manifests" /\ IsNext(p, todo) /\ Yields(ws, opts, p)
    /\ \/ /\ ManifestRaises(p, ws[p])
          /\ Fail("other")
          /\ UNCHANGED <<stacks, deps, todo, errors>>
       \/ \E m \in {Manifest[ws[p]], Unread} :
          /\ IF m = Unread THEN (Manifest[ws[p]] = Unread /\ UNCHANGED errors) \/ Error
             ELSE ~ManifestRaises(p, ws[p]) /\ UNCHANGED errors
          /\ deps' = deps \o DependenciesIn(p, m)
          /\ stacks' = stacks \o StacksIn(p, m, deps')
          /\ Advance(p)
          /\ UNCHANGED <<pc, failure>>
    /\ UNCHANGED <<world, import, parsed, others, secrets, bundle, edits>>

(* RegexSecretScanner.scan returns when its list is full.                   *)
ScanSecrets(p) ==
    /\ pc = "secrets" /\ IsNext(p, todo) /\ Yields(ws, opts, p)
    /\ \/ secrets' = Capped(secrets \o SecretsIn(p, ws[p])) /\ UNCHANGED errors
       \/ Error /\ UNCHANGED secrets
    /\ IF Full(secrets') THEN todo' = {} ELSE Advance(p)
    /\ UNCHANGED <<pc, world, import, parsed, others, stacks, deps, bundle, failure, edits>>

-----------------------------------------------------------------------------
(* What render and export are given.                                        *)
Docs == Documentation(ref, parsed, Edges(ToSet(parsed), order), DedupeStacks(stacks), deps,
                      IF opts.scanner THEN secrets ELSE None)

Document ==
    /\ pc = "document"
    /\ pc' = IF opts.out THEN "export" ELSE "done"
    /\ UNCHANGED <<world, import, todo, facts, bundle, failure, edits, errors>>

(* FolderExporter.export: the pages are written in place, one by one.       *)
WritePage ==
    /\ pc = "export"
    /\ \E i \in DOMAIN Pages :
          /\ \A j \in DOMAIN Pages : bundle[Pages[j]] = "new" <=> j < i
          /\ \/ bundle' = [bundle EXCEPT ![Pages[i]] = "new"]
                /\ UNCHANGED <<pc, failure, errors>>
             \/ bundle' = [bundle EXCEPT ![Pages[i]] = "torn"] /\ Error /\ Fail("other")
    /\ UNCHANGED <<world, import, todo, facts, edits>>

Exported ==
    /\ pc = "export" /\ \A i \in DOMAIN Pages : bundle[Pages[i]] = "new"
    /\ pc' = "done"
    /\ UNCHANGED <<world, import, todo, facts, bundle, failure, edits, errors>>

-----------------------------------------------------------------------------
ImportSource == FetchRemote \/ FetchArchive \/ FetchNothing \/ StartCopy \/ CopyNext \/ CopyEnds
Analyse ==
    \/ PassBy \/ EndPass
    \/ \E p \in todo : ParseFile(p) \/ ReadManifest(p) \/ ScanSecrets(p)
Output == Document \/ WritePage \/ Exported
Run == ImportSource \/ Analyse \/ Output

Next == Run \/ (\E change \in Changes : Edit(change[1], change[2])) \/ Commit

Spec == Init /\ [][Next]_vars

-----------------------------------------------------------------------------
Documented == pc \in {"export", "done"}
Paths(files) == {files[i].path : i \in DOMAIN files}
Counted == Paths(parsed) \cup others

TypeOK ==
    /\ pc \in Pc
    /\ <<source, opts>> \in Requests /\ order \in Orders
    /\ IsTree(tree) /\ IsTree(head) /\ IsTree(ws)
    /\ ref.kind \in {"none", "commit", "checksum"} /\ IsTree(ref.files)
    /\ open \subseteq [path: Seq(Names) \ {Root}, dir: BOOLEAN]
    /\ lost \in BOOLEAN
    /\ todo \subseteq Nodes(ws)
    /\ Counted \subseteq DOMAIN ws /\ others \subseteq DOMAIN ws
    /\ failure \in {"none", "domain", "other"}
    /\ edits \in 0..MaxEdits /\ errors \in 0..MaxErrors

(* What a scan selects: the files that are wanted and not ignored, beneath  *)
(* no directory that is.  A path is ignored if a rule says so that no other *)
(* rule for the path follows.                                               *)
IgnoredBy(rules, p, dir) ==
    \E i \in DOMAIN rules :
        /\ ~rules[i].negated /\ Hits(rules[i], p, dir)
        /\ \A j \in DOMAIN rules : j > i => ~Hits(rules[j], p, dir)

Wanted(p) ==
    opts.includes = {} \/ \E g \in opts.includes : Matches(p, g) \/ Matches(<<Name(p)>>, g)

Selected ==
    LET rules == RulesOf(ws, opts)
    IN  {p \in DOMAIN ws :
            /\ Wanted(p) /\ ~IgnoredBy(rules, p, FALSE)
            /\ \A d \in Above(p) : Name(d) \notin IgnoredDirs /\ ~IgnoredBy(rules, d, TRUE)}
Below(p, e) == p = e \/ e \in Above(p)

(* The walk visits the selected files, each of them once: at any time those *)
(* that are counted and those that lie below what is left of it are, and    *)
(* are apart.  It is an invariant of the first of the three passes.         *)
WalkIsSelection ==
    LET left == IF pc = "files" THEN {p \in Selected : \E e \in todo : Below(p, e)} ELSE {}
    IN  /\ pc \notin {"idle", "copy", "failed"} => Counted \cup left = Selected
        /\ Counted \cap left = {}
        /\ Len(parsed) + Cardinality(others) = Cardinality(Counted)

(* The copy of a directory that nobody touches is whole, but for what has   *)
(* the name of an ignored directory, and never holds what it has made       *)
(* itself, wherever in the directory the workspace is.  Whatever is edited  *)
(* while it is copied, a base_ref that is a checksum is one of the very     *)
(* files that were analysed.                                                *)
CopyIsOfSource ==
    /\ source.inside # Root => \A p \in DOMAIN ws : source.inside \notin Above(p)
    /\ (Provider(source) \in {"local_git", "folder"} /\ edits = 0
          /\ pc \notin {"idle", "copy", "failed"}) =>
          ws = [p \in {q \in DOMAIN tree : ToSet(q) \cap IgnoredDirs = {}} |-> tree[p]]
    /\ ref.kind = "checksum" =>
          \A p \in Paths(parsed) : p \in DOMAIN ref.files /\ ref.files[p] = ws[p]

(* The findings are the first of all that the selected files have, in the   *)
(* order of their paths and lines, as many as the list can hold.            *)
FindingsIn(p) == ToSet(SecretsIn(p, ws[p]))
Precedes(f, g) == Before(f.path, g.path) \/ (f.path = g.path /\ f.line < g.line)

FindingsAreFirst ==
    (opts.scanner /\ errors = 0 /\ pc \in {"document", "export", "done"}) =>
        LET all == UNION {FindingsIn(p) : p \in Selected}
        IN  /\ Len(secrets) <= MaxFindings /\ ToSet(secrets) \subseteq all
            /\ \A i, j \in DOMAIN secrets : i < j => Precedes(secrets[i], secrets[j])
            /\ \A f \in all \ ToSet(secrets) :
                  /\ Len(secrets) = MaxFindings
                  /\ \A i \in DOMAIN secrets : Precedes(secrets[i], f)

(* A flow shows at most so many modules, each of them within so many steps  *)
(* of the entrypoint, and all of these if there is room for them.           *)
Reached(start, edges) ==
    LET r[k \in 0..MaxFlowDepth] ==
            IF k = 0 THEN {start}
            ELSE r[k - 1] \cup {e[2] : e \in {d \in edges : d[1] \in r[k - 1]}}
    IN  r[MaxFlowDepth]

IsReached(flow, reach) ==
    LET start == flow.entrypoint.module
        shown == {start} \cup UNION {{e[1], e[2]} : e \in flow.edges}
    IN  /\ shown \subseteq Reached(start, flow.edges)
        /\ Cardinality(shown) <= MaxFlowNodes
        /\ Cardinality(reach) <= MaxFlowNodes => shown = reach

FlowsAreReached ==
    LET Graph(docs) ==
            CallEdges(parsed)
            \cup UNION {{<<m.module, d>> : d \in m.depends_on} : m \in docs.modules}
        All(docs, graph) ==
            \A flow \in docs.flows :
                IsReached(flow, Reached(flow.entrypoint.module, graph))
        In(docs) == All(docs, Graph(docs))
    IN  Documented => In(Docs)

(* The path of a Spring route is made of the paths of all classes around    *)
(* its method, the outermost first, and its own.                            *)
ClassesAround(t, n) == {c \in Ancestors(t)[n] : t[c].type = "class_declaration"}
ClassPath(t, c) ==
    LET mapped == {a \in Annotations(t, c) : AnnotationName(t, a) = "RequestMapping"}
    IN  IF mapped = {} THEN <<>> ELSE AnnotationPath(t, Max(mapped)).segs
PathOf(t, classes) ==
    LET path[k \in 0..Len(classes)] ==
            IF k = 0 THEN <<>> ELSE path[k - 1] \o ClassPath(t, classes[k])
    IN  path[Len(classes)]
MappedPaths(t) ==
    UNION {{PathOf(t, InOrder(ClassesAround(t, n), <)) \o AnnotationPath(t, a).segs :
               a \in {b \in Annotations(t, n) : AnnotationName(t, b) \in DOMAIN SpringMapping}}
           : n \in Methods(t)}

RoutesAreMapped ==
    LET Mapped(files, routes) ==
            \A p \in {q \in Paths(files) : Language(q) = "java" /\ IsParsed(q, ws[q])} :
                {r.path.segs : r \in {q \in routes : q.file = p}} = MappedPaths(Ast[ws[p]])
    IN  Documented => Mapped(parsed, Docs.api.routes)

(* The pages agree: each file that was analysed is in one module, whatever  *)
(* another page says of a module or of a file of one is said of one on the  *)
(* page of the modules, and dependencies and findings are of files that the *)
(* scan selects.                                                            *)
PagesAgree ==
    LET Holds(docs, module, file) ==
            \E m \in docs.modules : m.module = module /\ file \in m.files
        Agree(docs, modules) ==
            /\ \A p \in Paths(parsed) : Cardinality({m \in docs.modules : p \in m.files}) = 1
            /\ \A x \in docs.api.routes \cup docs.api.calls \cup docs.entrypoints :
                  Holds(docs, x.module, x.file)
            /\ \A flow \in docs.flows :
                  /\ flow.entrypoint \in docs.entrypoints
                  /\ \A e \in flow.edges : {e[1], e[2]} \subseteq modules
            /\ UNION {f.modules : f \in docs.features} = {e.module : e \in docs.entrypoints}
            /\ UNION {m.depends_on : m \in docs.modules} \subseteq modules
            /\ {d.manifest : d \in docs.dependencies} \cup {f.path : f \in docs.security}
                  \subseteq Selected
        In(docs) == Agree(docs, {m.module : m \in docs.modules})
    IN  Documented => In(Docs)

(* An uncaught exception ends a scan for these reasons only: what was to be *)
(* imported could not be, a page could not be written, or a file that the   *)
(* scan selects is too deeply nested or a manifest of an unexpected shape.  *)
(* A file that cannot be read, is malformed, or is passed over by the walk  *)
(* costs the scan nothing but its own facts.  And where all files could be  *)
(* read no such exception is swallowed: there are pages only if nothing of  *)
(* the kind was met.                                                        *)
Fatal(p) ==
    \/ Language(p) # "unknown" /\ ParseRaises(p, ws[p])
    \/ ManifestRaises(p, ws[p])

FailsForACause ==
    /\ failure = "other" =>
          \/ lost \/ (ws = NoTree /\ errors > 0)
          \/ \E s \in ToSet(Pages) : bundle[s] = "torn"
          \/ \E p \in Selected : Fatal(p)
    /\ Documented => ~lost /\ (errors = 0 => \A p \in Selected : ~Fatal(p))
=============================================================================
