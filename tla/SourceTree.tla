----------------------------- MODULE SourceTree -----------------------------
(***************************************************************************)
(* The files of a codebase, how a location of one is recognised, and which *)
(* of its files a scan selects: domain/model/workspace.py,                 *)
(* domain/services/tree_checksum.py, the source providers and their        *)
(* resolver.                                                               *)
(*                                                                         *)
(* A path is a non-empty sequence of names, a tree a function from the     *)
(* paths of its files to their contents; symbolic links are left out.      *)
(***************************************************************************)
EXTENDS Integers, SequencesExt, FiniteSetsExt

CONSTANTS
    Names,      \* of files and directories
    NameRank,   \* the order of the names, in which a directory is walked
    Contents,   \* of files
    LinesOf,    \* the lines of a content, when it is read as a .gitignore
    None

ASSUME SourceTreeAssumption ==
    /\ NameRank \in [Names -> Nat]
    /\ \A m, n \in Names : NameRank[m] = NameRank[n] => m = n
    /\ DOMAIN LinesOf = Contents
    /\ \A c \in Contents : LinesOf[c] \in Seq(ToSet(LinesOf[c]))
    /\ None \notin Contents

Root == <<>>
NoTree == [p \in {} |-> None]

(* The directories above p, the files and directories of a tree, and those  *)
(* in one directory.                                                        *)
Above(p) == {SubSeq(p, 1, k) : k \in 1..(Len(p) - 1)}
Nodes(tree) == DOMAIN tree \cup UNION {Above(p) : p \in DOMAIN tree}
IsDir(tree, p) == \E q \in DOMAIN tree : p \in Above(q)
Entries(tree, d) ==
    {e \in Nodes(tree) : Len(e) = Len(d) + 1 /\ SubSeq(e, 1, Len(d)) = d}
Name(p) == p[Len(p)]

IgnoredDirs ==
    {".git", ".hg", ".svn", "node_modules", ".venv", "venv", "__pycache__",
     ".mypy_cache", ".pytest_cache", ".ruff_cache", ".tox", ".cache", "dist",
     "build", "target", ".next", "coverage", ".nyc_output", ".idea", ".gradle",
     "Pods", "workspaces", "docs-output"}

-----------------------------------------------------------------------------
(* Ignore rules.  A line is "!" (bang), "/" (lead), the parts of a path, "*" *)
(* (star) and "/" (slash), all but the parts optional; one without parts    *)
(* and star is blank, and a comment counts as one.                          *)
Glob(l) == [parts |-> l.parts, star |-> l.star]

(* fnmatch: "*" stands for any text, slashes included.                      *)
Matches(target, glob) ==
    IF glob.star THEN IsStrictPrefix(glob.parts, target) ELSE target = glob.parts

Rule(l) ==
    [glob |-> Glob(l), negated |-> l.bang, dir_only |-> l.slash,
     anchored |-> l.lead \/ Len(l.parts) + (IF l.star THEN 1 ELSE 0) > 1]

(* Lines without parts and star are dropped; as a rule they would hit       *)
(* nothing.                                                                 *)
Rules(lines) == [i \in 1..Len(lines) |-> Rule(lines[i])]

Hits(r, p, dir) ==
    (r.dir_only => dir) /\ Matches(IF r.anchored THEN p ELSE <<Name(p)>>, r.glob)

(* Mutant: a rule that ignores a path is the last word on it.               *)
IgnoredByAny(rules, p, dir) ==
    \E i \in DOMAIN rules : Hits(rules[i], p, dir) /\ ~rules[i].negated

(* _IgnoreRules.ignored: the last rule that matches wins.                   *)
Ignored(rules, p, dir) ==
    LET hits == {i \in DOMAIN rules : Hits(rules[i], p, dir)}
    IN  hits # {} /\ ~rules[Max(hits)].negated

(* The options of a scan: gitignore, excludes (lines), includes (globs).    *)
RulesOf(tree, opts) ==
    Rules((IF opts.gitignore /\ <<".gitignore">> \in DOMAIN tree
           THEN LinesOf[tree[<<".gitignore">>]] ELSE <<>>) \o opts.excludes)

(* What Workspace._walk passes over, and which of the other files it keeps. *)
SkipsDir(tree, opts, d) ==
    Name(d) \in IgnoredDirs \/ Ignored(RulesOf(tree, opts), d, TRUE)

Keeps(tree, opts, p) ==
    /\ ~Ignored(RulesOf(tree, opts), p, FALSE)
    /\ \/ opts.includes = {}
       \/ \E g \in opts.includes : Matches(p, g) \/ Matches(<<Name(p)>>, g)

(* The walk is depth first, and takes the entries of a directory in the    *)
(* order of their names: of all that is left of the directories that are   *)
(* open (todo), the path that comes before the others.                     *)
Before(p, q) ==
    \E i \in 1..Len(p) : /\ i <= Len(q)
                         /\ SubSeq(p, 1, i - 1) = SubSeq(q, 1, i - 1)
                         /\ NameRank[p[i]] < NameRank[q[i]]
IsNext(p, todo) == p \in todo /\ \A q \in todo \ {p} : Before(p, q)

(* Mutant: a directory is passed over for its name, but not by the rules.   *)
WalkByName(tree, opts, todo, p) ==
    (todo \ {p}) \cup
        (IF IsDir(tree, p) /\ Name(p) \notin IgnoredDirs THEN Entries(tree, p) ELSE {})

Walk(tree, opts, todo, p) ==
    (todo \ {p}) \cup
        (IF IsDir(tree, p) /\ ~SkipsDir(tree, opts, p) THEN Entries(tree, p) ELSE {})

Yields(tree, opts, p) == ~IsDir(tree, p) /\ Keeps(tree, opts, p)

(* compute_tree_checksum: a hash of the paths and the contents of all files *)
(* but those beneath a directory of an ignored name.                        *)
Checksum(tree) ==
    [p \in {q \in DOMAIN tree : \A d \in Above(q) : Name(d) \notin IgnoredDirs}
        |-> tree[p]]

-----------------------------------------------------------------------------
(* Locations.  A remote repository has an URL; a directory may hold a .git; *)
(* a file has a suffix and a format.                                        *)
IsGitRemote(loc) == loc.kind = "url"
IsZip(loc) == loc.kind = "file" /\ (loc.suffix = "zip" \/ loc.format = "zip")
IsTarGz(loc) == loc.kind = "file" /\ (loc.suffix = "tar" \/ loc.format = "tar")
IsLocalGit(loc) == loc.kind = "dir" /\ loc.git # "none"
IsFolder(loc) == loc.kind = "dir" /\ loc.git = "none"

(* SourceProviderResolver.resolve: the first that supports the location.    *)
Provider(loc) ==
    CASE IsGitRemote(loc) -> "git_remote"
      [] ~IsGitRemote(loc) /\ IsZip(loc) -> "zip"
      [] ~IsZip(loc) /\ IsTarGz(loc) -> "targz"
      [] IsLocalGit(loc) -> "local_git"
      [] IsFolder(loc) -> "folder"
      [] OTHER -> "none"

(* read_git_head_sha: of a directory .git whose HEAD is detached or names a *)
(* branch that has a loose or a packed ref.  In a worktree .git is a file.  *)
HasSha(loc) == loc.git \in {"detached", "loose", "packed"}

(* extractall and _collapse_single_root: a single directory at the top of   *)
(* an archive is the root; in a zip, one named __MACOSX does not count.     *)
Collapsed(tree, zip) ==
    LET top == {e \in Entries(tree, Root) : ~(zip /\ Name(e) = "__MACOSX")}
        wrapped == {e \in top : top = {e} /\ IsDir(tree, e)}
        Inner(e) == {q \in DOMAIN tree : e \in Above(q)}
    IN  IF wrapped = {} THEN tree
        ELSE LET e == CHOOSE e \in wrapped : TRUE
             IN  [p \in {Tail(q) : q \in Inner(e)} |-> tree[e \o p]]
=============================================================================
