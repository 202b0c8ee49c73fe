---------------------------- MODULE ModuleGraph ----------------------------
(***************************************************************************)
(* domain/services/module_graph.py: which modules a scanned codebase has   *)
(* and which of them its imports resolve to.  A codebase is a set of       *)
(* parsed files; paths and dotted names are sequences of parts (a part     *)
(* holds neither "/" nor "."), and the weights of the edges are left out.  *)
(*                                                                         *)
(* The set of module ids is a Python set of strings, whose iteration order *)
(* is a parameter (order): it differs from process to process.             *)
(***************************************************************************)
EXTENDS Integers, SequencesExt

CONSTANTS
    Parts,      \* the parts of paths and names
    Width       \* how many characters each of them has

ASSUME WidthAssumption == Width \in [Parts -> Nat \ {0}]

(* A module id is a string: a package "a.b" and a directory "a/b" differ,   *)
(* a package "a" and a directory "a" do not, and <<>> is "(root)".          *)
Id(sep, parts) ==
    [sep |-> IF Len(parts) > 1 THEN sep ELSE "none", parts |-> parts]
Dir(parts) == Id("/", parts)
Package(parts) == Id(".", parts)

(* f.package is <<>> for a file that has none.                              *)
ModuleOf(f) == IF f.package # <<>> THEN Package(f.package) ELSE Dir(f.dir)
Modules(code) == {ModuleOf(f) : f \in code}

Up(parts, n) == SubSeq(parts, 1, IF n < Len(parts) THEN Len(parts) - n ELSE 0)

(* What a resolution finds: {} is None.                                     *)
OrElse(found, other) == IF found # {} THEN found ELSE other

Chars(m) == FoldSeq(LAMBDA p, n : n + Width[p], Len(m.parts), m.parts)
Longest(ms) == {m \in ms : \A n \in ms : Chars(n) <= Chars(m)}
First(ms, order) == {m \in ms : \A n \in ms : order[m] <= order[n]}

(* _resolve_as_path: the longest directory that ends in these parts; max()  *)
(* keeps the first of those that are equally long.                          *)
AsPath(parts, index, order) ==
    IF parts = <<>> THEN {}
    ELSE First(Longest({m \in index : m.sep = "/" /\ IsSuffix(parts, m.parts)}),
               order)

(* "./a", "../a": the directory of the normalised path.  One ".." too many  *)
(* is the path "..", whose directory is the root again.                     *)
Relative(f, imp, index) ==
    IF imp.up <= Len(f.dir)
    THEN {Dir(Up(Up(f.dir, imp.up) \o imp.parts, 1))} \cap index
    ELSE IF imp.up = Len(f.dir) + 1 /\ imp.parts = <<>> THEN {Dir(<<>>)} \cap index
    ELSE {}

(* ".a", "..a": one dot is the directory of the file.                       *)
Dotted(f, imp, index, order) ==
    OrElse({Dir(Up(f.dir, imp.up - 1) \o imp.parts)} \cap index,
           AsPath(imp.parts, index, order))

(* "a/b": a module or nothing.                                              *)
Bare(imp, index) == {Dir(imp.parts)} \cap index

(* "a.b.*" and "a.b".                                                       *)
Absolute(imp, index, order) ==
    LET package == IF imp.star \/ Len(imp.parts) = 1 THEN imp.parts
                   ELSE Up(imp.parts, 1)
    IN  OrElse({Package(package)} \cap index,
        OrElse({Package(imp.parts)} \cap index,
        OrElse(AsPath(imp.parts, index, order),
               AsPath(package, index, order))))

Resolve(f, imp, index, order) ==
    CASE imp.form = "path" -> Relative(f, imp, index)
      [] imp.form = "dots" -> Dotted(f, imp, index, order)
      [] imp.form = "bare" -> Bare(imp, index)
      [] OTHER -> Absolute(imp, index, order)

Edges(code, order) ==
    UNION {{<<ModuleOf(f), m>> :
               m \in UNION {Resolve(f, imp, Modules(code), order) : imp \in f.imports}
                        \ {ModuleOf(f)}}
           : f \in code}
=============================================================================
