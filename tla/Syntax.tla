------------------------------- MODULE Syntax -------------------------------
(***************************************************************************)
(* infrastructure/parsing/tree_sitter_parser.py: what is read from the     *)
(* syntax tree of a file.  A tree is the sequence of its nodes in preorder, *)
(* each with its type, its parent (up, 0 for the root), the field of the   *)
(* parent it is in, and the text it stands for: a name, an import as in    *)
(* ModuleGraph, or the path of an URL.  Punctuation is left out.           *)
(***************************************************************************)
EXTENDS ModuleGraph, FiniteSetsExt

CONSTANT MaxDepth   \* of the interpreter's stack
ASSUME DepthAssumption == MaxDepth \in Nat

Children(t, n) == {k \in DOMAIN t : t[k].up = n}
OfType(t, ns, types) == {k \in ns : t[k].type \in types}
(* A node that may be missing is a set; a list of nodes is in tree order.   *)
FirstNode(ns) == IF ns = {} THEN {} ELSE {Min(ns)}
Field(t, n, f) == FirstNode({k \in Children(t, n) : t[k].field = f})
Text(t, n) == t[n].text
TheText(t, ns) == Text(t, CHOOSE n \in ns : TRUE)
Texts(t, ns) == {Text(t, n) : n \in ns}

(* The elements of a set, sorted.                                           *)
InOrder(set, Less(_, _)) ==
    [i \in 1..Cardinality(set) |->
        CHOOSE x \in set : Cardinality({y \in set : Less(y, x)}) = i - 1]

-----------------------------------------------------------------------------
(* _build_specs *)
Java ==
    [symbols |-> [class_declaration |-> "class", record_declaration |-> "class",
                  interface_declaration |-> "interface",
                  annotation_type_declaration |-> "interface",
                  enum_declaration |-> "enum", method_declaration |-> "method",
                  constructor_declaration |-> "method"],
     imports |-> {"import_declaration"}, packages |-> {"package_declaration"},
     style |-> "text", calls |-> {"object_creation_expression", "method_invocation"}]
Kotlin ==
    [symbols |-> [class_declaration |-> "class", object_declaration |-> "object",
                  function_declaration |-> "function"],
     imports |-> {"import"}, packages |-> {"package_header"},
     style |-> "text", calls |-> {"call_expression"}]
TypeScript ==
    [symbols |-> [class_declaration |-> "class", abstract_class_declaration |-> "class",
                  interface_declaration |-> "interface", enum_declaration |-> "enum",
                  function_declaration |-> "function", function_signature |-> "function",
                  method_definition |-> "method"],
     imports |-> {"import_statement"}, packages |-> {},
     style |-> "source", calls |-> {"call_expression", "new_expression"}]
Python ==
    [symbols |-> [class_definition |-> "class", function_definition |-> "function"],
     imports |-> {"import_statement", "import_from_statement"}, packages |-> {},
     style |-> "python", calls |-> {"call"}]
Specs == [java |-> Java, kotlin |-> Kotlin, typescript |-> TypeScript,
          tsx |-> TypeScript, javascript |-> TypeScript, python |-> Python]

-----------------------------------------------------------------------------
(* parse: the loop over its stack of nodes, which takes the last child      *)
(* first.                                                                   *)
Visited(t) ==
    LET visit[stack \in Seq(DOMAIN t)] ==
            IF stack = <<>> THEN <<>>
            ELSE LET n == Last(stack)
                     children == InOrder(Children(t, n), <)
                 IN  <<n>> \o visit[Front(stack) \o children]
    IN  visit[<<1>>]

SymbolName(t, n) ==
    OrElse(Field(t, n, "name"),
           FirstNode(OfType(t, Children(t, n),
                            {"identifier", "type_identifier", "simple_identifier"})))

(* _import_target: in which node the target is.                             *)
ImportTarget(t, n, style) ==
    LET module == Field(t, n, "module_name")
        Named(k) == IF t[k].type = "aliased_import"
                    THEN OrElse(Field(t, k, "name"), {k}) ELSE {k}
        dotted == {k \in Children(t, n) :
                      OfType(t, Named(k), {"dotted_name", "identifier"}) # {}}
    IN  CASE style = "source" -> Field(t, n, "source")
          [] style = "python" ->
                IF module # {} THEN module ELSE UNION {Named(k) : k \in FirstNode(dotted)}
          [] style = "text" -> {n}

(* _call_target: constructors and unqualified functions only.               *)
CallTarget(t, n) ==
    LET target ==
          CASE t[n].type = "object_creation_expression" -> Field(t, n, "type")
            [] t[n].type = "new_expression" -> Field(t, n, "constructor")
            [] t[n].type = "method_invocation" ->
                  IF Field(t, n, "object") = {} THEN Field(t, n, "name") ELSE {}
            [] t[n].type = "call" -> Field(t, n, "function")
            [] t[n].type = "call_expression" ->
                  OrElse(Field(t, n, "function"), FirstNode(Children(t, n)))
    IN  OfType(t, target, {"identifier", "type_identifier", "simple_identifier",
                           "scoped_type_identifier"})

Symbols(t, spec) ==
    LET IsSymbol(n) == t[n].type \in DOMAIN spec.symbols /\ SymbolName(t, n) # {}
        found == SelectSeq(Visited(t), IsSymbol)
    IN  [i \in 1..Len(found) |-> [name |-> TheText(t, SymbolName(t, found[i])),
                                  kind |-> spec.symbols[t[found[i]].type]]]

Imports(t, spec) ==
    UNION {Texts(t, ImportTarget(t, n, spec.style)) :
               n \in OfType(t, DOMAIN t, spec.imports)}

PackageOf(t, spec) ==
    LET IsPackage(n) == t[n].type \in spec.packages
        found == SelectSeq(Visited(t), IsPackage)
    IN  IF found = <<>> THEN <<>> ELSE Text(t, Last(found))

Calls(t, spec) ==
    UNION {Texts(t, CallTarget(t, n)) : n \in OfType(t, DOMAIN t, spec.calls)}

-----------------------------------------------------------------------------
(* HTTP routes and calls.  The path of an URL has a lead ("/", "http" or    *)
(* "") and segments; the host, the query and a "/" at the end are left out. *)
Empty == [lead |-> "", segs |-> <<>>]
IsUrl(path) == path.lead \in {"/", "http"}

Join(base, path) ==
    [lead |-> IF (IF base # Empty THEN base ELSE path).lead = "http"
              THEN "http" ELSE "/",
     segs |-> base.segs \o path.segs]

StringTypes == {"string", "string_literal", "template_string"}
(* _string_value: a string with a prefix, as f"...", has none.              *)
NoValue == [lead |-> "none", segs |-> <<>>]
FirstString(t, args) ==
    LET first == FirstNode(UNION {OfType(t, Children(t, a), StringTypes) : a \in args})
    IN  {n \in first : Text(t, n) # NoValue}

SpringMapping ==
    [GetMapping |-> "GET", PostMapping |-> "POST", PutMapping |-> "PUT",
     DeleteMapping |-> "DELETE", PatchMapping |-> "PATCH", RequestMapping |-> "ANY"]
Verb(name) == [get |-> "GET", post |-> "POST", put |-> "PUT", delete |-> "DELETE",
               patch |-> "PATCH"][name]
Verbs == {"get", "post", "put", "delete", "patch"}

Annotations(t, n) ==
    LET own == Children(t, n)
        inner == UNION {Children(t, m) : m \in OfType(t, own, {"modifiers"})}
    IN  OfType(t, own \cup inner, {"annotation", "marker_annotation"})
AnnotationName(t, a) == TheText(t, Field(t, a, "name"))

AnnotationPath(t, a) ==
    LET args == UNION {Children(t, k) : k \in Field(t, a, "arguments")}
        Value(k) ==
          IF t[k].type = "element_value_pair"
          THEN IF Texts(t, Field(t, k, "key")) \cap {"value", "path"} # {}
               THEN OfType(t, Field(t, k, "value"), StringTypes) ELSE {}
          ELSE OfType(t, {k}, {"string_literal"})
        given == FirstNode({k \in args : Value(k) # {}})
    IN  IF given = {} THEN Empty
        ELSE TheText(t, UNION {Value(k) : k \in given})

(* Mutant: a nested class forgets the path of the classes around it.        *)
ClassBaseAlone(t, c, base) ==
    LET mappings == {a \in Annotations(t, c) : AnnotationName(t, a) = "RequestMapping"}
    IN  IF mappings = {} THEN base ELSE Join(Empty, AnnotationPath(t, Max(mappings)))

(* _walk_java_http: the base path that comes down to each node.  Of several *)
(* @RequestMapping on a class the last one counts.                          *)
ClassBase(t, c, base) ==
    LET mappings == {a \in Annotations(t, c) : AnnotationName(t, a) = "RequestMapping"}
    IN  IF mappings = {} THEN base ELSE Join(base, AnnotationPath(t, Max(mappings)))

Base(t) ==
    LET base[n \in DOMAIN t] ==
            IF t[n].up = 0 THEN Empty
            ELSE IF t[n].type = "class_body" /\ t[t[n].up].type = "class_declaration"
            THEN ClassBase(t, t[n].up, base[t[n].up])
            ELSE base[t[n].up]
    IN  base

Ancestors(t) ==
    LET above[n \in DOMAIN t] ==
            IF t[n].up = 0 THEN {} ELSE {t[n].up} \cup above[t[n].up]
    IN  above

(* A method is not looked into: its local classes are not seen.             *)
Methods(t) ==
    LET types == {"method_declaration", "constructor_declaration"}
    IN  {n \in OfType(t, DOMAIN t, types) : OfType(t, Ancestors(t)[n], types) = {}}

JavaRoutes(t) ==
    LET base == Base(t)
        Mapped(n) == {a \in Annotations(t, n) : AnnotationName(t, a) \in DOMAIN SpringMapping}
    IN  UNION {{[method |-> SpringMapping[AnnotationName(t, a)],
                 path |-> Join(base[n], AnnotationPath(t, a)),
                 handler |-> TheText(t, Field(t, n, "name"))] : a \in Mapped(n)}
               : n \in Methods(t)}

(* _python_decorator_route: @<anything>.<verb>("path", ...)                 *)
PythonRoutes(t) ==
    LET Call(d) == FirstNode(OfType(t, Children(t, d), {"call"}))
        Function(d) == OfType(t, UNION {Field(t, c, "function") : c \in Call(d)}, {"attribute"})
        Attribute(d) == Texts(t, UNION {Field(t, f, "attribute") : f \in Function(d)})
        Path(d) == FirstString(t, UNION {Field(t, c, "arguments") : c \in Call(d)})
        Handler(n) == TheText(t, UNION {Field(t, f, "name") : f \in Field(t, n, "definition")})
        Decorators(n) == {d \in OfType(t, Children(t, n), {"decorator"}) :
                             Attribute(d) \cap Verbs # {} /\ Path(d) # {}}
    IN  UNION {{[method |-> Verb(CHOOSE v \in Attribute(d) : TRUE),
                 path |-> Join(Empty, TheText(t, Path(d))), handler |-> Handler(n)]
                : d \in Decorators(n)}
               : n \in OfType(t, DOMAIN t, {"decorated_definition"})}

(* _ts_http_call: fetch("...") may be of any method, as may a route that is *)
(* mapped without one.  A receiver is one whose name holds http or axios.   *)
HttpReceivers == {"http", "this.http", "axios"}
TsCalls(t) ==
    LET Function(n) == Field(t, n, "function")
        Path(n) == FirstString(t, Field(t, n, "arguments"))
        Property(n) == Texts(t, UNION {Field(t, f, "property") : f \in Function(n)})
        Object(n) == Texts(t, UNION {Field(t, f, "object") : f \in Function(n)})
        Fetches(n) == Texts(t, OfType(t, Function(n), {"identifier"})) = {"fetch"}
        Sends(n) ==
            /\ OfType(t, Function(n), {"member_expression"}) # {}
            /\ Property(n) \cap Verbs # {} /\ Object(n) \cap HttpReceivers # {}
        urls == {n \in OfType(t, DOMAIN t, {"call_expression"}) :
                     Path(n) # {} /\ IsUrl(TheText(t, Path(n)))}
    IN  {[method |-> "ANY", path |-> TheText(t, Path(n))] : n \in {u \in urls : Fetches(u)}}
        \cup {[method |-> Verb(CHOOSE v \in Property(n) : TRUE), path |-> TheText(t, Path(n))]
              : n \in {u \in urls : Sends(u)}}

(* The walks for HTTP are recursive, unlike the one for symbols: a tree     *)
(* that is too deep ends in a RecursionError.                               *)
TooDeep(t, language) ==
    LET inMethods == UNION {Children(t, n) : n \in Methods(t)}
        seen == IF language = "java"
                THEN {n \in DOMAIN t : (Ancestors(t)[n] \cup {n}) \cap inMethods = {}}
                ELSE DOMAIN t
    IN  /\ language # "kotlin"
        /\ \E n \in seen : Cardinality(Ancestors(t)[n]) >= MaxDepth

(* A tree that comes of a grammar: parents come before their children, what *)
(* an annotation is given for a path is one, and the methods of a class are *)
(* in its body.                                                             *)
IsSyntaxTree(t) ==
    /\ t \in Seq(ToSet(t))
    /\ \A n \in DOMAIN t : t[n].up \in 0..(n - 1)
    /\ \A n \in DOMAIN t : \A a \in Annotations(t, n) :
          AnnotationPath(t, a).segs \in Seq(ToSet(AnnotationPath(t, a).segs))
    /\ \A m \in Methods(t) : \A n \in Ancestors(t)[m] \cup {m} :
          (t[n].up # 0 /\ t[t[n].up].type = "class_declaration") => t[n].type = "class_body"

Parse(t, language) ==
    LET spec == Specs[language]
    IN  [symbols |-> Symbols(t, spec), imports |-> Imports(t, spec),
         package |-> PackageOf(t, spec), calls |-> Calls(t, spec),
         routes |-> CASE language = "java" -> JavaRoutes(t)
                      [] language = "python" -> PythonRoutes(t)
                      [] OTHER -> {},
         http_calls |-> IF language \in {"typescript", "tsx", "javascript"}
                        THEN TsCalls(t) ELSE {}]
=============================================================================
