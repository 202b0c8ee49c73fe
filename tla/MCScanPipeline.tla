--------------------------- MODULE MCScanPipeline ---------------------------
(* A small shop: a controller with a nested class, three packages that it   *)
(* imports, a script, a client of the API, and manifests.  It is scanned as *)
(* a directory that holds the workspace, as a repository, as an archive,    *)
(* and as what cannot be scanned.                                           *)
EXTENDS ScanPipeline

MCNames == {"A.java", "B.java", "C.java", "D.java", "app.py", "web.ts", "package.json",
            "requirements.txt", ".gitignore", "api", "core", "data", "util", "gen",
            "dist", "work", "w1"}
MCExt == [n \in MCNames |->
    CASE n \in {"A.java", "B.java", "C.java", "D.java"} -> "java"
      [] n = "app.py" -> "py" [] n = "web.ts" -> "ts" [] n = "package.json" -> "json"
      [] n = "requirements.txt" -> "txt" [] OTHER -> ""]
MCRank == [n \in MCNames |-> CHOOSE i \in 1..17 : <<
    ".gitignore", "A.java", "B.java", "C.java", "D.java", "api", "app.py", "core", "data",
    "dist", "gen", "package.json", "requirements.txt", "util", "w1", "web.ts", "work">>[i] = n]

MCContents == {"controller", "core", "data", "util", "script", "client", "npm", "bad",
               "reqs", "rules", "deep", "text"}
MCParts == MCNames \cup {"org", "springframework", "web"}
MCWidth == [p \in MCParts |-> 1]

Ignore(parts, slash) ==
    [bang |-> FALSE, lead |-> FALSE, parts |-> parts, star |-> FALSE, slash |-> slash]
MCLinesOf == [c \in MCContents |->
    IF c = "rules"
    THEN <<Ignore(<<"gen">>, TRUE), Ignore(<<"web.ts">>, FALSE),
           [Ignore(<<"web.ts">>, FALSE) EXCEPT !.bang = TRUE]>>
    ELSE <<>>]

-----------------------------------------------------------------------------
Node(type, up, field, text) == [type |-> type, up |-> up, field |-> field, text |-> text]
Import(parts, star) == [form |-> "name", up |-> 0, parts |-> parts, star |-> star]
Url(segs) == [lead |-> "/", segs |-> segs]

(* @RequestMapping("/shop") class Shop { @GetMapping list(); @RequestMapping *)
(* ("/things") @RequestMapping("/items") class Items { @PostMapping(path =  *)
(* "/{id}") add() { new Tool() } }  x = new Tool() { @PutMapping run() } }  *)
Controller == <<
    Node("program", 0, "", ""),
    Node("package_declaration", 1, "", <<"api">>),
    Node("import_declaration", 1, "", Import(<<"core", "B">>, FALSE)),
    Node("import_declaration", 1, "", Import(<<"data", "C">>, FALSE)),
    Node("import_declaration", 1, "", Import(<<"org", "springframework", "web">>, TRUE)),
    Node("class_declaration", 1, "", ""),
    Node("modifiers", 6, "", ""),
    Node("annotation", 7, "", ""),
    Node("identifier", 8, "name", "RequestMapping"),
    Node("annotation_argument_list", 8, "arguments", ""),
    Node("string_literal", 10, "", Url(<<"shop">>)),
    Node("identifier", 6, "name", "Shop"),
    Node("class_body", 6, "body", ""),
    Node("method_declaration", 13, "", ""),
    Node("modifiers", 14, "", ""),
    Node("marker_annotation", 15, "", ""),
    Node("identifier", 16, "name", "GetMapping"),
    Node("identifier", 14, "name", "list"),
    Node("class_declaration", 13, "", ""),
    Node("modifiers", 19, "", ""),
    Node("annotation", 20, "", ""),
    Node("identifier", 21, "name", "RequestMapping"),
    Node("annotation_argument_list", 21, "arguments", ""),
    Node("string_literal", 23, "", Url(<<"things">>)),
    Node("annotation", 20, "", ""),
    Node("identifier", 25, "name", "RequestMapping"),
    Node("annotation_argument_list", 25, "arguments", ""),
    Node("string_literal", 27, "", Url(<<"items">>)),
    Node("identifier", 19, "name", "Items"),
    Node("class_body", 19, "body", ""),
    Node("method_declaration", 30, "", ""),
    Node("modifiers", 31, "", ""),
    Node("annotation", 32, "", ""),
    Node("identifier", 33, "name", "PostMapping"),
    Node("annotation_argument_list", 33, "arguments", ""),
    Node("element_value_pair", 35, "", ""),
    Node("identifier", 36, "key", "path"),
    Node("string_literal", 36, "value", Url(<<"{id}">>)),
    Node("identifier", 31, "name", "add"),
    Node("block", 31, "body", ""),
    Node("object_creation_expression", 40, "", ""),
    Node("type_identifier", 41, "type", "Tool"),
    Node("field_declaration", 13, "", ""),
    Node("variable_declarator", 43, "declarator", ""),
    Node("object_creation_expression", 44, "value", ""),
    Node("type_identifier", 45, "type", "Tool"),
    Node("class_body", 45, "", ""),
    Node("method_declaration", 47, "", ""),
    Node("modifiers", 48, "", ""),
    Node("marker_annotation", 49, "", ""),
    Node("identifier", 50, "name", "PutMapping"),
    Node("identifier", 48, "name", "run")>>

(* A file with a package and one class, that imports another.               *)
JavaFile(package, class, imports) ==
    <<Node("program", 0, "", ""), Node("package_declaration", 1, "", package),
      Node("class_declaration", 1, "", ""), Node("identifier", 3, "name", class)>>
    \o [i \in 1..Len(imports) |->
            Node("import_declaration", 1, "", Import(imports[i], FALSE))]

(* @app.get("/orders") def main(): ...                                      *)
Script == <<
    Node("module", 0, "", ""),
    Node("decorated_definition", 1, "", ""),
    Node("decorator", 2, "", ""),
    Node("call", 3, "", ""),
    Node("attribute", 4, "function", ""),
    Node("identifier", 5, "attribute", "get"),
    Node("argument_list", 4, "arguments", ""),
    Node("string", 7, "", Url(<<"orders">>)),
    Node("function_definition", 2, "definition", ""),
    Node("identifier", 9, "name", "main")>>

(* import "gen/gen"; fetch("/orders"); http.post("/shop/items/{id}")        *)
Client == <<
    Node("program", 0, "", ""),
    Node("call_expression", 1, "", ""),
    Node("identifier", 2, "function", "fetch"),
    Node("arguments", 2, "arguments", ""),
    Node("string", 4, "", Url(<<"orders">>)),
    Node("call_expression", 1, "", ""),
    Node("member_expression", 6, "function", ""),
    Node("identifier", 7, "object", "http"),
    Node("property_identifier", 7, "property", "post"),
    Node("arguments", 6, "arguments", ""),
    Node("string", 10, "", Url(<<"shop", "items", "{id}">>)),
    Node("import_statement", 1, "", ""),
    Node("string", 12, "source", [Import(<<"gen", "gen">>, FALSE) EXCEPT !.form = "bare"])>>

Deep == [i \in 1..10 |-> Node("block", i - 1, "", "")]

MCAst == [c \in MCContents |->
    CASE c = "controller" -> Controller
      [] c = "core" -> JavaFile(<<"core">>, "Core", <<<<"data", "C">>, <<"util", "D">>>>)
      [] c = "data" -> JavaFile(<<"data">>, "Store", <<<<"api", "A">>>>)
      [] c = "util" -> JavaFile(<<"util">>, "Tool", <<>>)
      [] c = "script" -> Script
      [] c = "client" -> Client
      [] c = "deep" -> Deep
      [] OTHER -> <<Node("module", 0, "", "")>>]

MCManifest == [c \in MCContents |->
    CASE c = "npm" -> [shape |-> "whole", deps |-> <<"@angular/core">>, marks |-> {}]
      [] c = "reqs" -> [shape |-> "whole", deps |-> <<"fastapi", "flask">>, marks |-> {}]
      [] c = "bad" -> [shape |-> "misshapen", deps |-> <<>>, marks |-> {}]
      [] OTHER -> Unread]

MCSecrets == [c \in MCContents |->
    CASE c = "script" -> <<"aws-key">> [] c = "reqs" -> <<"token", "token">> [] OTHER -> <<>>]
MCBytes == [c \in MCContents |-> IF c = "text" THEN 3 ELSE 1]

-----------------------------------------------------------------------------
ShopPaths == {<<"api", "A.java">>, <<"core", "B.java">>, <<"data", "C.java">>,
              <<"gen", "app.py">>, <<"web.ts">>, <<"requirements.txt">>, <<".gitignore">>}
Shop == [p \in ShopPaths |->
    CASE p = <<"api", "A.java">> -> "controller" [] p = <<"core", "B.java">> -> "core"
      [] p = <<"data", "C.java">> -> "data" [] p = <<"gen", "app.py">> -> "script"
      [] p = <<"web.ts">> -> "client" [] p = <<"requirements.txt">> -> "reqs"
      [] p = <<".gitignore">> -> "rules"]

(* The same with a library, in a directory of its own.                      *)
Wrapped == [p \in {<<"gen">> \o q : q \in ShopPaths} \cup {<<"gen", "util", "D.java">>} |->
    IF p = <<"gen", "util", "D.java">> THEN "util" ELSE Shop[Tail(p)]]

Small == [p \in {<<"app.py">>, <<"package.json">>, <<"dist", "web.ts">>, <<"core", "app.py">>} |->
    CASE p = <<"package.json">> -> "npm" [] p = <<"dist", "web.ts">> -> "client"
      [] p = <<"app.py">> -> "script" [] OTHER -> "text"]

Location(kind, git, inside, files) ==
    [kind |-> kind, git |-> git, inside |-> inside, tree |-> files,
     suffix |-> "none", format |-> "none", escapes |-> FALSE]
Archive(suffix, format, escapes, files) ==
    [Location("file", "none", Root, files)
        EXCEPT !.suffix = suffix, !.format = format, !.escapes = escapes]

AllFiles == [gitignore |-> TRUE, excludes |-> <<>>, includes |-> {}, out |-> TRUE,
             scanner |-> TRUE]
Excluding == [AllFiles EXCEPT !.scanner = FALSE, !.out = FALSE,
    !.excludes = <<Ignore(<<"core">>, FALSE), Ignore(<<"web.ts">>, FALSE)>>]
Including == [AllFiles EXCEPT !.gitignore = FALSE,
    !.includes = {[parts |-> <<"gen">>, star |-> TRUE], [parts |-> <<"web.ts">>, star |-> FALSE],
                  [parts |-> <<"requirements.txt">>, star |-> FALSE]}]

MCRequests ==
    {<<Location("dir", "none", <<"work", "w1">>, Shop), AllFiles>>,
     <<Location("dir", "loose", Root, Small), AllFiles>>,
     <<Location("dir", "dangling", <<"w1">>, Small), Excluding>>,
     <<Location("url", "loose", Root, Wrapped), Including>>,
     <<Archive("zip", "zip", FALSE, Wrapped), AllFiles>>,
     <<Archive("other", "tar", FALSE, Wrapped), Including>>,
     <<Archive("tar", "other", FALSE, NoTree), AllFiles>>,
     <<Archive("zip", "zip", TRUE, Small), AllFiles>>,
     <<Location("missing", "none", Root, NoTree), AllFiles>>}

MCChanges == {<<<<"web.ts">>, "deep">>, <<<<"core", "app.py">>, "bad">>,
              <<<<"core", "B.java">>, None>>, <<<<"package.json">>, "bad">>}

MCIds == <<Dir(<<>>), Dir(<<"api">>), Dir(<<"core">>), Dir(<<"data">>), Dir(<<"dist">>),
           Dir(<<"gen">>), Dir(<<"gen", "api">>), Dir(<<"gen", "core">>),
           Dir(<<"gen", "data">>), Dir(<<"gen", "dist">>), Dir(<<"gen", "gen">>),
           Dir(<<"gen", "util">>), Dir(<<"util">>)>>
MCIdRank == [m \in ToSet(MCIds) |-> CHOOSE i \in DOMAIN MCIds : MCIds[i] = m]
MCOrders == {MCIdRank}
=============================================================================
