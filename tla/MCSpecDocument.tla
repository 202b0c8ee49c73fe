--------------------------- MODULE MCSpecDocument ---------------------------
(* An online shop: its API, its web client, and a second client that calls  *)
(* what no project serves.  Two of the three features have the same name.   *)
EXTENDS SpecDocument

MCCanonical == [s \in {"orders", "Orders", "{id}", ":id", "stock"} |->
    CASE s \in {"orders", "Orders"} -> "orders" [] s \in {"{id}", ":id"} -> "{}"
      [] OTHER -> s]

MCTokensOf == [t \in {"place order", "/Orders/:id", "/orders/{id}", "warehouse", "/stock",
                      "list_orders", "api", "web", "OrderController", "refund"} |->
    CASE t = "place order" -> {"place", "order"} [] t = "list_orders" -> {"list", "orders"}
      [] t \in {"/Orders/:id", "/orders/{id}"} -> {"orders"} [] t = "warehouse" -> {"warehouse"}
      [] t = "/stock" -> {"stock"} [] t = "web" -> {"web"} [] t = "refund" -> {"refund"}
      [] t = "OrderController" -> {"order"} [] OTHER -> {}]

Route(method, path, module) == [method |-> method, path |-> path, module |-> module]
Surface(scan, routes, calls_, entrypoints, modules) ==
    [scan |-> scan, routes |-> routes, calls |-> calls_, entrypoints |-> entrypoints,
     modules |-> modules]
Order == <<"Orders", "{id}">>

MCFound == [s \in {"shop", "web", "desk"} |->
    CASE s = "shop" -> Surface("shop",
            {Route("GET", Order, "api"), Route("ANY", <<"orders">>, "api")}, {},
            {[name |-> "list_orders", module |-> "api"]},
            {[id |-> "api", symbols |-> {"OrderController", "place order"}]})
      [] s = "web" -> Surface("web", {},
            {Route("GET", <<"orders", ":id">>, "web"), Route("POST", <<"orders">>, "web")}, {},
            {[id |-> "web", symbols |-> {"list_orders"}]})
      [] OTHER -> Surface("desk",
            {Route("GET", <<"stock">>, "api")},
            {Route("POST", Order, "web"), Route("ANY", Order, "web")}, {},
            {[id |-> "api", symbols |-> {"warehouse"}]})]

Feature(name, texts, endpoints, conceptual) ==
    [name |-> name, texts |-> texts, endpoints |-> endpoints, conceptual |-> conceptual]
MCFeatures == <<
    Feature("order", {"refund", "/stock"}, {<<"stock">>}, FALSE),
    Feature("stock", {"warehouse", "/stock"}, {<<"stock">>}, TRUE),
    Feature("order", {"place order", "/Orders/:id"}, {<<"Orders", ":id">>}, FALSE)>>
MCLinked == <<"desk", "web", "shop">>
MCStart(desk, web, shop) ==
    [s \in {"shop", "web", "desk"} |->
        CASE s = "desk" -> desk [] s = "web" -> web [] OTHER -> shop]
MCStarts == {MCStart("unknown", "saved", "saved"), MCStart("running", "saved", "unknown"),
             MCStart("saved", "running", "saved")}
MCRunner == [secret |-> "s", dirs |-> {"repo"}]
Client(secret, agent, dir) == [secret |-> secret, agent |-> agent, dir |-> dir]
Asks(enrich, available, sender) ==
    [enrich |-> enrich, available |-> available, client |-> sender]
MCAskedFor == {
    Asks(FALSE, TRUE, Client("s", "claude", "repo")), Asks(TRUE, FALSE, Client("s", "codex", "")),
    Asks(TRUE, TRUE, Client("s", "claude", "repo")), Asks(TRUE, TRUE, Client("s", "codex", "")),
    Asks(TRUE, TRUE, Client("", "claude", "repo")), Asks(TRUE, TRUE, Client("s", "claude", "tmp"))}
=============================================================================
