--------------------------- MODULE MCPlanBuilding ---------------------------
(* Requests with small graphs and Organs, and requests with small lists of *)
(* inputs and manifests; a catalog with two services for one Cell, one for *)
(* the other and one of an older formula.                                  *)
EXTENDS PlanBuilding

Upto(S, n) == UNION {[1..k -> S] : k \in 0..n}

A == <<"a", "v1">>
B == <<"b", "v1">>
Binding(id, cell) == [id |-> id, cell |-> cell, text |-> "registered"]
Services == {Binding("a1", A), Binding("a2", A), Binding("b1", B),
             Binding("a0", <<"a", "v0">>)}
\* The policy answers two good ladders for Cell a and one for b, or one that
\* is out of date, altered, unknown, repeats a binding or mixes Cells.
Ladders ==
  LET a1 == Binding("a1", A)
      a2 == Binding("a2", A)
  IN  {<<a1>>, <<a2, a1>>, <<Binding("b1", B)>>,
       <<Binding("a0", <<"a", "v0">>)>>, <<a1, [a2 EXCEPT !.text = "altered"]>>,
       <<Binding("x1", B)>>, <<a1, a1>>, <<Binding("b1", B), a1>>}
Answers == [cell : {A, B}, ladder : Ladders]

GNode(id, cell, role, dependencies) ==
  [id |-> id, cell |-> cell, role |-> role, dependencies |-> dependencies]
Extra(id, kind, scope) == [id |-> id, kind |-> kind, scope |-> scope]
Manifest(version, kinds) == [version |-> version, kinds |-> kinds]

Plain == [c \in {"a", "b"} |-> Manifest("v1", <<"analysis_request">>)]
Organ(id, members, outputs) == [id |-> id, members |-> members, outputs |-> outputs]

(* Every graph of three nodes over short dependency lists, one of which    *)
(* may name a node that does not exist, with one Organ of any members and  *)
(* outputs.  Node 2 is the root.                                           *)
Lists(S) == {Sorted(s) : s \in SUBSET S}
GraphRequests ==
  {[extras |-> << >>, engine |-> TRUE, manifests |-> Plain, root |-> 2,
    nodes |-> <<GNode(1, "a", IF d1 = << >> THEN "leaf" ELSE "aggregator", d1),
                GNode(2, "b", "root", d2),
                GNode(3, "a", IF d3 = << >> THEN "leaf" ELSE "aggregator", d3)>>,
    organs |-> <<Organ("o", members, outputs)>>] :
     d1 \in Lists({1, 2, 3}), d2 \in Lists({1, 3, 9}), d3 \in Lists({1, 2}),
     members \in Lists({1, 2, 3, 9}), outputs \in Lists({1, 3}) \cup {<<2>>}}

(* A leaf and a root; lists of inputs of three kinds, one of another       *)
(* scope; manifests that repeat, omit or reorder kinds; and a formula      *)
(* version nobody serves.                                                  *)
Offered == {Extra("candles", "candle_batch", PlanScope),
            Extra("more", "candle_batch", PlanScope),
            Extra("book", "order_book_snapshot", PlanScope),
            Extra("far", "order_book_snapshot", "elsewhere"),
            Extra("own", "analysis_request", PlanScope)}
KindLists == {<<"analysis_request">>, <<"analysis_request", "candle_batch">>,
              <<"order_book_snapshot", "analysis_request">>,
              <<"order_book_snapshot", "candle_batch", "analysis_request">>,
              <<"candle_batch">>, <<"analysis_request", "analysis_request">>,
              <<"analysis_request", "telepathy">>}
ExtraLists ==
  Upto(Offered, 2) \cup
  {<<Extra("book", "order_book_snapshot", PlanScope),
     Extra("own", "analysis_request", PlanScope),
     Extra("candles", "candle_batch", PlanScope)>>}
InputRequests ==
  {[extras |-> extras, engine |-> engine, root |-> 2, organs |-> << >>,
    manifests |-> [a |-> Manifest("v1", ka), b |-> Manifest(vb, kb)],
    nodes |-> <<GNode(1, "a", "leaf", << >>), GNode(2, "b", "root", <<1>>)>>] :
     extras \in ExtraLists, engine \in BOOLEAN,
     ka \in KindLists, kb \in KindLists, vb \in {"v1", "v2"}}

(* Two Cells over three nodes, named in any order, or one unregistered.    *)
PlacementRequests ==
  {[extras |-> << >>, engine |-> TRUE, manifests |-> Plain, root |-> 3,
    nodes |-> <<GNode(1, c1, "leaf", << >>), GNode(2, c2, "leaf", << >>),
                GNode(3, c3, "root", <<2, 1>>)>>,
    organs |-> << >>] :
     c1 \in {"a", "b"}, c2 \in {"a", "b", "unregistered"}, c3 \in {"a", "b"}}

AllRequests == PlacementRequests \cup InputRequests \cup GraphRequests
=============================================================================
