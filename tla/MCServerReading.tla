---------------------------- MODULE MCServerReading ----------------------------
(***************************************************************************)
(* Values for ServerReading: two builds; records that only one kind of     *)
(* query finds; more edges of one key than a window shows.                 *)
(***************************************************************************)
EXTENDS ServerReading

Stored(index, id, at, near, terms) ==
    [index |-> index, id |-> id, build |-> 1, at |-> at, near |-> near, doc |-> "d1",
     scope |-> at # 2, terms |-> terms \cup {<<"id", id>>} \cup
                        (IF near > 0 THEN {<<"knn", "v">>} ELSE {})]
FirstBuild ==
    {Stored("code", "e1", 1, 4, {<<"term", "pay">>, <<"match", "pay">>}),
     Stored("code", "e2", 2, 1, {<<"wildcard", "pay">>, <<"match", "pay">>, <<"match", "bill">>}),
     Stored("code", "e3", 3, 0, {<<"match", "bill">>}),
     Stored("chunks", "c1", 1, 3, {<<"match", "pay">>}),
     [Stored("chunks", "c2", 2, 2, {<<"match", "pay">>, <<"match", "bill">>}) EXCEPT !.doc = "d2"],
     Stored("documents", "d1", 1, 0, {<<"title", "pay">>}),
     Stored("files", "f1", 1, 0, {<<"wildcard", "pay">>}),
     Stored("files", "f2", 2, 0, {<<"match", "bill">>})}
MCContents == FirstBuild \cup {[r EXCEPT !.build = 2] : r \in {r \in FirstBuild : r.at > 1}}
AsQuery(word, dotted, docs, limit) ==
    [word |-> word, dotted |-> dotted, docs |-> docs, limit |-> limit,
     exprs |-> <<{word}, {"pay", "bill"}>>, scoped |-> limit = 1]
MCQueries == {AsQuery("pay", TRUE, {}, 2), AsQuery("bill", FALSE, {}, 1), AsQuery("pay", FALSE, {"d2"}, 2)}
MCEdges ==
    {e \in {[id |-> i, gen |-> g, type |-> i % 2, key |-> IF i < 4 THEN "k1" ELSE "k2"]
               : i \in 1..6, g \in {1, 2}} : e.id <= 4 + e.gen}
MCEdgeReads == [keys : {{"k1"}, {"k1", "k2"}}, types : {{}, {0}, {0, 1}}, limit : {1, 2}]
================================================================================
