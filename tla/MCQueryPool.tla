----------------------------- MODULE MCQueryPool -----------------------------
(* QueryPool over three rows of two dimensions and two tags, for one query  *)
(* with filters of each kind, open, narrow or of no row, and two with       *)
(* filters that fit some row.                                               *)
EXTENDS QueryPool

MCAttributes == <<<<1, 1>>, <<1, 2>>, <<2, 2>>>>
MCTags       == <<{1}, {1, 2}, {2}>>
MCRanking    == <<<<1, 2, 3>>, <<3, 1, 2>>, <<2, 3, 1>>>>

Conjunctions == {<<a, b>> : a \in {ANY, 1, 3}, b \in {ANY, 1, 2}}
CNFs         == {<<a, b>> : a \in {{1}, {1, 2}, {3}}, b \in {{2}, {1, 2}, {2, 3}}}
TagSets      == {{}, {1}, {1, 2}, {1, 3}, {1, 2, 3}}

MCBatches ==
  [query_type : {"conjunction"}, filters : {<<f, <<1, ANY>>, <<ANY, 2>>>> : f \in Conjunctions}]
  \cup [query_type : {"CNF"}, filters : {<<f, <<{1}, {1, 2}>>, <<{1, 2}, {2}>>>> : f \in CNFs}]
  \cup [query_type : {"sparse"}, filters : {<<{1}, f, {2}>> : f \in TagSets}
                                           \cup {<<f, {1}, f>> : f \in TagSets}]

===============================================================================
