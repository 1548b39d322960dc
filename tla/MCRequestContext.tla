--------------------------- MODULE MCRequestContext ---------------------------
(* Values that a .cfg cannot write, and the symmetry of the instances. *)
EXTENDS RequestContext, TLC

CONSTANTS p1, p2, s1, s2

Tool(name, prefixed, strict) == [name |-> name, prefixed |-> prefixed, strict |-> strict]

MCBuiltIns == <<Tool("load_skill", "load_skill", "metadata"),
                Tool("read_skill_file", "read_skill_file", "metadata"),
                Tool("request_human_review", "request_human_review", "metadata")>>

\* Both servers offer "search", one a name of a built-in tool; the prefix makes
\* one name of the last tools of the two (servers "a" and "a_b").
MCServers == {"a", "a_b"}
MCOffers ==
  [s \in MCServers |->
     IF s = "a" THEN <<Tool("search", "a_search", "_meta"), Tool("b_list", "a_b_list", "no")>>
     ELSE <<Tool("search", "a_b_search", "no"), Tool("load_skill", "a_b_load_skill", "_meta"),
            Tool("list", "a_b_list", "metadata")>>]

Symmetry == Permutations({p1, p2}) \cup Permutations({s1, s2})

=============================================================================
