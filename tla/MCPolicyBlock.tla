--------------------------- MODULE MCPolicyBlock ---------------------------
(* Small instances of PolicyBlock for TLC. *)
EXTENDS PolicyBlock

Doc(ts, crlf) == [i \in DOMAIN ts |-> [t |-> ts[i], crlf |-> crlf]]

MCDocs == {<<>>} \cup
    {Doc(ts, crlf) : crlf \in BOOLEAN,
        ts \in {<<"text", "mention", "text", "heading">>,
                <<"text", "start", "preface", "usage", "end", "text">>,
                <<"start", "preface", "usage", "routing", "end", "heading">>}}
============================================================================
