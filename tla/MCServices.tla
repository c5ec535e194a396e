------------------------------ MODULE MCServices ------------------------------
(***************************************************************************)
(* Values of the constants of Services for TLC: the routes and backends of *)
(* the harness and what an adapter of its own may answer, the packages of  *)
(* the plugin gate, and the requests of a client of the proxy.             *)
(***************************************************************************)
EXTENDS Services

MCBackend == [stub |-> "stub", own |-> "own", gone |-> "gone"]

Piece(seq, type) == [seq |-> seq, type |-> type]
MCEnvelopes ==
  { [chunks |-> <<Piece(1, "failed")>>, status |-> "failed", class |-> "backend_error"],
    [chunks |-> <<Piece(1, "delta")>>, status |-> "failed", class |-> "rate_limit"],
    [chunks |-> <<Piece(2, "delta"), Piece(2, "done")>>, status |-> "ok", class |-> "none"],
    [chunks |-> <<>>, status |-> "cancelled", class |-> "cancelled"] }

MCFindings == [nameless |-> {"B-4-01"}, posing |-> {"B-2-01", "B-1-02"}]

MCPlace == [a |-> 0, b |-> 1]

\* The client's requests: small bodies to every endpoint and of every kind
\* (GETs with one and without), bodies over either cap, and lengths that say
\* nothing.
Post(path, token, length, body, says) ==
  [path |-> path, token |-> token, length |-> length, body |-> body,
   says |-> says, stream |-> path \in {"chat", "messages"}]
MCPosts ==
  {Post(p, t, "given", b, "object") :
     p \in {"route", "export", "models", "nowhere"}, t \in BOOLEAN, b \in {0, 1}}
  \cup {Post(p, t, "given", b, "object") :
          p \in {"reset", "unknown", "chat", "messages", "embeddings"},
          t \in BOOLEAN, b \in {1, 3}}
  \cup {Post(p, TRUE, "given", 1, s) :
          p \in {"reset", "count_tokens", "responses"}, s \in {"refused", "other", "broken"}}
  \cup {Post(p, TRUE, l, 1, "object") :
          p \in {"reset", "unknown", "chat"}, l \in {"missing", "garbled", "negative"}}
===============================================================================
