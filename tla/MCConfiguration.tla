-------------------------- MODULE MCConfiguration --------------------------
(* Constants of the model-checking run of Configuration. *)
EXTENDS Configuration

KeyValues ==
    [ api_id |-> {"id1"}, api_hash |-> {"hash"},
      download_root |-> {"/downloads"}, temp_dir |-> {"/incomplete"},
      enabled |-> BOOLEAN, url |-> {"none", "http"}, key |-> {"key"},
      admin |-> {"admin"}, disk |-> {"approved"},
      sources |-> {{}, {"s1"}}, completed |-> {TRUE} ]

Defaults ==
    [ api_id |-> "none", api_hash |-> "none", download_root |-> "/downloads",
      temp_dir |-> "/data/tmp", enabled |-> FALSE, url |-> "none", key |-> "none" ]

\* A fresh installation, and one whose setup the environment completes, with
\* a part of the rest and an empty key.
Deployments ==
    { <<>>,
      [api_id |-> "id2", api_hash |-> "hash2", password |-> "given",
       download_root |-> "/srv", url |-> "http", key |-> "none", chats |-> {"s1"}] }
=============================================================================
