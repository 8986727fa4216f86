----------------------------- MODULE MCPipeline -----------------------------
(* Pipeline with two policies, and the worlds that tell its checks apart.    *)
EXTENDS Pipeline
Strict == [secrets |-> "block", commands |-> {}, allowlist |-> TRUE,
           pre |-> <<"lint", "ticket">>, post |-> <<"notify">>]
Lenient == [secrets |-> "warn", commands |-> {"status", "push"}, allowlist |-> FALSE,
            pre |-> <<"lint">>, post |-> <<>>]
Calm == [backend |-> TRUE, scanner |-> "ready", scan |-> "clean", remote |-> "listed",
         alias |-> FALSE, rewrite |-> FALSE]
MCPolicies == {Strict, Lenient}
MCVerbs    == {"push", "commit", "init", "status", "help", "scan"}
MCWorlds   ==
    {Calm, [Calm EXCEPT !.backend = FALSE], [Calm EXCEPT !.scanner = "fails"],
     [Calm EXCEPT !.scan = "found"], [Calm EXCEPT !.scan = "fails"],
     [Calm EXCEPT !.remote = "unlisted"], [Calm EXCEPT !.remote = "unverifiable"],
     [Calm EXCEPT !.remote = "unknown"], [Calm EXCEPT !.alias = TRUE],
     [Calm EXCEPT !.rewrite = TRUE]}
=============================================================================
