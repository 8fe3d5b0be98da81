------------------------------- MODULE MCStartup -------------------------------
(* Startup for TLC. *)
EXTENDS Startup

Entry(s, l, missing, url) ==
    [section |-> s, listen |-> l, fields |-> Required(s) \ missing, url |-> url]
Complete(s, l) == Entry(s, l, {}, TRUE)

\* Documents that are whole, that lack a field, that name an address twice in a
\* section or across sections, in one spelling or two, that have an upstream
\* which is no URL, and that are empty or no YAML.
Plain == <<Complete("mysql", "127.0.0.1:1")>>
Docs  == {<<>>, <<[section |-> "unknown", listen |-> "", fields |-> {}, url |-> FALSE]>>,
          <<Complete("oracle", "127.0.0.1:2"), Complete("http", "127.0.0.1:1")>>,
          <<Complete("redis", "127.0.0.1:1"), Complete("redis", "127.0.0.1:1")>>,
          <<Complete("postgres", "127.0.0.1:1"), Complete("redis", "127.0.0.1:1")>>,
          <<Complete("postgres", "127.0.0.1:1"), Complete("redis", "localhost:1")>>,
          <<Entry("http", "127.0.0.1:1", {"headers"}, TRUE)>>,
          <<Entry("oracle", "127.0.0.1:1", {"service"}, TRUE)>>,
          <<Entry("http", "127.0.0.1:1", {}, FALSE)>>,
          <<Complete("http", "127.0.0.1:2"), Entry("http", "127.0.0.1:1", {}, FALSE)>>}

Private == [ext |-> FALSE, group |-> FALSE, named |-> FALSE, mask |-> FALSE, other |-> FALSE]

\* Any permissions with a plain document, any document in a private file.
Perms1 == {p \in Permissions : p.ext \/ (~p.named /\ ~p.mask)}
MCFiles == {[perms |-> p, doc |-> Plain] : p \in Perms1}
           \cup {[perms |-> Private, doc |-> d] : d \in Docs}

MCSockets == [a \in {"127.0.0.1:1", "localhost:1", "127.0.0.1:2"} |->
                 IF a = "127.0.0.1:2" THEN "s2" ELSE "s1"]
MCTakens  == {{}, {"s1"}}
NoTakens  == {{}}
=============================================================================
