------------------------------ MODULE MCSessions ------------------------------
(* Sessions for TLC. *)
EXTENDS Sessions, FiniteSets

\* The message names of the services.
Pg == INSTANCE PostgresProxy
          WITH Scripts <- {}, Modes <- {}, Configs <- {}, FreeMsgs <- {}, MaxFree <- 0
My == INSTANCE MySQLProxy
          WITH Scripts <- {}, Modes <- {}, Configs <- {}, FreeMsgs <- {}, MaxFree <- 0
Or == INSTANCE OracleProxy
          WITH Scripts <- {}, Modes <- {}, Configs <- {}, FreeMsgs <- {}, MaxFree <- 0
Ht == INSTANCE HTTPProxy
          WITH Scripts <- {}, Modes <- {}, Configs <- {}, FreeMsgs <- {}, MaxFree <- 0
Rd == INSTANCE RedisProxy WITH Scripts <- {}, Modes <- {}

\* PostgreSQL: with and without a database and an SSLRequest, and clients that
\* never get to a startup.
PgLong == <<Pg!Startup("app"), Pg!Query(1), Pg!Query(2)>>
PgAll  == {PgLong, <<Pg!SSL, Pg!Startup(""), Pg!Query(1)>>,
           <<Pg!SSL, Pg!SSL>>, <<Pg!BadProto>>, <<Pg!SSL, Pg!Malformed>>}
PgFree == {Pg!AuthOK, Pg!AuthMD5, Pg!AuthSASL, Pg!ServerFirst,
           Pg!ServerFinal, Pg!BadFinal, Pg!Error, Pg!Status, Pg!Ready, Pg!AuthOther}

\* MySQL: responses in and out of step, with and without a database.
MyAll  == {<<My!Response(1, "app", TRUE, TRUE), My!Query(1), My!Query(2)>>,
           <<My!Response(1, "app", TRUE, FALSE), My!Query(1)>>,
           <<My!Response(255, "", FALSE, TRUE), My!Query(1)>>,
           <<My!Response(4, "", TRUE, TRUE)>>, <<My!Short(1)>>}
MyFree == {My!Handshake(0, TRUE), My!Handshake(7, FALSE), My!NoHandshake(0), My!OK(2),
           My!Err(2), My!Switch(2), My!Switch(9), My!More(2), My!Reply(1)}

\* Oracle: whole logins, and clients that stray from them at every step.
OrLogin == <<Or!Connect, Or!NSAnswer, Or!O3Log, Or!O3Auth>>
OrAll   == {OrLogin \o <<Or!Query(1), Or!Query(2)>>,
            <<Or!Marker>>, <<Or!Connect, Or!Marker>>, <<Or!Connect, Or!NSAnswer, Or!Stub>>,
            <<Or!Connect, Or!NSAnswer, Or!O3Log, Or!Marker, Or!Query(1)>>}
OrFree  == {Or!Accept, Or!AcceptEmpty, Or!Resend, Or!Refuse, Or!NSOffer,
            Or!SessKey("salt"), Or!SessKey("other"), Or!AuthOK}

\* HTTP: two requests, with any headers and nominations in the first.
HtHeaders == [Ht!Names -> {"", "client"}]
HtPlain   == [n \in Ht!Names |-> "client"]
HtAll     == {<<Ht!Request(1, h, nom), Ht!Request(2, HtPlain, {})>> :
                 h \in HtHeaders, nom \in SUBSET {"Authorization", "X-Api-Key"}}
HtConfigs == {{<<"Authorization", "secret">>},
              {<<"Authorization", "secret">>, <<"Authorization", "secret2">>,
               <<"Proxy-Authorization", "secret3">>}}

\* Redis: AUTH first, AUTH later, no AUTH.
RdAll == {<<"authArray", "ping">>, <<"authInline", "get">>, <<"ping", "authInline">>,
          <<"get", "ping">>}

\* Upstreams that keep to the protocol, with every client.
AllScripts == [postgres |-> PgAll, mysql |-> MyAll, oracle |-> OrAll,
               http |-> HtAll, redis |-> RdAll]
HonestModes == [postgres |-> Pg!GoodModes \cup Pg!RefusedModes,
                mysql    |-> My!GoodModes \cup My!RefusedModes,
                oracle   |-> Or!GoodModes \cup Or!RefusedModes,
                http     |-> {"up"},
                redis    |-> Rd!AllModes]
AllConfigs == [postgres |-> {"", "main"}, mysql |-> {"", "main"}, oracle |-> {"orcl"},
               http |-> HtConfigs]

\* Upstreams that send anything, with clients that get as far as the login.
Talking == [AllScripts EXCEPT !.postgres = {PgLong}]
FreeModes == [HonestModes EXCEPT !.postgres = {"free"}, !.mysql = {"free"},
                                 !.oracle = {"free"}]
OneConfig == [AllConfigs EXCEPT !.postgres = {""}]
AllFree == [postgres |-> PgFree, mysql |-> MyFree, oracle |-> OrFree, http |-> {}]
Free    == [postgres |-> 5, mysql |-> 4, oracle |-> 6, http |-> 0, redis |-> 0]
None    == [k \in Services |-> 0]

\* Redis alone, with clients that name a user.
Named == [redis |-> {<<"authUser", "ping">>}]
=============================================================================
