------------------------------ MODULE MCGateway ------------------------------
(* Gateway for TLC: an HTTP and a TCP listener. *)
EXTENDS Gateway

HttpFirst == <<"http", "redis">>
OneOfEach == {"http"}
=============================================================================
