-------------------------- MODULE MCHmrConnection --------------------------
(* Scripts of the two programs, shortened: client.c sends six NORMAL        *)
(* messages, a WRITE and FINISH; server.c one NORMAL message per client.    *)
EXTENDS HmrConnectionRefinement

NormalThenFinish == <<"NORMAL", "NORMAL", "FINISH">>
WriteThenFinish == <<"NORMAL", "WRITE", "FINISH">>
OneWrite == <<"WRITE", "FINISH">>
OneNormal == <<"NORMAL">>
JustFinish == <<"FINISH">>
=============================================================================
