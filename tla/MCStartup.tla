----------------------------- MODULE MCStartup ------------------------------
(* Constants for model checking Startup.                                   *)
EXTENDS Startup

Language(versions, default, valid) ==
    [versions |-> versions, default |-> default, valid |-> valid]

\* Two languages, one of them with two versions; each fault of an entry once.
MCRegistries ==
    {[py |-> Language({"1", "2"}, "1", TRUE), go |-> g] :
        g \in {Language({"1"}, "1", TRUE), Language({"1"}, "2", TRUE),
               Language({"1"}, "1", FALSE)}}

\* Numbers that are unset, below and above the minimum; every backend.
MCEnvironments ==
    [token : BOOLEAN, allow : BOOLEAN, backend : {"docker", "nsjail", "other"},
     pool : {<<>>, <<0>>, <<2>>}, queue : {<<-1>>, <<0>>}, override : {NoCgroup, "given"}]
=============================================================================
