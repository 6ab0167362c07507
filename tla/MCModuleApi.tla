----------------------------- MODULE MCModuleApi -----------------------------
(* Two threads of the process that imported the package and two of a child *)
(* it may fork, two options, one of which has a default from the start.    *)
EXTENDS ModuleApi

MCProcs == {"parent", "child"}
MCThreads == {"p1", "p2", "c1", "c2"}
MCProcOf == [t \in MCThreads |-> IF t \in {"p1", "p2"} THEN "parent" ELSE "child"]
MCMapping == <<"ja3", "enable_connection_reuse">>
MCValid == [ja3 |-> {"a", "b"}, enable_connection_reuse |-> {"yes", "no"}]
MCImportDefaults == [enable_connection_reuse |-> "yes"]
MCSets == {<< <<"enable_connection_reuse", "no">>, <<"ja3", "a">> >>,
           << <<"ja3", "b">>, <<"no_such_option", 1>> >>}
Own == [ja3 |-> "mine"]
Calls(r, a, s, o) == [request |-> r, async |-> a, set |-> s, others |-> o]
MCMenu == [p1 |-> Calls({Empty}, {}, MCSets, {"reset", "close"}),
           p2 |-> Calls({Empty, Own}, {Empty}, {}, {"fork"}),
           c1 |-> Calls({Empty}, {}, {}, {"close"}),
           c2 |-> Calls({Empty}, {}, {}, {})]
=============================================================================
