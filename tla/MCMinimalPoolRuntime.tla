------------------------ MODULE MCMinimalPoolRuntime ------------------------
(* Three attempt ids, the first of them submitted twice, for two slots.    *)
EXTENDS MinimalPoolRuntime

MCCalls == 1..4
MCJobs == {"j1", "j2", "j3"}
MCJobOf == <<"j1", "j2", "j3", "j1">>
=============================================================================
