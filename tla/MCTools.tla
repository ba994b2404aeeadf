------------------------------ MODULE MCTools -------------------------------
(* The packages that answer one call at a time, the commands of kac and    *)
(* the cache of apollo-datasource-axios, which share no state: a behaviour *)
(* is of the cache or of the others.  The symmetry is sound for            *)
(* ExitsUnlessKafkaFails: no client moves in a behaviour of a command.     *)
EXTENDS MCHelpers, MCHttpCache

VARIABLE part

toolsVars == <<call, answer, kacVars, cacheVars, part>>

ToolsInit ==
  \/ part = "helpers" /\ Init /\ AtRest
  \/ part = "cache" /\ CacheInit /\ NoCall /\ NoCommand

ToolsNext ==
  /\ UNCHANGED part
  /\ \/ part = "helpers" /\ Next /\ UNCHANGED cacheVars
     \/ part = "cache" /\ CacheNext /\ UNCHANGED <<call, answer, kacVars>>

ToolsSpec == ToolsInit /\ [][ToolsNext]_toolsVars /\ KacFairness
=============================================================================
