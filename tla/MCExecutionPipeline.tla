------------------------ MODULE MCExecutionPipeline ------------------------
(* Values of ExecutionPipeline's constants for TLC.                        *)
EXTENDS ExecutionPipeline

CONSTANTS c1, c2

MCClients    == {c1, c2}
MCPriorities == {0, 2}

================================================================================
