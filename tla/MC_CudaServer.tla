---------------------------- MODULE MC_CudaServer ----------------------------
(***************************************************************************)
(* An instance of CudaServer: two valid configurations of different        *)
(* backends and limits, one of them in two spellings, and an invalid file. *)
(***************************************************************************)
EXTENDS CudaServer

CONSTANTS qwen, r2t2, wide, wide2, narrow, broken

MCParsed ==
  [f \in {wide, wide2, narrow, broken} |->
     IF f = broken THEN Invalid
     ELSE IF f = narrow THEN [backend |-> r2t2, max_sessions |-> 1]
     ELSE [backend |-> qwen, max_sessions |-> 2]]

=============================================================================
