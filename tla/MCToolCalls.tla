----------------------------- MODULE MCToolCalls -----------------------------
(***************************************************************************)
(* A tool of the bus, which a gate may refuse, one without a server in its  *)
(* name, which fails, and one that is polled, and takes for ever.           *)
(***************************************************************************)
EXTENDS ToolCalls

MCBareOf == [name \in Names |-> IF name = "bus.write" THEN "write" ELSE name]
MCPrettyOf == [name \in Names |-> name]
MCResults ==
  [name \in Names |-> CASE name = "bus.write" -> {"ok", "refused"}
                        [] name = "fetch" -> {"error"}
                        [] OTHER -> {}]
=============================================================================
