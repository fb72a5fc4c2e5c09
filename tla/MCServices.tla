------------------------------ MODULE MCServices ------------------------------
(***************************************************************************)
(* Small instances of the daemon's services for TLC. They share no state   *)
(* and each is explored from an initial state of its own: part says which  *)
(* service a behaviour is of, and the others stay as they were made.       *)
(***************************************************************************)
EXTENDS EventHub, WorkerSession, Inbox, Epochs, Incarnations, ScopeStore, PolicyHooks,
        McpGateway, AuditTrail, ContextStore, ApprovalGates, CodexSession, Fanout,
        KnowledgeGraph, MCToolCalls

VARIABLE part

Parts == {"hub", "worker", "inbox", "epochs", "incarnations", "scope", "hooks", "gateway",
          "audit", "context", "gates", "codex", "fanout", "graph", "tools"}

Init ==
  /\ part \in Parts
  /\ HubInit /\ WorkerInit /\ InboxInit /\ EpochsInit /\ IncarnationsInit /\ ScopeInit
  /\ HooksInit /\ GatewayInit /\ AuditInit /\ ContextInit /\ GatesInit /\ CodexInit /\ FanoutInit
  /\ GraphInit /\ ToolInit
  /\ part # "tools" => lrows = {}                \* ToolInit leaves it open,
  /\ part # "hooks" => kenforce                 \* HooksInit this
  /\ part # "audit" => aenforce /\ ~alegacy     \* and AuditInit these

Keeps(p, vars) == part # p => UNCHANGED vars

Next ==
  /\ UNCHANGED part
  /\ Keeps("hub", hubVars)
  /\ Keeps("worker", workerVars)
  /\ Keeps("inbox", inboxVars)
  /\ Keeps("epochs", epochsVars)
  /\ Keeps("incarnations", incarnationsVars)
  /\ Keeps("scope", scopeVars)
  /\ Keeps("hooks", hooksVars)
  /\ Keeps("gateway", gatewayVars)
  /\ Keeps("audit", auditVars)
  /\ Keeps("context", contextVars)
  /\ Keeps("gates", gatesVars)
  /\ Keeps("codex", codexVars)
  /\ Keeps("fanout", fanoutVars)
  /\ Keeps("graph", graphVars)
  /\ Keeps("tools", toolVars)
  /\ \/ part = "hub" /\ HubNext
     \/ part = "worker" /\ WorkerNext
     \/ part = "inbox" /\ InboxNext
     \/ part = "epochs" /\ EpochsNext
     \/ part = "incarnations" /\ IncarnationsNext
     \/ part = "scope" /\ ScopeNext
     \/ part = "hooks" /\ HooksNext
     \/ part = "gateway" /\ GatewayNext
     \/ part = "audit" /\ AuditNext
     \/ part = "context" /\ ContextNext
     \/ part = "gates" /\ GatesNext
     \/ part = "codex" /\ CodexNext
     \/ part = "fanout" /\ FanoutNext
     \/ part = "graph" /\ GraphNext
     \/ part = "tools" /\ ToolNext

Spec ==
  Init /\ [][Next]_<<part, hubVars, workerVars, inboxVars, epochsVars, incarnationsVars,
                     scopeVars, hooksVars, gatewayVars, auditVars, contextVars, gatesVars,
                     codexVars, fanoutVars, graphVars, toolVars>>

\* An engagement with a public host y in the way, and an operator who allows a
\* call to x once.
MCProfiles == {[ins |-> {}, outs |-> {"y"}, research |-> TRUE]}
MCAdhoc == {[dir |-> "in", cover |-> {"x"}, once |-> TRUE]}
MCRequests == {{{"x"}}, {{"x"}, {"y"}}}

\* One group, which names the credential as well.
MCPlans == {{[survivor |-> "strong", deletes |-> {"doc", "cred"}]}}

\* Two calls of one tool.
MCTools == [c \in AuditCalls |-> "bash"]
=============================================================================
