--------------------------- MODULE MCConfiguredAgent ---------------------------
(* An instance of ConfiguredAgent for TLC.  Some systems are odd chains of   *)
(* files, which hardly ever give a configuration an agent can run with; the  *)
(* others are one or two files with the policies a turn can tell apart.      *)
EXTENDS ConfiguredAgent, TLC

MCId == <<"agent_id">>
In(section, name) == <<section, name>>
MCMode == In("memory_policy", "retention_mode")
MCOldMode == In("memory_policy", "default_retention")
MCBase == (MCId :> "base") @@ (MCMode :> "none") @@ (In("memory_policy", "retain_sensitive_data") :> TRUE)
            @@ (In("memory_policy", "retain_provenance") :> TRUE)

MCFile(e, l) == [extends |-> e, leaves |-> l]

(* Two files in a directory, one above it and a packaged one. *)
MCLeaves ==
  {[p \in {} |-> 0],
   (MCMode :> "mine") @@ (MCId :> "me"), MCOldMode :> "mine",
   <<"memory_policy">> :> Null, In("safety_policy", "default_mutation_mode") :> Wrong,
   In("priority_policy", "weights") :> Null, In("priority_policy", "risk_weight") :> 1}

MCExtends == {<<>>, <<"">>, <<"a">>, <<"b">>, <<"..", "d", "a">>, <<"..", "a">>,
              <<"/", "a">>, <<"configs", "base">>}

MCOdd ==
  {<<"d", "a">> :> MCFile(e, l) @@ <<"d", "b">> :> MCFile(f, m) @@ <<"a">> :> MCFile(g, MCBase) :
     e \in MCExtends \ {<<"">>}, f \in MCExtends \ {<<>>, <<"">>}, g \in {<<>>, <<"">>, <<"d", "b">>},
     l \in MCLeaves, m \in MCLeaves}

(* One file, extending the packaged one. *)
MCMemory == {(MCMode :> "session_history") @@ (In("memory_policy", "max_session_events") :> 1),
             (MCOldMode :> "mine") @@ (MCMode :> "session_history")
               @@ (In("memory_policy", "retain_sensitive_data") :> FALSE)
               @@ (In("memory_policy", "retain_provenance") :> FALSE)
               @@ (In("memory_policy", "max_session_events") :> 0),
             (MCMode :> "audit_only") @@ (In("memory_policy", "retain_provenance") :> FALSE),
             MCMode :> "explicit_checkpoints", MCMode :> "summary_only"}
MCLists(deny, ask, mode) ==
  (In("safety_policy", "deny_actions") :> deny) @@ (In("safety_policy", "approval_required_for") :> ask)
    @@ (In("safety_policy", "default_mutation_mode") :> mode)
MCSafety == {[p \in {} |-> 0],
             MCLists({}, {}, "allow"), MCLists({}, {}, "deny"),
             MCLists({"restart_service"}, {"restart_service"}, "allow"),
             MCLists({}, {"restart_service"}, "allow")}
MCPriority == {[p \in {} |-> 0],
               (<<"priority_policy", "weights", "urgency">> :> 100)
                 @@ (<<"priority_policy", "weights", "risk">> :> 0)
                 @@ (<<"priority_policy", "weights", "user_value">> :> 0)
                 @@ (<<"priority_policy", "weights", "instability">> :> 99)
                 @@ (In("priority_policy", "reflex_threshold") :> 50)}

MCAlone(leaves) == <<"d", "a">> :> MCFile(<<"configs", "base">>, leaves)
MCPlain == {MCAlone(m) : m \in MCMemory}
             \union {MCAlone((MCMode :> "audit_only") @@ s @@ p) : s \in MCSafety, p \in MCPriority}

(* The null in the second file hides the cap in the third. *)
MCHidden ==
  (<<"d", "a">> :> MCFile(<<"b">>, (MCMode :> "session_history")
                                     @@ (In("memory_policy", "retain_sensitive_data") :> TRUE)
                                     @@ (In("memory_policy", "retain_provenance") :> TRUE)))
    @@ (<<"d", "b">> :> MCFile(<<"/", "a">>, <<"memory_policy">> :> Null))
    @@ (<<"a">> :> MCFile(<<>>, MCBase @@ (In("memory_policy", "max_session_events") :> 1)))

(* The near file forbids under older names what the packaged one, which    *)
(* gives the current names, allows and is obeyed in.                       *)
MCOlder ==
  MCAlone((MCMode :> "session_history") @@ (In("memory_policy", "store_sensitive_data") :> FALSE)
            @@ (In("memory_policy", "require_provenance") :> FALSE))

(* Older names alone are obeyed, the nearest first. *)
MCOlderOnly ==
  (<<"d", "a">> :> MCFile(<<"b">>, (MCId :> "me") @@ (In("memory_policy", "store_sensitive_data") :> FALSE)))
    @@ (<<"d", "b">> :> MCFile(<<>>, (MCOldMode :> "session_history")
                                       @@ (In("memory_policy", "store_sensitive_data") :> TRUE)
                                       @@ (In("memory_policy", "require_provenance") :> TRUE)))

MCSystems == MCOdd \union MCPlain \union {MCHidden, MCOlder, MCOlderOnly}

MCPackage == <<"configs", "base">> :> MCFile(<<>>, MCBase)
MCRequests == {<<"d", "a">>}
MCRequired == {MCId}

Call(scenario, approve, provider, ready) ==
  [scenario |-> scenario, approve |-> approve, provider |-> provider, ready |-> ready]
MCCalls == {Call("operations-observer", TRUE, "mock", {}),
            Call("safety-gate", TRUE, "ollama", {"live"}),
            Call("operations-observer", TRUE, "anthropic", {"live", "anthropic", "CENTROID_ANTHROPIC_API_KEY"}),
            Call("operations-observer", TRUE, "openai", {"live", "openai"}),
            Call("support-continuity", FALSE, "none", {}),
            Call("project-companion", FALSE, "unknown", {}),
            Call("temporal-layering", FALSE, "openai", {"live", "openai", "CENTROID_OPENAI_API_KEY"}),
            Call("persistent-identity", FALSE, "vllm", {"live", "CENTROID_VLLM_API_KEY"})}

Block(tool, mutates, form) == [tool |-> tool, mutates |-> mutates, form |-> form, secret |-> FALSE]
MCReplies == {<<Block("none", "absent", "object"), Block("restart_service", "absent", "object"),
                Block("write_file", "yes", "object")>>,
              <<Block("restart_service", "no", "json text"),
                [Block("look", "no", "json text") EXCEPT !.secret = TRUE]>>,
              <<Block("restart_service", "yes", "garbled")>>}

MCSymmetry == Permutations(Turns)
=============================================================================
