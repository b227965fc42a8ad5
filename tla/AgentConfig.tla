------------------------------ MODULE AgentConfig ------------------------------
(***************************************************************************)
(* load_agent_config (core/agent_config.py, core/resources.py): a file of  *)
(* settings, the files it extends, their merge on the way back, and the    *)
(* policies parsed from the result.                                        *)
(*                                                                         *)
(* A path is a sequence of names; an absolute one begins with "/", and the *)
(* working directory is the root.  Nested objects are flattened: a payload *)
(* maps the path of every leaf to its value.  Null is a JSON null, Wrong   *)
(* any value that the parser's type and range checks refuse.  An object    *)
(* with no leaf is not told from one that is not there.                    *)
(***************************************************************************)
EXTENDS Integers, SequencesExt, FiniteSetsExt

CONSTANTS
  Systems,     \* what the disk may hold: location -> [extends, leaves]
  Package,     \* the resources shipped with the package, likewise
  Roots,       \* the directories a packaged resource is found in
  Requests,    \* the paths that are loaded
  Required,    \* the leaves a configuration must have besides its policies
  Null, Wrong,
  MaxDepth     \* files read before the interpreter gives up

Memory == {"retention_mode", "retain_sensitive_data", "retain_provenance"}
Weights == {"urgency", "risk", "user_value", "instability"}
Alias == [retention_mode |-> "default_retention",
          retain_sensitive_data |-> "store_sensitive_data",
          retain_provenance |-> "require_provenance",
          urgency |-> "urgency_weight", risk |-> "risk_weight",
          user_value |-> "user_value_weight", instability |-> "instability_weight"]

\* Numbers between 0 and 1 are given in hundredths.
Default == [urgency |-> 35, risk |-> 25, user_value |-> 25, instability |-> 15,
            max_session_events |-> 100,
            reflex_threshold |-> 75, deliberation_threshold |-> 35,
            default_mutation_mode |-> "require_approval",
            approval_required_for |-> {"write_file", "change_config"},
            deny_actions |-> {"expose_secret", "disable_shutdown", "delete_without_backup"},
            include_config_hash |-> TRUE, include_policy_reason |-> TRUE]

Sections == [memory_policy |-> Memory \union {"max_session_events"},
             priority_policy |-> Weights \union {"reflex_threshold", "deliberation_threshold"},
             safety_policy |-> {"default_mutation_mode", "approval_required_for", "deny_actions"},
             audit_policy |-> {"include_config_hash", "include_policy_reason"}]
Settings == UNION {Sections[s] : s \in DOMAIN Sections}

WeightPaths == {<<"priority_policy", Alias[w]>> : w \in Weights}
                 \union {<<"priority_policy", "weights", w>> : w \in Weights}
Flags == {"retain_sensitive_data", "retain_provenance"}
FlagPaths == {<<"memory_policy", f>> : f \in Flags} \union {<<"memory_policy", Alias[f]>> : f \in Flags}

\* Whatever is not of the type or in the range of its setting is Wrong.
WellFormed(leaves) ==
  /\ DOMAIN leaves \subseteq Seq(STRING)
  /\ \A p \in DOMAIN leaves \intersect WeightPaths : leaves[p] \in 0..100 \union {Null, Wrong}
  /\ \A p \in DOMAIN leaves \intersect FlagPaths : leaves[p] \in BOOLEAN \union {Null, Wrong}
  /\ <<"memory_policy", "max_session_events">> \in DOMAIN leaves =>
       leaves[<<"memory_policy", "max_session_events">>] \in Nat \union {Null, Wrong}

\* A path names a file and no directory; that of a resource is plain.
FilePaths == {p \in Seq(STRING) : p # <<>> /\ Last(p) \notin {"/", ".."}}

ASSUME AgentConfigAssumption ==
  /\ MaxDepth \in Nat \ {0}
  /\ \A p \in Requests : p \in FilePaths
  /\ Null # Wrong
  /\ \A d \in Systems : \A l \in DOMAIN d :
       d[l].extends \in {<<>>} \union FilePaths /\ WellFormed(d[l].leaves)
  /\ \A d \in Systems : IsFiniteSet(DOMAIN d)
  /\ IsFiniteSet(DOMAIN Package)
  /\ \A p \in DOMAIN Package :
       /\ p \in FilePaths /\ {"/", ".."} \intersect Range(p) = {}
       /\ Package[p].extends \in {<<>>} \union FilePaths /\ WellFormed(Package[p].leaves)
-----------------------------------------------------------------------------
(* Files *)

\* The operating system follows ".."; the program compares paths as they are.
Entered(at, name) ==
  CASE name = "/" -> <<>>
    [] name = ".." -> IF at = <<>> THEN at ELSE Front(at)
    [] OTHER -> Append(at, name)

Location(path) ==
  LET at[n \in 0..Len(path)] == IF n = 0 THEN <<>> ELSE Entered(at[n - 1], path[n])
  IN  at[Len(path)]

Exists(disk, path) == Location(path) \in DOMAIN disk

\* A file on disk, or else a packaged resource.
Packaged(path) == Len(path) >= 2 /\ path[1] \in Roots /\ path \in DOMAIN Package
Readable(disk, path) == Exists(disk, path) \/ Packaged(path)
Content(disk, path) == IF Exists(disk, path) THEN disk[Location(path)] ELSE Package[path]

\* An absolute path, one next to the source, or one from the working directory
Extended(disk, source, extends) ==
  IF extends[1] = "/" THEN extends
  ELSE IF \/ Exists(disk, source) /\ Exists(disk, Front(source) \o extends)
          \/ Len(source) >= 2 /\ Len(extends) = 1
       THEN Front(source) \o extends
  ELSE extends
-----------------------------------------------------------------------------
(* Merge and parse *)

\* One leaf replaces another at, above or below its own path.
Clash(p, q) == IsPrefix(p, q) \/ IsPrefix(q, p)

\* mistake: an object is replaced as a whole
MergedByKey(base, override) ==
  [p \in DOMAIN override \union {q \in DOMAIN base : \A o \in DOMAIN override : o[1] # q[1]}
     |-> IF p \in DOMAIN override THEN override[p] ELSE base[p]]

Merged(base, override) ==
  [p \in DOMAIN override \union {q \in DOMAIN base : \A o \in DOMAIN override : ~Clash(o, q)}
     |-> IF p \in DOMAIN override THEN override[p] ELSE base[p]]

At(data, path, default) == IF path \in DOMAIN data THEN data[path] ELSE default

\* A weights object must give all four; without one each has its default.
WeightsGiven(data) == \E p \in DOMAIN data : Len(p) = 3 /\ p[2] = "weights"

Setting(data, section, f) ==
  IF f \in Memory THEN At(data, <<section, f>>, At(data, <<section, Alias[f]>>, Null))
  ELSE IF f \notin Weights THEN At(data, <<section, f>>, Default[f])
  ELSE IF WeightsGiven(data) THEN At(data, <<section, "weights", f>>, Null)
  ELSE At(data, <<section, Alias[f]>>, Default[f])

Policy(data) ==
  [f \in Settings |->
     Setting(data, CHOOSE s \in DOMAIN Sections : f \in Sections[s], f)]

Accepted(data) ==
  /\ \A f \in Settings : Policy(data)[f] \notin {Null, Wrong}
  /\ \A p \in Required : At(data, p, Null) \notin {Null, Wrong}
  /\ \A s \in DOMAIN Sections : <<s>> \notin DOMAIN data
  /\ At(data, <<"priority_policy", "weights">>, Null) = Null
  /\ \E w \in Weights : Policy(data)[w] # 0
-----------------------------------------------------------------------------
VARIABLES
  disk,
  load,     \* "read", "merge", "done", or why the load was given up
  path,     \* the file to read
  seen,     \* the markers of the files on the way
  stack,    \* payloads waiting for their parent
  data,     \* the merge so far
  policy,
  (* history *)
  chain     \* the files read: path and payload

loadVars == <<disk, load, path, seen, stack, data, policy, chain>>

Nothing == [p \in {} |-> Null]

LoadInit ==
  /\ disk \in Systems
  /\ path \in Requests /\ seen = {path}
  /\ load = "read" /\ stack = <<>> /\ data = Nothing /\ policy = Nothing /\ chain = <<>>

\* The load ends with an error.
Raise(why) == load' = why /\ UNCHANGED <<disk, path, seen, stack, data, policy>>

ReadRoot(c) ==
  /\ c.extends = <<>>
  /\ load' = "merge" /\ data' = c.leaves
  /\ UNCHANGED <<disk, path, seen, stack, policy>>

\* mistake: the file's own marker is not looked up
ReadChildUnmarked(c) ==
  /\ c.extends \notin {<<>>, <<"">>}
  /\ LET parent == Extended(disk, path, c.extends)
     IN  IF Location(parent) \notin DOMAIN disk \/ Len(stack) = MaxDepth
         THEN Raise("circular")
         ELSE /\ path' = parent /\ seen' = seen \union {parent}
              /\ stack' = Append(stack, c.leaves)
              /\ UNCHANGED <<disk, load, data, policy>>

ReadChild(c) ==
  /\ c.extends \notin {<<>>, <<"">>}
  /\ LET parent == Extended(disk, path, c.extends)
     IN  IF parent \in seen THEN Raise("circular")
         ELSE IF Len(stack) = MaxDepth THEN Raise("too deep")
         ELSE /\ path' = parent /\ seen' = seen \union {parent}
              /\ stack' = Append(stack, c.leaves)
              /\ UNCHANGED <<disk, load, data, policy>>

Read ==
  /\ load = "read"
  /\ IF ~Readable(disk, path) THEN Raise("missing") /\ UNCHANGED chain
     ELSE LET c == Content(disk, path)
          IN  /\ chain' = Append(chain, [path |-> path, leaves |-> c.leaves])
              /\ \/ ReadRoot(c) \/ ReadChild(c)
                 \/ c.extends = <<"">> /\ Raise("invalid")

Merge ==
  /\ load = "merge" /\ stack # <<>>
  /\ data' = Merged(data, Last(stack)) /\ stack' = Front(stack)
  /\ UNCHANGED <<disk, load, path, seen, policy, chain>>

Parse ==
  /\ load = "merge" /\ stack = <<>>
  /\ IF Accepted(data)
     THEN load' = "done" /\ policy' = Policy(data) /\ UNCHANGED <<disk, path, seen, stack, data>>
     ELSE Raise("invalid")
  /\ UNCHANGED chain

LoadNext == Read \/ Merge \/ Parse
-----------------------------------------------------------------------------
\* The program compares paths and not files.  Still a load that gets to the
\* merge has read no file twice, and one that is refused as a circle was about
\* to come back to a file it had read.  A circle that is not recognised, and
\* runs until the interpreter gives up, spells every file anew.
Places == {Location(chain[i].path) : i \in DOMAIN chain}
Spellings == {chain[i].path : i \in DOMAIN chain}

CircleIsRefused ==
  /\ load \in {"merge", "done"} => Cardinality(Places) = Len(chain)
  /\ load = "circular" => Location(Extended(disk, path, Content(disk, path).extends)) \in Places
  /\ load = "too deep" => /\ Cardinality(Spellings) = Len(chain)
                          /\ Cardinality(DOMAIN disk \union DOMAIN Package) <= MaxDepth
                               => Cardinality(Places) < Len(chain)

\* What a load arrives at is decided leaf by leaf by the nearest file that
\* says anything at, above or below the leaf, however long the chain: a null
\* in between hides what is behind it.
Given(p) == {k \in DOMAIN chain : \E q \in DOMAIN chain[k].leaves : Clash(p, q)}
Nearest(p) == chain[Min(Given(p))].leaves
Holds(p) == Given(p) # {} /\ p \in DOMAIN Nearest(p)

NearestWins ==
  load = "done" =>
    \A p \in UNION {DOMAIN chain[k].leaves : k \in DOMAIN chain} :
      IF Holds(p) THEN p \in DOMAIN data /\ data[p] = Nearest(p)[p] ELSE p \notin DOMAIN data
=============================================================================
