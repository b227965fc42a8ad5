------------------------------ MODULE MemoryStore ------------------------------
(***************************************************************************)
(* MemoryStore (core/memory/store.py): events appended to one JSONL file,  *)
(* each process with a search index of its own that is built from the last *)
(* lines of the file when the store is opened and extended by its own      *)
(* appends only, and the pyramid that says which of them to keep.          *)
(*                                                                         *)
(* The file is opened for every append, so an append that raises or a      *)
(* process that dies may leave any prefix of its line behind, and the next *)
(* append, of whatever process, goes on where that prefix ends.            *)
(***************************************************************************)
EXTENDS MemoryPyramid

CONSTANTS
  Handles,        \* stores opened on the file, each in a process of its own
  ReindexLimit,   \* how many lines _rebuild_index reads: 5000
  TopK,           \* top_k of search
  Capacities,     \* the tier capacities a store may be given
  Kinds,          \* of events: their salience, in thousandths, and whether
                  \* their timestamp parses
  Times,          \* when something happens, in fiftieths of an hour
  MaxEvents,      \* cap on the events that are appended
  MaxFailures,    \* cap on the appends that fail
  MaxOpens        \* cap on how often a store is opened

ASSUME MemoryAssumption ==
  /\ {ReindexLimit, TopK} \subseteq Nat \ {0}
  /\ \A c \in Capacities : DOMAIN c = Tiers \ {"archive"} /\ \A t \in DOMAIN c : c[t] \in Nat
  /\ Kinds \subseteq [salience: 0..1000, dated: BOOLEAN]
  /\ Times \subseteq Nat /\ 0 \in Times
  /\ {MaxEvents, MaxFailures, MaxOpens} \subseteq Nat

Broken == 0

VARIABLES
  lines,       \* the file: what each line parses to, an event or Broken
  ending,      \* its last line ends with a newline, is whole without one, or is torn
  opened,      \* the handles whose constructor has returned
  index,       \* the event of each entry of _index
  found,       \* the events in _provenance
  events,      \* every event an append was tried for: its kind and its time
  now,         \* the time
  (* history *)
  acked,       \* events whose append returned
  failures,    \* appends that raised, or in which the process died
  overtaken,   \* handles that another one has written past since they were opened
  opens

vars == <<lines, ending, opened, index, found, events, now, acked, failures, overtaken, opens>>

Init ==
  /\ lines = <<>> /\ ending = "newline"
  /\ opened = {} /\ index = [h \in Handles |-> <<>>] /\ found = [h \in Handles |-> {}]
  /\ events = <<>> /\ now = 0
  /\ acked = {} /\ failures = 0 /\ overtaken = {} /\ opens = 0

-----------------------------------------------------------------------------
\* tail: lines[-limit:], which is the whole file for a limit of 0.
TailOf(limit) ==
  IF limit = 0 \/ limit >= Len(lines)
  THEN lines
  ELSE SubSeq(lines, Len(lines) - limit + 1, Len(lines))

\* Every line of it parses.
Readable(s) == \A i \in DOMAIN s : s[i] # Broken

\* The constructor; it raises, and there is no store, when a line it reads
\* does not parse.
Open(h) ==
  /\ h \notin opened
  /\ opens < MaxOpens
  /\ Readable(TailOf(ReindexLimit))
  /\ opened' = opened \union {h}
  /\ index' = [index EXCEPT ![h] = TailOf(ReindexLimit)]
  /\ overtaken' = overtaken \ {h}
  /\ opens' = opens + 1
  /\ UNCHANGED <<lines, ending, found, events, now, acked, failures>>

\* The process ends or dies, and with it all the store keeps in memory.
Close(h) ==
  /\ h \in opened
  /\ opened' = opened \ {h}
  /\ index' = [index EXCEPT ![h] = <<>>]
  /\ found' = [found EXCEPT ![h] = {}]
  /\ UNCHANGED <<lines, ending, events, now, acked, failures, overtaken, opens>>

\* What is written goes on a line of its own, or spoils the line that was
\* left without an end.
Extend(line) ==
  lines' = IF ending = "newline" THEN Append(lines, line)
                                 ELSE [lines EXCEPT ![Len(lines)] = Broken]

\* A new event, written or not, by the store h.
Try(h) ==
  /\ h \in opened
  /\ Len(events) < MaxEvents
  /\ \E k \in Kinds : events' = Append(events, [kind |-> k, time |-> now])
  /\ overtaken' = overtaken \union (opened \ {h})
  /\ UNCHANGED <<opened, found, now, opens>>

\* mistake: the event is not indexed before the next start
AppendUnindexed(h) ==
  /\ Try(h)
  /\ Extend(Len(events'))
  /\ ending' = "newline"
  /\ acked' = acked \union {Len(events')}
  /\ UNCHANGED <<index, failures>>

\* append returns: the line and its newline are written and the event indexed.
AppendEvent(h) ==
  /\ Try(h)
  /\ Extend(Len(events'))
  /\ ending' = "newline"
  /\ index' = [index EXCEPT ![h] = Append(@, Len(events'))]
  /\ acked' = acked \union {Len(events')}
  /\ UNCHANGED failures

\* What a failed append leaves: nothing, a part of the line, all but its
\* newline, or all of it.
Leave(part) ==
  CASE part = "none" -> UNCHANGED <<lines, ending>>
    [] part = "some" -> Extend(Broken) /\ ending' = "torn"
    [] part = "line" -> Extend(Len(events')) /\ ending' = IF ending = "newline" THEN "whole" ELSE "torn"
    [] part = "all"  -> Extend(Len(events')) /\ ending' = "newline"

\* mistake: a failed append is reported as done
AppendFailsSilently(h, part) ==
  /\ failures < MaxFailures
  /\ Try(h)
  /\ Leave(part)
  /\ acked' = acked \union {Len(events')}
  /\ failures' = failures + 1
  /\ UNCHANGED index

\* append raises; the event is not indexed.
AppendFails(h, part) ==
  /\ failures < MaxFailures
  /\ Try(h)
  /\ Leave(part)
  /\ failures' = failures + 1
  /\ UNCHANGED <<index, acked>>

\* What a search may return: every entry scores above 0, for its salience
\* does, so top_k of them, or all if there are fewer.
Results(h) ==
  LET indexed == {index[h][i] : i \in DOMAIN index[h]} IN
  {hits \in SUBSET indexed : Cardinality(hits) = TopK \/ (hits = indexed /\ Cardinality(hits) < TopK)}

\* search: the results are recorded as retrieved.
Search(h) ==
  /\ h \in opened
  /\ \E hits \in Results(h) : found' = [found EXCEPT ![h] = @ \union hits]
  /\ UNCHANGED <<lines, ending, opened, index, events, now, acked, failures, overtaken, opens>>

\* Time passes.
Later ==
  /\ now' \in {t \in Times : t > now}
  /\ UNCHANGED <<lines, ending, opened, index, found, events, acked, failures, overtaken, opens>>

\* The salience and the _estimate_age_hours of an event.  append puts the
\* event's own metadata over the timestamp it indexes, and that of the daemon
\* and of the self-model is a number of seconds, which does not parse as a date.
Aged(e) ==
  [salience |-> events[e].kind.salience,
   age |-> IF events[e].kind.dated THEN now - events[e].time ELSE Undated]

\* The index as compact() hands it to the pyramid.
Entries(h) == [i \in DOMAIN index[h] |-> Aged(index[h][i])]

Next ==
  \/ \E h \in Handles :
       \/ Open(h)
       \/ Close(h)
       \/ AppendEvent(h)
       \/ \E part \in {"none", "some", "line", "all"} : AppendFails(h, part)
       \/ Search(h)
  \/ Later

Spec == Init /\ [][Next]_vars

-----------------------------------------------------------------------------
(* Types; what was retrieved is indexed.                                   *)
TypeOK ==
  /\ lines \in Seq(0..Len(events)) /\ ending \in {"newline", "whole", "torn"}
  /\ opened \subseteq Handles
  /\ index \in [Handles -> Seq(1..Len(events))]
  /\ found \in [Handles -> SUBSET (1..Len(events))]
  /\ events \in Seq([kind : Kinds, time : Times]) /\ now \in Times
  /\ acked \subseteq 1..Len(events)
  /\ failures \in 0..MaxFailures /\ overtaken \subseteq Handles /\ opens \in 0..MaxOpens
  /\ \A h \in Handles : found[h] \subseteq {index[h][i] : i \in DOMAIN index[h]}

OnFile == {lines[i] : i \in DOMAIN lines} \ {Broken}
BrokenLines == {i \in DOMAIN lines : lines[i] = Broken}

(* A failed append costs at most one event whose own append returned, the  *)
(* one that is glued to what it left, and leaves at most one line that     *)
(* does not parse: without failures nothing is lost and a store can always *)
(* be opened (append, store.py:69-79).                                     *)
FailureCostsOneLine ==
  /\ Cardinality(acked \ OnFile) <= failures
  /\ Cardinality(BrokenLines) <= failures

(* An index holds events in the order of their appends, each once, whoever *)
(* writes and whatever fails; and while nothing has failed and no other    *)
(* process has written, it is the end of the file, at least as far back as *)
(* a restart would read (append and _rebuild_index, store.py:69-79 and     *)
(* 154-171).                                                               *)
IndexFollowsFile ==
  \A h \in opened :
    /\ \A i, j \in DOMAIN index[h] : i < j => index[h][i] < index[h][j]
    /\ h \notin overtaken /\ failures = 0 =>
         /\ Len(index[h]) <= Len(lines)
         /\ index[h] = SubSeq(lines, Len(lines) - Len(index[h]) + 1, Len(lines))
         /\ Len(index[h]) >= ReindexLimit \/ Len(index[h]) = Len(lines)

(* Compaction of any index at any time: every entry is kept or evicted and *)
(* none is both; a tier keeps no more than its capacity, evicts none while *)
(* it has room, and evicts none that is more salient than one it keeps, or *)
(* as salient and younger by a tenth of an hour or more.  By less it may:  *)
(* ages are rounded before they are compared, and an event without a       *)
(* timestamp that parses counts as 999 hours old (compact and classify_one, *)
(* memory_pyramid.py:65-160, and _estimate_age_hours, 172-185).            *)
CompactionKeepsBest ==
  \A h \in opened, c \in Capacities :
    LET entries == Entries(h)
        kept == Retained(entries, c)
        evicted == Evicted(entries, c)
    IN  /\ kept \union evicted = DOMAIN entries /\ kept \intersect evicted = {}
        /\ kept \intersect Bucket(entries, "archive") = {}
        /\ \A tier \in DOMAIN c : LET bucket == Bucket(entries, tier) IN
             /\ Cardinality(kept \intersect bucket) <= c[tier]
             /\ \A p \in evicted \intersect bucket :
                  /\ Cardinality(kept \intersect bucket) = c[tier]
                  /\ \A q \in kept \intersect bucket :
                       \/ entries[q].salience > entries[p].salience
                       \/ /\ entries[q].salience = entries[p].salience
                          /\ entries[q].age < entries[p].age + Tenth

Level(tier) == CASE tier = "active" -> 3 [] tier = "working" -> 2 [] tier = "long_term" -> 1 [] tier = "archive" -> 0

(* Time alone takes an event down the tiers, never up, and neither into    *)
(* the archive nor out of it: one that is salient enough to be kept stays  *)
(* so.  One without a timestamp that parses does not age, and is in the    *)
(* long-term tier or the archive from the start (classify_one,             *)
(* memory_pyramid.py:65-95, and _estimate_age_hours, 172-185).             *)
AgeingNeverPromotes ==
  [][\A e \in DOMAIN events :
       /\ ~events[e].kind.dated =>
            Level(TierOf(Aged(e))) <= Level("long_term") /\ UNCHANGED TierOf(Aged(e))
       /\ Level(TierOf(Aged(e))') <= Level(TierOf(Aged(e)))
       /\ (TierOf(Aged(e))' = "archive") = (TierOf(Aged(e)) = "archive")]_vars
=============================================================================
