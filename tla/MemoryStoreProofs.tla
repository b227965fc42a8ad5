--------------------------- MODULE MemoryStoreProofs ---------------------------
(***************************************************************************)
(* Theorems of MemoryStore, for any processes, events and failed appends.  *)
(***************************************************************************)
EXTENDS MemoryStore, ArithmeticProofs, SequenceTheorems

\* The search results and the provenance are among what is indexed.
Indexed(h) == {index[h][i] : i \in DOMAIN index[h]}

-----------------------------------------------------------------------------
(* Types.                                                                  *)

LEMMA TailTyped ==
  ASSUME NEW S, lines \in Seq(S), NEW limit \in Nat
  PROVE  /\ TailOf(limit) \in Seq(S)
         /\ Len(TailOf(limit)) <= Len(lines)
         /\ Len(TailOf(limit)) >= limit \/ Len(TailOf(limit)) = Len(lines)
         /\ \A i \in 1..Len(TailOf(limit)) :
              TailOf(limit)[i] = lines[Len(lines) - Len(TailOf(limit)) + i]
<1>1. CASE limit = 0 \/ limit >= Len(lines)
  <2>1. TailOf(limit) = lines
    BY <1>1 DEF TailOf
  <2> QED
    BY <1>1, <2>1
<1>2. CASE limit # 0 /\ limit < Len(lines)
  <2>1. TailOf(limit) = SubSeq(lines, Len(lines) - limit + 1, Len(lines))
    BY <1>2 DEF TailOf
  <2>2. Len(TailOf(limit)) = limit
    BY <1>2, <2>1
  <2> QED
    BY <1>2, <2>1, <2>2
<1> QED
  BY <1>1, <1>2

LEMMA ExtendTyped ==
  ASSUME NEW S, lines \in Seq(S), NEW line \in S, Broken \in S, Extend(line),
         ending # "newline" => lines # <<>>
  PROVE  /\ lines' \in Seq(S) /\ lines' # <<>>
         /\ ending = "newline" => /\ Len(lines') = Len(lines) + 1
                                  /\ lines'[Len(lines')] = line
                                  /\ \A i \in 1..Len(lines) : lines'[i] = lines[i]
         /\ ending # "newline" => /\ Len(lines') = Len(lines)
                                  /\ lines'[Len(lines)] = Broken
                                  /\ \A i \in 1..(Len(lines) - 1) : lines'[i] = lines[i]
<1>1. CASE ending = "newline"
  BY <1>1 DEF Extend
<1>2. CASE ending # "newline"
  BY <1>2 DEF Extend
<1> QED
  BY <1>1, <1>2

\* What is left unfinished is a line of the file.
Unfinished == ending # "newline" => lines # <<>>

\* A closed store has retrieved nothing.
Closed == \A h \in Handles \ opened : found[h] = {}

Typed == TypeOK /\ Unfinished /\ Closed

LEMMA InitTyped == Init => Typed
BY MemoryAssumption DEF Init, Typed, TypeOK, Unfinished, Closed

\* A new event, whatever becomes of it.
LEMMA TryTyped ==
  ASSUME TypeOK, NEW h \in Handles, Try(h)
  PROVE  /\ events' \in Seq([kind : Kinds, time : Times])
         /\ Len(events') = Len(events) + 1
         /\ \A e \in 1..Len(events) : events'[e] = events[e]
         /\ h \in opened /\ opened' = opened
         /\ overtaken' = overtaken \union (opened \ {h}) /\ overtaken' \subseteq Handles
         /\ UNCHANGED <<found, now, opens>>
<1>1. PICK k \in Kinds : events' = Append(events, [kind |-> k, time |-> now])
  BY DEF Try
<1>2. [kind |-> k, time |-> now] \in [kind : Kinds, time : Times]
  BY DEF TypeOK
<1> QED
  BY <1>1, <1>2 DEF Try, TypeOK

LEMMA LeaveTyped ==
  ASSUME Typed, Len(events') = Len(events) + 1,
         NEW part \in {"none", "some", "line", "all"}, Leave(part)
  PROVE  /\ lines' \in Seq(0..Len(events')) /\ ending' \in {"newline", "whole", "torn"}
         /\ Unfinished'
<1> DEFINE S == 0..Len(events')
<1>1. Len(events) \in Nat /\ lines \in Seq(S) /\ Broken \in S /\ Len(events') \in S
  BY DEF Typed, TypeOK, Broken
<1>2. CASE part = "none"
  BY <1>1, <1>2 DEF Leave, Typed, TypeOK, Unfinished
<1>3. CASE part # "none"
  <2>1. PICK line \in S : Extend(line)
    BY <1>1, <1>3 DEF Leave
  <2>2. lines' \in Seq(S) /\ lines' # <<>>
    BY <1>1, <2>1, ExtendTyped DEF Typed, Unfinished
  <2> QED
    BY <1>3, <2>2 DEF Leave, Unfinished
<1> QED
  BY <1>2, <1>3

LEMMA StepTyped == Typed /\ [Next]_vars => Typed'
<1> SUFFICES ASSUME Typed, [Next]_vars PROVE Typed'
  OBVIOUS
<1> USE DEF Typed
<1>1. ASSUME NEW h \in Handles, Open(h) PROVE Typed'
  <2> DEFINE end == TailOf(ReindexLimit)
  <2>1. end \in Seq(0..Len(events))
    BY TailTyped, MemoryAssumption DEF TypeOK
  <2>2. \A i \in 1..Len(end) : end[i] \in 1..Len(events)
    <3>1. \A i \in DOMAIN end : end[i] # Broken
      BY <1>1 DEF Open, Readable
    <3> HIDE DEF end
    <3>2. Len(events) \in Nat
      BY DEF TypeOK
    <3> QED
      BY <2>1, <3>1, <3>2 DEF Broken
  <2> HIDE DEF end
  <2>3. end \in Seq(1..Len(events))
    BY <2>1, <2>2
  <2>4. index' = [index EXCEPT ![h] = end] /\ opened' = opened \union {h}
        /\ overtaken' = overtaken \ {h} /\ opens' = opens + 1 /\ opens < MaxOpens
        /\ UNCHANGED <<lines, ending, found, events, now, acked, failures>>
    BY <1>1 DEF Open, end
  <2>5. found[h] = {}
    BY <1>1 DEF Open, Closed
  <2>6. \A k \in Handles : found'[k] \subseteq Indexed(k)'
    BY <2>4, <2>5 DEF TypeOK, Indexed
  <2>7. index' \in [Handles -> Seq(1..Len(events))]
    BY <2>3, <2>4 DEF TypeOK
  <2>8. Closed'
    BY <2>4 DEF Closed
  <2>9. Unfinished'
    BY <2>4 DEF Unfinished
  <2>10. opens' \in 0..MaxOpens
    BY <2>4, MemoryAssumption DEF TypeOK
  <2>11. TypeOK'
    BY <2>4, <2>6, <2>7, <2>10 DEF TypeOK, Indexed
  <2> QED
    BY <2>8, <2>9, <2>11
<1>2. ASSUME NEW h \in Handles, Close(h) PROVE Typed'
  BY <1>2 DEF Close, TypeOK, Unfinished, Closed
<1>3. ASSUME NEW h \in Handles, AppendEvent(h) PROVE Typed'
  <2>1. Try(h) /\ Leave("all") /\ index' = [index EXCEPT ![h] = Append(@, Len(events'))]
        /\ acked' = acked \union {Len(events')} /\ failures' = failures
    BY <1>3 DEF AppendEvent, Leave
  <2>2. Len(events') = Len(events) + 1 /\ Len(events) \in Nat
    BY <2>1, TryTyped DEF TypeOK
  <2>3. lines' \in Seq(0..Len(events')) /\ ending' \in {"newline", "whole", "torn"} /\ Unfinished'
    BY <2>1, <2>2, LeaveTyped
  <2>4. index' \in [Handles -> Seq(1..Len(events'))]
        /\ \A k \in Handles : Indexed(k) \subseteq Indexed(k)'
    <3>1. \A k \in Handles : index[k] \in Seq(1..Len(events'))
      BY <2>2 DEF TypeOK
    <3>2. Append(index[h], Len(events')) \in Seq(1..Len(events'))
      BY <2>2, <3>1
    <3>3. \A k \in Handles : index'[k] = IF k = h THEN Append(index[h], Len(events')) ELSE index[k]
      BY <2>1 DEF TypeOK
    <3>4. \A k \in Handles : \A i \in DOMAIN index[k] : i \in DOMAIN index'[k] /\ index'[k][i] = index[k][i]
      <4> SUFFICES ASSUME NEW k \in Handles, NEW i \in DOMAIN index[k]
                   PROVE  i \in DOMAIN index'[k] /\ index'[k][i] = index[k][i]
        OBVIOUS
      <4>1. index[k] \in Seq(1..Len(events')) /\ Len(events') \in 1..Len(events')
        BY <2>2, <3>1
      <4>2. CASE k = h
        <5> DEFINE s == index[h]
                   e == Len(events')
        <5>1. index'[k] = Append(s, e) /\ i \in DOMAIN s /\ s \in Seq(1..e)
          BY <3>3, <4>1, <4>2
        <5> HIDE DEF s, e
        <5>2. Len(Append(s, e)) = Len(s) + 1 /\ Append(s, e)[i] = s[i] /\ i \in 1..(Len(s) + 1)
          BY <5>1
        <5> QED
          BY <4>2, <5>1, <5>2 DEF s
      <4>3. CASE k # h
        BY <3>3, <4>3
      <4> QED
        BY <4>2, <4>3
    <3> QED
      BY <2>1, <3>1, <3>2, <3>3, <3>4 DEF TypeOK, Indexed
  <2>5. /\ events' \in Seq([kind : Kinds, time : Times]) /\ h \in opened /\ opened' = opened
        /\ overtaken' \subseteq Handles /\ UNCHANGED <<found, now, opens>>
    BY <2>1, TryTyped
  <2>6. acked' \subseteq 1..Len(events') /\ found' \in [Handles -> SUBSET (1..Len(events'))]
    <3>1. 1..Len(events) \subseteq 1..Len(events') /\ Len(events') \in 1..Len(events')
      BY <2>2
    <3>2. acked' \subseteq 1..Len(events')
      BY <2>1, <3>1 DEF TypeOK
    <3>3. found' = found /\ found \in [Handles -> SUBSET (1..Len(events))]
      BY <2>5 DEF TypeOK
    <3> QED
      BY <3>1, <3>2, <3>3
  <2>7. \A k \in Handles : found'[k] \subseteq Indexed(k)'
    BY <2>4, <2>5 DEF TypeOK, Indexed
  <2>8. TypeOK'
    BY <2>1, <2>3, <2>4, <2>5, <2>6, <2>7 DEF TypeOK, Indexed
  <2> QED
    BY <2>3, <2>5, <2>8 DEF Closed
<1>4. ASSUME NEW h \in Handles, NEW part \in {"none", "some", "line", "all"}, AppendFails(h, part)
      PROVE  Typed'
  <2>1. Try(h) /\ Leave(part) /\ UNCHANGED <<index, acked>>
        /\ failures' = failures + 1 /\ failures < MaxFailures
    BY <1>4 DEF AppendFails
  <2>2. Len(events') = Len(events) + 1 /\ Len(events) \in Nat
    BY <2>1, TryTyped DEF TypeOK
  <2>3. lines' \in Seq(0..Len(events')) /\ ending' \in {"newline", "whole", "torn"} /\ Unfinished'
    BY <2>1, <2>2, LeaveTyped
  <2>4. index' \in [Handles -> Seq(1..Len(events'))]
    BY <2>1, <2>2 DEF TypeOK
  <2>5. /\ events' \in Seq([kind : Kinds, time : Times]) /\ h \in opened /\ opened' = opened
        /\ overtaken' \subseteq Handles /\ UNCHANGED <<found, now, opens>>
    BY <2>1, TryTyped
  <2>6. acked' \subseteq 1..Len(events') /\ found' \in [Handles -> SUBSET (1..Len(events'))]
    BY <2>1, <2>2, <2>5 DEF TypeOK
  <2>7. failures' \in 0..MaxFailures
    BY <2>1, MemoryAssumption DEF TypeOK
  <2> QED
    BY <2>1, <2>3, <2>4, <2>5, <2>6, <2>7 DEF TypeOK, Indexed, Closed
<1>5. ASSUME NEW h \in Handles, Search(h) PROVE Typed'
  <2>1. PICK hits \in Results(h) : found' = [found EXCEPT ![h] = @ \union hits]
    BY <1>5 DEF Search
  <2>2. hits \subseteq Indexed(h)
    BY DEF Results, Indexed
  <2>3. Indexed(h) \subseteq 1..Len(events)
    BY DEF TypeOK, Indexed
  <2>4. \A k \in Handles : found'[k] = IF k = h THEN found[h] \union hits ELSE found[k]
    BY <2>1 DEF TypeOK
  <2>5. found' \in [Handles -> SUBSET (1..Len(events))]
    BY <2>1, <2>2, <2>3, <2>4 DEF TypeOK
  <2>6. \A k \in Handles : found'[k] \subseteq Indexed(k)
    <3>1. \A k \in Handles : found[k] \subseteq Indexed(k)
      BY DEF TypeOK, Indexed
    <3> QED
      BY <2>2, <2>4, <3>1
  <2> QED
    BY <1>5, <2>5, <2>6 DEF Search, TypeOK, Unfinished, Indexed, Closed
<1>6. CASE Later
  BY <1>6 DEF Later, TypeOK, Unfinished, Closed
<1>7. CASE UNCHANGED vars
  BY <1>7 DEF vars, TypeOK, Unfinished, Closed
<1> QED
  BY <1>1, <1>2, <1>3, <1>4, <1>5, <1>6, <1>7 DEF Next

LEMMA TypedHolds == Spec => []Typed
BY InitTyped, StepTyped, PTL DEF Spec

(* Every variable of the store keeps its type, and what was retrieved is   *)
(* indexed.                                                                *)
THEOREM StoreTyped == Spec => []TypeOK
<1>1. Typed => TypeOK
  BY DEF Typed
<1> QED
  BY <1>1, TypedHolds, PTL

-----------------------------------------------------------------------------
(* What a failed append costs.  A line left without its newline is a loss  *)
(* to come: one that is torn does not parse already, and one that is whole *)
(* will not once the next append is glued to it, which then costs the      *)
(* event of that append.                                                   *)

LastLine == lines[Len(lines)]

Owed ==
  /\ ending = "torn" => LastLine = Broken
  /\ ending = "whole" => LastLine \notin acked
  /\ Cardinality(acked \ OnFile) + (IF ending = "newline" THEN 0 ELSE 1) <= failures
  /\ Cardinality(BrokenLines) + (IF ending = "whole" THEN 1 ELSE 0) <= failures

\* Events whose append returned, and that are not in the file.
Lost == Cardinality(acked \ OnFile)

LEMMA Finite ==
  ASSUME TypeOK
  PROVE  /\ IsFiniteSet(acked \ OnFile) /\ Lost \in Nat
         /\ IsFiniteSet(BrokenLines) /\ Cardinality(BrokenLines) \in Nat
         /\ failures \in Nat
<1>1. IsFiniteSet(1..Len(events)) /\ IsFiniteSet(1..Len(lines))
  BY FS_Interval DEF TypeOK
<1>2. acked \subseteq 1..Len(events) /\ BrokenLines \subseteq 1..Len(lines)
  BY DEF TypeOK, BrokenLines
<1>3. IsFiniteSet(acked \ OnFile) /\ IsFiniteSet(BrokenLines)
  BY <1>1, <1>2, FS_Subset
<1>4. Lost \in Nat /\ Cardinality(BrokenLines) \in Nat
  BY <1>3, FS_CardinalityType DEF Lost
<1>5. failures \in Nat
  BY MemoryAssumption DEF TypeOK
<1> QED
  BY <1>3, <1>4, <1>5

Counts == Lost \in Nat /\ Cardinality(BrokenLines) \in Nat

LEMMA CountsNow == TypeOK => Counts
BY Finite DEF Counts

LEMMA CountsNext == TypeOK' => Counts'
BY CountsNow, PTL

\* Something is written at the end of the file.
LEMMA ExtendCosts ==
  ASSUME Typed, Owed, NEW line \in Nat, Extend(line)
  PROVE  /\ acked \intersect OnFile \subseteq OnFile'
         /\ ending = "newline" =>
              /\ line # Broken => line \in OnFile' /\ BrokenLines' = BrokenLines
              /\ line = Broken => BrokenLines' = BrokenLines \union {Len(lines) + 1}
              /\ lines'[Len(lines')] = line
         /\ ending # "newline" =>
              /\ BrokenLines' = BrokenLines \union {Len(lines)}
              /\ ending = "torn" => Len(lines) \in BrokenLines
              /\ lines'[Len(lines')] = Broken
<1> DEFINE n == Len(lines)
<1>1. /\ lines \in Seq(Nat) /\ Broken \in Nat /\ n \in Nat
      /\ ending \in {"newline", "whole", "torn"}
      /\ ending # "newline" => lines # <<>>
  BY DEF Typed, TypeOK, Unfinished, Broken
<1>2. Broken \notin acked
  BY DEF Typed, TypeOK, Broken
<1>3. /\ lines' \in Seq(Nat)
      /\ ending = "newline" => Len(lines') = n + 1 /\ lines'[n + 1] = line
                               /\ \A i \in 1..n : lines'[i] = lines[i]
      /\ ending # "newline" => Len(lines') = n /\ lines'[n] = Broken
                               /\ \A i \in 1..(n - 1) : lines'[i] = lines[i]
  BY <1>1, ExtendTyped
<1>4. ending # "newline" => lines[n] \notin acked /\ (ending = "torn" => lines[n] = Broken)
  BY <1>1, <1>2 DEF Owed, LastLine
<1> HIDE DEF n
<1>5. CASE ending = "newline"
  <2>1. DOMAIN lines = 1..n /\ DOMAIN lines' = 1..(n + 1)
    BY <1>1, <1>3, <1>5 DEF n
  <2>2. OnFile \subseteq OnFile' /\ (line # Broken => line \in OnFile')
    BY <1>1, <1>3, <1>5, <2>1 DEF OnFile
  <2>3. BrokenLines' = {i \in 1..(n + 1) : lines'[i] = Broken}
        /\ BrokenLines = {i \in 1..n : lines[i] = Broken}
    BY <2>1 DEF BrokenLines
  <2>4. BrokenLines' = BrokenLines \union (IF line = Broken THEN {n + 1} ELSE {})
    BY <1>1, <1>3, <1>5, <2>3
  <2> QED
    BY <1>3, <1>5, <2>2, <2>4 DEF n
<1>6. CASE ending # "newline"
  <2>1. DOMAIN lines = 1..n /\ DOMAIN lines' = 1..n /\ n \in 1..n
    BY <1>1, <1>3, <1>6 DEF n
  <2>2. acked \intersect OnFile \subseteq OnFile'
    <3>1. SUFFICES ASSUME NEW e \in acked \intersect OnFile PROVE e \in OnFile'
      OBVIOUS
    <3>2. PICK i \in 1..n : lines[i] = e /\ e # Broken
      BY <2>1 DEF OnFile
    <3>3. i # n
      BY <1>4, <1>6, <3>1, <3>2
    <3>4. lines'[i] = e
      BY <1>1, <1>3, <1>6, <3>2, <3>3
    <3> QED
      BY <2>1, <3>2, <3>4 DEF OnFile
  <2>3. BrokenLines' = {i \in 1..n : lines'[i] = Broken}
        /\ BrokenLines = {i \in 1..n : lines[i] = Broken}
    BY <2>1 DEF BrokenLines
  <2>4. BrokenLines' = BrokenLines \union {n}
    BY <1>1, <1>3, <1>6, <2>1, <2>3
  <2> QED
    BY <1>3, <1>4, <1>6, <2>1, <2>2, <2>3, <2>4 DEF n
<1> QED
  BY <1>5, <1>6

LEMMA MoreLost ==
  ASSUME TypeOK, TypeOK', NEW x,
         acked' \ OnFile' \subseteq (acked \ OnFile) \union {x}
  PROVE  Lost' <= Lost + 1
<1> DEFINE old == acked \ OnFile
<1>1. IsFiniteSet(old) /\ Cardinality(old) \in Nat /\ Lost' \in Nat
  BY Finite, CountsNext DEF Lost, Counts
<1>2. Lost' = Cardinality(acked' \ OnFile') /\ Lost = Cardinality(old)
  BY DEF Lost
<1> HIDE DEF old
<1>3. IsFiniteSet(old \union {x}) /\ Cardinality(old \union {x}) <= Cardinality(old) + 1
      /\ Cardinality(old \union {x}) \in Nat
  <2>1. PICK c \in Nat : c = Cardinality(old)
    BY <1>1
  <2>2. /\ IsFiniteSet(old \union {x})
        /\ Cardinality(old \union {x}) = IF x \in old THEN Cardinality(old) ELSE Cardinality(old) + 1
    BY <1>1, FS_AddElement
  <2>3. c + 1 \in Nat /\ c <= c + 1 /\ c + 1 <= c + 1
    OBVIOUS
  <2> QED
    BY <2>1, <2>2, <2>3
<1>4. Cardinality(acked' \ OnFile') <= Cardinality(old \union {x})
  BY <1>3, FS_Subset DEF old
<1> QED
  BY <1>1, <1>2, <1>3, <1>4

LEMMA NoMoreLost ==
  ASSUME TypeOK, acked' \ OnFile' \subseteq acked \ OnFile
  PROVE  Lost' <= Lost
BY Finite, FS_Subset DEF Lost

LEMMA AppendOwed ==
  ASSUME Typed, Typed', Owed, NEW h \in Handles, AppendEvent(h)
  PROVE  Owed'
<1> DEFINE e == Len(events')
<1>1. e \in Nat /\ e # Broken /\ e \notin acked
  BY TryTyped DEF AppendEvent, Typed, TypeOK, Broken
<1>2. Extend(e) /\ ending' = "newline" /\ acked' = acked \union {e} /\ failures' = failures
  BY DEF AppendEvent
<1> HIDE DEF e
<1>3. Lost \in Nat /\ Lost' \in Nat /\ Cardinality(BrokenLines) \in Nat /\ failures \in Nat
      /\ IsFiniteSet(BrokenLines) /\ Cardinality(BrokenLines') \in Nat
  BY Finite, CountsNext DEF Counts, Typed
<1>4. acked \intersect OnFile \subseteq OnFile'
  BY <1>1, <1>2, ExtendCosts
<1>5. CASE ending = "newline"
  <2>1. e \in OnFile' /\ BrokenLines' = BrokenLines
    BY <1>1, <1>2, <1>5, ExtendCosts
  <2>2. Lost' <= Lost
    BY <1>2, <1>4, <2>1, NoMoreLost DEF Typed
  <2> QED
    BY <1>2, <1>3, <1>5, <2>1, <2>2 DEF Owed, Lost
<1>6. CASE ending # "newline"
  <2>1. Lost' <= Lost + 1
    BY <1>2, <1>4, MoreLost DEF Typed
  <2>2. Cardinality(BrokenLines') <= Cardinality(BrokenLines) + (IF ending = "whole" THEN 1 ELSE 0)
    <3>1. BrokenLines' = BrokenLines \union {Len(lines)}
          /\ (ending = "torn" => Len(lines) \in BrokenLines)
      BY <1>1, <1>2, <1>6, ExtendCosts
    <3>2. Cardinality(BrokenLines \union {Len(lines)}) =
            IF Len(lines) \in BrokenLines THEN Cardinality(BrokenLines) ELSE Cardinality(BrokenLines) + 1
      BY <1>3, FS_AddElement
    <3> QED
      BY <1>3, <1>6, <3>1, <3>2 DEF Typed, TypeOK
  <2> QED
    BY <1>2, <1>3, <1>6, <2>1, <2>2 DEF Owed, Lost
<1> QED
  BY <1>5, <1>6

LEMMA AppendFailsOwed ==
  ASSUME Typed, Typed', Owed, NEW h \in Handles,
         NEW part \in {"none", "some", "line", "all"}, AppendFails(h, part)
  PROVE  Owed'
<1> DEFINE e == Len(events')
<1>1. e \in Nat /\ e # Broken /\ e \notin acked
  BY TryTyped DEF AppendFails, Typed, TypeOK, Broken
<1>2. Leave(part) /\ acked' = acked /\ failures' = failures + 1
  BY DEF AppendFails
<1>3. Lost \in Nat /\ Lost' \in Nat /\ Cardinality(BrokenLines) \in Nat /\ failures \in Nat
      /\ IsFiniteSet(BrokenLines) /\ Cardinality(BrokenLines') \in Nat
  BY Finite, CountsNext DEF Counts, Typed
<1>4. CASE part = "none"
  BY <1>2, <1>3, <1>4 DEF Leave, Owed, OnFile, BrokenLines, LastLine, Lost
<1>5. CASE part # "none"
  <2>1. PICK line \in {Broken, e} : /\ Extend(line)
                                    /\ part = "some" => line = Broken /\ ending' = "torn"
                                    /\ part = "line" => line = e /\ ending' = IF ending = "newline" THEN "whole" ELSE "torn"
                                    /\ part = "all" => line = e /\ ending' = "newline"
    BY <1>2, <1>5 DEF Leave
  <2>2. line \in Nat
    BY <1>1 DEF Broken
  <2> HIDE DEF e
  <2>3. Lost' <= Lost
    BY <1>2, <2>1, <2>2, ExtendCosts, NoMoreLost DEF Typed
  <2>4. Cardinality(BrokenLines') <= Cardinality(BrokenLines) + 1
    <3>1. PICK n : BrokenLines' \in {BrokenLines, BrokenLines \union {n}}
      BY <2>1, <2>2, ExtendCosts
    <3>2. Cardinality(BrokenLines \union {n}) <= Cardinality(BrokenLines) + 1
      <4>1. PICK B : B = BrokenLines /\ IsFiniteSet(B)
        BY <1>3
      <4>2. PICK c \in Nat : c = Cardinality(B)
        BY <1>3, <4>1
      <4>3. Cardinality(B \union {n}) = IF n \in B THEN Cardinality(B) ELSE Cardinality(B) + 1
        BY <4>1, FS_AddElement
      <4>4. Cardinality(B \union {n}) <= Cardinality(B) + 1
        BY <4>2, <4>3
      <4> QED
        BY <4>1, <4>4
    <3>3. CASE BrokenLines' = BrokenLines
      <4>1. Cardinality(BrokenLines') = Cardinality(BrokenLines)
        BY <3>3
      <4> QED
        BY <1>3, <4>1
    <3>4. CASE BrokenLines' = BrokenLines \union {n}
      BY <3>2, <3>4
    <3> QED
      BY <3>1, <3>3, <3>4
  <2>5. ending = "newline" /\ part # "some" => Cardinality(BrokenLines') = Cardinality(BrokenLines)
    BY <1>1, <1>5, <2>1, <2>2, ExtendCosts
  <2>6. ending' = "torn" => lines'[Len(lines')] = Broken
    BY <1>5, <2>1, <2>2, ExtendCosts
  <2>7. ending' = "whole" => lines'[Len(lines')] \notin acked'
    BY <1>1, <1>2, <1>5, <2>1, <2>2, ExtendCosts
  <2>8. ending' = "whole" => ending = "newline" /\ part # "some"
    BY <1>5, <2>1
  <2> QED
    BY <1>2, <1>3, <2>3, <2>4, <2>5, <2>6, <2>7, <2>8 DEF Owed, Lost, LastLine
<1> QED
  BY <1>4, <1>5

LEMMA StepOwed == Typed /\ Typed' /\ Owed /\ [Next]_vars => Owed'
<1> SUFFICES ASSUME Typed, Typed', Owed, [Next]_vars PROVE Owed'
  OBVIOUS
<1>1. CASE UNCHANGED <<lines, ending, acked, failures>>
  BY <1>1 DEF Owed, OnFile, BrokenLines, LastLine
<1>2. ASSUME NEW h \in Handles, Open(h) \/ Close(h) \/ Search(h) PROVE Owed'
  BY <1>1, <1>2 DEF Open, Close, Search
<1>3. CASE Later \/ UNCHANGED vars
  BY <1>1, <1>3 DEF Later, vars
<1> QED
  BY <1>2, <1>3, AppendOwed, AppendFailsOwed DEF Next

LEMMA InitOwed == Init => Owed
<1> SUFFICES ASSUME Init PROVE Owed
  OBVIOUS
<1>1. acked \ OnFile = {} /\ BrokenLines = {} /\ ending = "newline" /\ failures = 0
  BY DEF Init, BrokenLines
<1> QED
  BY <1>1, FS_EmptySet DEF Owed

(* However appends fail and whichever process goes on after them, a failed *)
(* append costs at most one event whose own append returned, and leaves at *)
(* most one line that does not parse (append, store.py:69-79).             *)
THEOREM FailuresCostOneLineEach == Spec => []FailureCostsOneLine
<1>1. Typed /\ Owed => FailureCostsOneLine
  BY Finite DEF Typed, Owed, Lost, FailureCostsOneLine
<1> QED
  BY <1>1, InitOwed, StepOwed, TypedHolds, PTL DEF Spec

-----------------------------------------------------------------------------
(* The order of the lines and of an index.                                 *)

LinesInOrder ==
  \A i, j \in DOMAIN lines :
    i < j /\ lines[i] # Broken /\ lines[j] # Broken => lines[i] < lines[j]

IndexInOrder ==
  \A h \in Handles : \A i, j \in DOMAIN index[h] : i < j => index[h][i] < index[h][j]

\* While nothing has failed, no line was left without its end.
WholeLines == failures = 0 => ending = "newline"

\* An index that is the end of the file, as far back as a restart would read.
IsEnd(s) ==
  /\ Len(s) <= Len(lines)
  /\ \A i \in 1..Len(s) : s[i] = lines[Len(lines) - Len(s) + i]
  /\ Len(s) >= ReindexLimit \/ Len(s) = Len(lines)

IndexIsEnd == failures = 0 => \A h \in opened \ overtaken : IsEnd(index[h])

Ordered == LinesInOrder /\ IndexInOrder /\ WholeLines /\ IndexIsEnd

LEMMA InitOrdered == Init => Ordered
BY DEF Init, Ordered, LinesInOrder, IndexInOrder, WholeLines, IndexIsEnd

\* What is written at the end of the file keeps its lines in order.
LEMMA ExtendInOrder ==
  ASSUME Typed, LinesInOrder, NEW line \in Nat, Extend(line),
         line # Broken => line > Len(events)
  PROVE  LinesInOrder'
<1> DEFINE n == Len(lines)
<1>1. /\ lines \in Seq(Nat) /\ Broken \in Nat /\ n \in Nat /\ Len(events) \in Nat
      /\ DOMAIN lines = 1..n /\ \A i \in 1..n : lines[i] <= Len(events)
      /\ ending # "newline" => lines # <<>>
  BY DEF Typed, TypeOK, Unfinished, Broken
<1>2. /\ lines' \in Seq(Nat)
      /\ ending = "newline" => Len(lines') = n + 1 /\ lines'[n + 1] = line
                               /\ \A i \in 1..n : lines'[i] = lines[i]
      /\ ending # "newline" => Len(lines') = n /\ lines'[n] = Broken
                               /\ \A i \in 1..(n - 1) : lines'[i] = lines[i]
  BY <1>1, ExtendTyped
<1> HIDE DEF n
<1>3. CASE ending = "newline"
  <2>1. DOMAIN lines' = 1..(n + 1)
    BY <1>2, <1>3
  <2> QED
    BY <1>1, <1>2, <1>3, <2>1 DEF LinesInOrder
<1>4. CASE ending # "newline"
  <2>1. DOMAIN lines' = 1..n
    BY <1>2, <1>4
  <2> QED
    BY <1>1, <1>2, <1>4, <2>1 DEF LinesInOrder
<1> QED
  BY <1>3, <1>4

\* The places of two of the last n of m lines.
LEMMA TailPlaces ==
  ASSUME NEW m \in Nat, NEW n \in Nat, n <= m, NEW i \in 1..n, NEW j \in 1..n, i < j
  PROVE  m - n \in Nat /\ m - n + i \in 1..m /\ m - n + j \in 1..m /\ m - n + i < m - n + j
OBVIOUS

\* The end of the file that is read is in order and is an end of it.
LEMMA TailOrdered ==
  ASSUME Typed, LinesInOrder, Readable(TailOf(ReindexLimit))
  PROVE  LET s == TailOf(ReindexLimit)
         IN  IsEnd(s) /\ \A i, j \in DOMAIN s : i < j => s[i] < s[j]
<1> DEFINE s == TailOf(ReindexLimit)
<1>1. /\ lines \in Seq(Nat) /\ ReindexLimit \in Nat
  BY MemoryAssumption DEF Typed, TypeOK
<1>2. s \in Seq(Nat) /\ IsEnd(s)
  BY <1>1, TailTyped DEF IsEnd
<1>3. \A i \in DOMAIN s : s[i] # Broken
  BY DEF Readable
<1> HIDE DEF s
<1>4. \A i, j \in 1..Len(s) : i < j => s[i] < s[j]
  <2> SUFFICES ASSUME NEW i \in 1..Len(s), NEW j \in 1..Len(s), i < j
               PROVE  s[i] < s[j]
    OBVIOUS
  <2> DEFINE k == Len(lines) - Len(s)
  <2>1. k \in Nat /\ k + i \in DOMAIN lines /\ k + j \in DOMAIN lines /\ k + i < k + j
    <3>1. Len(s) \in Nat /\ Len(lines) \in Nat /\ Len(s) <= Len(lines)
      <4>1. Len(s) \in Nat /\ Len(lines) \in Nat
        BY <1>1, <1>2
      <4>2. Len(s) <= Len(lines)
        BY <1>2 DEF IsEnd
      <4> QED
        BY <4>1, <4>2
    <3>2. k \in Nat /\ k + i \in 1..Len(lines) /\ k + j \in 1..Len(lines) /\ k + i < k + j
      BY <3>1, TailPlaces, Zenon
    <3>3. DOMAIN lines = 1..Len(lines)
      BY <1>1
    <3> HIDE DEF k
    <3> QED
      BY <3>2, <3>3
  <2>2. s[i] = lines[k + i] /\ s[j] = lines[k + j]
    BY <1>2 DEF IsEnd
  <2>3. lines[k + i] # Broken /\ lines[k + j] # Broken
    BY <1>2, <1>3, <2>2
  <2> HIDE DEF k
  <2> QED
    BY <2>1, <2>2, <2>3 DEF LinesInOrder
<1> QED
  BY <1>2, <1>4 DEF s

LEMMA OpenOrdered ==
  ASSUME Typed, Ordered, NEW h \in Handles, Open(h)
  PROVE  Ordered'
<1> DEFINE s == TailOf(ReindexLimit)
<1>1. IsEnd(s) /\ \A i, j \in DOMAIN s : i < j => s[i] < s[j]
  BY TailOrdered DEF Ordered, Open
<1>2. index' = [index EXCEPT ![h] = s] /\ opened' = opened \union {h}
      /\ overtaken' = overtaken \ {h} /\ UNCHANGED <<lines, ending, failures>>
  BY DEF Open
<1> HIDE DEF s
<1>3. \A k \in Handles : index'[k] = IF k = h THEN s ELSE index[k]
  BY <1>2 DEF Typed, TypeOK
<1>4. opened' \ overtaken' \subseteq (opened \ overtaken) \union {h}
  BY <1>2
<1>5. LinesInOrder' /\ WholeLines'
  BY <1>2 DEF Ordered, LinesInOrder, WholeLines
<1>6. IndexInOrder'
  BY <1>1, <1>3 DEF Ordered, IndexInOrder
<1>7. IndexIsEnd'
  <2>1. \A k \in Handles : IsEnd(index[k]) => IsEnd(index[k])'  \/ k = h
    BY <1>2, <1>3 DEF IsEnd
  <2>2. IsEnd(index[h])'
    BY <1>1, <1>2, <1>3 DEF IsEnd
  <2> QED
    BY <1>2, <1>4, <2>1, <2>2 DEF Ordered, IndexIsEnd, Typed, TypeOK
<1> QED
  BY <1>5, <1>6, <1>7 DEF Ordered

LEMMA CloseOrdered ==
  ASSUME Typed, Ordered, NEW h \in Handles, Close(h)
  PROVE  Ordered'
<1>1. index' = [index EXCEPT ![h] = <<>>] /\ opened' = opened \ {h}
      /\ UNCHANGED <<lines, ending, failures, overtaken>>
  BY DEF Close
<1>2. \A k \in Handles : index'[k] = IF k = h THEN <<>> ELSE index[k]
  BY <1>1 DEF Typed, TypeOK
<1>3. LinesInOrder' /\ WholeLines' /\ IndexInOrder'
  BY <1>1, <1>2 DEF Ordered, LinesInOrder, WholeLines, IndexInOrder
<1>4. \A k \in opened' \ overtaken' : k \in opened \ overtaken /\ k \in Handles /\ index'[k] = index[k]
  BY <1>1, <1>2 DEF Typed, TypeOK
<1>5. IndexIsEnd'
  <2> SUFFICES ASSUME failures' = 0, NEW k \in opened' \ overtaken' PROVE IsEnd(index[k])'
    BY DEF IndexIsEnd
  <2>1. IsEnd(index[k])
    BY <1>1, <1>4 DEF Ordered, IndexIsEnd
  <2> QED
    BY <1>1, <1>4, <2>1 DEF IsEnd
<1> QED
  BY <1>3, <1>5 DEF Ordered

LEMMA AppendOrdered ==
  ASSUME Typed, Ordered, NEW h \in Handles, AppendEvent(h)
  PROVE  Ordered'
<1> DEFINE e == Len(events')
           n == Len(lines)
<1>1. /\ e \in Nat /\ e > Len(events) /\ e # Broken /\ Len(events) \in Nat
      /\ h \in opened /\ opened' = opened /\ overtaken' = overtaken \union (opened \ {h})
  BY TryTyped DEF AppendEvent, Typed, TypeOK, Broken
<1>2. Extend(e) /\ ending' = "newline" /\ index' = [index EXCEPT ![h] = Append(@, e)]
      /\ failures' = failures
  BY DEF AppendEvent
<1> HIDE DEF e
<1>3. LinesInOrder' /\ WholeLines'
  BY <1>1, <1>2, ExtendInOrder DEF Ordered, WholeLines
<1>4. \A k \in Handles : index'[k] = IF k = h THEN Append(index[h], e) ELSE index[k]
  BY <1>2 DEF Typed, TypeOK
<1>5. index[h] \in Seq(1..Len(events))
  BY DEF Typed, TypeOK
<1>6. /\ Append(index[h], e) \in Seq(Nat) /\ Len(Append(index[h], e)) = Len(index[h]) + 1
      /\ Append(index[h], e)[Len(index[h]) + 1] = e
      /\ \A i \in 1..Len(index[h]) : Append(index[h], e)[i] = index[h][i] /\ index[h][i] < e
  <2>1. \A i \in 1..Len(index[h]) : index[h][i] \in 1..Len(events)
    BY <1>5
  <2>2. index[h] \in Seq(Nat)
    BY <1>1, <1>5
  <2> QED
    BY <1>1, <2>1, <2>2
<1>7. IndexInOrder'
  <2> DEFINE s == index[h]
             t == Append(s, e)
  <2>1. \A i, j \in DOMAIN s : i < j => s[i] < s[j]
    BY DEF Ordered, IndexInOrder
  <2>2. DOMAIN s = 1..Len(s) /\ Len(s) \in Nat /\ DOMAIN t = 1..(Len(s) + 1)
    BY <1>5, <1>6
  <2>3. t[Len(s) + 1] = e /\ \A i \in 1..Len(s) : t[i] = s[i] /\ s[i] < e
    BY <1>6
  <2>4. \A k \in Handles : index'[k] = IF k = h THEN t ELSE index[k]
    BY <1>4
  <2> HIDE DEF s, t
  <2>5. \A i, j \in DOMAIN t : i < j => t[i] < t[j]
    BY <2>1, <2>2, <2>3
  <2> QED
    BY <2>4, <2>5 DEF Ordered, IndexInOrder
<1>8. IndexIsEnd'
  <2> SUFFICES ASSUME failures = 0, h \notin overtaken PROVE IsEnd(index[h])'
    BY <1>1, <1>2 DEF IndexIsEnd
  <2>1. IsEnd(index[h]) /\ ending = "newline"
    BY <1>1 DEF Ordered, IndexIsEnd, WholeLines
  <2>2. lines \in Seq(Nat) /\ Broken \in Nat
    BY DEF Typed, TypeOK, Broken
  <2>3. /\ n \in Nat /\ Len(lines') = n + 1 /\ lines'[n + 1] = e
        /\ \A i \in 1..n : lines'[i] = lines[i]
    BY <1>1, <1>2, <2>1, <2>2, ExtendTyped
  <2> DEFINE s == index[h]
             t == index'[h]
  <2>4. /\ Len(s) \in Nat /\ Len(t) = Len(s) + 1 /\ t[Len(s) + 1] = e
        /\ \A i \in 1..Len(s) : t[i] = s[i]
    <3>1. t = Append(index[h], e)
      BY <1>4
    <3>2. Len(s) \in Nat
      BY <1>5
    <3> QED
      BY <1>6, <3>1, <3>2
  <2>5. Len(s) <= n /\ (\A i \in 1..Len(s) : s[i] = lines[n - Len(s) + i])
        /\ (Len(s) >= ReindexLimit \/ Len(s) = n)
    BY <2>1 DEF IsEnd
  <2> HIDE DEF s, t, n
  <2>6. \A i \in 1..(Len(s) + 1) : t[i] = lines'[(n + 1) - (Len(s) + 1) + i]
    <3> SUFFICES ASSUME NEW i \in 1..(Len(s) + 1)
                 PROVE  t[i] = lines'[(n + 1) - (Len(s) + 1) + i]
      OBVIOUS
    <3>1. CASE i = Len(s) + 1
      BY <2>3, <2>4, <2>5, <3>1
    <3>2. CASE i \in 1..Len(s)
      BY <2>3, <2>4, <2>5, <3>2
    <3> QED
      BY <2>4, <3>1, <3>2
  <2>7. Len(t) >= ReindexLimit \/ Len(t) = n + 1
    <3>1. ReindexLimit \in Nat
      BY MemoryAssumption
    <3> QED
      BY <2>3, <2>4, <2>5, <3>1
  <2> QED
    BY <2>3, <2>4, <2>5, <2>6, <2>7 DEF IsEnd, t
<1> QED
  BY <1>3, <1>7, <1>8 DEF Ordered

LEMMA AppendFailsOrdered ==
  ASSUME Typed, Ordered, NEW h \in Handles,
         NEW part \in {"none", "some", "line", "all"}, AppendFails(h, part)
  PROVE  Ordered'
<1>1. Try(h) /\ Leave(part) /\ failures' = failures + 1 /\ index' = index
  BY DEF AppendFails
<1>2. /\ Len(events') \in Nat /\ Len(events') > Len(events) /\ Len(events') # Broken
  BY <1>1, TryTyped DEF Typed, TypeOK, Broken
<1>3. failures' # 0
  BY <1>1, MemoryAssumption DEF Typed, TypeOK
<1>4. LinesInOrder'
  <2>1. CASE part = "none"
    BY <1>1, <2>1 DEF Leave, Ordered, LinesInOrder
  <2>2. CASE part # "none"
    <3>1. PICK line \in {Broken, Len(events')} : Extend(line)
      BY <1>1, <2>2 DEF Leave
    <3> QED
      BY <1>2, <3>1, ExtendInOrder DEF Ordered, Broken
  <2> QED
    BY <2>1, <2>2
<1> QED
  BY <1>1, <1>3, <1>4 DEF Ordered, IndexInOrder, WholeLines, IndexIsEnd

LEMMA StepOrdered == Typed /\ Ordered /\ [Next]_vars => Ordered'
<1> SUFFICES ASSUME Typed, Ordered, [Next]_vars PROVE Ordered'
  OBVIOUS
<1>1. CASE UNCHANGED <<lines, ending, index, opened, overtaken, failures>>
  BY <1>1 DEF Ordered, LinesInOrder, IndexInOrder, WholeLines, IndexIsEnd, IsEnd
<1>2. ASSUME NEW h \in Handles, Search(h) PROVE Ordered'
  BY <1>1, <1>2 DEF Search
<1>3. CASE Later \/ UNCHANGED vars
  BY <1>1, <1>3 DEF Later, vars
<1> QED
  BY <1>2, <1>3, OpenOrdered, CloseOrdered, AppendOrdered, AppendFailsOrdered DEF Next

(* Whoever writes and whatever fails, an index holds events in the order   *)
(* of their appends and each once; and the index of a store that nobody    *)
(* has written past is the end of the file while nothing has failed        *)
(* (append and _rebuild_index, store.py:69-79 and 154-171).                *)
THEOREM IndexesFollowTheFile == Spec => []IndexFollowsFile
<1>1. Typed /\ Ordered => IndexFollowsFile
  <2> SUFFICES ASSUME Typed, Ordered, NEW h \in opened PROVE
         /\ \A i, j \in DOMAIN index[h] : i < j => index[h][i] < index[h][j]
         /\ h \notin overtaken /\ failures = 0 =>
              /\ Len(index[h]) <= Len(lines)
              /\ index[h] = SubSeq(lines, Len(lines) - Len(index[h]) + 1, Len(lines))
              /\ Len(index[h]) >= ReindexLimit \/ Len(index[h]) = Len(lines)
    BY DEF IndexFollowsFile
  <2>1. h \in Handles
    BY DEF Typed, TypeOK
  <2>2. ASSUME h \notin overtaken, failures = 0
        PROVE  IsEnd(index[h])
               /\ index[h] = SubSeq(lines, Len(lines) - Len(index[h]) + 1, Len(lines))
    <3> DEFINE s == index[h]
               t == SubSeq(lines, Len(lines) - Len(s) + 1, Len(lines))
    <3>1. IsEnd(s)
      BY <2>2 DEF Ordered, IndexIsEnd
    <3>2. s \in Seq(Nat) /\ lines \in Seq(Nat)
      BY <2>1 DEF Typed, TypeOK
    <3> HIDE DEF s
    <3>3. Len(s) \in Nat /\ Len(lines) \in Nat /\ Len(s) <= Len(lines)
      BY <3>1, <3>2 DEF IsEnd
    <3>4. t \in Seq(Nat) /\ Len(t) = Len(s)
      BY <3>2, <3>3
    <3>5. \A i \in 1..Len(s) : t[i] = lines[Len(lines) - Len(s) + i]
      BY <3>2, <3>3
    <3> HIDE DEF t
    <3>6. s = t
      <4>1. \A i \in 1..Len(s) : s[i] = lines[Len(lines) - Len(s) + i]
        BY <3>1 DEF IsEnd
      <4>2. \A i \in 1..Len(s) : s[i] = t[i]
        BY <3>5, <4>1
      <4> QED
        BY <3>2, <3>4, <4>2, SeqEqual
    <3> QED
      BY <3>1, <3>6 DEF s, t
  <2> QED
    BY <2>1, <2>2 DEF Ordered, IndexInOrder, IsEnd
<1> QED
  BY <1>1, InitOrdered, StepOrdered, TypedHolds, PTL DEF Spec

-----------------------------------------------------------------------------
(* Ages.                                                                   *)

LEMMA EventTyped ==
  ASSUME TypeOK, NEW e \in DOMAIN events
  PROVE  /\ events[e].kind.salience \in Int /\ events[e].kind.dated \in BOOLEAN
         /\ events[e].time \in Int /\ now \in Int
<1> DEFINE Record == [kind : Kinds, time : Times]
<1>1. events \in Seq(Record) /\ e \in DOMAIN events
  BY DEF TypeOK
<1> HIDE DEF Record
<1>2. events[e] \in Record
  BY <1>1
<1>3. /\ \A k \in Kinds : k \in [salience: 0..1000, dated: BOOLEAN]
      /\ \A t \in Times : t \in Int
  BY MemoryAssumption
<1>4. events[e].kind \in Kinds /\ events[e].time \in Times
  BY <1>2 DEF Record
<1>5. events[e].kind \in [salience: 0..1000, dated: BOOLEAN]
  BY <1>3, <1>4
<1>6. events[e].kind.salience \in Int /\ events[e].kind.dated \in BOOLEAN
  BY <1>5
<1> QED
  BY <1>3, <1>4, <1>6 DEF TypeOK

LEMMA AgedTyped ==
  ASSUME TypeOK, NEW e \in DOMAIN events
  PROVE  Aged(e).salience \in Int /\ Aged(e).age \in Int
BY EventTyped DEF Aged, Undated, Hour

\* The age of an event only grows, and its salience stays.
LEMMA EventsAge ==
  ASSUME TypeOK, [Next]_vars, NEW e \in DOMAIN events
  PROVE  events'[e] = events[e] /\ now' \in Int /\ now' >= now
<1>1. events \in Seq([kind : Kinds, time : Times]) /\ e \in 1..Len(events) /\ now \in Int
  <2>1. events \in Seq([kind : Kinds, time : Times]) /\ e \in DOMAIN events
    BY DEF TypeOK
  <2> QED
    BY <2>1, EventTyped
<1>2. ASSUME NEW h \in Handles, Try(h) PROVE events'[e] = events[e] /\ now' = now
  BY <1>1, <1>2, TryTyped
<1>3. CASE Later
  <2>1. now' \in Int /\ now' > now
    BY <1>3, MemoryAssumption DEF Later
  <2> QED
    BY <1>1, <1>3, <2>1 DEF Later
<1>4. CASE UNCHANGED <<events, now>>
  BY <1>1, <1>4
<1>5. ASSUME NEW h \in Handles, Open(h) \/ Close(h) \/ Search(h) PROVE UNCHANGED <<events, now>>
  BY <1>5 DEF Open, Close, Search
<1>6. UNCHANGED vars => UNCHANGED <<events, now>>
  BY DEF vars
<1> QED
  BY <1>1, <1>2, <1>3, <1>4, <1>5, <1>6 DEF Next, AppendEvent, AppendFails

(* Whatever happens, an event goes down the tiers and never up, and        *)
(* neither into the archive nor out of it; one without a timestamp that    *)
(* parses is long-term or archived from the start and stays where it is    *)
(* (classify_one, memory_pyramid.py:65-95, _estimate_age_hours, 172-185).  *)
THEOREM AgeingOnlyDemotes == Spec => AgeingNeverPromotes
<1> DEFINE Demotes == \A e \in DOMAIN events :
             /\ ~events[e].kind.dated =>
                  Level(TierOf(Aged(e))) <= Level("long_term") /\ UNCHANGED TierOf(Aged(e))
             /\ Level(TierOf(Aged(e))') <= Level(TierOf(Aged(e)))
             /\ (TierOf(Aged(e))' = "archive") = (TierOf(Aged(e)) = "archive")
<1>1. TypeOK /\ [Next]_vars => Demotes
  <2> SUFFICES ASSUME TypeOK, [Next]_vars, NEW e \in DOMAIN events
               PROVE  /\ ~events[e].kind.dated =>
                           Level(TierOf(Aged(e))) <= Level("long_term") /\ UNCHANGED TierOf(Aged(e))
                      /\ Level(TierOf(Aged(e))') <= Level(TierOf(Aged(e)))
                      /\ (TierOf(Aged(e))' = "archive") = (TierOf(Aged(e)) = "archive")
    OBVIOUS
  <2>1. /\ events[e].kind.salience \in Int /\ events[e].kind.dated \in BOOLEAN
        /\ events[e].time \in Int /\ now \in Int
    BY EventTyped
  <2>2. events'[e] = events[e] /\ now' \in Int /\ now' >= now
    BY EventsAge
  <2>3. CASE events[e].kind.dated
    <3>1. /\ Aged(e) = [salience |-> events[e].kind.salience, age |-> now - events[e].time]
          /\ Aged(e)' = [salience |-> events[e].kind.salience, age |-> now' - events[e].time]
      BY <2>2, <2>3 DEF Aged
    <3> QED
      BY <2>1, <2>2, <2>3, <3>1 DEF TierOf, Level, Hour
  <2>4. CASE ~events[e].kind.dated
    <3>1. Aged(e) = [salience |-> events[e].kind.salience, age |-> Undated] /\ Aged(e)' = Aged(e)
      BY <2>2, <2>4 DEF Aged
    <3>2. TierOf(Aged(e)) \in {"long_term", "archive"}
      BY <3>1 DEF TierOf, Undated, Hour
    <3>3. TierOf(Aged(e))' = TierOf(Aged(e))
      BY <3>1 DEF TierOf
    <3> QED
      BY <3>2, <3>3 DEF Level
  <2> QED
    BY <2>1, <2>3, <2>4
<1> QED
  BY <1>1, StoreTyped, PTL DEF Spec, AgeingNeverPromotes

-----------------------------------------------------------------------------
(* Compaction.                                                             *)

\* What comes before p in its bucket, and how much of it.
Ahead(entries, bucket, p) == {q \in bucket : Before(entries, q, p)}
Rank(entries, bucket) == [p \in bucket |-> Cardinality(Ahead(entries, bucket, p))]

Comparable(entries, bucket) ==
  /\ IsFiniteSet(bucket) /\ bucket \subseteq Int
  /\ \A p \in bucket : entries[p].salience \in Int /\ entries[p].age \in Int

\* The sort is by a strict total order.
LEMMA BeforeIsTotal ==
  ASSUME NEW entries, NEW bucket, Comparable(entries, bucket)
  PROVE  /\ \A p \in bucket : ~Before(entries, p, p)
         /\ \A p, q \in bucket : p # q => Before(entries, p, q) \/ Before(entries, q, p)
         /\ \A p, q, r \in bucket : Before(entries, p, q) /\ Before(entries, q, r) => Before(entries, p, r)
<1> DEFINE s(p) == entries[p].salience
<1> DEFINE a(p) == Rounded(entries[p].age)
<1>1. \A p \in bucket : p \in Int /\ s(p) \in Int /\ a(p) \in Int
  BY DEF Comparable, Rounded, Tenth
<1>2. \A p, q \in bucket : Before(entries, p, q) <=> \/ s(p) > s(q)
                                                     \/ s(p) = s(q) /\ a(p) < a(q)
                                                     \/ s(p) = s(q) /\ a(p) = a(q) /\ p < q
  BY DEF Before
<1> HIDE DEF s, a
<1> QED
  BY <1>1, <1>2

LEMMA RanksOrder ==
  ASSUME NEW entries, NEW bucket, Comparable(entries, bucket)
  PROVE  \A p, q \in bucket :
           /\ Rank(entries, bucket)[p] \in Nat
           /\ IsFiniteSet(Ahead(entries, bucket, p))
           /\ Before(entries, p, q) => Rank(entries, bucket)[p] < Rank(entries, bucket)[q]
<1> DEFINE A(p) == Ahead(entries, bucket, p)
<1>1. \A p \in bucket : IsFiniteSet(A(p)) /\ Cardinality(A(p)) \in Nat /\ A(p) \subseteq bucket
  <2>1. \A p \in bucket : A(p) \subseteq bucket
    BY DEF Ahead
  <2> QED
    BY <2>1, FS_Subset, FS_CardinalityType DEF Comparable
<1>2. ASSUME NEW p \in bucket, NEW q \in bucket, Before(entries, p, q)
      PROVE  Cardinality(A(p)) < Cardinality(A(q))
  <2>1. A(p) \subseteq A(q) /\ p \in A(q) /\ p \notin A(p)
    BY <1>2, BeforeIsTotal DEF Ahead
  <2> HIDE DEF A
  <2>2. Cardinality(A(p)) <= Cardinality(A(q)) /\ (Cardinality(A(p)) = Cardinality(A(q)) => A(p) = A(q))
    BY <1>1, <2>1, FS_Subset
  <2> QED
    BY <1>1, <2>1, <2>2
<1> QED
  BY <1>1, <1>2 DEF Rank

\* An age that does not round to more than another is less than a tenth of an
\* hour above it.
LEMMA RoundedApart ==
  ASSUME NEW a \in Int, NEW b \in Int
  PROVE  /\ Rounded(a) \in Int
         /\ Rounded(a) <= Rounded(b) => a < b + Tenth
<1>1. /\ Tenth = 5 /\ Rounded(a) \in Int /\ Rounded(b) \in Int
      /\ 5 * Rounded(a) <= a + 2 /\ a + 2 < 5 * Rounded(a) + 5
      /\ 5 * Rounded(b) <= b + 2 /\ b + 2 < 5 * Rounded(b) + 5
  BY DEF Rounded, Tenth
<1> QED
  BY <1>1

\* bucket[:n] has n entries, or all, and what it has comes before the rest.
LEMMA FirstAreBest ==
  ASSUME NEW entries, NEW bucket, Comparable(entries, bucket), NEW n \in Nat
  PROVE  /\ First(entries, n, bucket) \subseteq bucket
         /\ IsFiniteSet(First(entries, n, bucket))
         /\ Cardinality(First(entries, n, bucket)) <= n
         /\ \A p \in bucket \ First(entries, n, bucket) :
              /\ Cardinality(First(entries, n, bucket)) = n
              /\ \A q \in First(entries, n, bucket) : Before(entries, q, p)
<1> DEFINE F == First(entries, n, bucket)
<1> DEFINE A(p) == Ahead(entries, bucket, p)
<1> DEFINE r == Rank(entries, bucket)
<1>1. /\ F = {p \in bucket : r[p] < n}
      /\ \A p \in bucket : r[p] \in Nat /\ r[p] = Cardinality(A(p)) /\ IsFiniteSet(A(p))
      /\ \A p, q \in bucket : Before(entries, p, q) => r[p] < r[q]
      /\ \A p \in bucket : A(p) = {q \in bucket : Before(entries, q, p)}
  BY RanksOrder DEF First, Ahead, Rank
<1>2. IsFiniteSet(F) /\ Cardinality(F) \in Nat /\ F \subseteq bucket
  BY FS_Subset, FS_CardinalityType DEF First, Comparable
<1>3. /\ \A p \in bucket : ~Before(entries, p, p)
      /\ \A p, q \in bucket : p # q => Before(entries, p, q) \/ Before(entries, q, p)
  BY BeforeIsTotal
<1> HIDE DEF F, A, r
<1>4. Cardinality(F) <= n
  <2>1. CASE F = {}
    BY <2>1, FS_EmptySet
  <2>2. CASE F # {}
    <3>1. \A x \in F : r[x] \in Int
      BY <1>1
    <3>2. PICK m \in F : \A x \in F : r[x] <= r[m]
      BY <1>2, <2>2, <3>1, GreatestExists
    <3>3. F \subseteq A(m) \union {m}
      <4>1. ASSUME NEW x \in F, x # m PROVE Before(entries, x, m)
        <5>1. x \in bucket /\ m \in bucket /\ r[x] \in Nat /\ r[m] \in Nat /\ r[x] <= r[m]
          BY <1>1, <1>2, <3>2
        <5>2. ~ (r[m] < r[x])
          BY <5>1
        <5> QED
          BY <1>1, <1>3, <4>1, <5>1, <5>2
      <4> QED
        BY <1>1, <1>2, <4>1
    <3>4. /\ m \in bucket /\ r[m] < n /\ r[m] \in Nat /\ IsFiniteSet(A(m)) /\ Cardinality(A(m)) = r[m]
          /\ m \notin A(m)
      BY <1>1, <1>3
    <3>5. IsFiniteSet(A(m) \union {m}) /\ Cardinality(A(m) \union {m}) = r[m] + 1
      BY <3>4, FS_AddElement
    <3>6. Cardinality(F) <= r[m] + 1
      BY <3>3, <3>5, FS_Subset
    <3> QED
      BY <1>2, <3>4, <3>6
  <2> QED
    BY <2>1, <2>2
<1>5. ASSUME NEW p \in bucket \ F, NEW q \in F PROVE Before(entries, q, p)
  <2>1. /\ p \in bucket /\ q \in bucket /\ p # q /\ r[p] \in Nat /\ r[q] \in Nat
        /\ r[q] < n /\ ~ (r[p] < n)
    BY <1>1
  <2>2. ~ (r[p] < r[q])
    BY <2>1
  <2> QED
    BY <1>1, <1>3, <2>1, <2>2
<1>6. ASSUME bucket \ F # {} PROVE Cardinality(F) = n
  <2> DEFINE R == bucket \ F
  <2>1. IsFiniteSet(R) /\ R # {} /\ \A x \in R : r[x] \in Int
    BY <1>1, <1>6, FS_Subset DEF Comparable
  <2> HIDE DEF R
  <2>2. PICK p \in R : \A x \in R : r[p] <= r[x]
    BY <2>1, LeastExists
  <2>3. p \in bucket /\ p \notin F /\ r[p] \in Nat /\ ~ (r[p] < n) /\ Cardinality(A(p)) = r[p]
    BY <1>1 DEF R
  <2>4. A(p) = F
    <3>1. F \subseteq A(p)
      BY <1>1, <1>2, <1>5, <2>3
    <3>2. ASSUME NEW x \in A(p), x \notin F PROVE FALSE
      <4>1. x \in bucket /\ Before(entries, x, p)
        BY <1>1, <2>3
      <4>2. r[x] < r[p] /\ r[x] \in Nat
        BY <1>1, <2>3, <4>1
      <4>3. r[p] <= r[x]
        BY <2>2, <3>2, <4>1 DEF R
      <4> QED
        BY <2>3, <4>2, <4>3
    <3> QED
      BY <3>1, <3>2
  <2> QED
    BY <1>2, <1>4, <2>3, <2>4
<1> QED
  BY <1>2, <1>4, <1>5, <1>6 DEF F

\* What compaction keeps of each tier.
LEMMA RetainedByTier ==
  ASSUME NEW entries, NEW capacity, IsFiniteSet(DOMAIN entries),
         DOMAIN capacity = Tiers \ {"archive"}, \A tier \in DOMAIN capacity : capacity[tier] \in Nat
  PROVE  /\ Retained(entries, capacity) \subseteq DOMAIN entries
         /\ Retained(entries, capacity) \intersect Bucket(entries, "archive") = {}
         /\ \A tier \in DOMAIN capacity :
              Retained(entries, capacity) \intersect Bucket(entries, tier) =
                First(entries, capacity[tier], Bucket(entries, tier))
<1> DEFINE B(tier) == Bucket(entries, tier)
<1> DEFINE F(tier) == First(entries, capacity[tier], B(tier))
<1>1. \A tier : F(tier) \subseteq B(tier) /\ B(tier) \subseteq DOMAIN entries
  BY DEF First, Bucket
<1>2. \A t, u : t # u => B(t) \intersect B(u) = {}
  BY DEF Bucket
<1>3. DOMAIN capacity = {"active", "working", "long_term"}
  BY DEF Tiers
<1>4. ASSUME NEW tier \in DOMAIN capacity, NEW kept, kept \intersect B(tier) = {}
      PROVE  Fill(entries, capacity, tier, kept) = kept \union F(tier)
  <2>1. capacity[tier] - Cardinality(kept \intersect B(tier)) = capacity[tier]
    BY <1>4, FS_EmptySet
  <2> QED
    BY <2>1 DEF Fill
<1> HIDE DEF B, F
<1>5. Fill(entries, capacity, "working", F("active")) = F("active") \union F("working")
  <2>1. F("active") \intersect B("working") = {}
    BY <1>1, <1>2
  <2> QED
    BY <1>3, <1>4, <2>1
<1>6. Fill(entries, capacity, "long_term", F("active") \union F("working"))
        = F("active") \union F("working") \union F("long_term")
  <2>1. (F("active") \union F("working")) \intersect B("long_term") = {}
    BY <1>1, <1>2
  <2> QED
    BY <1>3, <1>4, <2>1
<1>7. Retained(entries, capacity) = F("active") \union F("working") \union F("long_term")
  BY <1>5, <1>6 DEF Retained, F, B
<1>8. /\ Retained(entries, capacity) \subseteq DOMAIN entries
      /\ Retained(entries, capacity) \intersect B("archive") = {}
  BY <1>1, <1>2, <1>7
<1>9. /\ Retained(entries, capacity) \intersect B("active") = F("active")
      /\ Retained(entries, capacity) \intersect B("working") = F("working")
      /\ Retained(entries, capacity) \intersect B("long_term") = F("long_term")
  BY <1>1, <1>2, <1>7
<1> QED
  BY <1>3, <1>8, <1>9 DEF F, B

(* Whatever is indexed, and whatever the capacities, compaction keeps the  *)
(* best of every tier, as many as it may hold, and evicts all the others   *)
(* (compact, memory_pyramid.py:101-160).                                   *)
THEOREM CompactionKeepsTheBest == Spec => []CompactionKeepsBest
<1>1. TypeOK => CompactionKeepsBest
  <2> SUFFICES ASSUME TypeOK, NEW h \in opened, NEW c \in Capacities
               PROVE  LET entries == Entries(h)
                          kept == Retained(entries, c)
                          evicted == Evicted(entries, c)
                      IN  /\ kept \union evicted = DOMAIN entries /\ kept \intersect evicted = {}
                          /\ kept \intersect Bucket(entries, "archive") = {}
                          /\ \A tier \in DOMAIN c : LET bucket == Bucket(entries, tier) IN
                               /\ Cardinality(kept \intersect bucket) <= c[tier]
                               /\ \A p \in evicted \intersect bucket :
                                    /\ Cardinality(kept \intersect bucket) = c[tier]
                                    /\ \A q \in kept \intersect bucket :
                                         \/ entries[q].salience > entries[p].salience
                                         \/ /\ entries[q].salience = entries[p].salience
                                            /\ entries[q].age < entries[p].age + Tenth
    BY DEF CompactionKeepsBest
  <2> DEFINE entries == Entries(h)
  <2> DEFINE kept == Retained(entries, c)
  <2> DEFINE evicted == Evicted(entries, c)
  <2>1. DOMAIN c = Tiers \ {"archive"} /\ \A tier \in DOMAIN c : c[tier] \in Nat
    BY MemoryAssumption
  <2>2. /\ DOMAIN entries = 1..Len(index[h]) /\ Len(index[h]) \in Nat
        /\ \A p \in DOMAIN entries : entries[p].salience \in Int /\ entries[p].age \in Int
    <3>1. index[h] \in Seq(1..Len(events)) /\ DOMAIN events = 1..Len(events)
      BY DEF TypeOK
    <3>2. ASSUME NEW p \in 1..Len(index[h])
          PROVE  entries[p] = Aged(index[h][p]) /\ index[h][p] \in DOMAIN events
      BY <3>1 DEF Entries
    <3>3. \A e \in DOMAIN events : Aged(e).salience \in Int /\ Aged(e).age \in Int
      BY AgedTyped
    <3>4. DOMAIN entries = 1..Len(index[h]) /\ Len(index[h]) \in Nat
      BY <3>1 DEF Entries
    <3> HIDE DEF entries
    <3> QED
      BY <3>2, <3>3, <3>4
  <2> HIDE DEF entries
  <2>3. IsFiniteSet(DOMAIN entries)
    <3>1. Len(index[h]) \in Int /\ 1 \in Int
      BY <2>2
    <3> QED
      BY <2>2, <3>1, FS_Interval
  <2>4. /\ kept \subseteq DOMAIN entries /\ kept \intersect Bucket(entries, "archive") = {}
        /\ \A tier \in DOMAIN c : kept \intersect Bucket(entries, tier) = First(entries, c[tier], Bucket(entries, tier))
    BY <2>1, <2>3, RetainedByTier
  <2> DEFINE spilled == UNION {Bucket(entries, tier) \ kept : tier \in DOMAIN c}
  <2>5. evicted = spilled \union Bucket(entries, "archive")
    BY DEF Evicted
  <2>6. \A p : p \in spilled <=> \E tier \in DOMAIN c : p \in Bucket(entries, tier) /\ p \notin kept
    OBVIOUS
  <2> HIDE DEF kept, evicted, spilled
  <2>7. \A p \in DOMAIN entries : \E tier \in Tiers : p \in Bucket(entries, tier)
    BY DEF Bucket, TierOf, Tiers
  <2>8. \A tier : Bucket(entries, tier) \subseteq DOMAIN entries
    BY DEF Bucket
  <2>9. kept \union evicted = DOMAIN entries /\ kept \intersect evicted = {}
    <3>1. \A p : p \in evicted <=> p \in spilled \/ p \in Bucket(entries, "archive")
      BY <2>5
    <3>2. evicted \subseteq DOMAIN entries /\ kept \intersect evicted = {}
      BY <2>4, <2>8, <2>6, <3>1
    <3>3. ASSUME NEW p \in DOMAIN entries, p \notin kept PROVE p \in evicted
      <4>1. PICK tier \in Tiers : p \in Bucket(entries, tier)
        BY <2>7
      <4>2. tier = "archive" \/ tier \in DOMAIN c
        BY <2>1
      <4> QED
        BY <2>6, <3>3, <3>1, <4>1, <4>2
    <3> QED
      BY <2>4, <3>2, <3>3
  <2>10. ASSUME NEW tier \in DOMAIN c
        PROVE  LET bucket == Bucket(entries, tier)
               IN  /\ Cardinality(kept \intersect bucket) <= c[tier]
                   /\ \A p \in evicted \intersect bucket :
                        /\ Cardinality(kept \intersect bucket) = c[tier]
                        /\ \A q \in kept \intersect bucket :
                             \/ entries[q].salience > entries[p].salience
                             \/ /\ entries[q].salience = entries[p].salience
                                /\ entries[q].age < entries[p].age + Tenth
    <3> DEFINE bucket == Bucket(entries, tier)
    <3> DEFINE best == First(entries, c[tier], bucket)
    <3>1. kept \intersect bucket = best /\ bucket \subseteq DOMAIN entries /\ c[tier] \in Nat
      BY <2>1, <2>4, <2>8
    <3> HIDE DEF bucket
    <3>2. Comparable(entries, bucket)
      BY <2>2, <2>3, <3>1, FS_Subset DEF Comparable
    <3>3. /\ Cardinality(best) <= c[tier]
          /\ \A p \in bucket \ best :
               Cardinality(best) = c[tier] /\ \A q \in best : Before(entries, q, p)
      BY <3>1, <3>2, FirstAreBest
    <3> HIDE DEF best
    <3>4. \A p, q \in bucket : Before(entries, q, p) =>
            \/ entries[q].salience > entries[p].salience
            \/ entries[q].salience = entries[p].salience /\ entries[q].age < entries[p].age + Tenth
      <4> SUFFICES ASSUME NEW p \in bucket, NEW q \in bucket, Before(entries, q, p)
                   PROVE  \/ entries[q].salience > entries[p].salience
                          \/ /\ entries[q].salience = entries[p].salience
                             /\ entries[q].age < entries[p].age + Tenth
        OBVIOUS
      <4>1. /\ p \in DOMAIN entries /\ q \in DOMAIN entries
            /\ entries[q].age \in Int /\ entries[p].age \in Int
        BY <2>2, <3>1
      <4>2. /\ Rounded(entries[q].age) \in Int /\ Rounded(entries[p].age) \in Int
            /\ Rounded(entries[q].age) <= Rounded(entries[p].age) => entries[q].age < entries[p].age + Tenth
        BY <4>1, RoundedApart
      <4>3. \/ entries[q].salience > entries[p].salience
            \/ /\ entries[q].salience = entries[p].salience
               /\ Rounded(entries[q].age) <= Rounded(entries[p].age)
        BY <4>2 DEF Before
      <4> QED
        BY <4>2, <4>3
    <3>5. \A p \in evicted \intersect bucket : p \in bucket \ best
      BY <2>9, <3>1
    <3>6. best \subseteq bucket
      BY <3>1
    <3>7. \A p \in evicted \intersect bucket :
             /\ Cardinality(kept \intersect bucket) = c[tier]
             /\ \A q \in kept \intersect bucket :
                  \/ entries[q].salience > entries[p].salience
                  \/ entries[q].salience = entries[p].salience /\ entries[q].age < entries[p].age + Tenth
      BY <3>1, <3>3, <3>4, <3>5, <3>6
    <3> QED
      BY <3>1, <3>3, <3>7 DEF bucket
  <2> QED
    BY <2>4, <2>9, <2>10 DEF entries, kept, evicted
<1> QED
  BY <1>1, StoreTyped, PTL
=============================================================================
