--------------------------- MODULE ViolationLog_proofs ---------------------------
(***************************************************************************)
(* Proofs about ViolationLog.  Whatever an append leaves of its lines, it  *)
(* resolves no timestamp that the call did not name; so a violation that   *)
(* becomes resolved was named by the call, and the calls name what they    *)
(* found unresolved: of one target, or, behind an open gate, no violation. *)
(* For the second direction, that a success resolves all of its target and *)
(* nothing else, no two violations may share a timestamp (Distinct).       *)
(* What an append that failed hides from the gate is counted (HiddenInv):  *)
(* every step hides at most the target it is about, and only if its append *)
(* fails or its line is glued to a torn one, of which there is one at most. *)
(* Distinct also shows that nothing resolves a refusal, which has no target. *)
(***************************************************************************)
EXTENDS ViolationProperties, SequenceTheorems, FiniteSetTheorems, TLAPS

(* Lines of timestamps up to bound that resolve only instants. *)
Lines(bound, instants) == {l \in Line : l.ts <= bound /\ l.resolves \subseteq instants}

LEMMA DamagedLines ==
    ASSUME NEW bound \in Nat, NEW instants \in SUBSET Nat, NEW S \in SUBSET instants
    PROVE  /\ TornLine \in Lines(bound, instants)
           /\ GluedLine \in Lines(bound, instants)
           /\ Markers(S) \in Lines(bound, instants)
<1>1. TornLine \in Line /\ TornLine.ts = 0 /\ TornLine.resolves = {}
  BY DEF TornLine, Entry, Line
<1>2. GluedLine \in Line /\ GluedLine.ts = 0 /\ GluedLine.resolves = {}
  BY DEF GluedLine, Entry, Line
<1>3. Markers(S) \in Line
  <2>1. S \in SUBSET Nat
    OBVIOUS
  <2> QED BY <2>1 DEF Markers, Line
<1>4. Markers(S).ts = 0 /\ Markers(S).resolves = S
  BY DEF Markers
<1>5. \A l \in Line : l.ts = 0 /\ l.resolves \subseteq instants => l \in Lines(bound, instants)
  BY DEF Lines
<1> QED BY <1>1, <1>2, <1>3, <1>4, <1>5

LEMMA WholeLines ==
    ASSUME NEW bound \in Nat, NEW instants \in SUBSET Nat,
           NEW new \in Seq(Lines(bound, instants)), NEW lines \in Whole(new)
    PROVE  lines \in Seq(Lines(bound, instants)) /\ Len(lines) = Len(new)
<1> DEFINE L == Lines(bound, instants)
<1>1. CASE new = <<>>
  BY <1>1 DEF Whole
<1>2. CASE new # <<>>
  <2>1. /\ Head(new) \in L
        /\ Tail(new) \in Seq(L)
        /\ Len(Tail(new)) = Len(new) - 1
    BY <1>2, HeadTailProperties
  <2>2. PICK first \in (IF Torn THEN Glued(Head(new)) ELSE {Head(new)}) : lines = <<first>> \o Tail(new)
    BY <1>2 DEF Whole
  <2>3. first \in L
    <3>1. CASE first = Head(new)
      BY <2>1, <3>1
    <3>2. CASE first \in Glued(Head(new))
      <4>1. CASE Head(new).kind = "resolve"
        <5>1. PICK ts \in Head(new).resolves : first = Markers(Head(new).resolves \ {ts})
          BY <3>2, <4>1 DEF Glued
        <5>2. Head(new).resolves \ {ts} \in SUBSET instants
          BY <2>1 DEF Lines
        <5> QED BY <5>1, <5>2, DamagedLines
      <4>2. CASE Head(new).kind # "resolve"
        BY <3>2, <4>2, DamagedLines DEF Glued
      <4> QED BY <4>1, <4>2
    <3> QED BY <2>2, <3>1, <3>2
  <2>4. <<first>> \in Seq(L) /\ Len(<<first>>) = 1
    BY <2>3
  <2> QED BY <2>1, <2>2, <2>4, ConcatProperties, LenProperties
<1> QED BY <1>1, <1>2

LEMMA CutOffLines ==
    ASSUME NEW bound \in Nat, NEW instants \in SUBSET Nat,
           NEW new \in Seq(Lines(bound, instants)), NEW lines \in CutOff(new)
    PROVE  lines \in Seq(Lines(bound, instants))
<1> DEFINE L == Lines(bound, instants)
<1>1. PICK whole \in Whole(new), n \in 0 .. Len(new) - 1 :
          \E last \in Partly(whole[n + 1]) : lines = SubSeq(whole, 1, n) \o last
  BY DEF CutOff
<1>2. PICK last \in Partly(whole[n + 1]) : lines = SubSeq(whole, 1, n) \o last
  BY <1>1
<1>3. whole \in Seq(L) /\ Len(whole) = Len(new) /\ Len(new) \in Nat
  BY WholeLines, LenProperties
<1>4. whole[n + 1] \in L /\ \A i \in 1 .. n : whole[i] \in L
  BY <1>1, <1>3, ElementOfSeq
<1>5. SubSeq(whole, 1, n) \in Seq(L)
  BY <1>4, SubSeqProperties
<1>6. last \in Seq(L)
  <2>1. CASE last \in {<<>>, <<TornLine>>}
    <3>1. TornLine \in L
      BY DamagedLines
    <3>2. <<>> \in Seq(L) /\ <<TornLine>> \in Seq(L)
      BY <3>1
    <3> QED BY <2>1, <3>2
  <2>2. CASE \E S \in SUBSET whole[n + 1].resolves : last \in {<<Markers(S)>>, <<Markers(S), TornLine>>}
    <3>1. PICK S \in SUBSET whole[n + 1].resolves : last \in {<<Markers(S)>>, <<Markers(S), TornLine>>}
      BY <2>2
    <3>2. S \subseteq instants
      BY <1>4, <3>1 DEF Lines
    <3>3. Markers(S) \in L /\ TornLine \in L
      BY <3>2, DamagedLines
    <3>4. <<Markers(S)>> \in Seq(L) /\ <<Markers(S), TornLine>> \in Seq(L)
      BY <3>3
    <3> QED BY <3>1, <3>4
  <2> QED BY <1>2, <2>1, <2>2 DEF Partly
<1> QED BY <1>2, <1>5, <1>6, ConcatProperties

LEMMA AppendedLines ==
    ASSUME TypeOK, NEW instants \in SUBSET Nat,
           NEW new \in Seq(Lines(Len(log) + 1, instants)), NEW lines \in Whole(new) \cup CutOff(new),
           log' = log \o lines
    PROVE  /\ log' \in Seq(Line)
           /\ \A i \in DOMAIN log' : log'[i].ts <= i
           /\ \A i \in DOMAIN log : i \in DOMAIN log' /\ log'[i] = log[i]
           /\ Resolved(log') \subseteq Resolved(log) \cup instants
<1> DEFINE L == Lines(Len(log) + 1, instants)
<1>1. log \in Seq(Line) /\ Len(log) \in Nat /\ DOMAIN log = 1 .. Len(log)
  BY LenProperties DEF TypeOK
<1>2. lines \in Seq(L)
  BY <1>1, WholeLines, CutOffLines
<1>3. lines \in Seq(Line)
  BY <1>2, SeqMonotonic DEF Lines
<1>4. Len(lines) \in Nat /\ \A k \in 1 .. Len(lines) : lines[k] \in L
  BY <1>2, LenProperties, ElementOfSeq
<1>5. /\ log' \in Seq(Line)
      /\ Len(log') = Len(log) + Len(lines)
      /\ \A i \in 1 .. Len(log) + Len(lines) :
            log'[i] = IF i <= Len(log) THEN log[i] ELSE lines[i - Len(log)]
  BY <1>1, <1>3, ConcatProperties
<1>6. DOMAIN log' = 1 .. Len(log) + Len(lines)
  BY <1>5, LenProperties
<1>7. \A i \in DOMAIN log : i \in DOMAIN log' /\ log'[i] = log[i]
  BY <1>1, <1>4, <1>5, <1>6
<1>8. \A i \in DOMAIN log' \ DOMAIN log : i > Len(log) /\ log'[i] \in L
  <2> SUFFICES ASSUME NEW i \in DOMAIN log' \ DOMAIN log PROVE i > Len(log) /\ log'[i] \in L
    OBVIOUS
  <2>1. i > Len(log) /\ i - Len(log) \in 1 .. Len(lines)
    BY <1>1, <1>4, <1>6
  <2> QED BY <1>1, <1>4, <1>5, <1>6, <2>1
<1>9. \A i \in DOMAIN log' : log'[i].ts <= i
  <2> SUFFICES ASSUME NEW i \in DOMAIN log' PROVE log'[i].ts <= i
    OBVIOUS
  <2>1. CASE i \in DOMAIN log
    BY <1>7, <2>1 DEF TypeOK
  <2>2. CASE i \notin DOMAIN log
    <3>1. log'[i] \in Line /\ log'[i].ts <= Len(log) + 1 /\ i > Len(log)
      BY <1>8, <2>2 DEF Lines
    <3> QED BY <1>1, <1>6, <3>1 DEF Line
  <2> QED BY <2>1, <2>2
<1>10. Resolved(log') \subseteq Resolved(log) \cup instants
  <2> SUFFICES ASSUME NEW i \in DOMAIN log', NEW ts \in log'[i].resolves
               PROVE  ts \in Resolved(log) \cup instants
    BY DEF Resolved
  <2>1. CASE i \in DOMAIN log
    BY <1>7, <2>1 DEF Resolved
  <2>2. CASE i \notin DOMAIN log
    BY <1>8, <2>2 DEF Lines
  <2> QED BY <2>1, <2>2
<1> QED BY <1>5, <1>7, <1>9, <1>10

-----------------------------------------------------------------------------
(* What a call appends, resolving at most instants. *)
Appends(instants) ==
    \E new \in Seq(Lines(Len(log) + 1, instants)) :
        \E lines \in Whole(new) \cup CutOff(new) : log' = log \o lines

LEMMA InstantsInLog ==
    ASSUME TypeOK, NEW ts \in Instants
    PROVE  ts \in Nat /\ ts <= Len(log) + 1 /\ Len(log) \in Nat
<1>1. Len(log) \in Nat /\ DOMAIN log = 1 .. Len(log)
  BY LenProperties DEF TypeOK
<1>2. CASE ts = Len(log) + 1
  BY <1>1, <1>2
<1>3. CASE \E i \in DOMAIN log : ts = log[i].ts
  <2>1. PICK i \in DOMAIN log : ts = log[i].ts
    BY <1>3
  <2>2. log[i] \in Line /\ log[i].ts <= i /\ i \in 1 .. Len(log)
    BY <1>1, <2>1, ElementOfSeq DEF TypeOK
  <2>3. ts \in Nat
    BY <2>1, <2>2 DEF Line
  <2> QED BY <1>1, <2>1, <2>2, <2>3
<1> QED BY <1>2, <1>3 DEF Instants

LEMMA EntryLine ==
    ASSUME NEW bound \in Nat, NEW instants \in SUBSET Nat,
           NEW kind \in {"block", "warn", "pass"}, NEW about \in Targets \cup {None},
           NEW ts \in Nat, ts <= bound
    PROVE  Entry(kind, about, ts) \in Lines(bound, instants)
<1>1. Entry(kind, about, ts) \in Line
  BY DEF Entry, Line
<1>2. Entry(kind, about, ts).ts = ts /\ Entry(kind, about, ts).resolves = {}
  BY DEF Entry
<1> QED BY <1>1, <1>2 DEF Lines

LEMMA FaultsBounded ==
    ASSUME TypeOK, faults' = faults \/ (MayFail /\ faults' = faults + 1)
    PROVE  faults' \in 0 .. MaxFaults
<1>1. faults \in 0 .. MaxFaults /\ MaxFaults \in Nat
  BY LogConstants DEF TypeOK
<1>2. MayFail => faults < MaxFaults
  BY DEF MayFail
<1> QED BY <1>1, <1>2

LEMMA AppendLogAppends ==
    ASSUME TypeOK, NEW instants \in SUBSET Nat,
           NEW new \in Seq(Lines(Len(log) + 1, instants)), AppendLog(new)
    PROVE  Appends(instants) /\ faults' \in 0 .. MaxFaults
<1>1. faults' \in 0 .. MaxFaults
  <2>1. faults' = faults \/ (MayFail /\ faults' = faults + 1)
    BY DEF AppendLog
  <2> QED BY <2>1, FaultsBounded
<1>2. \E lines \in Whole(new) \cup CutOff(new) : log' = log \o lines
  BY DEF AppendLog
<1> QED BY <1>1, <1>2 DEF Appends

LEMMA EntryAppended ==
    ASSUME TypeOK, NEW kind \in {"block", "warn", "pass"}, NEW about \in Targets \cup {None},
           NEW ts \in Instants, AppendLog(<<Entry(kind, about, ts)>>)
    PROVE  Appends({}) /\ faults' \in 0 .. MaxFaults
<1>1. ts \in Nat /\ ts <= Len(log) + 1 /\ Len(log) + 1 \in Nat
  BY InstantsInLog
<1>2. Entry(kind, about, ts) \in Lines(Len(log) + 1, {})
  BY <1>1, EntryLine
<1>3. <<Entry(kind, about, ts)>> \in Seq(Lines(Len(log) + 1, {}))
  BY <1>2
<1> QED BY <1>3, AppendLogAppends

LEMMA MarkersAppended ==
    ASSUME NEW bound \in Nat, NEW lines \in Seq(Line), NEW found \in SUBSET DOMAIN lines
    PROVE  /\ {lines[i].ts : i \in found} \in SUBSET Nat
           /\ ResolveViolations(lines, found) \in Seq(Lines(bound, {lines[i].ts : i \in found}))
<1> DEFINE instants == {lines[i].ts : i \in found}
<1>1. \A i \in found : lines[i] \in Line
  BY ElementOfSeq, LenProperties
<1>2. instants \in SUBSET Nat
  BY <1>1 DEF Line
<1>3. Markers(instants) \in Lines(bound, instants)
  BY <1>2, DamagedLines
<1>4. <<Markers(instants)>> \in Seq(Lines(bound, instants))
  BY <1>3
<1>5. <<>> \in Seq(Lines(bound, instants))
  OBVIOUS
<1> QED BY <1>2, <1>4, <1>5 DEF ResolveViolations

LEMMA UnresolvedLines ==
    ASSUME NEW lines
    PROVE  /\ \A severity : Unresolved(lines, severity) \in SUBSET DOMAIN lines
           /\ \A t : UnresolvedAbout(lines, t) \in SUBSET DOMAIN lines
BY DEF Unresolved, UnresolvedAbout

LEMMA RunFailsAppends ==
    ASSUME TypeOK, NEW t \in Targets, RunFails(t)
    PROVE  Appends({}) /\ faults' \in 0 .. MaxFaults
<1>1. PICK ts \in Instants : AppendLog(<<Entry(IF "degraded" \in can THEN "warn" ELSE "block", t, ts)>>)
  BY DEF RunFails
<1> QED BY <1>1, EntryAppended

LEMMA RunSucceedsAppends ==
    ASSUME TypeOK, NEW t \in Targets, RunSucceeds(t)
    PROVE  /\ Appends({log[i].ts : i \in UnresolvedAbout(log, t)})
           /\ {log[i].ts : i \in UnresolvedAbout(log, t)} \in SUBSET Nat
           /\ faults' \in 0 .. MaxFaults
<1> DEFINE instants == {log[i].ts : i \in UnresolvedAbout(log, t)}
<1>1. log \in Seq(Line) /\ Len(log) + 1 \in Nat
  BY LenProperties DEF TypeOK
<1>2. instants \in SUBSET Nat
  BY <1>1, MarkersAppended, UnresolvedLines
<1>3. PICK lines \in Readings(log) :
          IF TooMany(UnresolvedAbout(lines, t))
          THEN \E ts \in Instants : AppendLog(<<Entry("warn", t, ts)>>)
          ELSE AppendLog(ResolveViolations(lines, UnresolvedAbout(lines, t)))
  BY DEF RunSucceeds
<1>4. CASE TooMany(UnresolvedAbout(lines, t))
  <2>1. PICK ts \in Instants : AppendLog(<<Entry("warn", t, ts)>>)
    BY <1>3, <1>4
  <2>2. ts \in Nat /\ ts <= Len(log) + 1
    BY <2>1, InstantsInLog
  <2>3. Entry("warn", t, ts) \in Lines(Len(log) + 1, instants)
    BY <1>1, <1>2, <2>2, EntryLine
  <2>4. <<Entry("warn", t, ts)>> \in Seq(Lines(Len(log) + 1, instants))
    BY <2>3
  <2> QED BY <1>2, <2>1, <2>4, AppendLogAppends
<1>5. CASE ~TooMany(UnresolvedAbout(lines, t))
  <2>1. AppendLog(ResolveViolations(lines, UnresolvedAbout(lines, t)))
    BY <1>3, <1>5
  <2>2. ResolveViolations(lines, UnresolvedAbout(lines, t)) \in Seq(Lines(Len(log) + 1, instants))
    <3>1. CASE lines = log
      BY <1>1, <3>1, MarkersAppended, UnresolvedLines
    <3>2. CASE lines = <<>>
      <4>1. UnresolvedAbout(<<>>, t) = {}
        BY DEF UnresolvedAbout, Unresolved
      <4> QED BY <3>2, <4>1 DEF ResolveViolations
    <3> QED BY <3>1, <3>2 DEF Readings
  <2> QED BY <1>2, <2>1, <2>2, AppendLogAppends
<1> QED BY <1>2, <1>4, <1>5

LEMMA RefuseAppends ==
    ASSUME TypeOK, Refuse
    PROVE  Appends({}) /\ faults' \in 0 .. MaxFaults
<1>1. PICK ts \in Instants : AppendLog(<<Entry("block", None, ts)>>)
  BY DEF Refuse
<1> QED BY <1>1, EntryAppended

LEMMA RequestLines ==
    ASSUME TypeOK, NEW ts \in Instants, NEW kind \in {"block", "pass"}, NEW instants \in SUBSET Nat
    PROVE  TestRunRequested(ts) \o <<Entry(kind, None, ts)>> \in Seq(Lines(Len(log) + 1, instants))
<1> DEFINE L == Lines(Len(log) + 1, instants)
<1>1. ts \in Nat /\ ts <= Len(log) + 1 /\ Len(log) + 1 \in Nat
  BY InstantsInLog
<1>2. Entry(kind, None, ts) \in L /\ Entry("warn", None, ts) \in L
  BY <1>1, EntryLine
<1>3. <<Entry(kind, None, ts)>> \in Seq(L) /\ <<Entry("warn", None, ts)>> \in Seq(L) /\ <<>> \in Seq(L)
  BY <1>2
<1>4. TestRunRequested(ts) \in Seq(L)
  BY <1>3 DEF TestRunRequested
<1> QED BY <1>3, <1>4, ConcatProperties

LEMMA RefuseCompletionAppends ==
    ASSUME TypeOK, RefuseCompletion
    PROVE  Appends({}) /\ faults' \in 0 .. MaxFaults
<1>1. PICK ts \in Instants : AppendLog(TestRunRequested(ts) \o <<Entry("block", None, ts)>>)
  BY DEF RefuseCompletion
<1> QED BY <1>1, RequestLines, AppendLogAppends

LEMMA CompletePhaseAppends ==
    ASSUME TypeOK, CompletePhase
    PROVE  /\ \E instants \in SUBSET Nat : Appends(instants)
           /\ faults' \in 0 .. MaxFaults
           /\ phase' \in 0 .. Phases
<1> DEFINE passed(ts) == TestRunRequested(ts) \o <<Entry("pass", None, ts)>>
           found(lines) == Unresolved(lines, "block") \cup Unresolved(lines, "warn")
           new(ts, lines) == passed(ts) \o ResolveViolations(lines, found(lines))
           Completes(ts, lines) ==
             \/ /\ \E whole \in Whole(new(ts, lines)) : log' = log \o whole
                /\ phase' = phase + 1
                /\ UNCHANGED faults
             \/ /\ MayFail
                /\ \E part \in CutOff(new(ts, lines)) :
                      /\ log' = log \o part
                      /\ phase' \in {phase + 1} \cup (IF Len(part) < Len(passed(ts)) THEN {phase} ELSE {})
                /\ faults' = faults + 1
<1>1. PICK ts \in Instants : \E arrived \in Whole(passed(ts)) :
                                \E lines \in Readings(log \o arrived) : Completes(ts, lines)
  BY DEF CompletePhase
<1>2. PICK arrived \in Whole(passed(ts)) : \E lines \in Readings(log \o arrived) : Completes(ts, lines)
  BY <1>1
<1>3. PICK lines \in Readings(log \o arrived) : Completes(ts, lines)
  BY <1>2
<1> DEFINE instants == {lines[i].ts : i \in found(lines)}
<1>4. log \in Seq(Line) /\ Len(log) + 1 \in Nat
  BY LenProperties DEF TypeOK
<1>5. passed(ts) \in Seq(Lines(Len(log) + 1, {}))
  BY RequestLines
<1>6. lines \in Seq(Line)
  <2>1. arrived \in Seq(Lines(Len(log) + 1, {}))
    BY <1>4, <1>5, WholeLines
  <2>2. arrived \in Seq(Line)
    BY <2>1, SeqMonotonic DEF Lines
  <2>3. log \o arrived \in Seq(Line) /\ <<>> \in Seq(Line)
    BY <1>4, <2>2, ConcatProperties
  <2> QED BY <2>3 DEF Readings
<1>7. found(lines) \in SUBSET DOMAIN lines
  BY UnresolvedLines
<1> HIDE DEF found
<1>8. /\ instants \in SUBSET Nat
      /\ ResolveViolations(lines, found(lines)) \in Seq(Lines(Len(log) + 1, instants))
  BY <1>4, <1>6, <1>7, MarkersAppended
<1>9. passed(ts) \in Seq(Lines(Len(log) + 1, instants))
  BY <1>8, RequestLines
<1>10. new(ts, lines) \in Seq(Lines(Len(log) + 1, instants))
  BY <1>8, <1>9, ConcatProperties
<1> HIDE DEF passed, instants, new
<1>11. \E part \in Whole(new(ts, lines)) \cup CutOff(new(ts, lines)) : log' = log \o part
  BY <1>3
<1>12. Appends(instants)
  BY <1>10, <1>11 DEF Appends
<1>13. faults' \in 0 .. MaxFaults
  <2>1. faults' = faults \/ (MayFail /\ faults' = faults + 1)
    BY <1>3
  <2> QED BY <2>1, FaultsBounded
<1>14. phase' \in 0 .. Phases
  <2>1. phase \in Nat /\ phase < Phases
    BY DEF CompletePhase, RunActive, TypeOK
  <2>2. phase' \in {phase, phase + 1}
    BY <1>3
  <2> QED BY <2>1, <2>2, LogConstants
<1> QED BY <1>8, <1>12, <1>13, <1>14

-----------------------------------------------------------------------------
LEMMA NextAppends ==
    ASSUME TypeOK, Next
    PROVE  /\ \E instants \in SUBSET Nat : Appends(instants)
           /\ faults' \in 0 .. MaxFaults
<1>1. ASSUME NEW t \in Targets, RunFails(t)
      PROVE  (\E instants \in SUBSET Nat : Appends(instants)) /\ faults' \in 0 .. MaxFaults
  BY <1>1, RunFailsAppends
<1>2. ASSUME NEW t \in Targets, RunSucceeds(t)
      PROVE  (\E instants \in SUBSET Nat : Appends(instants)) /\ faults' \in 0 .. MaxFaults
  BY <1>2, RunSucceedsAppends
<1>3. CASE RejectCheckpoint \/ InterceptWrite
  BY <1>3, RefuseAppends DEF RejectCheckpoint, InterceptWrite
<1>4. CASE RefuseCompletion
  BY <1>4, RefuseCompletionAppends
<1>5. CASE CompletePhase
  BY <1>5, CompletePhaseAppends
<1> QED BY <1>1, <1>2, <1>3, <1>4, <1>5 DEF Next

LEMMA TypeOKStep ==
    ASSUME TypeOK, [Next]_vars
    PROVE  TypeOK'
<1>1. CASE UNCHANGED vars
  BY <1>1 DEF TypeOK, vars
<1>2. CASE Next
  <2>1. PICK instants \in SUBSET Nat : Appends(instants)
    BY <1>2, NextAppends
  <2>2. log' \in Seq(Line) /\ \A i \in DOMAIN log' : log'[i].ts <= i
    BY <2>1, AppendedLines DEF Appends
  <2>3. faults' \in 0 .. MaxFaults
    BY <1>2, NextAppends
  <2>4. can' \in Worlds
    BY <1>2 DEF Next, RunFails, RunSucceeds, RejectCheckpoint, InterceptWrite, Refuse,
                RefuseCompletion, CompletePhase, TypeOK
  <2>5. failing' \subseteq Targets
    BY <1>2 DEF Next, RunFails, RunSucceeds, RejectCheckpoint, InterceptWrite, Refuse,
                RefuseCompletion, CompletePhase, TypeOK
  <2>6. phase' \in 0 .. Phases
    <3>1. CASE CompletePhase
      BY <3>1, CompletePhaseAppends
    <3>2. CASE ~CompletePhase
      BY <1>2, <3>2 DEF Next, RunFails, RunSucceeds, RejectCheckpoint, InterceptWrite, Refuse,
                        RefuseCompletion, TypeOK
    <3> QED BY <3>1, <3>2
  <2> QED BY <2>2, <2>3, <2>4, <2>5, <2>6 DEF TypeOK
<1> QED BY <1>1, <1>2

(* Every state is well formed: the log holds lines of the run, none written *)
(* in the future, and the phases completed are phases of the run.           *)
THEOREM ViolationLogTypeOK == Spec => []TypeOK
<1>1. Init => TypeOK
  BY LogConstants DEF Init, TypeOK
<1>2. TypeOK /\ [Next]_vars => TypeOK'
  BY TypeOKStep
<1> QED BY <1>1, <1>2, PTL DEF Spec

-----------------------------------------------------------------------------
LEMMA ForgivenWasNamed ==
    ASSUME TypeOK, NEW instants \in SUBSET Nat, Appends(instants),
           NEW i \in Unresolved(log, "block"), i \notin Unresolved(log', "block")
    PROVE  log[i].ts \in instants
<1>1. /\ \A j \in DOMAIN log : j \in DOMAIN log' /\ log'[j] = log[j]
      /\ Resolved(log') \subseteq Resolved(log) \cup instants
  BY AppendedLines DEF Appends
<1>2. i \in DOMAIN log /\ log[i].kind = "block" /\ log[i].ts \notin Resolved(log)
  BY DEF Unresolved
<1>3. log[i].ts \in Resolved(log')
  BY <1>1, <1>2 DEF Unresolved
<1> QED BY <1>1, <1>2, <1>3

(* A violation becomes resolved only by a success of its target or of the   *)
(* target of a line of the same timestamp, whatever is torn or cut off.     *)
THEOREM ForgivenOnlyForSuccess == Spec => ForgivenOnlyFor
<1>1. TypeOK /\ [Next]_vars
      => [\A i \in Unresolved(log, "block") :
             "unreadable" \notin can /\ i \notin Unresolved(log', "block") => ForgivenBySuccess(i)]_vars
  <2> SUFFICES ASSUME TypeOK, Next, "unreadable" \notin can,
                      NEW i \in Unresolved(log, "block"), i \notin Unresolved(log', "block")
               PROVE  ForgivenBySuccess(i)
    OBVIOUS
  <2>1. ~Appends({})
    BY ForgivenWasNamed
  <2>2. ASSUME NEW t \in Targets, RunFails(t) PROVE FALSE
    BY <2>1, <2>2, RunFailsAppends
  <2>3. ASSUME NEW t \in Targets, RunSucceeds(t) PROVE ForgivenBySuccess(i)
    <3>1. log[i].ts \in {log[j].ts : j \in UnresolvedAbout(log, t)}
      BY <2>3, RunSucceedsAppends, ForgivenWasNamed
    <3>2. PICK j \in UnresolvedAbout(log, t) : log[j].ts = log[i].ts
      BY <3>1
    <3>3. j \in DOMAIN log /\ log[j].about = t
      BY DEF UnresolvedAbout, Unresolved
    <3>4. t \in Targets \ failing'
      BY <2>3 DEF RunSucceeds
    <3> QED BY <3>2, <3>3, <3>4 DEF ForgivenBySuccess
  <2>4. ~RejectCheckpoint /\ ~InterceptWrite
    BY <2>1, RefuseAppends DEF RejectCheckpoint, InterceptWrite
  <2>5. ~RefuseCompletion
    BY <2>1, RefuseCompletionAppends
  <2>6. ~CompletePhase
    BY DEF CompletePhase, Readings, GateOpens
  <2> QED BY <2>2, <2>3, <2>4, <2>5, <2>6 DEF Next
<1> QED BY <1>1, ViolationLogTypeOK, PTL DEF Spec, ForgivenOnlyFor

-----------------------------------------------------------------------------
(* With distinct timestamps, readable logs and no append cut off, nothing   *)
(* is torn and no two violations share a timestamp.                         *)
Undamaged == can \cap {"same ms", "unreadable"} = {} /\ faults = 0

Intact == \A i \in DOMAIN log : log[i].kind \notin {"torn", "glued"}

Distinct ==
    \A i, j \in DOMAIN log :
        log[i].kind = "block" /\ log[j].kind = "block" /\ log[i].ts = log[j].ts => i = j

FixedInv == Undamaged => Intact /\ Distinct /\ FixedIsForgiven

(* What a call appends in such a log: one violation at most, of this instant. *)
Sound(new) ==
    /\ new \in Seq(Line)
    /\ \A k \in DOMAIN new : new[k].kind \notin {"torn", "glued"}
    /\ \A k \in DOMAIN new : new[k].kind = "block" => new[k].ts = Len(log) + 1
    /\ \A k, l \in DOMAIN new : new[k].kind = "block" /\ new[l].kind = "block" => k = l

LEMMA UntornWhole ==
    ASSUME ~Torn, NEW new \in Seq(Line)
    PROVE  Whole(new) = {new}
<1>1. CASE new = <<>>
  BY <1>1 DEF Whole
<1>2. CASE new # <<>>
  <2>1. <<Head(new)>> \o Tail(new) = new
    BY <1>2
  <2> QED BY <1>2, <2>1 DEF Whole
<1> QED BY <1>1, <1>2

LEMMA WholeIsNew ==
    ASSUME TypeOK, Intact, NEW new \in Seq(Line)
    PROVE  Whole(new) = {new}
<1>1. ~Torn
  <2>1. log # <<>> => Len(log) \in DOMAIN log
    BY LenProperties, EmptySeq DEF TypeOK
  <2> QED BY <2>1 DEF Torn, Intact
<1> QED BY <1>1, UntornWhole

LEMMA SoundAppended ==
    ASSUME TypeOK, Intact, Distinct, NEW new, Sound(new), log' = log \o new
    PROVE  /\ Intact' /\ Distinct'
           /\ \A t \in Targets : (\A k \in DOMAIN new : new[k].kind = "block" => new[k].about # t) =>
                 UnresolvedAbout(log', t)
                     = {i \in UnresolvedAbout(log, t) : log[i].ts \notin Resolved(new)}
<1>1. /\ log \in Seq(Line) /\ Len(log) \in Nat /\ DOMAIN log = 1 .. Len(log)
      /\ new \in Seq(Line) /\ Len(new) \in Nat /\ DOMAIN new = 1 .. Len(new)
  BY LenProperties DEF TypeOK, Sound
<1>2. /\ log' \in Seq(Line)
      /\ Len(log') = Len(log) + Len(new)
      /\ \A i \in 1 .. Len(log) + Len(new) :
            log'[i] = IF i <= Len(log) THEN log[i] ELSE new[i - Len(log)]
  BY <1>1, ConcatProperties
<1>3. DOMAIN log' = 1 .. Len(log) + Len(new)
  BY <1>2, LenProperties
<1>4. \A i \in DOMAIN log : i \in DOMAIN log' /\ log'[i] = log[i]
  BY <1>1, <1>2, <1>3
<1>5. \A i \in DOMAIN log' \ DOMAIN log : i - Len(log) \in DOMAIN new /\ log'[i] = new[i - Len(log)]
  BY <1>1, <1>2, <1>3
<1>6. \A k \in DOMAIN new : Len(log) + k \in DOMAIN log' /\ log'[Len(log) + k] = new[k]
  BY <1>1, <1>2, <1>3
<1>7. Intact'
  <2> SUFFICES ASSUME NEW i \in DOMAIN log' PROVE log'[i].kind \notin {"torn", "glued"}
    BY DEF Intact
  <2>1. CASE i \in DOMAIN log
    BY <1>4, <2>1 DEF Intact
  <2>2. CASE i \notin DOMAIN log
    BY <1>5, <2>2 DEF Sound
  <2> QED BY <2>1, <2>2
<1>8. \A i \in DOMAIN log : log[i].ts \in Nat /\ log[i].ts <= Len(log)
  <2> SUFFICES ASSUME NEW i \in DOMAIN log PROVE log[i].ts \in Nat /\ log[i].ts <= Len(log)
    OBVIOUS
  <2>1. log[i].ts \in Nat /\ log[i].ts <= i
    <3>1. log[i] \in Line
      BY <1>1, ElementOfSeq
    <3>2. log[i].ts \in Nat
      BY <3>1 DEF Line
    <3> QED BY <3>2 DEF TypeOK
  <2> QED BY <1>1, <2>1
<1>9. Distinct'
  <2> SUFFICES ASSUME NEW i \in DOMAIN log', NEW j \in DOMAIN log',
                      log'[i].kind = "block", log'[j].kind = "block", log'[i].ts = log'[j].ts
               PROVE  i = j
    BY DEF Distinct
  <2>1. CASE i \in DOMAIN log /\ j \in DOMAIN log
    BY <1>4, <2>1 DEF Distinct
  <2>2. CASE i \in DOMAIN log /\ j \notin DOMAIN log
    <3>1. log'[j].ts = Len(log) + 1
      BY <1>5, <2>2 DEF Sound
    <3>2. log'[i].ts <= Len(log) /\ log'[i].ts \in Nat
      BY <1>4, <1>8, <2>2
    <3> QED BY <1>1, <3>1, <3>2
  <2>3. CASE i \notin DOMAIN log /\ j \in DOMAIN log
    <3>1. log'[i].ts = Len(log) + 1
      BY <1>5, <2>3 DEF Sound
    <3>2. log'[j].ts <= Len(log) /\ log'[j].ts \in Nat
      BY <1>4, <1>8, <2>3
    <3> QED BY <1>1, <3>1, <3>2
  <2>4. CASE i \notin DOMAIN log /\ j \notin DOMAIN log
    <3>1. i - Len(log) = j - Len(log)
      BY <1>5, <2>4 DEF Sound
    <3> QED BY <1>1, <1>3, <3>1
  <2> QED BY <2>1, <2>2, <2>3, <2>4
<1>10. Resolved(log') = Resolved(log) \cup Resolved(new)
  <2>1. \A ts \in Resolved(log') : ts \in Resolved(log) \cup Resolved(new)
    <3> SUFFICES ASSUME NEW i \in DOMAIN log', NEW ts \in log'[i].resolves
                 PROVE  ts \in Resolved(log) \cup Resolved(new)
      BY DEF Resolved
    <3>1. CASE i \in DOMAIN log
      BY <1>4, <3>1 DEF Resolved
    <3>2. CASE i \notin DOMAIN log
      BY <1>5, <3>2 DEF Resolved
    <3> QED BY <3>1, <3>2
  <2>2. \A ts \in Resolved(log) : ts \in Resolved(log')
    BY <1>4 DEF Resolved
  <2>3. \A ts \in Resolved(new) : ts \in Resolved(log')
    BY <1>6 DEF Resolved
  <2> QED BY <2>1, <2>2, <2>3
<1>11. ASSUME NEW t \in Targets, \A k \in DOMAIN new : new[k].kind = "block" => new[k].about # t
       PROVE  UnresolvedAbout(log', t)
                  = {i \in UnresolvedAbout(log, t) : log[i].ts \notin Resolved(new)}
  <2>1. ASSUME NEW i \in UnresolvedAbout(log', t)
        PROVE  i \in UnresolvedAbout(log, t) /\ log[i].ts \notin Resolved(new)
    <3>1. /\ i \in DOMAIN log' /\ log'[i].kind = "block" /\ log'[i].about = t
          /\ log'[i].ts \notin Resolved(log')
      BY <2>1 DEF UnresolvedAbout, Unresolved
    <3>2. i \in DOMAIN log
      BY <1>5, <1>11, <3>1
    <3> QED BY <1>4, <1>10, <3>1, <3>2 DEF UnresolvedAbout, Unresolved
  <2>2. ASSUME NEW i \in UnresolvedAbout(log, t), log[i].ts \notin Resolved(new)
        PROVE  i \in UnresolvedAbout(log', t)
    <3>1. /\ i \in DOMAIN log /\ log[i].kind = "block" /\ log[i].about = t
          /\ log[i].ts \notin Resolved(log)
      BY <2>2 DEF UnresolvedAbout, Unresolved
    <3>2. i \in DOMAIN log' /\ log'[i] = log[i] /\ log[i].ts \notin Resolved(log')
      BY <1>4, <1>10, <2>2, <3>1
    <3> QED BY <3>1, <3>2 DEF UnresolvedAbout, Unresolved
  <2> QED BY <2>1, <2>2
<1> QED BY <1>7, <1>9, <1>11

LEMMA SoundEntry ==
    ASSUME TypeOK, NEW kind \in {"block", "warn", "pass"}, NEW about \in Targets \cup {None}
    PROVE  /\ Sound(<<Entry(kind, about, Len(log) + 1)>>)
           /\ Resolved(<<Entry(kind, about, Len(log) + 1)>>) = {}
<1> DEFINE entry == Entry(kind, about, Len(log) + 1)
<1>1. Len(log) + 1 \in Nat
  BY LenProperties DEF TypeOK
<1>2. entry \in Line /\ entry.ts = Len(log) + 1 /\ entry.kind = kind /\ entry.resolves = {}
  BY <1>1 DEF Entry, Line
<1> HIDE DEF entry
<1>3. <<entry>> \in Seq(Line) /\ DOMAIN <<entry>> = {1} /\ <<entry>>[1] = entry
  BY <1>2
<1>4. Sound(<<entry>>)
  BY <1>2, <1>3 DEF Sound
<1>5. Resolved(<<entry>>) = {}
  BY <1>2, <1>3 DEF Resolved
<1> QED BY <1>4, <1>5 DEF entry

LEMMA SoundMarkers ==
    ASSUME NEW lines \in Seq(Line), NEW found \in SUBSET DOMAIN lines
    PROVE  /\ Sound(ResolveViolations(lines, found))
           /\ Resolved(ResolveViolations(lines, found)) = {lines[i].ts : i \in found}
           /\ \A k \in DOMAIN ResolveViolations(lines, found) :
                 ResolveViolations(lines, found)[k].kind = "resolve"
<1> DEFINE markers == Markers({lines[i].ts : i \in found})
<1>1. CASE found = {}
  <2>1. ResolveViolations(lines, found) = <<>>
    BY <1>1 DEF ResolveViolations
  <2>2. <<>> \in Seq(Line) /\ DOMAIN <<>> = {}
    OBVIOUS
  <2> QED BY <1>1, <2>1, <2>2 DEF Sound, Resolved
<1>2. CASE found # {}
  <2>1. ResolveViolations(lines, found) = <<markers>>
    BY <1>2 DEF ResolveViolations
  <2>2. markers.kind = "resolve" /\ markers.resolves = {lines[i].ts : i \in found}
    BY DEF Markers
  <2>3. markers \in Line
    <3>1. {lines[i].ts : i \in found} \in SUBSET Nat
      BY MarkersAppended
    <3> QED BY <3>1 DEF Markers, Line
  <2> HIDE DEF markers
  <2>4. <<markers>> \in Seq(Line) /\ DOMAIN <<markers>> = {1} /\ <<markers>>[1] = markers
    BY <2>3
  <2>5. Resolved(<<markers>>) = markers.resolves
    BY <2>4 DEF Resolved
  <2> QED BY <2>1, <2>2, <2>4, <2>5 DEF Sound
<1> QED BY <1>1, <1>2

(* The lines of two appends, when the second brings no violation after one. *)
LEMMA SoundConcat ==
    ASSUME NEW s, Sound(s), NEW u, Sound(u),
           \/ \A k \in DOMAIN s : s[k].kind # "block"
           \/ \A k \in DOMAIN u : u[k].kind # "block"
    PROVE  /\ Sound(s \o u)
           /\ Resolved(s \o u) = Resolved(s) \cup Resolved(u)
           /\ \A k \in DOMAIN (s \o u) :
                 (\E m \in DOMAIN s : (s \o u)[k] = s[m]) \/ \E m \in DOMAIN u : (s \o u)[k] = u[m]
<1>1. /\ s \in Seq(Line) /\ Len(s) \in Nat /\ DOMAIN s = 1 .. Len(s)
      /\ u \in Seq(Line) /\ Len(u) \in Nat /\ DOMAIN u = 1 .. Len(u)
  BY LenProperties DEF Sound
<1>2. /\ s \o u \in Seq(Line)
      /\ DOMAIN (s \o u) = 1 .. Len(s) + Len(u)
      /\ \A k \in 1 .. Len(s) + Len(u) : (s \o u)[k] = IF k <= Len(s) THEN s[k] ELSE u[k - Len(s)]
  BY <1>1, ConcatProperties, LenProperties
<1>3. \A k \in DOMAIN (s \o u) : \/ k \in DOMAIN s /\ (s \o u)[k] = s[k]
                                 \/ k - Len(s) \in DOMAIN u /\ (s \o u)[k] = u[k - Len(s)]
  BY <1>1, <1>2
<1>4. /\ \A k \in DOMAIN s : k \in DOMAIN (s \o u) /\ (s \o u)[k] = s[k]
      /\ \A k \in DOMAIN u : Len(s) + k \in DOMAIN (s \o u) /\ (s \o u)[Len(s) + k] = u[k]
  BY <1>1, <1>2
<1>5. \A k, l \in DOMAIN (s \o u) :
          (s \o u)[k].kind = "block" /\ (s \o u)[l].kind = "block" => k = l
  <2> SUFFICES ASSUME NEW k \in DOMAIN (s \o u), NEW l \in DOMAIN (s \o u),
                      (s \o u)[k].kind = "block", (s \o u)[l].kind = "block"
               PROVE  k = l
    OBVIOUS
  <2>1. CASE \A m \in DOMAIN s : s[m].kind # "block"
    <3>1. k - Len(s) = l - Len(s)
      BY <1>3, <2>1 DEF Sound
    <3> QED BY <1>1, <1>2, <3>1
  <2>2. CASE \A m \in DOMAIN u : u[m].kind # "block"
    BY <1>3, <2>2 DEF Sound
  <2> QED BY <2>1, <2>2
<1>6. Sound(s \o u)
  BY <1>2, <1>3, <1>5 DEF Sound
<1>7. Resolved(s \o u) = Resolved(s) \cup Resolved(u)
  <2>1. \A ts \in Resolved(s \o u) : ts \in Resolved(s) \cup Resolved(u)
    BY <1>3 DEF Resolved
  <2>2. \A ts \in Resolved(s) : ts \in Resolved(s \o u)
    BY <1>4 DEF Resolved
  <2>3. \A ts \in Resolved(u) : ts \in Resolved(s \o u)
    BY <1>4 DEF Resolved
  <2> QED BY <2>1, <2>2, <2>3
<1> QED BY <1>3, <1>6, <1>7

LEMMA SoundRequest ==
    ASSUME TypeOK, NEW kind \in {"block", "pass"}
    PROVE  LET new == TestRunRequested(Len(log) + 1) \o <<Entry(kind, None, Len(log) + 1)>> IN
           /\ Sound(new)
           /\ Resolved(new) = {}
           /\ \A k \in DOMAIN new : new[k].kind \in {"warn", kind} /\ new[k].about = None
<1> DEFINE s == TestRunRequested(Len(log) + 1)
           u == <<Entry(kind, None, Len(log) + 1)>>
<1>1. Sound(u) /\ Resolved(u) = {}
  BY SoundEntry
<1>2. Sound(s) /\ Resolved(s) = {}
  <2>1. Sound(<<>>) /\ Resolved(<<>>) = {}
    BY DEF Sound, Resolved
  <2> QED BY <2>1, SoundEntry DEF TestRunRequested
<1>3. \A k \in DOMAIN u : u[k].kind = kind /\ u[k].about = None
  BY DEF Entry
<1>4. \A k \in DOMAIN s : s[k].kind = "warn" /\ s[k].about = None
  BY DEF TestRunRequested, Entry
<1> HIDE DEF s, u
<1>5. /\ Sound(s \o u) /\ Resolved(s \o u) = {}
      /\ \A k \in DOMAIN (s \o u) :
            (\E m \in DOMAIN s : (s \o u)[k] = s[m]) \/ \E m \in DOMAIN u : (s \o u)[k] = u[m]
  BY <1>1, <1>2, <1>4, SoundConcat
<1>6. \A k \in DOMAIN (s \o u) : (s \o u)[k].kind \in {"warn", kind} /\ (s \o u)[k].about = None
  BY <1>3, <1>4, <1>5
<1> QED BY <1>5, <1>6 DEF s, u

-----------------------------------------------------------------------------
(* Under Undamaged', an append leaves what it appends.                      *)
LEMMA UndamagedAppend ==
    ASSUME TypeOK, FixedInv, Undamaged', can' = can, NEW new, Sound(new), AppendLog(new)
    PROVE  log' = log \o new /\ Undamaged
<1>1. faults \in Nat /\ faults' = 0
  <2>1. faults \in Nat
    BY LogConstants DEF TypeOK
  <2>2. faults' = 0
    BY DEF Undamaged
  <2> QED BY <2>1, <2>2
<1>2. faults = 0 /\ \E lines \in Whole(new) : log' = log \o lines
  BY <1>1 DEF AppendLog
<1>3. Undamaged
  BY <1>2 DEF Undamaged
<1> QED BY <1>2, <1>3, WholeIsNew DEF FixedInv, Sound

(* A call that records no violation of a target that works, and resolves    *)
(* none of one that it leaves unresolved, keeps the invariant.              *)
LEMMA FixedInvKept ==
    ASSUME TypeOK, FixedInv, Undamaged, Undamaged', NEW new, Sound(new), log' = log \o new,
           \A u \in Targets \ failing' :
              /\ \A k \in DOMAIN new : new[k].kind = "block" => new[k].about # u
              /\ \/ \A i \in UnresolvedAbout(log, u) : log[i].ts \in Resolved(new)
                 \/ /\ \A i \in UnresolvedAbout(log, u) : log[i].ts \notin Resolved(new)
                    /\ u \notin failing \/ Cardinality(UnresolvedAbout(log, u)) > RESOLVE_LIMIT
    PROVE  FixedInv'
<1>1. Intact' /\ Distinct'
  BY SoundAppended DEF FixedInv
<1>2. ASSUME NEW u \in Targets \ failing'
      PROVE  UnresolvedAbout(log', u) = {} \/ Cardinality(UnresolvedAbout(log', u)) > RESOLVE_LIMIT
  <2>1. UnresolvedAbout(log', u) = {i \in UnresolvedAbout(log, u) : log[i].ts \notin Resolved(new)}
    BY SoundAppended DEF FixedInv
  <2>2. CASE \A i \in UnresolvedAbout(log, u) : log[i].ts \in Resolved(new)
    BY <2>1, <2>2
  <2>3. CASE /\ \A i \in UnresolvedAbout(log, u) : log[i].ts \notin Resolved(new)
             /\ u \notin failing \/ Cardinality(UnresolvedAbout(log, u)) > RESOLVE_LIMIT
    <3>1. UnresolvedAbout(log', u) = UnresolvedAbout(log, u)
      BY <2>1, <2>3
    <3> QED BY <2>3, <3>1 DEF FixedInv, FixedIsForgiven, Undamaged
  <2> QED BY <2>2, <2>3
<1>3. FixedIsForgiven'
  BY <1>2 DEF FixedIsForgiven
<1> QED BY <1>1, <1>3 DEF FixedInv

LEMMA UndamagedInstants ==
    ASSUME Undamaged
    PROVE  Instants = {Len(log) + 1} /\ \A lines : Readings(lines) = {lines}
BY DEF Undamaged, Instants, Readings

LEMMA RunFailsFixed ==
    ASSUME TypeOK, FixedInv, Undamaged, Undamaged', NEW t \in Targets, RunFails(t)
    PROVE  FixedInv'
<1> DEFINE kind == IF "degraded" \in can THEN "warn" ELSE "block"
           new == <<Entry(kind, t, Len(log) + 1)>>
<1>1. AppendLog(new) /\ failing' = failing \cup {t} /\ can' = can
  BY UndamagedInstants DEF RunFails
<1>2. Sound(new) /\ Resolved(new) = {}
  BY SoundEntry
<1>3. \A k \in DOMAIN new : new[k].about = t
  BY DEF Entry
<1> HIDE DEF new
<1>4. log' = log \o new
  BY <1>1, <1>2, UndamagedAppend
<1> QED BY <1>1, <1>2, <1>3, <1>4, FixedInvKept

LEMMA RunSucceedsFixed ==
    ASSUME TypeOK, FixedInv, Undamaged, Undamaged', NEW t \in Targets, RunSucceeds(t)
    PROVE  FixedInv'
<1> DEFINE found == UnresolvedAbout(log, t)
<1>1. /\ IF TooMany(found)
         THEN AppendLog(<<Entry("warn", t, Len(log) + 1)>>)
         ELSE AppendLog(ResolveViolations(log, found))
      /\ failing' = failing \ {t} /\ can' = can
  <2>1. PICK lines \in Readings(log) :
          IF TooMany(UnresolvedAbout(lines, t))
          THEN \E ts \in Instants : AppendLog(<<Entry("warn", t, ts)>>)
          ELSE AppendLog(ResolveViolations(lines, UnresolvedAbout(lines, t)))
    BY DEF RunSucceeds
  <2>2. lines = log /\ \A ts \in Instants : ts = Len(log) + 1
    BY UndamagedInstants
  <2>3. failing' = failing \ {t} /\ can' = can
    BY DEF RunSucceeds
  <2> QED BY <2>1, <2>2, <2>3
<1>2. CASE TooMany(found)
  <2> DEFINE new == <<Entry("warn", t, Len(log) + 1)>>
  <2>1. Sound(new) /\ Resolved(new) = {}
    BY SoundEntry
  <2>2. \A k \in DOMAIN new : new[k].kind = "warn"
    BY DEF Entry
  <2>3. Cardinality(UnresolvedAbout(log, t)) > RESOLVE_LIMIT
    BY <1>2 DEF TooMany
  <2>4. AppendLog(new)
    BY <1>1, <1>2
  <2> HIDE DEF new
  <2>5. log' = log \o new
    BY <1>1, <2>1, <2>4, UndamagedAppend
  <2> QED BY <1>1, <2>1, <2>2, <2>3, <2>5, FixedInvKept
<1>3. CASE ~TooMany(found)
  <2> DEFINE new == ResolveViolations(log, found)
  <2>1. /\ Sound(new)
        /\ Resolved(new) = {log[i].ts : i \in found}
        /\ \A k \in DOMAIN new : new[k].kind = "resolve"
    BY SoundMarkers, UnresolvedLines DEF TypeOK
  <2>2. AppendLog(new)
    BY <1>1, <1>3
  <2> HIDE DEF new
  <2>3. log' = log \o new
    BY <1>1, <2>1, <2>2, UndamagedAppend
  <2>4. \A i \in UnresolvedAbout(log, t) : log[i].ts \in Resolved(new)
    BY <2>1
  <2>5. ASSUME NEW u \in Targets, u # t, NEW i \in UnresolvedAbout(log, u)
        PROVE  log[i].ts \notin Resolved(new)
    <3>1. i \in DOMAIN log /\ log[i].kind = "block" /\ log[i].about = u
      BY DEF UnresolvedAbout, Unresolved
    <3>2. \A j \in found : j \in DOMAIN log /\ log[j].kind = "block" /\ log[j].about = t
      BY DEF UnresolvedAbout, Unresolved
    <3>3. \A j \in found : log[j].ts # log[i].ts
      BY <2>5, <3>1, <3>2 DEF FixedInv, Distinct
    <3> QED BY <2>1, <3>3
  <2> QED BY <1>1, <2>1, <2>3, <2>4, <2>5, FixedInvKept
<1> QED BY <1>2, <1>3

LEMMA RefuseFixed ==
    ASSUME TypeOK, FixedInv, Undamaged, Undamaged', Refuse
    PROVE  FixedInv'
<1> DEFINE new == <<Entry("block", None, Len(log) + 1)>>
<1>1. AppendLog(new) /\ UNCHANGED <<can, failing>>
  BY UndamagedInstants DEF Refuse
<1>2. Sound(new) /\ Resolved(new) = {}
  BY SoundEntry
<1>3. \A k \in DOMAIN new : new[k].about = None
  BY DEF Entry
<1> HIDE DEF new
<1>4. log' = log \o new
  BY <1>1, <1>2, UndamagedAppend
<1> QED BY <1>1, <1>2, <1>3, <1>4, FixedInvKept, LogConstants

LEMMA RefuseCompletionFixed ==
    ASSUME TypeOK, FixedInv, Undamaged, Undamaged', RefuseCompletion
    PROVE  FixedInv'
<1> DEFINE new == TestRunRequested(Len(log) + 1) \o <<Entry("block", None, Len(log) + 1)>>
<1>1. AppendLog(new) /\ UNCHANGED <<can, failing>>
  BY UndamagedInstants DEF RefuseCompletion
<1>2. Sound(new) /\ Resolved(new) = {} /\ \A k \in DOMAIN new : new[k].about = None
  BY SoundRequest
<1> HIDE DEF new
<1>3. log' = log \o new
  BY <1>1, <1>2, UndamagedAppend
<1> QED BY <1>1, <1>2, <1>3, FixedInvKept, LogConstants

LEMMA CompletePhaseFixed ==
    ASSUME TypeOK, FixedInv, Undamaged, Undamaged', CompletePhase
    PROVE  FixedInv'
<1> DEFINE passed == TestRunRequested(Len(log) + 1) \o <<Entry("pass", None, Len(log) + 1)>>
           lines == log \o passed
           found == Unresolved(lines, "block") \cup Unresolved(lines, "warn")
           markers == ResolveViolations(lines, found)
<1>1. Sound(passed) /\ \A k \in DOMAIN passed : passed[k].kind # "block"
  BY SoundRequest
<1>2. Whole(passed) = {passed}
  BY <1>1, WholeIsNew DEF Sound, FixedInv
<1>3. lines \in Seq(Line)
  BY <1>1, ConcatProperties DEF Sound, TypeOK
<1>4. found \in SUBSET DOMAIN lines
  BY UnresolvedLines
<1> HIDE DEF lines, found
<1>5. Sound(markers) /\ \A k \in DOMAIN markers : markers[k].kind = "resolve"
  BY <1>3, <1>4, SoundMarkers
<1>6. /\ UNCHANGED <<can, failing>>
      /\ \A t \in Targets : UnresolvedAbout(log, t) = {}
  BY UndamagedInstants DEF CompletePhase, GateOpens, UnresolvedAbout
<1>7. \E whole \in Whole(passed \o markers) : log' = log \o whole
  <2> DEFINE now(ts) == TestRunRequested(ts) \o <<Entry("pass", None, ts)>>
             left(read) == ResolveViolations(read, Unresolved(read, "block") \cup Unresolved(read, "warn"))
             Completes(ts, read) == \/ \E whole \in Whole(now(ts) \o left(read)) : log' = log \o whole
                                    \/ faults' = faults + 1
  <2>1. faults' # faults + 1
    <3>1. faults \in Nat
      BY LogConstants DEF TypeOK
    <3>2. faults' = 0
      BY DEF Undamaged
    <3> QED BY <3>1, <3>2
  <2>2. PICK ts \in Instants : \E arrived \in Whole(now(ts)) :
                                   \E read \in Readings(log \o arrived) : Completes(ts, read)
    BY DEF CompletePhase
  <2>3. ts = Len(log) + 1
    BY UndamagedInstants
  <2>4. PICK arrived \in Whole(passed) : \E read \in Readings(log \o arrived) : Completes(Len(log) + 1, read)
    BY <2>2, <2>3
  <2>5. arrived = passed
    BY <1>2
  <2>6. PICK read \in Readings(log \o passed) : Completes(Len(log) + 1, read)
    BY <2>4, <2>5
  <2>7. read = lines
    BY UndamagedInstants DEF lines
  <2> QED BY <2>1, <2>6, <2>7 DEF found
<1> HIDE DEF passed, markers
<1>8. /\ Sound(passed \o markers)
      /\ \A k \in DOMAIN (passed \o markers) : (passed \o markers)[k].kind # "block"
  BY <1>1, <1>5, SoundConcat
<1> DEFINE new == passed \o markers
<1> HIDE DEF new
<1>9. log' = log \o new
  BY <1>7, <1>8, WholeIsNew DEF new, Sound, FixedInv
<1> QED BY <1>6, <1>8, <1>9, FixedInvKept DEF new

(* What works now keeps no gate closed, as long as no append fails and no   *)
(* two violations share a timestamp: a success resolves all that is recorded *)
(* of its target, or nothing when that is more than RESOLVE_LIMIT, and no   *)
(* other step records anything about a target that works.                   *)
THEOREM ViolationLogFixedIsForgiven == Spec => []FixedIsForgiven
<1>1. Init => FixedInv
  BY DEF Init, FixedInv, Intact, Distinct, FixedIsForgiven, UnresolvedAbout, Unresolved
<1>2. TypeOK /\ FixedInv /\ [Next]_vars => FixedInv'
  <2> SUFFICES ASSUME TypeOK, FixedInv, [Next]_vars, Undamaged' PROVE FixedInv'
    BY DEF FixedInv
  <2>1. CASE UNCHANGED vars
    BY <2>1 DEF vars, FixedInv, Undamaged, Intact, Distinct, FixedIsForgiven
  <2>2. CASE Next
    <3>1. can' = can /\ faults' \in {faults, faults + 1}
      BY <2>2 DEF Next, RunFails, RunSucceeds, RejectCheckpoint, InterceptWrite, Refuse,
                  RefuseCompletion, CompletePhase, AppendLog
    <3>2. Undamaged
      <4>1. faults \in Nat
        BY LogConstants DEF TypeOK
      <4>2. faults' = 0
        BY DEF Undamaged
      <4>3. faults = 0
        BY <3>1, <4>1, <4>2
      <4> QED BY <3>1, <4>3 DEF Undamaged
    <3>3. ASSUME NEW t \in Targets, RunFails(t) PROVE FixedInv'
      BY <3>2, <3>3, RunFailsFixed
    <3>4. ASSUME NEW t \in Targets, RunSucceeds(t) PROVE FixedInv'
      BY <3>2, <3>4, RunSucceedsFixed
    <3>5. CASE RejectCheckpoint \/ InterceptWrite
      BY <3>2, <3>5, RefuseFixed DEF RejectCheckpoint, InterceptWrite
    <3>6. CASE RefuseCompletion
      BY <3>2, <3>6, RefuseCompletionFixed
    <3>7. CASE CompletePhase
      BY <3>2, <3>7, CompletePhaseFixed
    <3> QED BY <2>2, <3>3, <3>4, <3>5, <3>6, <3>7 DEF Next
  <2> QED BY <2>1, <2>2
<1>3. TypeOK /\ FixedInv => FixedIsForgiven
  BY DEF FixedInv, Undamaged, FixedIsForgiven
<1> QED BY <1>1, <1>2, <1>3, ViolationLogTypeOK, PTL DEF Spec

-----------------------------------------------------------------------------
(* What a call appends keeps its place, whether it arrives or is cut off:   *)
(* only a line without its end, one glued to it, or some of the markers     *)
(* stand where the call wrote something else.                               *)
LEMMA DamageKeepsPlace ==
    ASSUME TypeOK, NEW new, Sound(new), NEW lines \in Whole(new) \cup CutOff(new)
    PROVE  \A k \in DOMAIN lines :
              lines[k].kind = "block" => k \in DOMAIN new /\ lines[k] = new[k]
<1>1. /\ new \in Seq(Line) /\ Len(new) \in Nat /\ DOMAIN new = 1 .. Len(new)
  BY LenProperties DEF Sound
<1>2. ASSUME NEW whole \in Whole(new)
      PROVE  /\ whole \in Seq(Line) /\ Len(whole) = Len(new) /\ DOMAIN whole = 1 .. Len(new)
             /\ \A k \in DOMAIN whole : whole[k].kind = "block" => whole[k] = new[k]
  <2>1. CASE new = <<>>
    <3>1. whole = new
      BY <1>2, <2>1 DEF Whole
    <3> QED BY <1>1, <3>1
  <2>2. CASE new # <<>>
    <3>1. /\ Head(new) \in Line /\ Head(new) = new[1]
          /\ Tail(new) \in Seq(Line)
          /\ Len(Tail(new)) = Len(new) - 1
          /\ \A k \in 1 .. Len(new) - 1 : Tail(new)[k] = new[k + 1]
      BY <1>1, <2>2, HeadTailProperties
    <3>2. PICK first \in (IF Torn THEN Glued(Head(new)) ELSE {Head(new)}) : whole = <<first>> \o Tail(new)
      BY <1>2, <2>2 DEF Whole
    <3>3. first \in Line /\ (first = Head(new) \/ first.kind # "block")
      <4>1. CASE first = Head(new)
        BY <3>1, <4>1
      <4>2. CASE first \in Glued(Head(new))
        <5>1. CASE Head(new).kind = "resolve"
          <6>1. PICK ts \in Head(new).resolves : first = Markers(Head(new).resolves \ {ts})
            BY <4>2, <5>1 DEF Glued
          <6>2. Head(new).resolves \ {ts} \in SUBSET Nat
            BY <3>1 DEF Line
          <6> QED BY <6>1, <6>2 DEF Markers, Line
        <5>2. CASE Head(new).kind # "resolve"
          BY <4>2, <5>2 DEF Glued, GluedLine, Entry, Line
        <5> QED BY <5>1, <5>2
      <4> QED BY <3>2, <4>1, <4>2
    <3>4. <<first>> \in Seq(Line) /\ Len(<<first>>) = 1 /\ <<first>>[1] = first
      BY <3>3
    <3>5. /\ whole \in Seq(Line)
          /\ Len(whole) = 1 + (Len(new) - 1)
          /\ \A k \in 1 .. 1 + (Len(new) - 1) :
                whole[k] = IF k <= 1 THEN <<first>>[k] ELSE Tail(new)[k - 1]
      BY <3>1, <3>2, <3>4, ConcatProperties
    <3>6. Len(whole) = Len(new) /\ DOMAIN whole = 1 .. Len(new)
      BY <1>1, <3>5, LenProperties
    <3>7. ASSUME NEW k \in DOMAIN whole, whole[k].kind = "block" PROVE whole[k] = new[k]
      <4>1. CASE k = 1
        BY <1>1, <3>1, <3>3, <3>4, <3>5, <3>6, <3>7, <4>1
      <4>2. CASE k # 1
        <5>1. k - 1 \in 1 .. Len(new) - 1 /\ ~(k <= 1) /\ k \in 1 .. 1 + (Len(new) - 1) /\ (k - 1) + 1 = k
          BY <1>1, <3>6, <4>2
        <5> QED BY <3>1, <3>5, <5>1
      <4> QED BY <4>1, <4>2
    <3> QED BY <3>5, <3>6, <3>7
  <2> QED BY <2>1, <2>2
<1>3. CASE lines \in Whole(new)
  BY <1>1, <1>2, <1>3
<1>4. CASE lines \in CutOff(new)
  <2>1. PICK whole \in Whole(new), n \in 0 .. Len(new) - 1 :
            \E last \in Partly(whole[n + 1]) : lines = SubSeq(whole, 1, n) \o last
    BY <1>4 DEF CutOff
  <2>2. PICK last \in Partly(whole[n + 1]) : lines = SubSeq(whole, 1, n) \o last
    BY <2>1
  <2>3. /\ n \in Nat /\ n <= Len(new)
        /\ whole \in Seq(Line) /\ Len(whole) = Len(new) /\ DOMAIN whole = 1 .. Len(new)
        /\ \A k \in DOMAIN whole : whole[k].kind = "block" => whole[k] = new[k]
        /\ \A k \in 1 .. n : whole[k] \in Line
    <3>1. n \in Nat /\ n <= Len(new) /\ \A k \in 1 .. n : k \in 1 .. Len(new)
      BY <1>1, <2>1
    <3>2. whole \in Seq(Line) /\ DOMAIN whole = 1 .. Len(new)
      BY <1>2
    <3> QED BY <1>2, <3>1, <3>2, ElementOfSeq
  <2>4. /\ SubSeq(whole, 1, n) \in Seq(Line)
        /\ Len(SubSeq(whole, 1, n)) = n
        /\ \A k \in 1 .. n : SubSeq(whole, 1, n)[k] = whole[k]
    BY <2>3, SubSeqProperties
  <2>5. last \in Seq(Line) /\ \A k \in 1 .. Len(last) : last[k].kind # "block"
    <3>1. TornLine \in Line /\ TornLine.kind = "torn"
      BY DEF TornLine, Entry, Line
    <3>2. CASE last \in {<<>>, <<TornLine>>}
      <4>1. ASSUME NEW torn \in Line, torn.kind = "torn"
            PROVE  /\ <<>> \in Seq(Line) /\ \A k \in 1 .. Len(<<>>) : <<>>[k].kind # "block"
                   /\ <<torn>> \in Seq(Line) /\ \A k \in 1 .. Len(<<torn>>) : <<torn>>[k].kind # "block"
        BY <4>1
      <4> QED BY <3>1, <3>2, <4>1
    <3>3. CASE \E S \in SUBSET whole[n + 1].resolves : last \in {<<Markers(S)>>, <<Markers(S), TornLine>>}
      <4>1. PICK S \in SUBSET whole[n + 1].resolves : last \in {<<Markers(S)>>, <<Markers(S), TornLine>>}
        BY <3>3
      <4>2. n + 1 \in DOMAIN whole
        BY <1>1, <2>1, <2>3
      <4>3. S \in SUBSET Nat
        <5>1. whole[n + 1] \in Line
          BY <2>3, <4>2, ElementOfSeq
        <5> QED BY <4>1, <5>1 DEF Line
      <4>4. Markers(S) \in Line /\ Markers(S).kind = "resolve"
        BY <4>3 DEF Markers, Line
      <4>5. ASSUME NEW marker \in Line, marker.kind = "resolve", NEW torn \in Line, torn.kind = "torn"
            PROVE  /\ <<marker>> \in Seq(Line)
                   /\ \A k \in 1 .. Len(<<marker>>) : <<marker>>[k].kind # "block"
                   /\ <<marker, torn>> \in Seq(Line)
                   /\ \A k \in 1 .. Len(<<marker, torn>>) : <<marker, torn>>[k].kind # "block"
        BY <4>5
      <4> QED BY <3>1, <4>1, <4>4, <4>5
    <3> QED BY <2>2, <3>2, <3>3 DEF Partly
  <2>6. /\ Len(last) \in Nat
        /\ DOMAIN lines = 1 .. n + Len(last)
        /\ \A k \in 1 .. n + Len(last) :
              lines[k] = IF k <= n THEN SubSeq(whole, 1, n)[k] ELSE last[k - n]
    <3>1. Len(last) \in Nat
      BY <2>5, LenProperties
    <3> QED BY <2>2, <2>4, <2>5, <3>1, ConcatProperties, LenProperties
  <2>7. ASSUME NEW k \in DOMAIN lines, lines[k].kind = "block"
        PROVE  k \in DOMAIN new /\ lines[k] = new[k]
    <3>1. CASE k <= n
      <4>1. k \in 1 .. n /\ k \in 1 .. Len(new) /\ k \in 1 .. n + Len(last)
        BY <1>1, <2>3, <2>6, <3>1
      <4>2. lines[k] = whole[k]
        BY <2>4, <2>6, <3>1, <4>1
      <4> QED BY <1>1, <2>3, <2>7, <4>1, <4>2
    <3>2. CASE ~(k <= n)
      <4>1. k - n \in 1 .. Len(last)
        BY <2>3, <2>6, <3>2
      <4> QED BY <2>5, <2>6, <2>7, <3>2, <4>1
    <3> QED BY <3>1, <3>2
  <2> QED BY <2>7
<1> QED BY <1>3, <1>4

(* An append that is not cut off leaves no torn line at the end.            *)
LEMMA WholeEndsWell ==
    ASSUME TypeOK, NEW new, Sound(new), NEW lines \in Whole(new), log' = log \o lines, Torn'
    PROVE  Torn /\ new = <<>>
<1>1. /\ log \in Seq(Line) /\ Len(log) \in Nat
      /\ new \in Seq(Line) /\ Len(new) \in Nat /\ DOMAIN new = 1 .. Len(new)
  BY LenProperties DEF Sound, TypeOK
<1>2. CASE new = <<>>
  <2>1. lines = <<>>
    BY <1>2 DEF Whole
  <2>2. log' = log
    BY <1>1, <2>1
  <2> QED BY <1>2, <2>2 DEF Torn
<1>3. CASE new # <<>>
  <2>1. /\ Head(new) \in Line /\ Head(new) = new[1]
        /\ Tail(new) \in Seq(Line)
        /\ Len(Tail(new)) = Len(new) - 1
        /\ \A k \in 1 .. Len(new) - 1 : Tail(new)[k] = new[k + 1]
    BY <1>1, <1>3, HeadTailProperties
  <2>2. PICK first \in (IF Torn THEN Glued(Head(new)) ELSE {Head(new)}) : lines = <<first>> \o Tail(new)
    BY <1>3 DEF Whole
  <2>3. Len(new) \in Nat \ {0}
    BY <1>1, <1>3, EmptySeq
  <2>4. first \in Line /\ first.kind # "torn"
    <3>1. CASE first = Head(new)
      BY <1>1, <2>1, <2>3, <3>1 DEF Sound
    <3>2. CASE first \in Glued(Head(new))
      <4>1. CASE Head(new).kind = "resolve"
        <5>1. PICK ts \in Head(new).resolves : first = Markers(Head(new).resolves \ {ts})
          BY <3>2, <4>1 DEF Glued
        <5>2. Head(new).resolves \ {ts} \in SUBSET Nat
          BY <2>1 DEF Line
        <5> QED BY <5>1, <5>2 DEF Markers, Line
      <4>2. CASE Head(new).kind # "resolve"
        BY <3>2, <4>2 DEF Glued, GluedLine, Entry, Line
      <4> QED BY <4>1, <4>2
    <3> QED BY <2>2, <3>1, <3>2
  <2>5. <<first>> \in Seq(Line) /\ Len(<<first>>) = 1 /\ <<first>>[1] = first
    BY <2>4
  <2>6. /\ lines \in Seq(Line)
        /\ Len(lines) = 1 + (Len(new) - 1)
        /\ \A k \in 1 .. 1 + (Len(new) - 1) :
              lines[k] = IF k <= 1 THEN <<first>>[k] ELSE Tail(new)[k - 1]
    BY <2>1, <2>2, <2>5, ConcatProperties
  <2>7. Len(lines) = Len(new)
    BY <2>3, <2>6
  <2>8. lines[Len(new)].kind # "torn"
    <3>1. CASE Len(new) = 1
      BY <2>4, <2>5, <2>6, <3>1
    <3>2. CASE Len(new) # 1
      <4>1. /\ Len(new) - 1 \in 1 .. Len(new) - 1 /\ ~(Len(new) <= 1)
            /\ Len(new) \in 1 .. 1 + (Len(new) - 1) /\ (Len(new) - 1) + 1 = Len(new)
            /\ Len(new) \in 1 .. Len(new)
        <5>1. ASSUME NEW n \in Nat \ {0}, n # 1
              PROVE  /\ n - 1 \in 1 .. n - 1 /\ ~(n <= 1)
                     /\ n \in 1 .. 1 + (n - 1) /\ (n - 1) + 1 = n
                     /\ n \in 1 .. n
          BY <5>1
        <5> QED BY <2>3, <3>2, <5>1
      <4>2. lines[Len(new)] = new[Len(new)]
        BY <2>1, <2>6, <4>1
      <4> QED BY <1>1, <4>1, <4>2 DEF Sound
    <3> QED BY <3>1, <3>2
  <2>9. /\ Len(log') = Len(log) + Len(new)
        /\ \A i \in 1 .. Len(log) + Len(new) :
              log'[i] = IF i <= Len(log) THEN log[i] ELSE lines[i - Len(log)]
    <3>1. /\ Len(log \o lines) = Len(log) + Len(lines)
          /\ \A i \in 1 .. Len(log) + Len(lines) :
                (log \o lines)[i] = IF i <= Len(log) THEN log[i] ELSE lines[i - Len(log)]
      BY <1>1, <2>6, ConcatProperties
    <3> QED BY <2>7, <3>1
  <2>10. log'[Len(log')] = lines[Len(new)]
    <3>1. /\ Len(log) + Len(new) \in 1 .. Len(log) + Len(new)
          /\ ~(Len(log) + Len(new) <= Len(log))
          /\ (Len(log) + Len(new)) - Len(log) = Len(new)
      BY <1>1, <2>3
    <3> QED BY <2>9, <3>1
  <2> QED BY <2>8, <2>10 DEF Torn
<1> QED BY <1>2, <1>3

-----------------------------------------------------------------------------
Tracked == can \cap {"same ms", "unreadable", "degraded"} = {}

(* What a line of the log resolves is no later than the last line. *)
Past == \A ts \in Resolved(log) : ts <= Len(log)

Hidden == {t \in failing : UnresolvedAbout(log, t) = {}}

HiddenInv ==
    Tracked => /\ Distinct
               /\ Past
               /\ IsFiniteSet(failing)
               /\ Cardinality(Hidden) + (IF Torn THEN 1 ELSE 0) <= 2 * faults

LEMMA TrackedInstants ==
    ASSUME Tracked
    PROVE  Instants = {Len(log) + 1} /\ \A lines : Readings(lines) = {lines}
BY DEF Tracked, Instants, Readings

LEMMA TrackedAppend ==
    ASSUME TypeOK, Distinct, Past, NEW instants \in SUBSET (0 .. Len(log) + 1),
           NEW new \in Seq(Lines(Len(log) + 1, instants)), Sound(new),
           NEW lines \in Whole(new) \cup CutOff(new), log' = log \o lines
    PROVE  /\ Distinct' /\ Past'
           /\ Resolved(log') \subseteq Resolved(log) \cup instants
           /\ \A t : \A i \in UnresolvedAbout(log, t) :
                 log[i].ts \notin instants => UnresolvedAbout(log', t) # {}
<1> DEFINE L == Lines(Len(log) + 1, instants)
<1>1. log \in Seq(Line) /\ Len(log) \in Nat /\ DOMAIN log = 1 .. Len(log)
  BY LenProperties DEF TypeOK
<1>2. instants \in SUBSET Nat
  BY <1>1
<1>3. lines \in Seq(L)
  BY <1>1, <1>2, WholeLines, CutOffLines
<1>4. lines \in Seq(Line) /\ Len(lines) \in Nat /\ DOMAIN lines = 1 .. Len(lines)
  BY <1>3, SeqMonotonic, LenProperties DEF Lines
<1>5. /\ log' \in Seq(Line)
      /\ Len(log') = Len(log) + Len(lines)
      /\ \A i \in 1 .. Len(log) + Len(lines) :
            log'[i] = IF i <= Len(log) THEN log[i] ELSE lines[i - Len(log)]
  BY <1>1, <1>4, ConcatProperties
<1>6. DOMAIN log' = 1 .. Len(log) + Len(lines)
  BY <1>5, LenProperties
<1>7. /\ \A i \in DOMAIN log : i \in DOMAIN log' /\ log'[i] = log[i]
      /\ Resolved(log') \subseteq Resolved(log) \cup instants
  BY <1>2, AppendedLines
<1>8. \A i \in DOMAIN log' \ DOMAIN log : i - Len(log) \in DOMAIN lines /\ log'[i] = lines[i - Len(log)]
  BY <1>1, <1>4, <1>5, <1>6
<1>9. \A i \in DOMAIN log : log[i].ts \in Nat /\ log[i].ts <= Len(log)
  <2> SUFFICES ASSUME NEW i \in DOMAIN log PROVE log[i].ts \in Nat /\ log[i].ts <= Len(log)
    OBVIOUS
  <2>1. log[i].ts \in Nat /\ log[i].ts <= i
    <3>1. log[i] \in Line
      BY <1>1, ElementOfSeq
    <3>2. log[i].ts \in Nat
      BY <3>1 DEF Line
    <3> QED BY <3>2 DEF TypeOK
  <2> QED BY <1>1, <2>1
<1>10. \A i \in DOMAIN log' \ DOMAIN log :
           log'[i].kind = "block" => log'[i].ts = Len(log) + 1 /\ i - Len(log) \in DOMAIN new /\ new[i - Len(log)].kind = "block"
  <2> SUFFICES ASSUME NEW i \in DOMAIN log' \ DOMAIN log, log'[i].kind = "block"
               PROVE  log'[i].ts = Len(log) + 1 /\ i - Len(log) \in DOMAIN new /\ new[i - Len(log)].kind = "block"
    OBVIOUS
  <2>1. i - Len(log) \in DOMAIN new /\ log'[i] = new[i - Len(log)]
    BY <1>8, DamageKeepsPlace
  <2> QED BY <2>1 DEF Sound
<1>11. Distinct'
  <2> SUFFICES ASSUME NEW i \in DOMAIN log', NEW j \in DOMAIN log',
                      log'[i].kind = "block", log'[j].kind = "block", log'[i].ts = log'[j].ts
               PROVE  i = j
    BY DEF Distinct
  <2>1. CASE i \in DOMAIN log /\ j \in DOMAIN log
    BY <1>7, <2>1 DEF Distinct
  <2>2. CASE i \in DOMAIN log /\ j \notin DOMAIN log
    <3>1. log'[j].ts = Len(log) + 1 /\ log'[i].ts <= Len(log) /\ log'[i].ts \in Nat
      BY <1>7, <1>9, <1>10, <2>2
    <3> QED BY <1>1, <3>1
  <2>3. CASE i \notin DOMAIN log /\ j \in DOMAIN log
    <3>1. log'[i].ts = Len(log) + 1 /\ log'[j].ts <= Len(log) /\ log'[j].ts \in Nat
      BY <1>7, <1>9, <1>10, <2>3
    <3> QED BY <1>1, <3>1
  <2>4. CASE i \notin DOMAIN log /\ j \notin DOMAIN log
    <3>1. i - Len(log) = j - Len(log)
      BY <1>10, <2>4 DEF Sound
    <3> QED BY <1>1, <1>6, <3>1
  <2> QED BY <2>1, <2>2, <2>3, <2>4
<1>12. Past'
  <2> SUFFICES ASSUME NEW ts \in Resolved(log') PROVE ts <= Len(log')
    BY DEF Past
  <2>1. PICK i \in DOMAIN log' : ts \in log'[i].resolves
    BY DEF Resolved
  <2>2. CASE i \in DOMAIN log
    <3>1. log[i] \in Line
      BY <1>1, <2>2, ElementOfSeq
    <3>2. ts \in Nat /\ ts \in Resolved(log)
      BY <1>7, <2>1, <2>2, <3>1 DEF Resolved, Line
    <3> QED BY <1>1, <1>4, <1>5, <3>2 DEF Past
  <2>3. CASE i \notin DOMAIN log
    <3>1. lines[i - Len(log)] \in L /\ Len(lines) >= 1
      BY <1>3, <1>4, <1>8, <2>3, ElementOfSeq
    <3>2. ts \in instants
      BY <1>8, <2>1, <2>3, <3>1 DEF Lines
    <3> QED BY <1>1, <1>4, <1>5, <3>1, <3>2
  <2> QED BY <2>2, <2>3
<1>13. ASSUME NEW t, NEW i \in UnresolvedAbout(log, t), log[i].ts \notin instants
       PROVE  i \in UnresolvedAbout(log', t)
  BY <1>7, <1>13 DEF UnresolvedAbout, Unresolved
<1> QED BY <1>7, <1>11, <1>12, <1>13

(* An append that fails or is cut off hides one target more and leaves at   *)
(* most one torn line; the line that is glued to a torn one uses that up.   *)
LEMMA HiddenCount ==
    ASSUME TypeOK, HiddenInv, Tracked, can' = can, IsFiniteSet(failing'), Distinct', Past',
           NEW t, Hidden' \subseteq Hidden \cup {t},
           \/ /\ faults' = faults
              /\ Torn' => Torn
              /\ Hidden' \subseteq Hidden \/ (Torn /\ ~Torn')
           \/ faults' = faults + 1
    PROVE  HiddenInv'
<1>1. faults \in Nat
  BY LogConstants DEF TypeOK
<1>2. /\ IsFiniteSet(failing)
      /\ Cardinality(Hidden) + (IF Torn THEN 1 ELSE 0) <= 2 * faults
  BY DEF HiddenInv
<1>3. IsFiniteSet(Hidden) /\ Cardinality(Hidden) \in Nat
  <2>1. Hidden \subseteq failing
    BY DEF Hidden
  <2> QED BY <1>2, <2>1, FS_Subset, FS_CardinalityType
<1>4. /\ IsFiniteSet(Hidden \cup {t})
      /\ Cardinality(Hidden \cup {t}) \in Nat
      /\ Cardinality(Hidden \cup {t}) <= Cardinality(Hidden) + 1
  <2>1. IsFiniteSet(Hidden \cup {t}) /\ Cardinality(Hidden \cup {t}) \in {Cardinality(Hidden), Cardinality(Hidden) + 1}
    BY <1>3, FS_AddElement
  <2> QED BY <1>3, <2>1
<1>5. /\ Cardinality(Hidden') \in Nat
      /\ Cardinality(Hidden') <= Cardinality(Hidden) + 1
      /\ Hidden' \subseteq Hidden => Cardinality(Hidden') <= Cardinality(Hidden)
  <2> DEFINE H == Hidden'
  <2>1. IsFiniteSet(H) /\ Cardinality(H) <= Cardinality(Hidden \cup {t})
    BY <1>4, FS_Subset
  <2>2. Cardinality(H) \in Nat
    BY <2>1, FS_CardinalityType
  <2>3. H \subseteq Hidden => Cardinality(H) <= Cardinality(Hidden)
    BY <1>3, FS_Subset
  <2> QED BY <1>3, <1>4, <2>1, <2>2, <2>3
<1>6. Cardinality(Hidden') + (IF Torn' THEN 1 ELSE 0) <= 2 * faults'
  <2>1. CASE faults' = faults + 1
    <3>1. Cardinality(Hidden) <= 2 * faults
      BY <1>1, <1>2, <1>3
    <3> QED BY <1>1, <1>3, <1>5, <2>1, <3>1
  <2>2. CASE faults' = faults /\ (Torn' => Torn) /\ Hidden' \subseteq Hidden
    BY <1>1, <1>2, <1>3, <1>5, <2>2
  <2>3. CASE faults' = faults /\ Torn /\ ~Torn'
    <3>1. Cardinality(Hidden) + 1 <= 2 * faults
      BY <1>2, <2>3
    <3> QED BY <1>1, <1>3, <1>5, <2>3, <3>1
  <2> QED BY <2>1, <2>2, <2>3
<1> QED BY <1>6 DEF HiddenInv, Tracked

(* A call keeps the invariant when it resolves no violation of a target     *)
(* that still fails; one that arrives whole has recorded what it should,    *)
(* unless its line was glued to a torn one.                                 *)
LEMMA HiddenKept ==
    ASSUME TypeOK, HiddenInv, Tracked, can' = can, IsFiniteSet(failing'),
           NEW instants \in SUBSET (0 .. Len(log) + 1),
           NEW new \in Seq(Lines(Len(log) + 1, instants)), Sound(new),
           \/ (\E lines \in Whole(new) : log' = log \o lines) /\ faults' = faults
           \/ (\E lines \in CutOff(new) : log' = log \o lines) /\ faults' = faults + 1,
           NEW t, failing' \subseteq failing \cup {t},
           \A u \in failing' \ {t} : UnresolvedAbout(log', u) = {} => UnresolvedAbout(log, u) = {},
           \/ Hidden' \subseteq Hidden
           \/ new # <<>> /\ (~Torn /\ log' = log \o new => t \notin Hidden')
    PROVE  HiddenInv'
<1>1. PICK lines \in Whole(new) \cup CutOff(new) :
          /\ log' = log \o lines
          /\ \/ lines \in Whole(new) /\ faults' = faults
             \/ faults' = faults + 1
  OBVIOUS
<1>2. Distinct' /\ Past'
  BY <1>1, TrackedAppend DEF HiddenInv
<1>3. Hidden' \subseteq Hidden \cup {t}
  BY DEF Hidden
<1>4. CASE faults' = faults + 1
  BY <1>2, <1>3, <1>4, HiddenCount
<1>5. CASE lines \in Whole(new) /\ faults' = faults
  <2>1. Torn' => Torn /\ new = <<>>
    BY <1>1, <1>5, WholeEndsWell
  <2>2. ~Torn => log' = log \o new
    BY <1>1, <1>5, UntornWhole DEF Sound
  <2>3. Hidden' \subseteq Hidden \/ (Torn /\ ~Torn')
    BY <1>3, <2>1, <2>2
  <2> QED BY <1>2, <1>3, <1>5, <2>1, <2>3, HiddenCount
<1> QED BY <1>1, <1>4, <1>5

LEMMA RunFailsHidden ==
    ASSUME TypeOK, HiddenInv, Tracked, NEW t \in Targets, RunFails(t)
    PROVE  HiddenInv'
<1> DEFINE entry == Entry("block", t, Len(log) + 1)
           new == <<entry>>
<1>1. AppendLog(new) /\ failing' = failing \cup {t} /\ can' = can
  <2>1. "degraded" \notin can
    BY DEF Tracked
  <2> QED BY <2>1, TrackedInstants DEF RunFails
<1>2. Len(log) \in Nat /\ Len(log) + 1 \in Nat
  BY LenProperties DEF TypeOK
<1>3. /\ entry \in Lines(Len(log) + 1, {})
      /\ entry.kind = "block" /\ entry.about = t /\ entry.ts = Len(log) + 1
  <2>1. entry \in Lines(Len(log) + 1, {})
    BY <1>2, EntryLine
  <2> QED BY <2>1 DEF Entry
<1>4. Sound(new)
  BY SoundEntry
<1> HIDE DEF entry
<1>5. /\ new \in Seq(Lines(Len(log) + 1, {})) /\ new \in Seq(Line) /\ new # <<>>
      /\ Len(new) = 1 /\ new[1] = entry
  <2>1. entry \in Line
    BY <1>3 DEF Lines
  <2> QED BY <1>3, <2>1
<1> HIDE DEF new
<1>6. \/ (\E lines \in Whole(new) : log' = log \o lines) /\ faults' = faults
      \/ (\E lines \in CutOff(new) : log' = log \o lines) /\ faults' = faults + 1
  BY <1>1 DEF AppendLog
<1>7. PICK lines \in Whole(new) \cup CutOff(new) : log' = log \o lines
  BY <1>6
<1>8. /\ Resolved(log') \subseteq Resolved(log)
      /\ \A u : UnresolvedAbout(log, u) # {} => UnresolvedAbout(log', u) # {}
  <2>1. {} \in SUBSET (0 .. Len(log) + 1)
    OBVIOUS
  <2> QED BY <1>4, <1>5, <1>7, <2>1, TrackedAppend DEF HiddenInv
<1>9. ASSUME log' = log \o new PROVE t \notin Hidden'
  <2>1. log \in Seq(Line)
    BY DEF TypeOK
  <2>2. Len(log) + 1 \in DOMAIN log' /\ log'[Len(log) + 1] = entry
    <3>1. /\ log \o new \in Seq(Line)
          /\ Len(log \o new) = Len(log) + 1
          /\ \A i \in 1 .. Len(log) + 1 :
                (log \o new)[i] = IF i <= Len(log) THEN log[i] ELSE new[i - Len(log)]
      BY <1>5, <2>1, ConcatProperties
    <3>2. /\ Len(log) + 1 \in 1 .. Len(log) + 1 /\ ~(Len(log) + 1 <= Len(log))
          /\ (Len(log) + 1) - Len(log) = 1
      BY <1>2
    <3>3. DOMAIN (log \o new) = 1 .. Len(log) + 1
      BY <3>1, LenProperties
    <3> QED BY <1>5, <1>9, <3>1, <3>2, <3>3
  <2>3. Len(log) + 1 \notin Resolved(log')
    BY <1>2, <1>8 DEF HiddenInv, Past
  <2>4. Len(log) + 1 \in UnresolvedAbout(log', t)
    BY <1>3, <2>2, <2>3 DEF UnresolvedAbout, Unresolved
  <2> QED BY <2>4 DEF Hidden
<1>10. IsFiniteSet(failing')
  <2>1. IsFiniteSet(failing)
    BY DEF HiddenInv
  <2> QED BY <1>1, <2>1, FS_AddElement
<1> QED BY <1>1, <1>4, <1>5, <1>6, <1>8, <1>9, <1>10, HiddenKept

LEMMA RunSucceedsHidden ==
    ASSUME TypeOK, HiddenInv, Tracked, NEW t \in Targets, RunSucceeds(t)
    PROVE  HiddenInv'
<1> DEFINE found == UnresolvedAbout(log, t)
           instants == {log[i].ts : i \in found}
           new == IF TooMany(found) THEN <<Entry("warn", t, Len(log) + 1)>> ELSE ResolveViolations(log, found)
<1>1. AppendLog(new) /\ failing' = failing \ {t} /\ can' = can
  <2>1. PICK lines \in Readings(log) :
          IF TooMany(UnresolvedAbout(lines, t))
          THEN \E ts \in Instants : AppendLog(<<Entry("warn", t, ts)>>)
          ELSE AppendLog(ResolveViolations(lines, UnresolvedAbout(lines, t)))
    BY DEF RunSucceeds
  <2>2. lines = log /\ \A ts \in Instants : ts = Len(log) + 1
    BY TrackedInstants
  <2>3. failing' = failing \ {t} /\ can' = can
    BY DEF RunSucceeds
  <2> QED BY <2>1, <2>2, <2>3
<1>2. /\ log \in Seq(Line) /\ Len(log) \in Nat /\ Len(log) + 1 \in Nat /\ DOMAIN log = 1 .. Len(log)
  BY LenProperties DEF TypeOK
<1>3. found \in SUBSET DOMAIN log
  BY UnresolvedLines
<1>4. instants \in SUBSET Nat /\ instants \in SUBSET (0 .. Len(log) + 1)
  <2>1. ASSUME NEW i \in found PROVE log[i].ts \in Nat /\ log[i].ts \in 0 .. Len(log) + 1
    <3>1. log[i] \in Line /\ i \in 1 .. Len(log)
      BY <1>2, <1>3, ElementOfSeq
    <3>2. log[i].ts \in Nat /\ log[i].ts <= i
      BY <1>3, <3>1 DEF Line, TypeOK
    <3> QED BY <1>2, <3>1, <3>2
  <2> QED BY <2>1
<1>5. new \in Seq(Lines(Len(log) + 1, instants)) /\ Sound(new)
  <2>1. CASE TooMany(found)
    <3>1. Entry("warn", t, Len(log) + 1) \in Lines(Len(log) + 1, instants)
      <4> HIDE DEF instants
      <4>1. Len(log) + 1 <= Len(log) + 1 /\ t \in Targets \cup {None}
        BY <1>2
      <4> QED BY <1>2, <1>4, <4>1, EntryLine
    <3>2. <<Entry("warn", t, Len(log) + 1)>> \in Seq(Lines(Len(log) + 1, instants))
      BY <3>1
    <3> QED BY <2>1, <3>2, SoundEntry
  <2>2. CASE ~TooMany(found)
    BY <1>2, <1>3, <2>2, MarkersAppended, SoundMarkers
  <2> QED BY <2>1, <2>2
<1> HIDE DEF new
<1>6. \/ (\E lines \in Whole(new) : log' = log \o lines) /\ faults' = faults
      \/ (\E lines \in CutOff(new) : log' = log \o lines) /\ faults' = faults + 1
  BY <1>1 DEF AppendLog
<1>7. PICK lines \in Whole(new) \cup CutOff(new) : log' = log \o lines
  BY <1>6
<1>8. \A u : \A i \in UnresolvedAbout(log, u) :
          log[i].ts \notin instants => UnresolvedAbout(log', u) # {}
  <2> HIDE DEF instants
  <2> QED BY <1>4, <1>5, <1>7, TrackedAppend DEF HiddenInv
<1>9. ASSUME NEW u \in failing' \ {t}, UnresolvedAbout(log, u) # {}
      PROVE  UnresolvedAbout(log', u) # {}
  <2>1. PICK i \in UnresolvedAbout(log, u) : TRUE
    BY <1>9
  <2>2. i \in DOMAIN log /\ log[i].kind = "block" /\ log[i].about = u
    BY DEF UnresolvedAbout, Unresolved
  <2>3. \A j \in found : j \in DOMAIN log /\ log[j].kind = "block" /\ log[j].about = t
    BY DEF UnresolvedAbout, Unresolved
  <2>4. \A j \in found : log[j].ts # log[i].ts
    BY <1>9, <2>2, <2>3 DEF HiddenInv, Distinct
  <2> QED BY <1>8, <2>4
<1>10. Hidden' \subseteq Hidden
  BY <1>1, <1>9 DEF Hidden
<1>11. IsFiniteSet(failing')
  <2>1. IsFiniteSet(failing)
    BY DEF HiddenInv
  <2> QED BY <1>1, <2>1, FS_Subset
<1> HIDE DEF instants
<1> QED BY <1>1, <1>4, <1>5, <1>6, <1>9, <1>10, <1>11, HiddenKept

(* What is appended about no target and resolves nothing. *)
LEMMA RefusalHidden ==
    ASSUME TypeOK, HiddenInv, Tracked, UNCHANGED <<can, failing>>,
           NEW new \in Seq(Lines(Len(log) + 1, {})), Sound(new), AppendLog(new)
    PROVE  HiddenInv'
<1>1. \/ (\E lines \in Whole(new) : log' = log \o lines) /\ faults' = faults
      \/ (\E lines \in CutOff(new) : log' = log \o lines) /\ faults' = faults + 1
  BY DEF AppendLog
<1>2. PICK lines \in Whole(new) \cup CutOff(new) : log' = log \o lines
  BY <1>1
<1>3. {} \in SUBSET (0 .. Len(log) + 1)
  OBVIOUS
<1>4. \A u : UnresolvedAbout(log, u) # {} => UnresolvedAbout(log', u) # {}
  BY <1>2, <1>3, TrackedAppend DEF HiddenInv
<1>5. Hidden' \subseteq Hidden
  BY <1>4 DEF Hidden
<1>6. IsFiniteSet(failing')
  BY DEF HiddenInv
<1> QED BY <1>1, <1>3, <1>4, <1>5, <1>6, HiddenKept

LEMMA RefusedHidden ==
    ASSUME TypeOK, HiddenInv, Tracked, Refuse \/ RefuseCompletion
    PROVE  HiddenInv'
<1>1. CASE Refuse
  <2>1. AppendLog(<<Entry("block", None, Len(log) + 1)>>) /\ UNCHANGED <<can, failing>>
    BY <1>1, TrackedInstants DEF Refuse
  <2>2. Len(log) + 1 \in Nat
    BY LenProperties DEF TypeOK
  <2>3. Entry("block", None, Len(log) + 1) \in Lines(Len(log) + 1, {})
    BY <2>2, EntryLine
  <2>4. <<Entry("block", None, Len(log) + 1)>> \in Seq(Lines(Len(log) + 1, {}))
    BY <2>3
  <2>5. Sound(<<Entry("block", None, Len(log) + 1)>>)
    BY SoundEntry
  <2> QED BY <2>1, <2>4, <2>5, RefusalHidden
<1>2. CASE RefuseCompletion
  <2> DEFINE new == TestRunRequested(Len(log) + 1) \o <<Entry("block", None, Len(log) + 1)>>
  <2>1. AppendLog(new) /\ UNCHANGED <<can, failing>>
    BY <1>2, TrackedInstants DEF RefuseCompletion
  <2>2. Len(log) + 1 \in Instants
    BY DEF Instants
  <2>3. new \in Seq(Lines(Len(log) + 1, {}))
    BY <2>2, RequestLines
  <2>4. Sound(new)
    BY SoundRequest
  <2> HIDE DEF new
  <2> QED BY <2>1, <2>3, <2>4, RefusalHidden
<1> QED BY <1>1, <1>2

(* Behind an open gate everything that fails is hidden already. *)
LEMMA CompletePhaseHidden ==
    ASSUME TypeOK, HiddenInv, Tracked, CompletePhase
    PROVE  HiddenInv'
<1> DEFINE passed == TestRunRequested(Len(log) + 1) \o <<Entry("pass", None, Len(log) + 1)>>
           read == log \o passed
<1>1. /\ UNCHANGED <<can, failing>>
      /\ \A t : UnresolvedAbout(log, t) = {}
  BY TrackedInstants DEF CompletePhase, GateOpens, UnresolvedAbout
<1>2. Len(log) \in Nat /\ log \in Seq(Line) /\ Len(log) + 1 \in Instants
  BY LenProperties DEF TypeOK, Instants
<1>3. Sound(passed) /\ \A k \in DOMAIN passed : passed[k].kind # "block"
  BY SoundRequest
<1>4. passed \in Seq(Lines(Len(log) + 1, {}))
  BY <1>2, RequestLines
<1> DEFINE left(lines) == Unresolved(lines, "block") \cup Unresolved(lines, "warn")
           markers(lines) == ResolveViolations(lines, left(lines))
           new(lines) == passed \o markers(lines)
<1>5. PICK arrived \in Whole(passed) :
          \E lines \in Readings(log \o arrived) :
             \/ (\E whole \in Whole(new(lines)) : log' = log \o whole) /\ faults' = faults
             \/ (\E part \in CutOff(new(lines)) : log' = log \o part) /\ faults' = faults + 1
  <2> DEFINE now(ts) == TestRunRequested(ts) \o <<Entry("pass", None, ts)>>
             Completes(ts, lines) ==
                \/ /\ \E whole \in Whole(now(ts) \o markers(lines)) : log' = log \o whole
                   /\ faults' = faults
                \/ /\ \E part \in CutOff(now(ts) \o markers(lines)) : log' = log \o part
                   /\ faults' = faults + 1
  <2>1. PICK ts \in Instants : \E arrived \in Whole(now(ts)) :
                                   \E lines \in Readings(log \o arrived) : Completes(ts, lines)
    BY DEF CompletePhase
  <2>2. ts = Len(log) + 1
    BY TrackedInstants
  <2> QED BY <2>1, <2>2
<1>6. PICK lines \in Readings(log \o arrived) :
         \/ (\E whole \in Whole(new(lines)) : log' = log \o whole) /\ faults' = faults
         \/ (\E part \in CutOff(new(lines)) : log' = log \o part) /\ faults' = faults + 1
  BY <1>5
<1> DEFINE instants == {lines[i].ts : i \in left(lines)}
<1>7. /\ lines \in Seq(Line)
      /\ \A i \in DOMAIN lines : lines[i].ts \in 0 .. Len(log) + 1
  <2>1. lines = log \o arrived
    BY TrackedInstants
  <2>2. arrived \in Seq(Lines(Len(log) + 1, {}))
    <3> HIDE DEF passed
    <3>1. {} \in SUBSET Nat /\ Len(log) + 1 \in Nat
      BY <1>2
    <3> QED BY <1>4, <3>1, WholeLines
  <2>3. log \in Seq(Lines(Len(log) + 1, Nat))
    <3>1. DOMAIN log = 1 .. Len(log)
      BY <1>2, LenProperties
    <3>2. ASSUME NEW i \in 1 .. Len(log) PROVE log[i] \in Lines(Len(log) + 1, Nat)
      <4>1. log[i] \in Line
        BY <1>2, ElementOfSeq
      <4>2. log[i].ts <= i /\ log[i].ts \in Nat /\ log[i].resolves \subseteq Nat
        BY <3>1, <4>1 DEF Line, TypeOK
      <4>3. log[i].ts <= Len(log) + 1
        BY <1>2, <4>2
      <4> QED BY <4>1, <4>2, <4>3 DEF Lines
    <3>3. log \in [1 .. Len(log) -> Lines(Len(log) + 1, Nat)]
      BY <1>2, <3>1, <3>2, LenProperties
    <3> QED BY <1>2, <3>3, IsASeq
  <2>4. Lines(Len(log) + 1, {}) \subseteq Lines(Len(log) + 1, Nat)
    BY DEF Lines
  <2>5. lines \in Seq(Lines(Len(log) + 1, Nat))
    BY <2>1, <2>2, <2>3, <2>4, SeqMonotonic, ConcatProperties
  <2>6. lines \in Seq(Line)
    BY <2>5, SeqMonotonic DEF Lines
  <2>7. ASSUME NEW i \in DOMAIN lines PROVE lines[i].ts \in 0 .. Len(log) + 1
    <3>1. lines[i] \in Lines(Len(log) + 1, Nat)
      BY <2>5, ElementOfSeq, LenProperties
    <3>2. lines[i].ts \in Nat /\ lines[i].ts <= Len(log) + 1
      BY <3>1 DEF Lines, Line
    <3> QED BY <1>2, <3>2
  <2> QED BY <2>6, <2>7
<1>8. left(lines) \in SUBSET DOMAIN lines
  BY UnresolvedLines
<1> HIDE DEF left
<1>9. instants \in SUBSET (0 .. Len(log) + 1) /\ instants \in SUBSET Nat
  BY <1>2, <1>7, <1>8
<1>10. /\ markers(lines) \in Seq(Lines(Len(log) + 1, instants))
       /\ Sound(markers(lines))
       /\ \A k \in DOMAIN markers(lines) : markers(lines)[k].kind = "resolve"
  <2>1. Len(log) + 1 \in Nat
    BY <1>2
  <2> QED BY <1>7, <1>8, <2>1, MarkersAppended, SoundMarkers
<1>11. passed \in Seq(Lines(Len(log) + 1, instants))
  BY <1>2, <1>9, RequestLines
<1> HIDE DEF passed, markers, instants
<1>12. new(lines) \in Seq(Lines(Len(log) + 1, instants)) /\ Sound(new(lines))
  BY <1>3, <1>10, <1>11, ConcatProperties, SoundConcat
<1>13. Hidden' \subseteq Hidden
  BY <1>1 DEF Hidden
<1>14. IsFiniteSet(failing')
  BY <1>1 DEF HiddenInv
<1> HIDE DEF new
<1> QED BY <1>1, <1>6, <1>9, <1>12, <1>13, <1>14, HiddenKept

LEMMA HiddenInvHolds == Spec => []HiddenInv
<1>1. Init => HiddenInv
  <2> SUFFICES ASSUME Init PROVE HiddenInv
    OBVIOUS
  <2>1. log = <<>> /\ failing = {} /\ faults = 0
    BY DEF Init
  <2>2. Hidden = {} /\ ~Torn /\ Resolved(log) = {} /\ Distinct
    BY <2>1 DEF Hidden, Torn, Resolved, Distinct
  <2>3. IsFiniteSet({}) /\ Cardinality({}) = 0
    BY FS_EmptySet
  <2> QED BY <2>1, <2>2, <2>3 DEF HiddenInv, Past
<1>2. TypeOK /\ HiddenInv /\ [Next]_vars => HiddenInv'
  <2> SUFFICES ASSUME TypeOK, HiddenInv, [Next]_vars, Tracked' PROVE HiddenInv'
    BY DEF HiddenInv
  <2>1. CASE UNCHANGED vars
    <3>1. UNCHANGED <<can, log, failing, faults>>
      BY <2>1 DEF vars
    <3>2. UNCHANGED <<Hidden, Torn>>
      BY <3>1 DEF Hidden, Torn, UnresolvedAbout, Unresolved, Resolved
    <3>3. (Distinct => Distinct') /\ (Past => Past')
      BY <3>1 DEF Distinct, Past, Resolved
    <3> QED BY <3>1, <3>2, <3>3 DEF HiddenInv, Tracked
  <2>2. CASE Next
    <3>1. can' = can
      BY <2>2 DEF Next, RunFails, RunSucceeds, RejectCheckpoint, InterceptWrite, Refuse,
                  RefuseCompletion, CompletePhase
    <3>2. Tracked
      BY <3>1 DEF Tracked
    <3>3. ASSUME NEW t \in Targets, RunFails(t) PROVE HiddenInv'
      BY <3>2, <3>3, RunFailsHidden
    <3>4. ASSUME NEW t \in Targets, RunSucceeds(t) PROVE HiddenInv'
      BY <3>2, <3>4, RunSucceedsHidden
    <3>5. CASE RejectCheckpoint \/ InterceptWrite \/ RefuseCompletion
      BY <3>2, <3>5, RefusedHidden DEF RejectCheckpoint, InterceptWrite
    <3>6. CASE CompletePhase
      BY <3>2, <3>6, CompletePhaseHidden
    <3> QED BY <2>2, <3>3, <3>4, <3>5, <3>6 DEF Next
  <2> QED BY <2>1, <2>2
<1> QED BY <1>1, <1>2, ViolationLogTypeOK, PTL DEF Spec

(* As long as timestamps are distinct, the log can be read and the observer *)
(* blocks, each append that failed or was cut off hides at most two failing *)
(* targets from the gate: the one it was about, and the one whose line was  *)
(* glued to what was left of it.                                            *)
THEOREM ViolationLogNothingHidden == Spec => []NothingHidden
<1>1. TypeOK /\ HiddenInv => NothingHidden
  <2> SUFFICES ASSUME TypeOK, HiddenInv, Tracked PROVE Cardinality(Hidden) <= 2 * faults
    BY DEF NothingHidden, Tracked, Hidden
  <2>1. /\ IsFiniteSet(Hidden) /\ Cardinality(Hidden) \in Nat
    <3>1. Hidden \subseteq failing /\ IsFiniteSet(failing)
      BY DEF Hidden, HiddenInv
    <3> QED BY <3>1, FS_Subset, FS_CardinalityType
  <2>2. faults \in Nat
    BY LogConstants DEF TypeOK
  <2>3. Cardinality(Hidden) + (IF Torn THEN 1 ELSE 0) <= 2 * faults
    BY DEF HiddenInv
  <2> QED BY <2>1, <2>2, <2>3
<1> QED BY <1>1, HiddenInvHolds, ViolationLogTypeOK, PTL

(* The gate is shut by an unresolved block that names no command or file.   *)
SelfShut == Tracked /\ \E i \in Unresolved(log, "block") : log[i].about = None

(* In the same instances, once a refused phase_complete, a rejected call or *)
(* an intercepted write is in the log, no step resolves it and no phase is  *)
(* completed any more: a success resolves only what names its target, and   *)
(* the end of a phase, which resolves the rest, is behind the gate.  The    *)
(* guidance of checkpoint.ts:542, fix the violations and complete the phase, *)
(* cannot be followed.                                                      *)
THEOREM RefusalsShutTheGateForGood == Spec => [][SelfShut => SelfShut' /\ phase' = phase]_vars
<1>1. TypeOK /\ HiddenInv /\ [Next]_vars => [SelfShut => SelfShut' /\ phase' = phase]_vars
  <2> SUFFICES ASSUME TypeOK, HiddenInv, Next, SelfShut PROVE SelfShut' /\ phase' = phase
    OBVIOUS
  <2>1. Tracked /\ Tracked' /\ Distinct
    BY DEF SelfShut, Tracked, HiddenInv, Next, RunFails, RunSucceeds, RejectCheckpoint, InterceptWrite,
           Refuse, RefuseCompletion, CompletePhase
  <2>2. PICK i \in Unresolved(log, "block") : log[i].about = None
    BY DEF SelfShut
  <2>3. i \in DOMAIN log /\ log[i].kind = "block"
    BY DEF Unresolved
  <2>4. ~CompletePhase
    BY <2>1, TrackedInstants DEF CompletePhase, GateOpens
  <2>5. phase' = phase
    BY <2>4 DEF Next, RunFails, RunSucceeds, RejectCheckpoint, InterceptWrite, Refuse, RefuseCompletion
  <2>6. PICK instants \in SUBSET Nat : Appends(instants) /\ log[i].ts \notin instants
    <3>1. CASE Appends({})
      BY <3>1
    <3>2. ASSUME NEW t \in Targets, RunFails(t) PROVE Appends({})
      BY <3>2, RunFailsAppends
    <3>3. ASSUME NEW t \in Targets, RunSucceeds(t)
          PROVE  \E instants \in SUBSET Nat : Appends(instants) /\ log[i].ts \notin instants
      <4> DEFINE named == {log[j].ts : j \in UnresolvedAbout(log, t)}
      <4>1. Appends(named) /\ named \in SUBSET Nat
        BY <3>3, RunSucceedsAppends
      <4>2. log[i].ts \notin named
        <5> SUFFICES ASSUME NEW j \in UnresolvedAbout(log, t), log[j].ts = log[i].ts PROVE FALSE
          OBVIOUS
        <5>1. j \in DOMAIN log /\ log[j].kind = "block" /\ log[j].about = t
          BY DEF UnresolvedAbout, Unresolved
        <5>2. i = j
          BY <2>1, <2>3, <5>1 DEF Distinct
        <5> QED BY <2>2, <5>1, <5>2, LogConstants
      <4> QED BY <4>1, <4>2
    <3>4. RejectCheckpoint \/ InterceptWrite \/ RefuseCompletion => Appends({})
      BY RefuseAppends, RefuseCompletionAppends DEF RejectCheckpoint, InterceptWrite
    <3> QED BY <2>4, <3>1, <3>2, <3>3, <3>4 DEF Next
  <2>7. i \in Unresolved(log', "block")
    BY <2>6, ForgivenWasNamed
  <2>8. log'[i] = log[i]
    BY <2>3, <2>6, AppendedLines DEF Appends
  <2> QED BY <2>1, <2>2, <2>5, <2>7, <2>8 DEF SelfShut
<1> QED BY <1>1, HiddenInvHolds, ViolationLogTypeOK, PTL DEF Spec
=================================================================================
