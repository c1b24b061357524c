------------------------------- MODULE ViolationLog -------------------------------
(***************************************************************************)
(* The violations of one pipeline run and the gate of phase_complete: the  *)
(* audit log of pipeline-store.ts, the writers in observer.ts, checkpoint.ts *)
(* and interceptor.ts, and the file underneath, core's state-store.ts.     *)
(*                                                                         *)
(* The log is append-only; a violation is resolved by further lines that   *)
(* name its timestamp.  The index of violations is rebuilt from the log at *)
(* every query, as no log is ever rotated, so here it is an operator on    *)
(* what a read of the log returns.  An append that fails is not reported,  *)
(* a read that fails returns no lines, and a line cut off in the middle    *)
(* takes the line appended after it with it.                               *)
(***************************************************************************)
EXTENDS Integers, Sequences, FiniteSets

CONSTANTS
    Targets,              \* commands and written files that are checked
    Phases,               \* phases of the run
    BUSINESS_CODE_PHASE,  \* constants.ts: 5
    RESOLVE_LIMIT,        \* observer.ts:297: 100
    MaxLog,               \* bound: violations are recorded up to this length of the log
    MaxFaults,            \* bound on appends that fail or are cut off
    Worlds,               \* instances, each a set of what can happen in it
    None                  \* an entry without tool, file and command

(* "hasty": phase_complete is called while the gate is closed; "cut off": a *)
(* process dies, or the disk fills, in the middle of its appends; "degraded": *)
(* the observer records warnings, as the plugin API registers no tools.     *)
Hazard == {"rejection", "intercept", "hasty", "cut off", "unreadable", "same ms", "degraded"}

ASSUME LogConstants ==
    /\ Phases \in Nat
    /\ RESOLVE_LIMIT \in Nat
    /\ MaxLog \in Nat
    /\ MaxFaults \in Nat
    /\ Worlds \subseteq SUBSET Hazard
    /\ None \notin Targets

VARIABLES
    can,      \* what can happen
    log,      \* audit.log of the run, its lines in order
    failing,  \* targets whose last run failed, or last text had a syntax error
    phase,    \* phases completed
    faults    \* appends that failed or were cut off

vars == <<can, log, failing, phase, faults>>

(* A "resolve" line stands for the markers one call appends, a "torn" line  *)
(* for one without its end, a "glued" one for two that became unreadable.   *)
Line == [kind : {"block", "warn", "pass", "resolve", "torn", "glued"},
         about : Targets \cup {None}, ts : Nat, resolves : SUBSET Nat]

Entry(kind, about, ts) == [kind |-> kind, about |-> about, ts |-> ts, resolves |-> {}]
Markers(instants) == [kind |-> "resolve", about |-> None, ts |-> 0, resolves |-> instants]
TornLine == Entry("torn", None, 0)
GluedLine == Entry("glued", None, 0)

-----------------------------------------------------------------------------
(* Queries: positions of the unresolved lines of a severity in what was read. *)

Resolved(lines) == UNION {lines[i].resolves : i \in DOMAIN lines}

Unresolved(lines, severity) ==
    {i \in DOMAIN lines : lines[i].kind = severity /\ lines[i].ts \notin Resolved(lines)}

UnresolvedAny(lines, t) == Unresolved(lines, "block")   \* mutant: the filter is dropped
UnresolvedAbout(lines, t) == {i \in Unresolved(lines, "block") : lines[i].about = t}

Readings(lines) == {lines} \cup (IF "unreadable" \in can THEN {<<>>} ELSE {})

GateForgetsFixes(lines) == \A i \in DOMAIN lines : lines[i].kind # "block"   \* mutant
GateFailsOpen(lines) == TRUE                                                 \* mutant
GateOpens(lines) == Unresolved(lines, "block") = {}

TooManyOffByOne(found) == Cardinality(found) >= RESOLVE_LIMIT   \* mutant
TooMany(found) == Cardinality(found) > RESOLVE_LIMIT

-----------------------------------------------------------------------------
(* Appends.  Instants: the clock moves on, or an entry gets the timestamp   *)
(* of an earlier one, of the same millisecond or of a handler that took its *)
(* time before it waited.                                                   *)

Instants == {Len(log) + 1} \cup (IF "same ms" \in can THEN {log[i].ts : i \in DOMAIN log} ELSE {})

Torn == log # <<>> /\ log[Len(log)].kind = "torn"

(* What becomes of a line, or of the markers of a call, behind a torn line. *)
Glued(line) == IF line.kind = "resolve"
               THEN {Markers(line.resolves \ {ts}) : ts \in line.resolves}
               ELSE {GluedLine}

Whole(new) ==
    IF new = <<>> THEN {<<>>}
    ELSE {<<first>> \o Tail(new) : first \in IF Torn THEN Glued(Head(new)) ELSE {Head(new)}}

(* What there may be of a line when its append is cut off.                  *)
Partly(line) ==
    {<<>>, <<TornLine>>}
    \cup (IF line.kind = "resolve"
          THEN UNION {{<<Markers(S)>>, <<Markers(S), TornLine>>} : S \in SUBSET line.resolves \ {line.resolves}}
          ELSE {})

CutOff(new) ==
    UNION {{SubSeq(whole, 1, n) \o last : last \in Partly(whole[n + 1])} :
              whole \in Whole(new), n \in 0 .. Len(new) - 1}

MayFail == "cut off" \in can /\ faults < MaxFaults

AppendLog(new) ==
    \/ /\ \E lines \in Whole(new) : log' = log \o lines
       /\ UNCHANGED faults
    \/ /\ MayFail
       /\ \E lines \in CutOff(new) : log' = log \o lines
       /\ faults' = faults + 1

ResolveViolations(lines, found) ==
    IF found = {} THEN <<>> ELSE <<Markers({lines[i].ts : i \in found})>>

-----------------------------------------------------------------------------
Init ==
    /\ can \in Worlds
    /\ log = <<>>
    /\ failing = {}
    /\ phase = 0
    /\ faults = 0

RunNeverCleared == phase <= Phases   \* mutant: the last phase leaves the run active
RunActive == phase < Phases

RoomForEntry == RunActive /\ Len(log) < MaxLog

(* The observer, after a command or a write of an active run.               *)
RunFails(t) ==
    /\ RoomForEntry
    /\ \E ts \in Instants :
          AppendLog(<<Entry(IF "degraded" \in can THEN "warn" ELSE "block", t, ts)>>)
    /\ failing' = failing \cup {t}
    /\ UNCHANGED <<can, phase>>

(* A success resolves what is recorded about the same command or file.      *)
RunSucceeds(t) ==
    /\ RunActive
    /\ \E lines \in Readings(log) :
          LET found == UnresolvedAbout(lines, t) IN
          IF TooMany(found)
          THEN /\ RoomForEntry
               /\ \E ts \in Instants : AppendLog(<<Entry("warn", t, ts)>>)
          ELSE AppendLog(ResolveViolations(lines, found))
    /\ failing' = failing \ {t}
    /\ UNCHANGED <<can, phase>>

(* What the checkpoint handler and the interceptor refuse goes into the log *)
(* as a BLOCK without tool, file or command.                                *)
Refuse ==
    /\ RoomForEntry
    /\ \E ts \in Instants : AppendLog(<<Entry("block", None, ts)>>)
    /\ UNCHANGED <<can, failing, phase>>

RejectCheckpoint == "rejection" \in can /\ Refuse
InterceptWrite == "intercept" \in can /\ Refuse

(* phase_complete.  It requests a test run before it looks at the gate.     *)
TestRunRequested(ts) ==
    IF phase + 1 = BUSINESS_CODE_PHASE THEN <<Entry("warn", None, ts)>> ELSE <<>>

RefuseCompletion ==
    /\ "hasty" \in can
    /\ RoomForEntry
    /\ ~GateOpens(log)
    /\ \E ts \in Instants : AppendLog(TestRunRequested(ts) \o <<Entry("block", None, ts)>>)
    /\ UNCHANGED <<can, failing, phase>>

(* The state is written before the PASS line, and with it all that is still *)
(* unresolved is resolved; when the appends fail or stop, what arrived of   *)
(* them says how far the call may have got.                                 *)
CompletePhase ==
    /\ RunActive
    /\ \E lines \in Readings(log) : GateOpens(lines)
    /\ \E ts \in Instants :
          LET passed == TestRunRequested(ts) \o <<Entry("pass", None, ts)>> IN
          \E arrived \in Whole(passed) :
          \E lines \in Readings(log \o arrived) :
             LET new == passed \o ResolveViolations(lines,
                            Unresolved(lines, "block") \cup Unresolved(lines, "warn"))
             IN \/ /\ \E whole \in Whole(new) : log' = log \o whole
                   /\ phase' = phase + 1
                   /\ UNCHANGED faults
                \/ /\ MayFail
                   /\ \E part \in CutOff(new) :
                         /\ log' = log \o part
                         /\ phase' \in {phase + 1} \cup (IF Len(part) < Len(passed) THEN {phase} ELSE {})
                   /\ faults' = faults + 1
    /\ UNCHANGED <<can, failing>>

Next ==
    \/ \E t \in Targets : RunFails(t) \/ RunSucceeds(t)
    \/ RejectCheckpoint \/ InterceptWrite \/ RefuseCompletion \/ CompletePhase

(* A patient agent: what fails is run again until it succeeds, and the      *)
(* phase is completed when the gate is open.                                *)
Fairness ==
    /\ \A t \in Targets : WF_vars(t \in failing /\ RunSucceeds(t))
    /\ WF_vars(CompletePhase)

Spec == Init /\ [][Next]_vars /\ Fairness
=============================================================================
