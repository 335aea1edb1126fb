--------------------------- MODULE ReporterProbe ---------------------------
(***************************************************************************)
(* Probes (module::AProbe) are tasks of the stages of a pipeline.  Each    *)
(* has a column of a tools::Reporter_probe, a ring to which it pushes a    *)
(* value for each frame, or one for each frame of a wave at once.  A       *)
(* report pulls rows of values, a column after the other: from the stop    *)
(* condition of the last stage, from a thread of tools::Terminal, or when  *)
(* all is over.  A push and a pull hold the mutex of the column and are a  *)
(* step each.  Values are numbers of calls: the k-th value of a column in  *)
(* an execution is k, whatever the probe measures.                         *)
(***************************************************************************)
EXTENDS Integers, Sequences, FiniteSets, Functions, FiniteSetsExt

CONSTANTS
    StageOf,            \* StageOf[p]: the stage of probe p, which is column p
    Ahead,              \* waves that a stage may start before the next one ends them
    FrameCounts,        \* values of set_n_frames
    BufferSizes,        \* values of set_cols_buff_size
    MaxWaves,           \* bound: waves of an execution
    MaxRuns             \* bound: executions

Probes == DOMAIN StageOf
Stages == Range(StageOf)
LastStage == Max(Stages)

\* Every stage from the first to the last has a probe; a wave has a frame and
\* register_probe refuses a ring without room.
ASSUME ProbesAssumption ==
    /\ StageOf \in Seq(Nat \ {0}) /\ StageOf # <<>>
    /\ Stages = 1 .. Cardinality(Stages)
    /\ Ahead \in Nat \ {0}
    /\ FrameCounts \subseteq Nat \ {0} /\ BufferSizes \subseteq Nat \ {0}
    /\ MaxWaves \in Nat /\ MaxRuns \in Nat

VARIABLES
    pc,                 \* "rest", "exec", "stop", "notify", "join", "final", "undefined"
    mode,               \* who reports: the last "stage", when it stops, "terminal" or "nobody"
    runs,
    nFrames, buffSize,
    ring,               \* ring[p]: [cells, head, tail], numbered from 0 as in the code
    done, next,         \* waves that a stage has ended, values pushed in its current wave
    stopTerminal,       \* stop_terminal
    terminal,           \* "none", "test", "lock", "wait" or "report"
    report,             \* rows that are left to the report of the caller
    row,                \* the row it is in, or its last one
    calls, lost,        \* values that a probe has pushed, and that found no room
    told, lastTold      \* values that reports have pulled from a column

settings == <<runs, nFrames, buffSize>>
history == <<calls, lost, told, lastTold>>
vars == <<pc, mode, settings, ring, done, next, stopTerminal, terminal, report, row, history>>

NoValue == 0
Reporters == {"stage", "terminal", "main"}
Zeros == [p \in Probes |-> 0]
NewRing(size) == [cells |-> [i \in 1 .. size |-> NoValue], head |-> 0, tail |-> 0]

Init ==
    /\ pc = "rest" /\ mode = "nobody" /\ runs = 0
    /\ nFrames \in FrameCounts /\ buffSize \in BufferSizes
    /\ ring = [p \in Probes |-> NewRing(nFrames * buffSize)]
    /\ done = [s \in Stages |-> 0] /\ next = [s \in Stages |-> 0]
    /\ stopTerminal = FALSE /\ terminal = "none"
    /\ report = [r \in Reporters |-> 0] /\ row = [r \in Reporters |-> <<>>]
    /\ calls = Zeros /\ lost = Zeros /\ told = Zeros /\ lastTold = Zeros

(***************************************************************************)
(* The ring of a column.                                                   *)
(***************************************************************************)
Size(p) == Len(ring[p].cells)
ColSize(p) == ring[p].head - ring[p].tail + (IF ring[p].head >= ring[p].tail THEN 0 ELSE Size(p))
Content(p) == [i \in 1 .. ColSize(p) |-> ring[p].cells[((ring[p].tail + i - 1) % Size(p)) + 1]]

FullAtSize(p) == ColSize(p) = Size(p)                     \* mutant of Full
Full(p) == ColSize(p) = Size(p) - 1

Pushed(p) ==
    [ring[p] EXCEPT !.cells[ring[p].head + 1] = calls[p] + 1, !.head = (@ + 1) % Size(p)]

Pulled(p) == [ring[p] EXCEPT !.tail = (@ + 1) % Size(p)]

(***************************************************************************)
(* Between two executions.  A ring changes its size and keeps its indices, *)
(* also those that are no longer inside it: the next push writes out of    *)
(* the ring.  reset puts them back.                                        *)
(***************************************************************************)
Resized(size) ==
    [p \in Probes |->
        [ring[p] EXCEPT !.cells = [i \in 1 .. size |-> IF i <= Size(p) THEN @[i] ELSE NoValue]]]

Resize(size) ==
    /\ pc = "rest" /\ runs < MaxRuns
    /\ ring' = Resized(size)
    /\ UNCHANGED <<pc, mode, runs, done, next, stopTerminal, terminal, report, row, history>>

SetNFrames(n) ==
    /\ n # nFrames
    /\ Resize(n * (Size(1) \div nFrames))
    /\ nFrames' = n
    /\ UNCHANGED buffSize

SetBuffSize(b) ==
    /\ b # buffSize
    /\ Resize(nFrames * b)
    /\ buffSize' = b
    /\ UNCHANGED nFrames

Reset ==
    /\ pc = "rest"
    /\ ring' = [p \in Probes |-> [ring[p] EXCEPT !.head = 0, !.tail = 0]]
    /\ UNCHANGED <<pc, mode, settings, done, next, stopTerminal, terminal, report, row, history>>

\* exec, after start_temp_report if a terminal reports.
Start(m) ==
    /\ pc = "rest" /\ runs < MaxRuns
    /\ pc' = "exec" /\ mode' = m /\ runs' = runs + 1
    /\ terminal' = IF m = "terminal" THEN "test" ELSE "none"
    /\ done' = [s \in Stages |-> 0] /\ next' = [s \in Stages |-> 0]
    /\ UNCHANGED <<nFrames, buffSize, ring, stopTerminal, report, row, history>>

(***************************************************************************)
(* The stages.  One that is ahead waits for the adaptor, and each ends a   *)
(* wave after the one before.                                              *)
(***************************************************************************)
ProbesOf(s) == {p \in Probes : StageOf[p] = s}
Rank(p) == Cardinality({q \in ProbesOf(StageOf[p]) : q < p})
Current(s) == CHOOSE p \in ProbesOf(s) : Rank(p) = next[s] \div nFrames
EndsWave(s) == next[s] + 1 = nFrames * Cardinality(ProbesOf(s))

InTurn(s) ==                                              \* mutant of MayRun
    /\ pc = "exec" /\ (s = LastStage => report["stage"] = 0)
    /\ done[s] < MaxWaves
    /\ s - 1 \in Stages => done[s] < done[s - 1]
MayRun(s) ==
    /\ pc = "exec" /\ (s = LastStage => report["stage"] = 0)
    /\ done[s] < MaxWaves
    /\ s - 1 \in Stages => done[s] < done[s - 1]
    /\ s + 1 \in Stages => done[s] < done[s + 1] + Ahead

PushValue(p) ==
    /\ calls' = [calls EXCEPT ![p] = @ + 1]
    /\ IF Full(p) THEN lost' = [lost EXCEPT ![p] = @ + 1] /\ UNCHANGED <<ring, pc>>
       ELSE IF ring[p].head >= Size(p) THEN pc' = "undefined" /\ UNCHANGED <<ring, lost>>
       ELSE ring' = [ring EXCEPT ![p] = Pushed(p)] /\ UNCHANGED <<lost, pc>>

\* With the stop condition of the last stage after its last value.
Probe(s) ==
    /\ MayRun(s)
    /\ PushValue(Current(s))
    /\ next' = [next EXCEPT ![s] = IF EndsWave(s) THEN 0 ELSE @ + 1]
    /\ done' = [done EXCEPT ![s] = IF EndsWave(s) THEN @ + 1 ELSE @]
    /\ report' = IF s = LastStage /\ EndsWave(s) /\ mode = "stage"
                 THEN [report EXCEPT !["stage"] = nFrames] ELSE report
    /\ UNCHANGED <<mode, settings, stopTerminal, terminal, row, told, lastTold>>

(***************************************************************************)
(* Reporter_probe::report, a column at a time: n_frames rows, or in the    *)
(* final report rows up to the first one without a value.                  *)
(***************************************************************************)
Columns == Len(StageOf)

Column(r) == IF Len(row[r]) = Columns THEN 1 ELSE Len(row[r]) + 1
WithValue(r, v) == IF Len(row[r]) = Columns THEN <<v>> ELSE Append(row[r], v)

CanPull(values) == Range(values) # {NoValue}

RowsLeft(r, values) ==
    IF Len(values) < Columns THEN report[r]
    ELSE IF r = "main" THEN (IF CanPull(values) THEN 1 ELSE 0)
    ELSE report[r] - 1

Pull(r) ==
    LET p == Column(r)
        empty == ColSize(p) = 0
        v == IF empty THEN NoValue ELSE Content(p)[1] IN
    /\ pc # "undefined" /\ report[r] > 0
    /\ row' = [row EXCEPT ![r] = WithValue(r, v)]
    /\ report' = [report EXCEPT ![r] = RowsLeft(r, WithValue(r, v))]
    /\ IF empty THEN UNCHANGED <<ring, told, lastTold>>
       ELSE /\ ring' = [ring EXCEPT ![p] = Pulled(p)]
            /\ told' = [told EXCEPT ![p] = @ + 1]
            /\ lastTold' = [lastTold EXCEPT ![p] = v]
    /\ UNCHANGED <<pc, mode, settings, done, next, stopTerminal, terminal, calls, lost>>

(***************************************************************************)
(* start_thread_terminal.  The flag is tested before the mutex is taken: a *)
(* notification in between is lost, and the wait ends with its time.       *)
(***************************************************************************)
Untold == UNCHANGED <<mode, settings, ring, done, next, history>>

TerminalTests ==
    /\ terminal = "test" /\ pc # "undefined"
    /\ terminal' = IF stopTerminal THEN "none" ELSE "lock"
    /\ Untold /\ UNCHANGED <<pc, stopTerminal, report, row>>

TerminalWaits ==
    /\ terminal = "lock" /\ pc # "undefined"
    /\ terminal' = "wait"
    /\ Untold /\ UNCHANGED <<pc, stopTerminal, report, row>>

NoTimeout == FALSE                                        \* mutant of Timeout
Timeout == terminal = "wait"

TerminalReports ==
    /\ Timeout /\ pc # "undefined"
    /\ terminal' = "report"
    /\ report' = [report EXCEPT !["terminal"] = nFrames]
    /\ row' = [row EXCEPT !["terminal"] = <<>>]
    /\ Untold /\ UNCHANGED <<pc, stopTerminal>>

TerminalReported ==
    /\ terminal = "report" /\ report["terminal"] = 0 /\ pc # "undefined"
    /\ terminal' = "test"
    /\ Untold /\ UNCHANGED <<pc, stopTerminal, report, row>>

SpuriousWakeup ==
    /\ terminal = "wait" /\ pc # "undefined"
    /\ terminal' = "test"
    /\ Untold /\ UNCHANGED <<pc, stopTerminal, report, row>>

(***************************************************************************)
(* The end of the execution and final_report, which calls stop_temp_report *)
(* first.                                                                  *)
(***************************************************************************)
ExecReturns ==
    /\ pc = "exec" /\ report["stage"] = 0 /\ \A s \in Stages : done[s] = MaxWaves
    /\ pc' = "stop"
    /\ Untold /\ UNCHANGED <<stopTerminal, terminal, report, row>>

StopTerminal ==
    /\ pc = "stop"
    /\ IF mode = "terminal" THEN pc' = "notify" /\ stopTerminal' = TRUE
       ELSE pc' = "join" /\ UNCHANGED stopTerminal
    /\ Untold /\ UNCHANGED <<terminal, report, row>>

Notify ==
    /\ pc = "notify"
    /\ pc' = "join"
    /\ terminal' = IF terminal = "wait" THEN "test" ELSE terminal
    /\ Untold /\ UNCHANGED <<stopTerminal, report, row>>

Join ==
    /\ pc = "join" /\ terminal = "none"
    /\ pc' = "final"
    /\ stopTerminal' = FALSE
    /\ report' = [report EXCEPT !["main"] = 1]
    /\ row' = [row EXCEPT !["main"] = <<>>]
    /\ Untold /\ UNCHANGED terminal

FinalReported ==
    /\ pc = "final" /\ report["main"] = 0
    /\ pc' = "rest"
    /\ row' = [r \in Reporters |-> <<>>]
    /\ calls' = Zeros /\ lost' = Zeros /\ told' = Zeros /\ lastTold' = Zeros
    /\ UNCHANGED <<mode, settings, ring, done, next, stopTerminal, terminal, report>>

Next ==
    \/ \E n \in FrameCounts : SetNFrames(n)
    \/ \E b \in BufferSizes : SetBuffSize(b)
    \/ \E m \in {"stage", "terminal", "nobody"} : Start(m)
    \/ \E s \in Stages : Probe(s)
    \/ \E r \in Reporters : Pull(r)
    \/ Reset \/ SpuriousWakeup
    \/ TerminalTests \/ TerminalWaits \/ TerminalReports \/ TerminalReported
    \/ ExecReturns \/ StopTerminal \/ Notify \/ Join \/ FinalReported

Fairness ==
    /\ \A s \in Stages : WF_vars(Probe(s))
    /\ \A r \in Reporters : WF_vars(Pull(r))
    /\ WF_vars(TerminalTests) /\ WF_vars(TerminalWaits)
    /\ WF_vars(TerminalReports) /\ WF_vars(TerminalReported)
    /\ WF_vars(ExecReturns \/ StopTerminal \/ Notify \/ Join \/ FinalReported)

Spec == Init /\ [][Next]_vars /\ Fairness

(***************************************************************************)
(* Properties                                                              *)
(***************************************************************************)
Whole(r) == Len(row[r]) = Columns /\ NoValue \notin Range(row[r])

\* The rows of a report are the frames: when the last stage reports after each wave
\* and the rings hold two waves more than a stage is ahead, every row holds the
\* values of one frame, none is missing and none was dropped on the way; and so do
\* the rows of a final report, unless a probe found its ring full.
Aligned ==
    /\ (pc = "exec" /\ mode = "stage" /\ buffSize > Ahead * (LastStage - 1) + 1) =>
        /\ lost = Zeros
        /\ Len(row["stage"]) = Columns => Whole("stage") /\ Cardinality(Range(row["stage"])) = 1
    /\ (pc = "final" /\ mode = "nobody" /\ lost = Zeros /\ Whole("main")) =>
        Cardinality(Range(row["main"])) = 1

\* Whoever reports, and while the stages push: a column gives its values in their
\* order and once, those that found room are in the ring or told, and after a final
\* report all are told.
ToldOnce ==
    pc # "undefined" =>
        /\ \A p \in Probes :
            /\ told[p] + ColSize(p) + lost[p] = calls[p]
            /\ \A i \in 1 .. ColSize(p) :
                Content(p)[i] > (IF i = 1 THEN lastTold[p] ELSE Content(p)[i - 1])
        /\ pc = "rest" => \A p \in Probes : ColSize(p) = 0

\* An execution ends with its final report, also if the terminal has missed the
\* notification or reports meanwhile.
Ends == (pc = "exec") ~> (pc \in {"rest", "undefined"})

=============================================================================
