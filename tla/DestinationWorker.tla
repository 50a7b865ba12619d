--------------------------- MODULE DestinationWorker ---------------------------
(***************************************************************************)
(* relay_agent/worker.py DestinationWorker: the thread that keeps one      *)
(* FFmpeg alive, the thread that reads its progress, and stop() called by  *)
(* the supervisor.  Time is counted in ticks; a step that the code takes   *)
(* without waiting is taken before the next tick (Urgent).  What FFmpeg    *)
(* reports is one number, the larger of total_size and out_time_us.  The   *)
(* specification is named WorkerSpec, since WorkerProofs extends this      *)
(* module beside WorkerSupervisor.                                         *)
(***************************************************************************)
EXTENDS Integers, Sequences

CONSTANTS
    Backoffs,       \* BACKOFF_SECONDS (2, 5, 10, 20, 30)
    StallAfter,     \* 30 seconds without progress
    Grace,          \* 5 seconds between SIGTERM and SIGKILL
    ResetAfter,     \* a run of 60 seconds resets the backoff
    JoinTakes,      \* 2 seconds for the joins of the two readers
    PopenTakes,     \* bound on the time Popen takes
    MaxTotal        \* bound on the progress FFmpeg reports in one run

ASSUME BackoffsAssumption == Backoffs \in Seq(Nat \ {0}) /\ Backoffs # <<>>
ASSUME TimesAssumption ==
    {StallAfter, Grace, ResetAfter, JoinTakes, PopenTakes, MaxTotal} \subseteq Nat

NoLine == -1

VARIABLES
    thread,     \* where _run is
    stop,       \* _stop
    alive,      \* the FFmpeg process of the current run is alive
    known,      \* _process is set
    signalled,  \* SIGTERM was sent to it
    state,      \* _state, as status() reports it
    counted,    \* _output_bytes / _media_time_us
    age,        \* now - (_last_progress_monotonic or started_monotonic)
    index,      \* backoff_index (from 1)
    timer,      \* what is left of Popen, of the grace period or of the delay
    run,        \* runtime of the current run, capped at ResetAfter
    emitted,    \* external: the total FFmpeg reported last in this run
    line,       \* a progress report of this run waiting in the pipe
    oldLine,    \* one of the previous run, with a reader that outlived it
    silent,     \* history: ticks since the run began or FFmpeg last reported more
    shortRuns,  \* history: runs in a row that ended early or never started
    sinceEnd,   \* history: ticks since the last process ended or failed to start
    sinceStop,  \* history: ticks since stop() was called
    misread     \* history: a report of an earlier run was counted in this one

worker == <<thread, stop, known, state, counted, age, index, timer, run>>
process == <<alive, signalled, emitted, line>>
history == <<silent, shortRuns, sinceEnd, sinceStop, misread>>
workerVars == <<worker, process, oldLine, history>>

Least(a, b) == IF a < b THEN a ELSE b
StopTakes == PopenTakes + Grace + JoinTakes
LastBackoff == Len(Backoffs)
LongestDelay == CHOOSE d \in {Backoffs[i] : i \in 1 .. LastBackoff} :
                    \A i \in 1 .. LastBackoff : d >= Backoffs[i]

WorkerInit ==
    /\ thread = "top" /\ stop = FALSE /\ known = FALSE /\ state = "created"
    /\ counted = 0 /\ age = 0 /\ index = 1 /\ timer = 0 /\ run = 0
    /\ alive = FALSE /\ signalled = FALSE /\ emitted = 0 /\ line = NoLine /\ oldLine = NoLine
    /\ silent = 0 /\ shortRuns = 0 /\ sinceEnd = LongestDelay /\ sinceStop = 0
    /\ misread = FALSE

-------------------------------------------------------------------------------
\* Mutant: the instant of the last progress survives from the run before.
BeginRunKeepingAge ==
    /\ thread = "top" /\ ~stop
    /\ thread' = "spawning"
    /\ state' = "starting"
    /\ counted' = 0 /\ run' = 0
    /\ timer' = PopenTakes
    /\ silent' = 0
    /\ UNCHANGED <<stop, known, age, index, process, oldLine, shortRuns, sinceEnd,
                   sinceStop, misread>>

\* while not stop: reset what the status and the stall test look at.
BeginRun ==
    /\ thread = "top" /\ ~stop
    /\ thread' = "spawning"
    /\ state' = "starting"
    /\ counted' = 0 /\ age' = 0 /\ run' = 0
    /\ timer' = PopenTakes
    /\ silent' = 0
    /\ UNCHANGED <<stop, known, index, process, oldLine, shortRuns, sinceEnd,
                   sinceStop, misread>>

Finish ==
    /\ thread' = "ended"
    /\ state' = "stopped"

LoopEnds ==
    /\ thread = "top" /\ stop
    /\ Finish
    /\ UNCHANGED <<stop, known, counted, age, index, timer, run, process, oldLine,
                   history>>

\* Popen succeeds; stop() does not see the process yet.
Spawned ==
    /\ thread = "spawning"
    /\ thread' = "spawned"
    /\ alive' = TRUE /\ signalled' = FALSE /\ emitted' = 0 /\ line' = NoLine
    /\ UNCHANGED <<stop, known, state, counted, age, index, timer, run, oldLine, history>>

\* Mutant: a stop requested meanwhile is taken for done.
SetProcessUnlessStopped ==
    /\ thread = "spawned"
    /\ thread' = IF stop THEN "ended" ELSE "running"
    /\ known' = TRUE /\ state' = "running"
    /\ UNCHANGED <<stop, counted, age, index, timer, run, process, oldLine, history>>

\* _process and _started_at are set under the process lock, the readers are started.
SetProcess ==
    /\ thread = "spawned"
    /\ thread' = "running"
    /\ known' = TRUE /\ state' = "running"
    /\ UNCHANGED <<stop, counted, age, index, timer, run, process, oldLine, history>>

ShortRun == shortRuns' = Least(shortRuns + 1, LastBackoff)

\* OSError from Popen: wait the current delay, the index moves when it is over.
SpawnFails ==
    /\ thread = "spawning"
    /\ thread' = "failed" /\ state' = "failed"
    /\ timer' = Backoffs[index]
    /\ ShortRun /\ sinceEnd' = 0
    /\ UNCHANGED <<stop, known, counted, age, index, run, process, oldLine, silent,
                   sinceStop, misread>>

\* The polling loop finds no progress for too long.
Stall ==
    /\ thread = "running" /\ alive /\ ~stop
    /\ age > StallAfter
    /\ thread' = "reaping" /\ state' = "stalled"
    /\ signalled' = TRUE
    /\ timer' = Grace
    /\ UNCHANGED <<stop, known, counted, age, index, run, alive, emitted, line,
                   oldLine, history>>

\* The polling loop finds the process gone or the event set.
LeavePolling ==
    /\ thread = "running"
    /\ ~alive \/ stop
    /\ thread' = "reaping"
    /\ signalled' = (signalled \/ (stop /\ alive))
    /\ timer' = Grace
    /\ UNCHANGED <<stop, known, state, counted, age, index, run, alive, emitted, line, oldLine,
                   history>>

\* wait(timeout=5) ran out: SIGKILL.
ForceKill ==
    /\ thread = "reaping" /\ alive /\ timer = 0
    /\ alive' = FALSE
    /\ UNCHANGED <<worker, signalled, emitted, line, oldLine, history>>

\* Mutant: the backoff starts anew after every run.
FirstDelay == 1

\* Where the backoff stands after a run: a long one resets it.
DelayIndex == IF run >= ResetAfter THEN 1 ELSE index

\* wait returns: both readers are joined, for a second each.
Reap ==
    /\ thread = "reaping" /\ ~alive
    /\ thread' = "joining"
    /\ timer' = JoinTakes
    /\ UNCHANGED <<stop, known, state, counted, age, index, run, process, oldLine,
                   history>>

\* They have ended, or one that reads on keeps its line.  Then stop or back off.
ReadersJoined ==
    /\ thread = "joining"
    /\ line = NoLine \/ timer = 0
    /\ oldLine' = IF line = NoLine THEN oldLine ELSE line
    /\ line' = NoLine
    /\ known' = FALSE
    /\ IF stop
       THEN Finish /\ UNCHANGED <<index, timer, shortRuns>>
       ELSE /\ thread' = "backoff" /\ state' = "backoff"
            /\ timer' = Backoffs[DelayIndex]
            /\ index' = Least(DelayIndex + 1, LastBackoff)
            /\ IF run >= ResetAfter THEN shortRuns' = 1 ELSE ShortRun
    /\ sinceEnd' = 0
    /\ UNCHANGED <<stop, counted, age, run, alive, signalled, emitted, silent,
                   sinceStop, misread>>

\* Mutant: the backoff index is not clamped.
DelayOverUnclamped ==
    /\ thread \in {"backoff", "failed"}
    /\ IF stop THEN Finish /\ index' = index
       ELSE /\ timer = 0
            /\ thread' = "top" /\ state' = state
            /\ index' = index + 1
    /\ UNCHANGED <<stop, known, counted, age, timer, run, process, oldLine, history>>

\* _stop.wait(delay) returns: stop, or the next run.
DelayOver ==
    /\ thread \in {"backoff", "failed"}
    /\ IF stop THEN Finish /\ index' = index
       ELSE /\ timer = 0
            /\ thread' = "top" /\ state' = state
            /\ index' = IF thread = "failed" THEN Least(index + 1, LastBackoff) ELSE index
    /\ UNCHANGED <<stop, known, counted, age, timer, run, process, oldLine, history>>

-------------------------------------------------------------------------------
\* External: FFmpeg reports a total, ends by itself, or obeys SIGTERM.
Report(total) ==
    /\ alive /\ line = NoLine
    /\ total >= emitted
    /\ line' = total /\ emitted' = total
    /\ silent' = IF total > emitted THEN 0 ELSE silent
    /\ UNCHANGED <<worker, alive, signalled, oldLine, shortRuns, sinceEnd, sinceStop,
                   misread>>

FFmpegExits ==
    /\ alive
    /\ alive' = FALSE
    /\ UNCHANGED <<worker, signalled, emitted, line, oldLine, history>>

\* Mutant: every report counts as progress.
CountAlways(total) == counted' = total /\ age' = 0 /\ state' = "online"

\* _consume_progress: more than was counted is progress.
Count(total) ==
    IF total > counted THEN counted' = total /\ age' = 0 /\ state' = "online"
    ELSE UNCHANGED <<counted, age, state>>

ConsumeProgress ==
    /\ line # NoLine
    /\ Count(line)
    /\ line' = NoLine
    /\ UNCHANGED <<thread, stop, known, index, timer, run, alive, signalled, emitted, oldLine,
                   history>>

\* A reader that outlasted join(timeout=1) comes to its line in a later run.
ConsumeOldProgress ==
    /\ oldLine # NoLine
    /\ Count(oldLine)
    /\ oldLine' = NoLine
    /\ misread' = (misread \/ oldLine > counted)
    /\ UNCHANGED <<thread, stop, known, index, timer, run, process, silent, shortRuns,
                   sinceEnd, sinceStop>>

\* stop(): the event; if the process is known, SIGTERM at once.
Stop ==
    /\ ~stop
    /\ stop' = TRUE
    /\ signalled' = (signalled \/ (known /\ alive))
    /\ sinceStop' = 0
    /\ UNCHANGED <<thread, known, state, counted, age, index, timer, run, alive, emitted, line,
                   oldLine, silent, shortRuns, sinceEnd, misread>>

\* Mutant: the delay is slept through.
UrgentButAsleep ==
    \/ thread \in {"top", "spawned"}
    \/ thread = "running" /\ (~alive \/ stop \/ age > StallAfter)
    \/ thread = "reaping" /\ (~alive \/ timer = 0)
    \/ thread \in {"spawning", "joining"} /\ timer = 0
    \/ thread \in {"backoff", "failed"} /\ timer = 0
    \/ line # NoLine /\ thread # "joining"

\* Something is due before time passes.
Urgent ==
    \/ thread \in {"top", "spawned"}
    \/ thread = "running" /\ (~alive \/ stop \/ age > StallAfter)
    \/ thread = "reaping" /\ (~alive \/ timer = 0)
    \/ thread \in {"spawning", "joining"} /\ timer = 0
    \/ thread \in {"backoff", "failed"} /\ (stop \/ timer = 0)
    \/ line # NoLine /\ thread # "joining"

Tick ==
    /\ thread # "ended"
    /\ ~Urgent
    /\ timer' = IF timer > 0 THEN timer - 1 ELSE 0
    /\ age' = Least(age + 1, StallAfter + 1)
    /\ run' = Least(run + 1, ResetAfter)
    /\ silent' = Least(silent + 1, StallAfter + 1)
    /\ sinceEnd' = Least(sinceEnd + 1, LongestDelay)
    /\ sinceStop' = IF stop THEN Least(sinceStop + 1, StopTakes + 1) ELSE 0
    /\ UNCHANGED <<thread, stop, known, state, counted, index, process, oldLine,
                   shortRuns, misread>>

Thread == BeginRun \/ LoopEnds \/ Spawned \/ SetProcess \/ SpawnFails \/ Stall
            \/ LeavePolling \/ ForceKill \/ Reap \/ ReadersJoined \/ DelayOver

WorkerNext ==
    \/ Thread
    \/ \E total \in 0 .. MaxTotal : Report(total)
    \/ FFmpegExits
    \/ ConsumeProgress \/ ConsumeOldProgress
    \/ Stop
    \/ Tick

WorkerSpec == WorkerInit /\ [][WorkerNext]_workerVars

\* The thread runs, the reader reads, and time passes however often FFmpeg reports.
WorkerFairSpec == WorkerSpec /\ WF_workerVars(Thread) /\ WF_workerVars(ConsumeProgress) /\ SF_workerVars(Tick)

-------------------------------------------------------------------------------
\* Types of the worker's fields; the reader never counts more than was reported.
WorkerTypeOK ==
    /\ thread \in {"top", "spawning", "spawned", "running", "reaping", "joining", "backoff", "failed",
                   "ended"}
    /\ stop \in BOOLEAN /\ alive \in BOOLEAN /\ known \in BOOLEAN /\ signalled \in BOOLEAN
    /\ state \in {"created", "starting", "running", "online", "stalled", "failed", "backoff",
                  "stopped"}
    /\ counted \in 0 .. MaxTotal /\ emitted \in 0 .. MaxTotal
    /\ line \in {NoLine} \cup 0 .. MaxTotal /\ oldLine \in {NoLine} \cup 0 .. MaxTotal
    /\ age \in 0 .. StallAfter + 1 /\ silent \in 0 .. StallAfter + 1
    /\ index \in 1 .. LastBackoff /\ shortRuns \in 0 .. LastBackoff
    /\ timer \in Nat /\ run \in 0 .. ResetAfter
    /\ sinceEnd \in 0 .. LongestDelay /\ sinceStop \in 0 .. StopTakes + 1
    /\ misread \in BOOLEAN
    /\ alive => thread \in {"spawned", "running", "reaping"}

\* As long as no report of an earlier run was counted in a later one: FFmpeg is killed
\* for a stall only when it really reported nothing new for that long in this run, or
\* reports in that very instant and the reader has not got the line yet (worker.py
\* 183-188, 203-206 and 254-267).
NoFalseStall == [][Stall /\ ~misread => silent > StallAfter \/ line # NoLine]_workerVars

\* Under the same condition FFmpeg is never left silent: the stall test bounds how
\* long the worker waits (worker.py 254-267).
SilenceIsBounded ==
    thread = "running" /\ alive /\ ~stop /\ ~misread /\ silent > StallAfter
    => age > StallAfter

\* Restarts are paced by the number of short runs in a row: the n-th one is
\* followed by at least the n-th delay (worker.py 217-228 and 293-298).
RestartsArePaced ==
    [][Spawned /\ shortRuns > 0 => sinceEnd >= Backoffs[shortRuns]]_workerVars

\* After stop() FFmpeg is gone within Popen plus the grace period and the thread within
\* the joins of its readers after that: unless Popen takes long, the join of seven
\* seconds in stop() is enough (worker.py 268-276 and 301-312).
StopIsPrompt ==
    stop => /\ alive => sinceStop <= PopenTakes + Grace
            /\ thread # "ended" => sinceStop <= StopTakes

\* What the supervisor sees of it: Popen makes the process at once, and a run is over
\* for it when the next delay begins.
Seen ==
    [stop |-> stop, ffmpeg |-> alive,
     thread |-> CASE thread \in {"top", "backoff", "failed"} -> "pausing"
                  [] thread \in {"spawned", "running"} -> "running"
                  [] thread \in {"reaping", "joining"} -> "reaping"
                  [] OTHER -> thread]

SeenLife == INSTANCE WorkerLife WITH w <- Seen

\* The worker lives the life the supervisor counts on: an FFmpeg that ended or cannot be
\* started is started again and again, until stop() is called; then the thread ends, and
\* not before its process, at whatever line stop() finds it (worker.py 198-312).
ImplementsWorkerLife == SeenLife!FairSpec
===============================================================================
