------------------------------- MODULE WorkerLife -------------------------------
(***************************************************************************)
(* What a destination worker is to the supervisor: a thread that keeps     *)
(* starting FFmpeg until it is told to stop, and then leaves neither.      *)
(* WorkerSupervisor takes the moves of its workers from here;              *)
(* DestinationWorker, with its delays, its stall test and its readers,     *)
(* implements it.  The moves are sets of successors of the record w, so    *)
(* that a supervisor can apply them to one worker among many.              *)
(***************************************************************************)

VARIABLE w      \* [thread, stop, ffmpeg, ...]: relay_agent/worker.py DestinationWorker

Started == [w EXCEPT !.thread = "pausing"]
Told == [w EXCEPT !.stop = TRUE]
Ended == [w EXCEPT !.thread = "ended"]
Gone == [w EXCEPT !.ffmpeg = FALSE]

\* The thread: it tests the event between two runs, starts FFmpeg or fails to, leaves
\* the polling loop when FFmpeg is gone or the event is set, and ends FFmpeg before it
\* goes on.
ThreadMoves ==
    CASE w.thread = "pausing" ->
            {IF w.stop THEN Ended ELSE [w EXCEPT !.thread = "spawning"]}
      [] w.thread = "spawning" ->
            {[w EXCEPT !.thread = "running", !.ffmpeg = TRUE], Started}
      [] w.thread = "running" /\ (w.stop \/ ~w.ffmpeg) -> {[w EXCEPT !.thread = "reaping"]}
      [] w.thread = "reaping" ->
            {IF w.ffmpeg THEN Gone ELSE IF w.stop THEN Ended ELSE Started}
      [] OTHER -> {}

\* FFmpeg ends by itself, or its output stalls and the thread leaves the polling loop.
FFmpegMoves ==
    {m \in {Gone, [w EXCEPT !.thread = "reaping"]} :
        w.ffmpeg /\ (m = Gone \/ w.thread = "running")}

Init == w \in [thread : {"unstarted", "pausing"}, stop : {FALSE}, ffmpeg : {FALSE}]

Next ==
    \/ w' \in ThreadMoves \cup FFmpegMoves
    \/ w.thread = "unstarted" /\ w' = Started
    \/ w' = Told

\* The thread does not rest while it can move (weak fairness, without ENABLED).
ThreadRuns == []<>(ThreadMoves = {}) \/ []<><<w' \in ThreadMoves>>_w

FairSpec == Init /\ [][Next]_w /\ ThreadRuns
===============================================================================
