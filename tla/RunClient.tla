------------------------------ MODULE RunClient ------------------------------
(***************************************************************************)
(* One foreground run, cw run -w or -wc (cmd/run.go with RunJob,           *)
(* StreamLogsNode, GetJobInfo, KillJobNode and CleanJob of pkg/client),    *)
(* against the worker of JobLifecycle.  Other clients may kill and clean   *)
(* the job, the worker may be shut down or crash, and the client's own     *)
(* connection may break.                                                   *)
(***************************************************************************)
EXTENDS JobLifecycle

CONSTANTS
  Mine,    \* the job of this client
  Lossy,   \* may the client's connections break or its requests time out?
  Others,  \* what other clients and the machine do, a subset of Meddling
  Ledgers  \* may the node be one that nodes.json has, or one that it has not?

Meddling == {"kill", "clean", "stop", "crash"}

ASSUME MineAssumption == Mine \in Jobs
ASSUME LossyAssumption == Lossy \in BOOLEAN
ASSUME OthersAssumption == Others \subseteq Meddling
ASSUME LedgersAssumption == Ledgers \subseteq BOOLEAN
ASSUME KindsOfRunAssumption == Kinds \subseteq {"watched", "ephemeral"}
ASSUME OwnCleanAssumption == "one" \in CleanModes

VARIABLES
  listed,     \* is the node in nodes.json?
  phase,      \* where RunE of the run command is
  streamErr,  \* has StreamLogsNode returned an error?
  attached,   \* has the worker attached the stream as watchdog?
  followed,   \* did the stream end because the job's broadcaster was closed?
  code,       \* the exit code of cw
  cleaned,    \* has the client's clean been answered with success?
  result,     \* history variable: how the command really ended
  meddled     \* history variable: the run has not been left alone

client == <<listed, phase, streamErr, attached, followed, code, cleaned>>
runVars == <<vars, client, result, meddled>>

Phases == {"idle", "dispatching", "following", "interrupted", "killing",
           "querying", "cleaning", "exited", "gone"}
\* The phases in which the command waits for an answer.
Calls == Phases \ {"idle", "exited", "gone"}

ClientTypeOK ==
  /\ TypeOK
  /\ listed \in BOOLEAN
  /\ phase \in Phases
  /\ streamErr \in BOOLEAN /\ attached \in BOOLEAN /\ followed \in BOOLEAN
  /\ code \in ExitCodes \cup {130}
  /\ cleaned \in BOOLEAN
  /\ result \in {"none"} \cup Outcome
  /\ meddled \in BOOLEAN

RunInit ==
  /\ Init
  /\ listed \in Ledgers
  /\ phase = "idle"
  /\ streamErr = FALSE /\ attached = FALSE /\ followed = FALSE
  /\ code = 0
  /\ cleaned = FALSE
  /\ result = "none"
  /\ meddled = FALSE

Goto(p) == phase' = p
\* What follows the end of the run: -c cleans, then the command returns.
AfterRun == IF CleanOnDisconnect(Mine) THEN "cleaning" ELSE "exited"

----------------------------------------------------------------------------
(* RunJob *)

\* ResolveWorker dispatches to this machine even if nodes.json does not have it.
Dispatch(kind) ==
  /\ phase = "idle"
  /\ StartOpen(Mine, kind)
  /\ Goto("dispatching")
  /\ UNCHANGED <<listed, streamErr, attached, followed, code, cleaned>>

Dispatched ==
  /\ phase = "dispatching"
  /\ run[Mine] = "served"
  /\ Goto("following")
  /\ UNCHANGED <<vars, listed, streamErr, attached, followed, code, cleaned>>

(* StreamLogsNode, which like every call after the dispatch goes through        *)
(* resolveTargetForJob and so needs the node to be in nodes.json              *)

\* handleStreamLogs gets as far as the subscription; the client may be gone.
Attach ==
  /\ listed
  /\ phase \notin {"idle", "dispatching"} /\ ~attached
  /\ WatchdogAttach(Mine)
  /\ attached' = TRUE
  /\ UNCHANGED <<listed, phase, streamErr, followed, code, cleaned>>

\* The broadcaster was closed: the stream is closed normally.
StreamEnds ==
  /\ WatchdogEnd(Mine)
  /\ IF phase = "following"
     THEN Goto("querying") /\ followed' = TRUE
     ELSE UNCHANGED <<phase, followed>>
  /\ UNCHANGED <<listed, streamErr, attached, code, cleaned>>

\* The job is over, or only its log is left: the history is all there is.
StreamHistory ==
  /\ listed
  /\ phase = "following" /\ ~attached
  /\ Serving /\ MuFree
  /\ IF Mine \in registry THEN ~IsRunning(Mine) ELSE disk[Mine].log
  /\ Goto("querying")
  /\ UNCHANGED <<vars, listed, streamErr, attached, followed, code, cleaned>>

\* The worker sees that the client is no longer there.
StreamLost ==
  /\ phase # "following"
  /\ WatchdogLost(Mine)
  /\ UNCHANGED client

----------------------------------------------------------------------------
(* Ctrl-C: kill, clean, exit 130 *)

\* The signal is looked at when the stream has returned, for whatever reason.
Interrupt ==
  /\ phase \in {"following", "querying"}
  /\ Goto("interrupted")
  /\ code' = 130
  /\ UNCHANGED <<vars, listed, streamErr, attached, followed, cleaned>>

\* KillJobNode reaches the handler, perhaps beside another client's kill.
SendKill ==
  /\ listed
  /\ phase = "interrupted"
  /\ IF Mine \in killers THEN UNCHANGED vars ELSE KillLookup(Mine)
  /\ Goto("killing")
  /\ UNCHANGED <<listed, streamErr, attached, followed, code, cleaned>>

KillAnswered ==
  /\ phase = "killing"
  /\ Mine \notin killers
  /\ Goto(AfterRun)
  /\ UNCHANGED <<vars, listed, streamErr, attached, followed, code, cleaned>>

(* GetJobInfo and CleanJob *)

\* Seeded fault (ExitCodeOfQuietRun): the end of the stream decides alone.
ExitCodeOfStream(i) == IF streamErr THEN 1 ELSE 0
\* RunE takes the exit code of the record it gets, whatever its status.
ExitCodeOf(i) == i.exit

\* handleListJobs has the job.
QueryAnswered ==
  /\ listed
  /\ phase = "querying"
  /\ Serving /\ MuFree
  /\ Mine \in registry
  /\ code' = ExitCodeOf(info[Mine])
  /\ Goto(AfterRun)
  /\ UNCHANGED <<vars, listed, streamErr, attached, followed, cleaned>>

Clean ==
  /\ listed
  /\ phase = "cleaning"
  /\ CleanOne(Mine)
  /\ cleaned' = TRUE
  /\ Goto("exited")
  /\ UNCHANGED <<listed, streamErr, attached, followed, code>>

(* Errors *)

\* Seeded fault (CommandReturns): a stream that fails is opened again for ever.
CallFailsWithRetry ==
  /\ phase \in Calls
  /\ Goto(CASE phase \in {"dispatching", "cleaning"} -> "exited"
            [] phase = "following" -> "following"
            [] OTHER -> AfterRun)
  /\ UNCHANGED <<vars, listed, streamErr, attached, followed, code, cleaned>>

\* What the run command makes of an error of the call it is in: a failed
\* dispatch ends it, a failed query leaves the exit code to the stream's error,
\* and the rest is ignored or only a warning.
CallFails ==
  /\ phase \in Calls
  /\ Goto(CASE phase \in {"dispatching", "cleaning"} -> "exited"
            [] phase = "following" -> "querying"
            [] OTHER -> AfterRun)
  /\ streamErr' = (streamErr \/ phase = "following")
  /\ code' = CASE phase = "dispatching" -> 1
               [] phase = "querying" -> IF streamErr THEN 1 ELSE 0
               [] OTHER -> code
  /\ UNCHANGED <<vars, listed, attached, followed, cleaned>>

\* The job is not in Worker.jobs.
Unknown == MuFree /\ Mine \notin registry

\* The worker is not there or refuses: 500 for a start that failed, 404 for a
\* job it does not know, 409 for the clean of one that is RUNNING.  Or the call
\* is never made: "not found in known nodes ledger".
Refused ==
  CASE phase = "dispatching" -> run[Mine] \in {"failed", "lost"}
    [] phase # "dispatching" /\ ~listed -> TRUE
    [] listed /\ phase = "following" /\ attached -> guard[<<"watchdog", Mine>>] # "armed"
    [] listed /\ phase = "following" /\ ~attached ->
         ~Serving \/ (Unknown /\ ~disk[Mine].log)
    [] listed /\ phase = "killing" -> worker = "down"
    [] listed /\ phase = "cleaning" ->
         ~Serving \/ (MuFree /\ Protected(Mine)) \/ (Unknown /\ ~disk[Mine].dir)
    [] OTHER -> ~Serving \/ Unknown

CallRefused == Refused /\ CallFails

\* A connection breaks, or the 30 s of an RPC are over.
ConnectionBreaks == Lossy /\ CallFails

\* The client's process is killed, or its machine is lost.
Killed ==
  /\ phase \notin {"idle", "exited", "gone"}
  /\ Goto("gone")
  /\ UNCHANGED <<vars, listed, streamErr, attached, followed, code, cleaned>>

----------------------------------------------------------------------------
(* The run, the others and the worker *)

ClientStep ==
  \/ Dispatched \/ Attach \/ StreamEnds \/ StreamHistory \/ StreamLost
  \/ SendKill \/ KillAnswered \/ QueryAnswered \/ Clean \/ CallRefused

\* What ends the job, or hides it from the client, without the client.
OthersStep ==
  /\ \/ "kill" \in Others /\ KillLookup(Mine)
     \/ "clean" \in Others /\ CleanOne(Mine)
     \/ "clean" \in Others /\ \E mode \in CleanModes \ {"one"} : SweepRegistry(mode)
     \/ "stop" \in Others /\ StopBegin
     \/ "crash" \in Others /\ Crash
  /\ UNCHANGED client

\* The machine and the worker on its own.
WorkerStep ==
  /\ \/ \E outcome \in Outcome : ProcExit(Mine, outcome)
     \/ StartFail(Mine) \/ StartLaunch(Mine) \/ Register(Mine) \/ ProcDies(Mine)
     \/ WaitExitSave(Mine) \/ WaitExitRelease(Mine)
     \/ KillApply(Mine) \/ StopKill(Mine)
     \/ \E g \in Guards : GuardKill(g, Mine) \/ GuardDrop(g, Mine) \/ GuardWipe(g, Mine)
     \/ SweepDisk \/ StopDrain \/ StopExit \/ Boot
  /\ UNCHANGED client

\* The grace timer runs out, perhaps before the client's stream is there.
Timer == TimerFire(Mine) /\ UNCHANGED client

\* The history variables.  What dies with the worker has not ended well.
Observe(meddling) ==
  /\ result' = CASE proc[Mine] \in Alive /\ proc'[Mine] \in Outcome -> proc'[Mine]
                 [] proc[Mine] \in Alive /\ proc'[Mine] = "none" -> "error"
                 [] OTHER -> result
  /\ meddled' = (meddled \/ meddling)

RunNext ==
  \/ (\E kind \in Kinds : Dispatch(kind)) /\ Observe(FALSE)
  \/ (ClientStep \/ WorkerStep) /\ Observe(FALSE)
  \/ (OthersStep \/ Interrupt \/ Killed \/ ConnectionBreaks) /\ Observe(TRUE)
  \/ Timer /\ Observe(guard'[<<"timer", Mine>>] = "killing")

RunSpec == RunInit /\ [][RunNext]_runVars

\* The worker's goroutines run as in JobLifecycle, answers arrive, and a broken
\* connection is noticed (TCP keep-alive, on by default in net/http).  Nobody
\* has to meddle or to press Ctrl-C, and the command may run for ever.
Alone(A) == A /\ UNCHANGED client /\ Observe(FALSE)
RunFairness ==
  /\ SF_runVars(ClientStep /\ Observe(FALSE))
  /\ WF_runVars(StreamLost /\ Observe(FALSE))
  /\ SF_runVars(Timer /\ Observe(guard'[<<"timer", Mine>>] = "killing"))
  /\ WF_runVars(Alone(SweepDisk))
  /\ WF_runVars(Alone(StopDrain)) /\ WF_runVars(Alone(StopExit))
  /\ WF_runVars(Alone(StartLaunch(Mine))) /\ SF_runVars(Alone(Register(Mine)))
  /\ WF_runVars(Alone(ProcDies(Mine)))
  /\ WF_runVars(Alone(WaitExitSave(Mine))) /\ WF_runVars(Alone(WaitExitRelease(Mine)))
  /\ WF_runVars(Alone(KillApply(Mine))) /\ WF_runVars(Alone(StopKill(Mine)))
  /\ \A g \in Guards : WF_runVars(Alone(GuardKill(g, Mine)))

FairRunSpec == RunSpec /\ RunFairness
----------------------------------------------------------------------------
(* Properties *)

\* The exit code of cw run -w is aligned with the command's (README.md:50 and
\* the help text of -w): 0 says that the command has ended well.
ExitCodeAligned ==
  phase = "exited" /\ code = 0 => result = "ok"

\* A run that is left alone has the command's exit code: GetJobInfo comes after
\* the end of the stream, which comes after waitExit has settled the record.  On
\* a machine that nodes.json does not have, where neither call can be made, it
\* fails, however the command ends: it never reports a success it has not seen.
ExitCodeOfQuietRun ==
  phase = "exited" /\ ~meddled /\ run[Mine] = "served"
    => IF listed THEN code = 0 <=> result = "ok" ELSE code = 1

\* -wc leaves nothing behind (README.md:50): when the worker has answered the
\* clean with success, the job's directory is gone.
CleanLeavesNothing == cleaned => ~disk[Mine].dir

\* It is so when the stream came to its end and nobody reads the log meanwhile
\* (Viewed): output.log is closed before the broadcaster, so nothing holds the
\* files any more, and nothing that others do, or a restart, brings them back.
CleanAfterStreamLeavesNothing == cleaned /\ followed => ~disk[Mine].dir

\* What makes the two inductive: a stream that came to its end has seen the
\* files closed, and the clean is the command's last call, ...
FollowInv ==
  /\ followed => run[Mine] \in {"served", "lost"} /\ waiter[Mine] \in {"done", "none"}
  /\ cleaned => phase = "exited"

\* ... nobody but waitExit settles the job of a run that is left alone, with the
\* exit code of the command, ...
QuietWorker ==
  /\ worker = "up" /\ sweep = "none" /\ killers = {} /\ stopping = {}
  /\ guard[<<"timer", Mine>>] \in {"idle", "armed", "over"}
  /\ guard[<<"watchdog", Mine>>] \in {"idle", "armed", "over"}
  /\ Live(Mine) =>
       IF IsRunning(Mine)
       THEN info[Mine] = Running /\ (proc[Mine] \in Outcome => result = proc[Mine])
       ELSE /\ result \in Outcome /\ info[Mine] = ExitInfo(result)
            /\ proc[Mine] \in Outcome

\* ... and the client sees the job until it has taken that code from it.
QuietClient ==
  /\ phase \in {"idle", "dispatching", "following", "querying", "cleaning", "exited"}
  /\ streamErr <=> /\ ~listed /\ run[Mine] = "served"
                  /\ phase \in {"querying", "cleaning", "exited"}
  /\ attached <=> guard[<<"watchdog", Mine>>] # "idle"
  /\ attached => listed
  /\ phase = "idle" => run[Mine] = "new"
  /\ phase \in {"idle", "dispatching"} => ~attached
  /\ phase \in {"dispatching", "following", "querying"} /\ run[Mine] = "served"
       => Mine \in registry
  /\ phase \in {"following", "querying", "cleaning"} => run[Mine] = "served"
  /\ phase = "following" /\ attached => guard[<<"watchdog", Mine>>] = "armed"
  /\ listed /\ phase \in {"querying", "cleaning", "exited"} /\ run[Mine] = "served"
       => ~IsRunning(Mine) /\ guard[<<"watchdog", Mine>>] # "armed"
  /\ phase \in {"cleaning", "exited"} /\ run[Mine] = "served"
       => code = IF listed THEN info[Mine].exit ELSE 1
  /\ phase = "exited" => run[Mine] \in {"failed", "served"}
  /\ phase = "dispatching" => run[Mine] \notin {"new", "lost"}

RunInv ==
  /\ IInv
  /\ FollowInv
  /\ ~meddled => QuietWorker /\ QuietClient

\* A job does not outlive its client, however that ends and whenever: the
\* watchdog stream or the grace timer kills it (README: no orphans).  A process
\* that no kill reaches, because AssignProcess or Terminate failed, does.
JobEndsWithClient ==
  (phase \in {"exited", "gone"}) ~> (proc[Mine] \notin {"running", "dying"})

\* The command returns when its job is over, whatever has become of the worker.
CommandReturns ==
  (phase \in Calls /\ proc[Mine] \in Outcome) ~> (phase \in {"exited", "gone"})
=============================================================================
