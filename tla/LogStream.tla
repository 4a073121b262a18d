------------------------------ MODULE LogStream ------------------------------
(***************************************************************************)
(* The output of one job on its way to the clients that follow it:         *)
(* pkg/logstream (Broadcaster), the copier and waitExit goroutines of      *)
(* pkg/process, and handleStreamLogs of pkg/worker, one per viewer.        *)
(*                                                                         *)
(* The output is a sequence of chunks 1..Chunks, one per write of the      *)
(* copier.  A definition whose comment starts with "Seeded fault" is the   *)
(* wrong version of the definition after it that a property must detect.   *)
(***************************************************************************)
EXTENDS Integers, Sequences, FiniteSets

CONSTANTS
  Viewers,    \* clients that follow the job's log, one stream each
  Watchdogs,  \* those that say watchdog=1 (cw run -w)
  Chunks,     \* bound: how many chunks the job writes
  Cap,        \* capacity of a subscription's channel (256)
  Whole,      \* the longest log that is sent whole as history (64 KB)
  Recent      \* what is sent of a longer one (200 lines)

ASSUME ViewersAssumption == Watchdogs \subseteq Viewers
ASSUME BoundsAssumption ==
  /\ Chunks \in Nat /\ Cap \in Nat \ {0}
  /\ Whole \in Nat /\ Recent \in 0 .. Whole

VARIABLES
  proc,     \* "running" or "gone": the process that holds the other pipe end
  status,   \* ManagedJob.info.Status: "RUNNING" or "ended"
  known,    \* is the job in Worker.jobs?
  written,  \* chunks in output.log
  pending,  \* chunks in output.log that the broadcaster has yet to see
  waiter,   \* waitExit: "waiting", "saved", "closed" (broadcaster closed)
  subs,     \* Broadcaster.subscribers
  chan,     \* the subscription channels
  phase,    \* progress of handleStreamLogs
  got,      \* chunks the client has received
  gone,     \* clients that have disconnected
  stalled,  \* clients that have stopped reading for good
  hist,     \* history variable: the last chunk sent as history
  since,    \* history variable: the last chunk broadcast before Subscribe
  missed,   \* history variable: chunks dropped because the channel was full
  panicked  \* history variable: has a closed channel been sent to or closed?

job == <<proc, status, known, written, pending, waiter>>
streams == <<subs, chan, phase, got, gone, stalled, hist, since, missed, panicked>>
vars == <<job, streams>>

Open == [buf |-> <<>>, closed |-> FALSE]
Closed(c) == [buf |-> c.buf, closed |-> TRUE]
IsRunning == status = "RUNNING"
Elements(s) == {s[i] : i \in 1 .. Len(s)}
Numbers == 1 .. Chunks
Never == Chunks + 1   \* the since of a stream that has not subscribed

TypeOK ==
  /\ proc \in {"running", "gone"}
  /\ status \in {"RUNNING", "ended"}
  /\ known \in BOOLEAN
  /\ written \in 0 .. Chunks
  /\ pending \subseteq Numbers
  /\ waiter \in {"waiting", "saved", "closed"}
  /\ subs \subseteq Viewers
  /\ chan \in [Viewers -> [buf : Seq(Numbers), closed : BOOLEAN]]
  /\ \A v \in Viewers : Len(chan[v].buf) <= Cap
  /\ phase \in [Viewers -> {"away", "history", "checked", "reading", "done"}]
  /\ got \in [Viewers -> Seq(Numbers)]
  /\ gone \subseteq Viewers
  /\ stalled \subseteq Viewers
  /\ hist \in [Viewers -> 0 .. Chunks]
  /\ since \in [Viewers -> 0 .. Never]
  /\ missed \in [Viewers -> SUBSET Numbers]
  /\ panicked \in BOOLEAN

Init ==
  /\ proc = "running"
  /\ status = "RUNNING"
  /\ known = TRUE
  /\ written = 0
  /\ pending = {}
  /\ waiter = "waiting"
  /\ subs = {}
  /\ chan = [v \in Viewers |-> Open]
  /\ phase = [v \in Viewers |-> "away"]
  /\ got = [v \in Viewers |-> <<>>]
  /\ gone = {}
  /\ stalled = {}
  /\ hist = [v \in Viewers |-> 0]
  /\ since = [v \in Viewers |-> Never]
  /\ missed = [v \in Viewers |-> {}]
  /\ panicked = FALSE

----------------------------------------------------------------------------
(* The copier: stdout and stderr are one writer, so os/exec runs one copier, *)
(* which gives each chunk to output.log and then to the broadcaster.         *)

\* Seeded fault (InOrder): stdout and stderr copied by a goroutine each.
WriteLogTwoCopiers ==
  /\ waiter = "waiting"
  /\ Cardinality(pending) < 2
  /\ written < Chunks
  /\ written' = written + 1
  /\ pending' = pending \cup {written + 1}
  /\ UNCHANGED <<proc, status, known, waiter, streams>>

\* What is left in the pipe is copied after the process is gone, too.
WriteLog ==
  /\ waiter = "waiting"
  /\ pending = {}
  /\ written < Chunks
  /\ written' = written + 1
  /\ pending' = {written + 1}
  /\ UNCHANGED <<proc, status, known, waiter, streams>>

Full(v) == Len(chan[v].buf) = Cap

\* Whom Write sends to, in a select with a default; a channel that is
\* closed makes it panic.
Receivers == IF waiter = "closed" THEN {} ELSE subs

\* Seeded fault (ViewersDoNotHoldTheJob): the send waits for room.
BroadcastBlocks ==
  \E n \in pending :
    /\ \A v \in Receivers : ~Full(v)
    /\ chan' = [v \in Viewers |->
                  IF v \in Receivers THEN [chan[v] EXCEPT !.buf = Append(@, n)]
                  ELSE chan[v]]
    /\ pending' = pending \ {n}
    /\ panicked' = (panicked \/ \E v \in Receivers : chan[v].closed)
    /\ UNCHANGED <<proc, status, known, written, waiter, subs, phase, got, gone,
                   stalled, hist, since, missed>>

\* Broadcaster.Write, under its read lock: a channel that is full is skipped.
Broadcast ==
  \E n \in pending :
    /\ chan' = [v \in Viewers |->
                  IF v \in Receivers /\ ~Full(v)
                  THEN [chan[v] EXCEPT !.buf = Append(@, n)] ELSE chan[v]]
    /\ missed' = [v \in Viewers |-> IF v \in Receivers /\ Full(v)
                                    THEN missed[v] \cup {n} ELSE missed[v]]
    /\ pending' = pending \ {n}
    /\ panicked' = (panicked \/ \E v \in Receivers : chan[v].closed)
    /\ UNCHANGED <<proc, status, known, written, waiter, subs, phase, got, gone,
                   stalled, hist, since>>

(* The process, Kill and waitExit *)

ProcExit ==
  /\ proc = "running"
  /\ proc' = "gone"
  /\ UNCHANGED <<status, known, written, pending, waiter, streams>>

\* A kill request: ManagedJob.Kill has set the status before the copier has
\* reached the end of the pipe.
Kill ==
  /\ IsRunning
  /\ status' = "ended"
  /\ proc' = "gone"
  /\ UNCHANGED <<known, written, pending, waiter, streams>>

\* cmd.Wait returns when the process is gone and the copier is done.
WaitExitSave ==
  /\ waiter = "waiting"
  /\ proc = "gone"
  /\ pending = {}
  /\ status' = "ended"
  /\ waiter' = "saved"
  /\ UNCHANGED <<proc, known, written, pending, streams>>

\* Broadcaster.Close: every channel in the map is closed and leaves it.
CloseBroadcaster ==
  /\ waiter = "saved"
  /\ waiter' = "closed"
  /\ chan' = [v \in Viewers |-> IF v \in subs THEN Closed(chan[v]) ELSE chan[v]]
  /\ subs' = {}
  /\ panicked' = (panicked \/ \E v \in subs : chan[v].closed)
  /\ UNCHANGED <<proc, status, known, written, pending, phase, got, gone,
                 stalled, hist, since, missed>>

\* A clean takes the job out of Worker.jobs; its log may still be there.
Forget ==
  /\ known /\ ~IsRunning
  /\ known' = FALSE
  /\ UNCHANGED <<proc, status, written, pending, waiter, streams>>

----------------------------------------------------------------------------
(* handleStreamLogs *)

\* What is sent first: the whole log, or the end of a long one.
First(length) == IF length > Whole THEN length - Recent + 1 ELSE 1
From(first) == [i \in 1 .. written - first + 1 |-> first + i - 1]
History == From(First(written))

\* A job the worker does not know: its log is sent whole and that is all.
StreamFromDisk(v) ==
  /\ phase[v] = "away"
  /\ ~known
  /\ got' = [got EXCEPT ![v] = From(1)]
  /\ hist' = [hist EXCEPT ![v] = written]
  /\ phase' = [phase EXCEPT ![v] = "done"]
  /\ UNCHANGED <<job, subs, chan, gone, stalled, since, missed, panicked>>

SendHistory(v) ==
  /\ phase[v] = "away"
  /\ known
  /\ got' = [got EXCEPT ![v] = History]
  /\ hist' = [hist EXCEPT ![v] = written]
  /\ phase' = [phase EXCEPT ![v] = "history"]
  /\ UNCHANGED <<job, subs, chan, gone, stalled, since, missed, panicked>>

\* Seeded fault (WatchdogLossIsNoticed): a history that could not be sent ends
\* the handler.
CheckStatusAndClient(v) ==
  /\ phase[v] = "history"
  /\ phase' = [phase EXCEPT ![v] =
                 IF IsRunning /\ v \notin gone THEN "checked" ELSE "done"]
  /\ UNCHANGED <<job, subs, chan, got, gone, stalled, hist, since, missed, panicked>>

\* Only a RUNNING job is followed.  That the history could not be sent does not
\* matter here.
CheckStatus(v) ==
  /\ phase[v] = "history"
  /\ phase' = [phase EXCEPT ![v] = IF IsRunning THEN "checked" ELSE "done"]
  /\ UNCHANGED <<job, subs, chan, got, gone, stalled, hist, since, missed, panicked>>

\* Seeded fault (StreamsEnd): no test of closed.
SubscribeAlways(v) ==
  /\ phase[v] = "checked"
  /\ phase' = [phase EXCEPT ![v] = "reading"]
  /\ since' = [since EXCEPT ![v] = written - Cardinality(pending)]
  /\ subs' = subs \cup {v}
  /\ UNCHANGED <<job, chan, got, gone, stalled, hist, missed, panicked>>

\* Broadcaster.Subscribe: a closed broadcaster hands out a closed channel.
Subscribe(v) ==
  /\ phase[v] = "checked"
  /\ phase' = [phase EXCEPT ![v] = "reading"]
  /\ since' = [since EXCEPT ![v] = written - Cardinality(pending)]
  /\ IF waiter = "closed"
     THEN chan' = [chan EXCEPT ![v] = Closed(@)] /\ UNCHANGED subs
     ELSE subs' = subs \cup {v} /\ UNCHANGED chan
  /\ UNCHANGED <<job, got, gone, stalled, hist, missed, panicked>>

\* One turn of the select loop that forwards a chunk to a client that reads.
Deliver(v) ==
  /\ phase[v] = "reading"
  /\ v \notin gone \cup stalled
  /\ chan[v].buf # <<>>
  /\ got' = [got EXCEPT ![v] = Append(@, Head(chan[v].buf))]
  /\ chan' = [chan EXCEPT ![v].buf = Tail(@)]
  /\ UNCHANGED <<job, subs, phase, gone, stalled, hist, since, missed, panicked>>

\* Seeded fault (NoSendOnClosed): the map is not asked.
UnsubscribeUnasked(v) ==
  /\ subs' = subs \ {v}
  /\ chan' = [chan EXCEPT ![v] = Closed(@)]
  /\ panicked' = (panicked \/ chan[v].closed)

\* What Subscribe returned, deferred by the handler: a channel that Close has
\* taken out of the map, or that was never in it, is left alone.
Unsubscribe(v) ==
  IF v \in subs
  THEN /\ subs' = subs \ {v}
       /\ chan' = [chan EXCEPT ![v] = Closed(@)]
       /\ panicked' = (panicked \/ chan[v].closed)
  ELSE UNCHANGED <<subs, chan, panicked>>

\* Seeded fault (NothingElseIsLost): what a closed channel still holds is lost.
EndOfStreamAtOnce(v) ==
  /\ phase[v] = "reading"
  /\ chan[v].closed
  /\ phase' = [phase EXCEPT ![v] = "done"]
  /\ Unsubscribe(v)
  /\ UNCHANGED <<job, got, gone, stalled, hist, since, missed>>

\* A closed channel is drained before it reports that it is closed.
EndOfStream(v) ==
  /\ phase[v] = "reading"
  /\ chan[v].closed /\ chan[v].buf = <<>>
  /\ phase' = [phase EXCEPT ![v] = "done"]
  /\ Unsubscribe(v)
  /\ UNCHANGED <<job, got, gone, stalled, hist, since, missed>>

\* The loop sees that the client is gone: handleEphemeralDisconnect kills the
\* job if this was its watchdog.
NoticeGone(v) ==
  /\ phase[v] = "reading"
  /\ v \in gone
  /\ phase' = [phase EXCEPT ![v] = "done"]
  /\ Unsubscribe(v)
  /\ IF v \in Watchdogs /\ IsRunning
     THEN status' = "ended" /\ proc' = "gone"
     ELSE UNCHANGED <<status, proc>>
  /\ UNCHANGED <<known, written, pending, waiter, got, gone, stalled, hist,
                 since, missed>>

(* The clients *)

Disconnect(v) ==
  /\ phase[v] \notin {"away", "done"}
  /\ v \notin gone
  /\ gone' = gone \cup {v}
  /\ stalled' = stalled \ {v}
  /\ UNCHANGED <<job, subs, chan, phase, got, hist, since, missed, panicked>>

Stall(v) ==
  /\ phase[v] = "reading"
  /\ v \notin gone \cup stalled
  /\ stalled' = stalled \cup {v}
  /\ UNCHANGED <<job, subs, chan, phase, got, gone, hist, since, missed, panicked>>

----------------------------------------------------------------------------
Handler(v) ==
  CheckStatus(v) \/ Subscribe(v) \/ Deliver(v) \/ EndOfStream(v) \/ NoticeGone(v)

Client(v) == StreamFromDisk(v) \/ SendHistory(v) \/ Disconnect(v) \/ Stall(v)

Next ==
  \/ WriteLog \/ Broadcast \/ ProcExit \/ Kill
  \/ WaitExitSave \/ CloseBroadcaster \/ Forget
  \/ \E v \in Viewers : Handler(v) \/ Client(v)

\* The goroutines run; the process, the clients and their requests need not.
Fairness ==
  /\ WF_vars(Broadcast) /\ WF_vars(WaitExitSave) /\ WF_vars(CloseBroadcaster)
  /\ \A v \in Viewers :
       /\ WF_vars(CheckStatus(v)) /\ WF_vars(Subscribe(v)) /\ WF_vars(Deliver(v))
       /\ WF_vars(EndOfStream(v)) /\ WF_vars(NoticeGone(v))

Spec == Init /\ [][Next]_vars
FairSpec == Spec /\ Fairness
----------------------------------------------------------------------------
(* Properties *)

\* No channel is sent to or closed once it is closed, in whatever order Write,
\* Close, Subscribe and the deferred unsubscribe come (broadcaster.go): that
\* panics, and in the copier or in waitExit takes the worker down.
NoSendOnClosed == ~panicked

\* What the client has received or, while it is followed, is still going to.
Stream(v) == IF phase[v] = "done" THEN got[v] ELSE got[v] \o chan[v].buf

\* Chunks in the order of output.log, of which only h may come twice.
Ordered(s, h) ==
  \A i \in 1 .. Len(s) - 1 : s[i] < s[i + 1] \/ (s[i] = s[i + 1] /\ s[i] = h)

\* A client gets the output in the order in which it is in output.log.  Between
\* the history and the live part one chunk at most comes twice: the one that
\* was in the log, but not yet broadcast, when the client subscribed.
InOrder == \A v \in Viewers : Ordered(Stream(v), hist[v])

\* A client that stays gets the history it was promised, and then everything
\* that is broadcast after its subscription and does not meet a full channel, at
\* the end of the job, too.  It can lose what was written between its history
\* and its subscription; and a stream is only left without a subscription, and
\* so without anything that was written after its history, by the end of the job.
NothingElseIsLost ==
  \A v \in Viewers :
    /\ phase[v] # "away" => First(hist[v]) .. hist[v] \subseteq Elements(got[v])
    /\ v \notin gone =>
         (since[v] + 1 .. written) \ pending \subseteq Elements(Stream(v)) \cup missed[v]
    /\ phase[v] = "done" /\ v \notin gone /\ since[v] = Never => ~IsRunning

\* What makes the four invariants inductive: the copier is at most one chunk
\* ahead of the broadcaster and nothing comes after it, and only a job that has
\* ended is forgotten, ...
CopierInv ==
  /\ pending = {} \/ pending = {written}
  /\ waiter # "waiting" => pending = {}
  /\ ~known => ~IsRunning

\* ... a channel exists from the subscription on, is open as long as it is in
\* the map, which Close leaves empty, and a stream that ended by itself has seen
\* the end of the job, ...
SubscriptionInv ==
  \A v \in Viewers :
    /\ v \in subs => ~chan[v].closed /\ phase[v] = "reading" /\ waiter # "closed"
    /\ phase[v] \in {"away", "history", "checked"} => chan[v] = Open /\ since[v] = Never
    /\ phase[v] = "away" => got[v] = <<>>
    /\ phase[v] = "reading" => (v \in subs \/ waiter = "closed") /\ since[v] # Never
    /\ phase[v] = "done" /\ v \notin gone /\ since[v] # Never => waiter = "closed"

\* ... and what a stream that goes on has of a chunk that is still to be
\* broadcast can only have come with the history.
SourceInv ==
  \A v \in Viewers : phase[v] # "done" =>
    \A i \in 1 .. Len(Stream(v)) :
      Stream(v)[i] <= written /\ (Stream(v)[i] \in pending => Stream(v)[i] = hist[v])

StreamInv ==
  /\ TypeOK
  /\ NoSendOnClosed
  /\ CopierInv
  /\ SubscriptionInv
  /\ SourceInv
  /\ InOrder
  /\ NothingElseIsLost

\* Output is never held up by a client that does not read: once the process is
\* gone, waitExit finishes (broadcaster.go:40).
ViewersDoNotHoldTheJob == proc = "gone" ~> waiter = "closed"

\* When the job is over, the stream of a client that reads comes to its end.
StreamsEnd ==
  \A v \in Viewers :
    (waiter = "closed" /\ phase[v] # "away") ~> (phase[v] = "done" \/ v \in stalled)

\* A watchdog that disconnects takes its job with it, wherever its handler was.
WatchdogLossIsNoticed ==
  \A v \in Watchdogs :
    (v \in gone /\ phase[v] \in {"history", "checked", "reading"}) ~> ~IsRunning
=============================================================================
