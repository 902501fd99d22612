--------------------------- MODULE MetricsServer ---------------------------
(***************************************************************************)
(* serve_prometheus (src/actop/export.py): the thread that keeps the       *)
(* latest (snapshot, frame) warm, the request handlers of                  *)
(* ThreadingHTTPServer that read it, and the main thread that starts and   *)
(* closes everything.  The sampler both threads call is SamplerRefs.       *)
(*                                                                         *)
(* A snapshot is its number, the how-manieth of the session; the frame the *)
(* alert engine returns for it has the same number.  The interval a        *)
(* snapshot waits for is the time between two steps of the loop.           *)
(***************************************************************************)
EXTENDS SamplerRefs

CONSTANTS
  Main, Loop,       \* the threads that use the monitor
  Handlers,         \* request threads, each serving one scrape after the other
  MaxSnapshots      \* bound: snapshots of a session

ASSUME ServerThreads == Main # Loop /\ Threads = {Main, Loop} /\ MaxSnapshots \in Nat

VARIABLES
  mainPc,           \* "priming", "binding", "serving", "closing", "done", "failed"
  loopPc,           \* "unborn", "check", "sampling", "publish", "ended"
  stop,             \* the stop event
  taken,            \* ghost: snapshots the monitor has returned
  state,            \* the dict: the latest snapshot and frame, 0 for None
  asked,            \* the handlers whose request is accepted and not read yet
  reading,          \* per handler: the snapshot do_GET has read, 0 when not in between
  reply,            \* per handler: its last response
  answered          \* ghost: the highest snapshot any finished scrape has shown

serverVars == <<mainPc, loopPc, stop, taken, state, asked, reading, reply, answered>>
vars == <<refVars, serverVars>>

NoReply == [status |-> 0, snapshot |-> 0, frame |-> 0]

Init ==
  /\ RefInit
  /\ mainPc = "priming"
  /\ loopPc = "unborn"
  /\ stop = FALSE
  /\ taken = 0
  /\ state = [snapshot |-> 0, frame |-> 0]
  /\ asked = {}
  /\ reading = [h \in Handlers |-> 0]
  /\ reply = [h \in Handlers |-> NoReply]
  /\ answered = 0

-----------------------------------------------------------------------------
(* The main thread.                                                        *)

\* Monitor.__init__ takes a first sample; then the sampler thread is started.
Prime ==
  /\ mainPc = "priming"
  /\ \/ TakeSample(Main) /\ UNCHANGED <<mainPc, loopPc>>
     \/ Seed(Main) /\ mainPc' = "binding" /\ loopPc' = "check"
  /\ UNCHANGED <<stop, taken, state, asked, reading, reply, answered>>

\* The server is constructed with the sampler thread running already: when the
\* port is taken the exception leaves before the try block.
Bind ==
  /\ mainPc = "binding"
  /\ mainPc' \in {"serving", "failed"}
  /\ UNCHANGED <<refVars, loopPc, stop, taken, state, asked, reading, reply, answered>>

\* Ctrl-C ends serve_forever: stop.set() and server_close(), which waits for nobody.
Interrupt ==
  /\ mainPc = "serving"
  /\ mainPc' = "closing"
  /\ stop' = TRUE
  /\ UNCHANGED <<refVars, loopPc, taken, state, asked, reading, reply, answered>>

\* monitor.close(), while the sampler thread may be anywhere.
CloseMonitor ==
  /\ mainPc = "closing"
  /\ \/ /\ CloseRead(Main) \/ CloseRelease(Main) \/ CloseClear(Main) \/ CloseSub(Main)
        /\ UNCHANGED mainPc
     \/ CloseSubClear(Main) /\ mainPc' = "done"
  /\ UNCHANGED <<loopPc, stop, taken, state, asked, reading, reply, answered>>

-----------------------------------------------------------------------------
(* The sampler thread.                                                     *)

\* Mutant: each turn begins with an empty dict.
CheckStopClears ==
  /\ loopPc = "check"
  /\ loopPc' = IF stop THEN "ended" ELSE "sampling"
  /\ state' = [snapshot |-> 0, frame |-> 0]
  /\ UNCHANGED <<refVars, mainPc, stop, taken, asked, reading, reply, answered>>

CheckStop ==
  /\ loopPc = "check"
  /\ loopPc' = IF stop THEN "ended" ELSE "sampling"
  /\ UNCHANGED <<refVars, mainPc, stop, taken, state, asked, reading, reply, answered>>

\* get_snapshot() samples again as long as the sample is None: a baseline was
\* missing, or no time had passed.
Sampling ==
  /\ loopPc = "sampling"
  /\ \/ TakeSample(Loop) \/ Seed(Loop) \/ ReadBaseline(Loop) \/ Delta(Loop)
     \/ ReadOld(Loop) \/ ReleaseOld(Loop) \/ Store(Loop)
  /\ UNCHANGED serverVars

\* A sample with time in it becomes the next snapshot.
Snapshot ==
  /\ loopPc = "sampling" /\ taken < MaxSnapshots
  /\ Store(Loop)
  /\ loopPc' = "publish"
  /\ taken' = taken + 1
  /\ UNCHANGED <<mainPc, stop, state, asked, reading, reply, answered>>

\* Mutants: the frame stored is that of the snapshot before; the loop runs once.
PublishLateFrame ==
  /\ loopPc = "publish"
  /\ state' = [snapshot |-> taken, frame |-> state.snapshot]
  /\ loopPc' = "check"
  /\ UNCHANGED <<refVars, mainPc, stop, taken, asked, reading, reply, answered>>
PublishOnce ==
  /\ loopPc = "publish"
  /\ state' = [snapshot |-> taken, frame |-> taken]
  /\ loopPc' = "ended"
  /\ UNCHANGED <<refVars, mainPc, stop, taken, asked, reading, reply, answered>>

\* feed() and the store of both under the lock.
Publish ==
  /\ loopPc = "publish"
  /\ state' = [snapshot |-> taken, frame |-> taken]
  /\ loopPc' = "check"
  /\ UNCHANGED <<refVars, mainPc, stop, taken, asked, reading, reply, answered>>

-----------------------------------------------------------------------------
(* do_GET.                                                                 *)

Busy(h) == h \in asked \/ reading[h] # 0

\* serve_forever gives the request of a scrape a thread; after the interrupt it
\* gives no more.
Accept(h) ==
  /\ mainPc = "serving" /\ ~Busy(h)
  /\ asked' = asked \cup {h}
  /\ UNCHANGED <<refVars, mainPc, loopPc, stop, taken, state, reading, reply, answered>>

Respond(h, r) ==
  /\ reply' = [reply EXCEPT ![h] = r]
  /\ asked' = asked \ {h}
  /\ reading' = [reading EXCEPT ![h] = 0]
  /\ answered' = IF r.snapshot > answered THEN r.snapshot ELSE answered
  /\ UNCHANGED <<refVars, mainPc, loopPc, stop, taken, state>>

\* The thread reads the path and the dict: another path, no snapshot yet, or the
\* snapshot, read under the lock, which is let go.  A shutdown does not stop the
\* thread as long as the process lives.
Get(h) ==
  /\ h \in asked
  /\ \/ Respond(h, [NoReply EXCEPT !.status = 404])
     \/ state.snapshot = 0 /\ Respond(h, [NoReply EXCEPT !.status = 503])
     \/ /\ state.snapshot # 0
        /\ asked' = asked \ {h}
        /\ reading' = [reading EXCEPT ![h] = state.snapshot]
        /\ UNCHANGED <<refVars, mainPc, loopPc, stop, taken, state, reply, answered>>

\* Mutant: the thread waits until it finds the frame of its snapshot.
ReadFrameWhenPaired(h) ==
  /\ reading[h] # 0 /\ state.frame = reading[h]
  /\ Respond(h, [status |-> 200, snapshot |-> reading[h], frame |-> state.frame])

\* The frame is read under the lock, and the response is sent; closing the server
\* does not wait for it.
ReadFrame(h) ==
  /\ reading[h] # 0
  /\ Respond(h, [status |-> 200, snapshot |-> reading[h], frame |-> state.frame])

-----------------------------------------------------------------------------

LoopStep == CheckStop \/ Sampling \/ Snapshot \/ Publish

Next ==
  \/ Prime \/ Bind \/ Interrupt \/ CloseMonitor
  \/ LoopStep
  \/ \E h \in Handlers : Accept(h) \/ Get(h) \/ ReadFrame(h)

Spec == Init /\ [][Next]_vars

\* Threads that can run do run, and a sample that keeps being tried is not NULL and
\* not of zero length for ever.  The request threads are daemons that nobody joins:
\* once the server closes, the process may end before they do, and nothing is
\* assumed of them any more.
Fairness ==
  /\ WF_vars(Prime) /\ WF_vars(Bind) /\ WF_vars(CloseMonitor)
  /\ WF_vars(LoopStep)
  /\ SF_vars(Sampling /\ new'[Loop] # None /\ pc'[Loop] = "taken")
  /\ SF_vars(Snapshot)
  /\ \A h \in Handlers : WF_vars(mainPc = "serving" /\ (Get(h) \/ ReadFrame(h)))

FairSpec == Spec /\ Fairness

-----------------------------------------------------------------------------
(* What must hold.                                                         *)

\* The alert verdicts of a scrape are never older than its snapshot: do_GET reads
\* the snapshot first (line 269) and the frame second (line 273).
FrameNotOlder ==
  \A h \in Handlers : reply[h].status = 200 => reply[h].frame >= reply[h].snapshot

\* A scrape that starts after another one has ended never shows an older snapshot,
\* and never the 503 of a server without a sample.
ScrapesGoForward ==
  [][\A h \in Handlers :
       /\ reading[h] = 0 /\ reading'[h] # 0 => reading'[h] >= answered
       /\ reply[h] # reply'[h] /\ reply'[h].status = 503 => answered = 0]_vars

\* While the server is up the latest snapshot keeps being replaced (docstring of
\* serve_prometheus, "keeps the latest snapshot warm"), up to the bound.
KeepsWarm ==
  mainPc = "serving" ~>
    stop \/ state.snapshot = MaxSnapshots

\* A scrape is answered while the server is up (docstring of serve_prometheus,
\* "scrapes return immediately"): whatever the sampler thread publishes between its
\* two reads, it waits for no snapshot.  One that a shutdown overtakes may be lost.
ScrapeAnswered ==
  \A h \in Handlers : Busy(h) ~> ~Busy(h) \/ mainPc # "serving"

\* What the docstring of serve_prometheus says: the frame of a scrape is the one
\* paired with its snapshot.
FramePaired ==
  \A h \in Handlers : reply[h].status = 200 => reply[h].frame = reply[h].snapshot
=============================================================================
