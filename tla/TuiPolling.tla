----------------------------- MODULE TuiPolling -----------------------------
(***************************************************************************)
(* The polling of ActopApp (src/actop/tui/app.py): worker threads that     *)
(* sample and post frames, the UI thread that takes them from its queue,   *)
(* and the keys that pause, open the process table and quit.               *)
(*                                                                         *)
(* A frame is what the table makes of it: whether its worker asked for a   *)
(* process walk, and whether the walk brought rows.  The wait and the      *)
(* sample of get_snapshot() are the time between two steps of a poller.    *)
(* Starting a worker with exclusive=True marks the one before as           *)
(* cancelled, which a thread that never looks at the mark does not notice. *)
(***************************************************************************)
EXTENDS Naturals, Sequences

CONSTANTS
  MaxPollers,       \* bound: workers ever started
  MaxQueue,         \* bound: frames waiting for the UI thread
  MaxCount,         \* bound: where the ghost counts of frames stop; 0 keeps none
  None

ASSUME PollingBounds == MaxPollers \in Nat \ {0} /\ MaxQueue \in Nat \ {0} /\ MaxCount \in Nat

Pollers == 1..MaxPollers

VARIABLES
  stopPolling,      \* self._stop_polling
  pc,               \* per poller: "unborn", "check", "sampling", "ended"
  include,          \* per poller: include_procs of its current tick
  started,          \* how many pollers were ever started; the last one is the newest
  queue,            \* MetricsUpdated messages posted and not handled
  ready,            \* self._sampler_ready: the splash is gone
  deferred,         \* the frame of the first message, painted after the next layout
  showProcesses, pending,   \* self._show_processes, self._processes_pending
  hasRows,          \* self._last_processes is not empty
  note,             \* what the process table says
  quit,             \* on_unmount has run
  late,             \* ghost, per poller: frames posted since the pause
  extra             \* ghost, per poller: frames posted since a newer one started

pollerVars == <<pc, include, started>>
tableVars  == <<pending, hasRows, note>>
vars == <<stopPolling, pollerVars, queue, ready, deferred, showProcesses, tableVars,
          quit, late, extra>>

Init ==
  /\ stopPolling = FALSE
  /\ pc = [p \in Pollers |-> IF p = 1 THEN "check" ELSE "unborn"]
  /\ include = [p \in Pollers |-> FALSE]
  /\ started = 1
  /\ queue = <<>>
  /\ ready = FALSE /\ deferred = None
  /\ showProcesses \in BOOLEAN
  /\ pending = showProcesses
  /\ hasRows = FALSE
  /\ note = IF showProcesses THEN "collecting" ELSE "hidden"
  /\ quit = FALSE
  /\ late = [p \in Pollers |-> 0]
  /\ extra = [p \in Pollers |-> 0]

Running == {p \in Pollers : pc[p] \in {"check", "sampling"}}

Up(n) == IF n < MaxCount THEN n + 1 ELSE n

-----------------------------------------------------------------------------
(* poll_metrics, on its own thread.                                        *)

\* Mutant: the stop event is not looked at between two frames.
CheckStopNever(p) ==
  /\ pc[p] = "check"
  /\ pc' = [pc EXCEPT ![p] = "sampling"]
  /\ include' = [include EXCEPT ![p] = showProcesses]
  /\ UNCHANGED <<stopPolling, started, queue, ready, deferred, showProcesses, tableVars,
                 quit, late, extra>>

\* The head of the loop: close the monitor and end, or read the flag and sample.
CheckStop(p) ==
  /\ pc[p] = "check"
  /\ \/ stopPolling /\ pc' = [pc EXCEPT ![p] = "ended"] /\ UNCHANGED include
     \/ /\ ~stopPolling
        /\ pc' = [pc EXCEPT ![p] = "sampling"]
        /\ include' = [include EXCEPT ![p] = showProcesses]
  /\ UNCHANGED <<stopPolling, started, queue, ready, deferred, showProcesses, tableVars,
                 quit, late, extra>>

\* The snapshot has come: post it.
Post(p) ==
  /\ pc[p] = "sampling" /\ Len(queue) < MaxQueue
  /\ \E rows \in {FALSE, include[p]} :
       queue' = Append(queue, [included |-> include[p], rows |-> rows])
  /\ pc' = [pc EXCEPT ![p] = "check"]
  /\ late' = [late EXCEPT ![p] = IF stopPolling THEN Up(@) ELSE @]
  /\ extra' = [extra EXCEPT ![p] = IF p < started THEN Up(@) ELSE @]
  /\ UNCHANGED <<stopPolling, include, started, ready, deferred, showProcesses, tableVars, quit>>

-----------------------------------------------------------------------------
(* The UI thread.                                                          *)

\* What _refresh_process_table puts into the table.
Table(show, rows, pend, paused) ==
  CASE ~show           -> "hidden"
    [] show /\ rows    -> "rows"
    [] show /\ ~rows /\ pend -> IF paused THEN "paused" ELSE "collecting"
    [] OTHER           -> "no match"

\* Mutant: only a walk that brought rows ends the wait.
PaintRowsOnly(frame) ==
  /\ pending' = IF frame.rows THEN FALSE ELSE pending
  /\ hasRows' = frame.rows
  /\ note' = Table(showProcesses, frame.rows, pending', stopPolling)

\* _paint_metrics
Paint(frame) ==
  /\ pending' = IF frame.included THEN FALSE ELSE pending
  /\ hasRows' = frame.rows
  /\ note' = Table(showProcesses, frame.rows, pending', stopPolling)

\* on_metrics_updated: the first message only takes the splash away.
FrameArrives ==
  /\ queue # <<>>
  /\ queue' = Tail(queue)
  /\ \/ ~ready /\ ready' = TRUE /\ deferred' = Head(queue) /\ UNCHANGED tableVars
     \/ ready /\ Paint(Head(queue)) /\ UNCHANGED <<ready, deferred>>
  /\ UNCHANGED <<stopPolling, pollerVars, showProcesses, quit, late, extra>>

\* The paint of the first frame, once the dashboard has been laid out.
PaintDeferred ==
  /\ deferred # None
  /\ Paint(deferred)
  /\ deferred' = None
  /\ UNCHANGED <<stopPolling, pollerVars, queue, ready, showProcesses, quit, late, extra>>

Keyboard == ~quit

Pause ==
  /\ Keyboard /\ ~stopPolling
  /\ stopPolling' = TRUE
  /\ late' = [p \in Pollers |-> 0]
  /\ UNCHANGED <<pollerVars, queue, ready, deferred, showProcesses, tableVars, quit, extra>>

\* Mutant: the event is cleared and no worker started.
ResumeOnly ==
  /\ Keyboard /\ stopPolling
  /\ stopPolling' = FALSE
  /\ UNCHANGED <<pollerVars, queue, ready, deferred, showProcesses, tableVars, quit, late, extra>>

\* The event is cleared and a new worker started, whatever the old one is doing.
Resume ==
  /\ Keyboard /\ stopPolling /\ started < MaxPollers
  /\ stopPolling' = FALSE
  /\ started' = started + 1
  /\ pc' = [pc EXCEPT ![started'] = "check"]
  /\ UNCHANGED <<include, queue, ready, deferred, showProcesses, tableVars, quit, late, extra>>

action_toggle_processes ==
  /\ Keyboard
  /\ showProcesses' = ~showProcesses
  /\ pending' = (pending \/ showProcesses')
  /\ note' = Table(showProcesses', hasRows, pending', stopPolling)
  /\ UNCHANGED <<stopPolling, pollerVars, queue, ready, deferred, hasRows, quit, late, extra>>

\* The table is built again in another order.
action_cycle_sort ==
  /\ Keyboard
  /\ note' = Table(showProcesses, hasRows, pending, stopPolling)
  /\ UNCHANGED <<stopPolling, pollerVars, queue, ready, deferred, showProcesses, pending,
                 hasRows, quit, late, extra>>

on_unmount ==
  /\ Keyboard
  /\ quit' = TRUE
  /\ stopPolling' = TRUE
  /\ late' = [p \in Pollers |-> 0]
  /\ UNCHANGED <<pollerVars, queue, ready, deferred, showProcesses, tableVars, extra>>

-----------------------------------------------------------------------------

PollerStep(p) == CheckStop(p) \/ Post(p)
Ui == FrameArrives \/ PaintDeferred
Keys == Pause \/ Resume \/ action_toggle_processes \/ action_cycle_sort \/ on_unmount

Next == (\E p \in Pollers : PollerStep(p)) \/ Ui \/ Keys

Spec == Init /\ [][Next]_vars

\* Each thread runs when it can; nobody has to press a key.
Fairness ==
  /\ \A p \in Pollers : WF_vars(CheckStop(p)) /\ SF_vars(Post(p))
  /\ WF_vars(FrameArrives) /\ WF_vars(PaintDeferred)

FairSpec == Spec /\ Fairness

-----------------------------------------------------------------------------
(* What must hold.                                                         *)

\* While the application is paused, or gone, a poller posts at most the one frame it
\* was waiting for (get_snapshot is not interrupted, line 389).
PauseQuiets == stopPolling => \A p \in Pollers : late[p] <= 1

\* While it is not paused somebody polls: the resume of lines 440-443 never relies on
\* a worker that is about to end.
AlwaysPolled == ~stopPolling => Running # {}

\* Quitting ends every poller, and with it closes every monitor (lines 395-399).
QuitEndsAll == quit ~> Running = {}

\* An open table that says "collecting" stops saying so, unless it is closed, paused
\* or left (lines 323-327).
TableFills ==
  note = "collecting" ~> note # "collecting" \/ stopPolling

\* The polling thread is exclusive (docs/SPEC-system.md, section 6.1): once a newer one
\* has started, an older one posts at most the frame it was waiting for.
OldPollerLeaves == \A p \in Pollers : p < started => extra[p] <= 1
=============================================================================
