-------------------------- MODULE TuiPollingProofs --------------------------
(***************************************************************************)
(* Proofs about the polling of the TUI: a pause quiets every poller after  *)
(* one frame, and while there is no pause somebody polls.                  *)
(***************************************************************************)
EXTENDS TuiPolling, TLAPS

\* What the proofs need to know of the types.
PollTypeOK ==
  /\ stopPolling \in BOOLEAN
  /\ pc \in [Pollers -> {"unborn", "check", "sampling", "ended"}]
  /\ started \in Pollers
  /\ late \in [Pollers -> Nat]

\* The newest poller is at work unless it has been told to stop.
NewestWorks == ~stopPolling => pc[started] \in {"check", "sampling"}

\* A poller that has posted since the pause is not waiting for another frame.
OneFrameEach ==
  stopPolling => \A p \in Pollers : late[p] = 0 \/ (late[p] = 1 /\ pc[p] # "sampling")

PInv == PollTypeOK /\ NewestWorks /\ OneFrameEach

\* The ghost count goes up by one or stays at its bound.
LEMMA UpOne == ASSUME NEW n \in Nat PROVE Up(n) \in Nat /\ Up(n) <= n + 1
  BY PollingBounds DEF Up

LEMMA PInvInit == Init => PInv
<1> SUFFICES ASSUME Init PROVE PInv
    OBVIOUS
<1>1. 1 \in Pollers /\ pc[1] = "check"
  BY PollingBounds DEF Init, Pollers
<1>2. /\ pc \in [Pollers -> {"unborn", "check", "sampling", "ended"}]
      /\ late \in [Pollers -> Nat]
  BY DEF Init
<1> QED
  BY <1>1, <1>2 DEF Init, PInv, PollTypeOK, NewestWorks, OneFrameEach

LEMMA PInvNext == PInv /\ [Next]_vars => PInv'
<1> SUFFICES ASSUME PInv, [Next]_vars PROVE PInv'
    OBVIOUS
<1> USE DEF PInv, PollTypeOK, NewestWorks, OneFrameEach
<1>1. ASSUME NEW p \in Pollers, CheckStop(p) PROVE PInv'
  BY <1>1 DEF CheckStop
<1>2. ASSUME NEW p \in Pollers, Post(p) PROVE PInv'
  <2>1. late[p] \in Nat /\ Up(late[p]) \in Nat /\ Up(0) \in {0, 1}
    BY UpOne DEF Up
  <2>2. PollTypeOK' /\ NewestWorks'
    BY <1>2, <2>1 DEF Post
  <2>3. OneFrameEach'
    BY <1>2, <2>1 DEF Post
  <2> QED  BY <2>2, <2>3
<1>3. ASSUME FrameArrives PROVE PInv'
  BY <1>3 DEF FrameArrives, pollerVars
<1>4. ASSUME PaintDeferred PROVE PInv'
  BY <1>4 DEF PaintDeferred, pollerVars
<1>5. ASSUME Pause PROVE PInv'
  BY <1>5 DEF Pause, pollerVars
<1>6. ASSUME Resume PROVE PInv'
  <2>1. started' \in Pollers
    BY <1>6, PollingBounds DEF Resume, Pollers
  <2>2. PollTypeOK' /\ pc'[started'] = "check"
    BY <1>6, <2>1 DEF Resume
  <2> QED  BY <1>6, <2>2 DEF Resume
<1>7. ASSUME action_toggle_processes PROVE PInv'
  BY <1>7 DEF action_toggle_processes, pollerVars
<1>8. ASSUME action_cycle_sort PROVE PInv'
  BY <1>8 DEF action_cycle_sort, pollerVars
<1>9. ASSUME on_unmount PROVE PInv'
  BY <1>9 DEF on_unmount, pollerVars
<1>10. CASE UNCHANGED vars
  BY <1>10 DEF vars, pollerVars
<1> QED
  BY <1>1, <1>2, <1>3, <1>4, <1>5, <1>6, <1>7, <1>8, <1>9, <1>10
     DEF Next, PollerStep, Ui, Keys

\* While the application is paused or gone, each poller posts at most the one frame it
\* was waiting for (poll_metrics, app.py lines 376-396), however many pollers there are.
THEOREM PausesAreQuiet == Spec => []PauseQuiets
<1>1. PInv => PauseQuiets
  BY DEF PInv, PollTypeOK, OneFrameEach, PauseQuiets
<1> QED  BY <1>1, PInvInit, PInvNext, PTL DEF Spec

\* While the application is not paused some poller is at work: a resume never relies on
\* a worker that is about to end (action_toggle_pause, app.py lines 440-445).
THEOREM SomebodyPolls == Spec => []AlwaysPolled
<1>1. PInv => AlwaysPolled
  BY DEF PInv, PollTypeOK, NewestWorks, AlwaysPolled, Running
<1> QED  BY <1>1, PInvInit, PInvNext, PTL DEF Spec
=============================================================================
