------------------------ MODULE MetricsServerProofs ------------------------
(***************************************************************************)
(* What a scrape can rely on, for every number of handlers, references and *)
(* snapshots.                                                              *)
(***************************************************************************)
EXTENDS MetricsServer, TLAPS

Replies == [status : {0, 200, 404, 503}, snapshot : Nat, frame : Nat]

\* The dict only moves forward and everything read from it is behind it.
Forward ==
  /\ taken \in Nat /\ answered \in Nat
  /\ state \in [snapshot : Nat, frame : Nat]
  /\ state.snapshot = state.frame /\ state.snapshot <= taken
  /\ reading \in [Handlers -> Nat]
  /\ reply \in [Handlers -> Replies]
  /\ answered <= state.snapshot
  /\ \A h \in Handlers : reading[h] <= state.snapshot

SInv == Forward /\ FrameNotOlder

LEMMA InitForward == Init => SInv
  BY DEF Init, SInv, Forward, Replies, NoReply, FrameNotOlder

\* A response whose snapshot and frame came from the dict keeps the invariant.
LEMMA Responded ==
  ASSUME SInv, NEW h \in Handlers, NEW r \in Replies, Respond(h, r),
         r.snapshot <= state.snapshot, r.status = 200 => r.frame >= r.snapshot
  PROVE  SInv'
<1>1. /\ reply' = [reply EXCEPT ![h] = r] /\ reading' = [reading EXCEPT ![h] = 0]
      /\ taken' = taken /\ state' = state
      /\ answered' = IF r.snapshot > answered THEN r.snapshot ELSE answered
  BY DEF Respond
<1>2. r.snapshot \in Nat
  BY DEF Replies
<1>3. Forward'
  BY <1>1, <1>2 DEF SInv, Forward
<1>4. FrameNotOlder'
  BY <1>1 DEF SInv, Forward, FrameNotOlder
<1>5. QED
  BY <1>3, <1>4 DEF SInv

LEMMA GetStep ==
  ASSUME SInv, NEW h \in Handlers, Get(h)
  PROVE  /\ SInv'
         /\ \A g \in Handlers : reading[g] = 0 /\ reading'[g] # 0 => reading'[g] >= answered
         /\ \A g \in Handlers : reply[g] # reply'[g] /\ reply'[g].status = 503 => answered = 0
<1>1. CASE Respond(h, [NoReply EXCEPT !.status = 404])
  <2>1. [NoReply EXCEPT !.status = 404] = [status |-> 404, snapshot |-> 0, frame |-> 0]
    BY DEF NoReply
  <2>2. SInv'
    BY <1>1, <2>1, Responded DEF Replies, SInv, Forward
  <2>3. QED
    BY <1>1, <2>1, <2>2 DEF Respond, SInv, Forward
<1>2. CASE state.snapshot = 0 /\ Respond(h, [NoReply EXCEPT !.status = 503])
  <2>1. [NoReply EXCEPT !.status = 503] = [status |-> 503, snapshot |-> 0, frame |-> 0]
    BY DEF NoReply
  <2>2. SInv'
    BY <1>2, <2>1, Responded DEF Replies, SInv, Forward
  <2>3. answered = 0
    BY <1>2 DEF SInv, Forward
  <2>4. QED
    BY <1>2, <2>2, <2>3 DEF Respond, SInv, Forward
<1>3. CASE /\ reading' = [reading EXCEPT ![h] = state.snapshot]
           /\ UNCHANGED <<refVars, mainPc, loopPc, stop, taken, state, reply, answered>>
  BY <1>3 DEF SInv, Forward, FrameNotOlder
<1>4. QED
  BY <1>1, <1>2, <1>3 DEF Get

LEMMA AcceptStep ==
  ASSUME SInv, NEW h \in Handlers, Accept(h)
  PROVE  SInv' /\ UNCHANGED <<reading, reply>>
  BY DEF Accept, SInv, Forward, FrameNotOlder

LEMMA ReadFrameStep ==
  ASSUME SInv, NEW h \in Handlers, ReadFrame(h)
  PROVE  /\ SInv'
         /\ \A g \in Handlers : reading[g] = 0 /\ reading'[g] # 0 => reading'[g] >= answered
         /\ \A g \in Handlers : reply[g] # reply'[g] /\ reply'[g].status = 503 => answered = 0
<1> DEFINE r == [status |-> 200, snapshot |-> reading[h], frame |-> state.frame]
<1>1. /\ r \in Replies /\ r.snapshot <= state.snapshot /\ r.frame >= r.snapshot
      /\ r.status # 503
  BY DEF SInv, Forward, Replies
<1>2. Respond(h, r)
  BY DEF ReadFrame
<1>3. SInv'
  BY <1>1, <1>2, Responded
<1>4. /\ reply' = [reply EXCEPT ![h] = r] /\ reading' = [reading EXCEPT ![h] = 0]
  BY <1>2 DEF Respond
<1>5. QED
  BY <1>1, <1>3, <1>4 DEF SInv, Forward

\* The steps that touch neither the dict nor a handler.
LEMMA OtherStep ==
  ASSUME SInv, [Prime \/ Bind \/ Interrupt \/ CloseMonitor \/ LoopStep]_vars
  PROVE  SInv' /\ UNCHANGED <<reading, reply>>
<1>1. CASE Publish
  BY <1>1 DEF Publish, SInv, Forward, FrameNotOlder
<1>2. CASE Snapshot
  BY <1>2 DEF Snapshot, SInv, Forward, FrameNotOlder
<1>3. CASE Prime \/ Bind \/ Interrupt \/ CloseMonitor \/ CheckStop \/ Sampling \/ UNCHANGED vars
  <2>1. UNCHANGED <<taken, state, reading, reply, answered>>
    BY <1>3 DEF Prime, Bind, Interrupt, CloseMonitor, CheckStop, Sampling, vars, serverVars
  <2>2. QED
    BY <2>1 DEF SInv, Forward, FrameNotOlder
<1>4. QED
  BY <1>1, <1>2, <1>3 DEF LoopStep

LEMMA Step ==
  ASSUME SInv, [Next]_vars
  PROVE  /\ SInv'
         /\ \A g \in Handlers : reading[g] = 0 /\ reading'[g] # 0 => reading'[g] >= answered
         /\ \A g \in Handlers : reply[g] # reply'[g] /\ reply'[g].status = 503 => answered = 0
<1>1. CASE \E h \in Handlers : Accept(h) \/ Get(h) \/ ReadFrame(h)
  BY <1>1, AcceptStep, GetStep, ReadFrameStep
<1>2. CASE [Prime \/ Bind \/ Interrupt \/ CloseMonitor \/ LoopStep]_vars
  BY <1>2, OtherStep
<1>3. QED
  BY <1>1, <1>2 DEF Next

\* The alert verdicts of a scrape are never older than its snapshot.
THEOREM FramesNeverOlder == Spec => []FrameNotOlder
<1>1. SInv /\ [Next]_vars => SInv'
  BY Step
<1>2. SInv => FrameNotOlder
  BY DEF SInv
<1>3. QED
  BY InitForward, <1>1, <1>2, PTL DEF Spec

\* A scrape that starts after another has ended shows nothing older, and no 503.
THEOREM ScrapesNeverGoBack == Spec => ScrapesGoForward
<1>1. SInv /\ [Next]_vars =>
        SInv' /\ [\A h \in Handlers :
                    /\ reading[h] = 0 /\ reading'[h] # 0 => reading'[h] >= answered
                    /\ reply[h] # reply'[h] /\ reply'[h].status = 503 => answered = 0]_vars
  BY Step
<1>2. QED
  BY InitForward, <1>1, PTL DEF Spec, ScrapesGoForward
=============================================================================
