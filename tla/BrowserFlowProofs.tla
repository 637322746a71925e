---------------------------- MODULE BrowserFlowProofs ----------------------------
(***************************************************************************)
(* Proofs about BrowserFlow, for any set of workflows, any of which may    *)
(* log an account in, and any number of restarts.                          *)
(***************************************************************************)
EXTENDS BrowserFlow, TLAPS

-----------------------------------------------------------------------------
(* Types.  The updates of one record come first.                           *)

Threads == Pages \cup {"none", "waiting", "captured", "done"}

Pcs == {"idle", "start", "browser", "otp", "complete", "cancel", "ended"}

Outcomes == {"running", "succeeded", "failed"}

Replies == {"none", "ok", "error", "missing", "running", "otp", "torn"}

CallSteps == {"none", "queued", "reading", "waiting", "joining", "replied"}

Rpcs == {"none", "Start", "GetFlowStatus", "Complete", "Cancel"}

LEMMA WorkflowMoves ==
    ASSUME FlowTypeOK, NEW w \in Workflows, NEW pc \in Pcs
    PROVE  /\ Move(w, pc) => wf' \in [Workflows -> Workflow]
           /\ \A outcome \in Outcomes :
                 End(w, outcome) \/ Cleanup(w, outcome) => wf' \in [Workflows -> Workflow]
<1>1. wf[w] \in Workflow
    BY DEF FlowTypeOK
<1>2. [wf[w] EXCEPT !.pc = pc] \in Workflow
    BY <1>1 DEF Workflow, Pcs
<1>3. ASSUME NEW outcome \in Outcomes, NEW step \in Pcs
      PROVE  [wf[w] EXCEPT !.pc = step, !.outcome = outcome] \in Workflow
    BY <1>1 DEF Workflow, Pcs, Outcomes
<1>4. Move(w, pc) => wf' \in [Workflows -> Workflow]
    BY <1>2 DEF Move, FlowTypeOK
<1>5. ASSUME NEW outcome \in Outcomes, End(w, outcome) \/ Cleanup(w, outcome)
      PROVE  wf' \in [Workflows -> Workflow]
    <2>1. \E step \in Pcs : wf' = [wf EXCEPT ![w] = [wf[w] EXCEPT !.pc = step, !.outcome = outcome]]
        BY <1>5 DEF End, Cleanup, Pcs, FlowTypeOK
    <2> QED
        BY <1>3, <2>1 DEF FlowTypeOK
<1> QED
    BY <1>4, <1>5

LEMMA CallMoves ==
    ASSUME FlowTypeOK, NEW w \in Workflows
    PROVE  /\ \A at \in CallSteps : Enter(w, at) => call' \in [Workflows -> Call]
           /\ \A answer \in Replies : Reply(w, answer) => call' \in [Workflows -> Call]
           /\ \A rpc \in Rpcs : Issue(w, rpc) => call' \in [Workflows -> Call]
           /\ Hang(w) => call' \in [Workflows -> Call]
<1>1. call[w] \in Call /\ NoCall \in Call
    BY DEF FlowTypeOK, NoCall, Call
<1>2. ASSUME NEW at \in CallSteps PROVE [call[w] EXCEPT !.at = at] \in Call
    BY <1>1 DEF Call, CallSteps
<1>3. ASSUME NEW answer \in Replies
      PROVE  [call[w] EXCEPT !.at = "replied", !.reply = answer] \in Call
    BY <1>1 DEF Call, Replies
<1>4. ASSUME NEW rpc \in Rpcs
      PROVE  [NoCall EXCEPT !.rpc = rpc, !.at = "queued", !.client = TRUE] \in Call
    BY <1>1 DEF Call, Rpcs
<1>5. ASSUME NEW at \in CallSteps, Enter(w, at) PROVE call' \in [Workflows -> Call]
    BY <1>2, <1>5 DEF Enter, FlowTypeOK
<1>6. ASSUME NEW answer \in Replies, Reply(w, answer) PROVE call' \in [Workflows -> Call]
    <2>1. call' = [call EXCEPT ![w] = [call[w] EXCEPT !.at = "replied", !.reply = answer]]
        BY <1>6 DEF Reply, FlowTypeOK
    <2> QED
        BY <1>3, <2>1 DEF FlowTypeOK
<1>7. ASSUME NEW rpc \in Rpcs, Issue(w, rpc) PROVE call' \in [Workflows -> Call]
    BY <1>4, <1>7 DEF Issue, FlowTypeOK
<1>8. Hang(w) => call' \in [Workflows -> Call]
    BY <1>1 DEF Hang, FlowTypeOK
<1> QED
    BY <1>5, <1>6, <1>7, <1>8

LEMMA CauseMoves ==
    ASSUME FlowTypeOK, NEW w \in Workflows, NEW why \in Cause, Blame(w, why)
    PROVE  cause' \in [Workflows -> SUBSET Cause]
BY DEF Blame, FlowTypeOK

-----------------------------------------------------------------------------
(* What a step of the thread of a flow does to the flow.                   *)

FlowMoves(w, g) ==
    /\ g \in Flow
    /\ flow' = [flow EXCEPT ![w] = g]
    /\ g.cancelled = flow[w].cancelled
    /\ \/ g.otp = flow[w].otp /\ g.entered = flow[w].entered
       \/ /\ flow[w].otp = "set" /\ g.otp = "taken"
          /\ g.entered = IF flow[w].entered = 2 THEN 2 ELSE flow[w].entered + 1

LEMMA FinishMoves ==
    ASSUME FlowTypeOK, NEW w \in Workflows, NEW result \in {"none", "ok", "error"},
           Finish(w, result)
    PROVE  \E g : FlowMoves(w, g)
<1> DEFINE g == [flow[w] EXCEPT !.thread = "done", !.result = result]
<1>1. flow[w] \in Flow
    BY DEF FlowTypeOK
<1>2. g \in Flow /\ g.cancelled = flow[w].cancelled /\ g.otp = flow[w].otp
      /\ g.entered = flow[w].entered
    BY <1>1 DEF Flow, Pages
<1>3. flow' = [flow EXCEPT ![w] = g]
    BY DEF Finish, FlowTypeOK
<1> QED
    BY <1>2, <1>3 DEF FlowMoves

LEMMA TurnMoves ==
    ASSUME FlowTypeOK, NEW w \in Workflows, NEW page \in Threads, NEW next \in Threads,
           Turn(w, page, next)
    PROVE  (\E g : FlowMoves(w, g)) /\ UNCHANGED <<wf, call, flows, cause, restarts>>
<1> DEFINE g == [flow[w] EXCEPT !.thread = next]
<1>1. flow[w] \in Flow
    BY DEF FlowTypeOK
<1>2. g \in Flow /\ g.cancelled = flow[w].cancelled /\ g.otp = flow[w].otp
      /\ g.entered = flow[w].entered
    BY <1>1 DEF Flow, Threads
<1>3. flow' = [flow EXCEPT ![w] = g]
    BY DEF Turn, FlowTypeOK
<1> QED
    BY <1>2, <1>3 DEF FlowMoves, Turn

LEMMA WaitMoves ==
    ASSUME FlowTypeOK, NEW w \in Workflows, NEW page \in Pages, NEW next \in Pages,
           WaitFrom(w, page, next)
    PROVE  (\E g : FlowMoves(w, g)) /\ UNCHANGED <<wf, call, flows, cause, restarts>>
<1> DEFINE g == [flow[w] EXCEPT !.thread = "waiting", !.next = next]
<1>1. flow[w] \in Flow
    BY DEF FlowTypeOK
<1>2. g \in Flow /\ g.cancelled = flow[w].cancelled /\ g.otp = flow[w].otp
      /\ g.entered = flow[w].entered
    BY <1>1 DEF Flow, Pages
<1>3. flow' = [flow EXCEPT ![w] = g]
    BY DEF WaitFrom, FlowTypeOK
<1> QED
    BY <1>2, <1>3 DEF FlowMoves, WaitFrom

LEMMA OtpMoves ==
    ASSUME FlowTypeOK, NEW w \in Workflows, flow[w].otp = "set", TakeOtp(w, "taken")
    PROVE  \E g : FlowMoves(w, g)
<1> DEFINE n == IF flow[w].entered = 2 THEN 2 ELSE flow[w].entered + 1
           g == [flow[w] EXCEPT !.thread = flow[w].next, !.otp = "taken", !.entered = n]
<1>1. flow[w] \in Flow
    BY DEF FlowTypeOK
<1>2. n \in 0..2 /\ flow[w].next \in Pages
    BY <1>1 DEF Flow
<1>3. g \in Flow /\ g.cancelled = flow[w].cancelled /\ g.otp = "taken" /\ g.entered = n
    <2> HIDE DEF n
    <2> QED
        BY <1>1, <1>2 DEF Flow
<1>4. flow' = [flow EXCEPT ![w] = g]
    BY DEF TakeOtp, FlowTypeOK
<1> QED
    <2> HIDE DEF g
    <2> QED
        BY <1>3, <1>4 DEF FlowMoves

LEMMA FlowStepMoves ==
    ASSUME FlowTypeOK, NEW w \in Workflows, FlowStep(w)
    PROVE  /\ \E g : FlowMoves(w, g)
           /\ InFlight(w)
           /\ UNCHANGED <<wf, call, flows, cause, restarts>>
<1>1. CASE SubmitEmail(w)
    BY <1>1, TurnMoves DEF SubmitEmail, Turn, InFlight, Threads, Pages
<1>2. CASE SubmitPassword(w)
    <2>1. CASE w \in Logins
        BY <1>2, <2>1, TurnMoves DEF SubmitPassword, Turn, InFlight, Threads, Pages
    <2>2. CASE w \notin Logins
        BY <1>2, <2>2, TurnMoves DEF SubmitPassword, Turn, InFlight, Threads, Pages
    <2> QED
        BY <2>1, <2>2
<1>3. CASE AsksForCode(w)
    BY <1>3, TurnMoves, WaitMoves DEF AsksForCode, Turn, WaitFrom, InFlight, Threads, Pages
<1>4. CASE AsksLoginForCode(w)
    <2>1. PICK page \in {"password", "capture"} : WaitFrom(w, page, page)
        BY <1>4 DEF AsksLoginForCode
    <2>2. page \in Pages
        BY DEF Pages
    <2> QED
        BY <2>1, <2>2, WaitMoves DEF WaitFrom, InFlight
<1>5. CASE OtpArrives(w)
    <2>1. InFlight(w) /\ UNCHANGED <<wf, call, flows, cause, restarts>>
        BY <1>5 DEF OtpArrives, InFlight
    <2>2. Finish(w, "error") \/ (flow[w].otp = "set" /\ TakeOtp(w, "taken"))
        BY <1>5 DEF OtpArrives
    <2> QED
        BY <2>1, <2>2, FinishMoves, OtpMoves
<1>6. CASE FillProfile(w) \/ CaptureSession(w) \/ LoggedIn(w)
    BY <1>6, TurnMoves
       DEF FillProfile, CaptureSession, LoggedIn, Turn, InFlight, Threads, Pages
<1>7. CASE RunSucceeds(w) \/ RunFails(w)
    BY <1>7, FinishMoves DEF RunSucceeds, RunFails, InFlight
<1> QED
    BY <1>1, <1>2, <1>3, <1>4, <1>5, <1>6, <1>7 DEF FlowStep

LEMMA FlowUpdates ==
    ASSUME FlowTypeOK, NEW w \in Workflows
    PROVE  /\ [flow EXCEPT ![w].cancelled = TRUE] \in [Workflows -> Flow]
           /\ [flow EXCEPT ![w].otp = "set"] \in [Workflows -> Flow]
           /\ [flow EXCEPT ![w].thread = "entry"] \in [Workflows -> Flow]
           /\ [flow EXCEPT ![w].thread = "entry", ![w].cancelled = TRUE] \in [Workflows -> Flow]
<1>1. flow[w] \in Flow
    BY DEF FlowTypeOK
<1>2. /\ [flow[w] EXCEPT !.cancelled = TRUE] \in Flow
      /\ [flow[w] EXCEPT !.otp = "set"] \in Flow
      /\ [flow[w] EXCEPT !.thread = "entry"] \in Flow
      /\ [flow[w] EXCEPT !.thread = "entry", !.cancelled = TRUE] \in Flow
    BY <1>1 DEF Flow, Pages
<1>3. [flow EXCEPT ![w].thread = "entry", ![w].cancelled = TRUE]
          = [flow EXCEPT ![w] = [flow[w] EXCEPT !.thread = "entry", !.cancelled = TRUE]]
    BY DEF FlowTypeOK
<1> QED
    BY <1>2, <1>3 DEF FlowTypeOK

LEMMA ServeTypes ==
    ASSUME FlowTypeOK, NEW w \in Workflows, Serve(w)
    PROVE  FlowTypeOK'
<1>1. wf' \in [Workflows -> Workflow] /\ restarts' \in 0..MaxRestarts
    BY DEF Serve, FlowTypeOK
<1>2. \A at \in {"reading", "waiting", "joining"} : Enter(w, at) => call' \in [Workflows -> Call]
    BY CallMoves DEF CallSteps
<1>3. \A answer \in {"ok", "error", "missing", "none"} :
          Reply(w, answer) => call' \in [Workflows -> Call]
    BY CallMoves DEF Replies
<1>0. /\ flow \in [Workflows -> Flow]
      /\ [flow EXCEPT ![w].cancelled = TRUE] \in [Workflows -> Flow]
      /\ [flow EXCEPT ![w].otp = "set"] \in [Workflows -> Flow]
      /\ [flow EXCEPT ![w].thread = "entry"] \in [Workflows -> Flow]
      /\ [flow EXCEPT ![w].thread = "entry", ![w].cancelled = TRUE] \in [Workflows -> Flow]
    BY FlowUpdates DEF FlowTypeOK
<1>4. CASE Start(w)
    <2> DEFINE left == {v \in flows : ~Done(v)}
    <2>1. flows' \subseteq Workflows
        BY <1>4 DEF Start, NewFlow, FlowTypeOK
    <2>2. cause' \in [Workflows -> SUBSET Cause]
        <3>1. cause' = [v \in Workflows |->
                           IF v \in flows \ left /\ wf[v].outcome = "running"
                           THEN cause[v] \cup {"dropped"} ELSE cause[v]]
            BY <1>4 DEF Start, NewFlow
        <3>2. \A v \in Workflows : cause[v] \cup {"dropped"} \in SUBSET Cause
            BY DEF FlowTypeOK, Cause
        <3> HIDE DEF left
        <3> QED
            BY <3>1, <3>2 DEF FlowTypeOK
    <2>3. \/ Reply(w, "error") /\ UNCHANGED flow
          \/ Reply(w, "ok") /\ flow' = [flow EXCEPT ![w].thread = "entry"]
          \/ /\ Enter(w, "joining")
             /\ flow' = [flow EXCEPT ![w].thread = "entry", ![w].cancelled = TRUE]
        BY <1>4 DEF Start, NewFlow
    <2>4. call' \in [Workflows -> Call]
        BY <1>2, <1>3, <2>3
    <2>5. flow' \in [Workflows -> Flow]
        BY <1>0, <2>3
    <2> QED
        BY <1>1, <2>1, <2>2, <2>4, <2>5 DEF FlowTypeOK
<1>5. CASE GetFlowStatus(w)
    <2>1. call' \in [Workflows -> Call]
        <3>1. CASE w \in flows
            <4> DEFINE c == [call[w] EXCEPT !.at = "reading", !.seen = flow[w].result]
            <4>1. call[w] \in Call /\ flow[w] \in Flow
                BY DEF FlowTypeOK
            <4>2. c \in Call
                BY <4>1 DEF Call, Flow
            <4>3. call' = [call EXCEPT ![w] = c]
                BY <1>5, <3>1 DEF GetFlowStatus, FlowTypeOK
            <4> QED
                BY <4>2, <4>3 DEF FlowTypeOK
        <3> QED
            BY <1>3, <1>5, <3>1 DEF GetFlowStatus
    <2> QED
        BY <1>1, <1>5, <2>1 DEF GetFlowStatus, FlowTypeOK
<1>6. CASE Complete(w)
    <2>1. call' \in [Workflows -> Call]
        BY <1>2, <1>3, <1>6 DEF Complete
    <2>2. flow' \in [Workflows -> Flow]
        BY <1>0, <1>6 DEF Complete
    <2> QED
        BY <1>1, <1>6, <2>1, <2>2 DEF Complete, FlowTypeOK
<1>7. CASE Cancel(w)
    <2>1. call' \in [Workflows -> Call]
        BY <1>2, <1>3, <1>7 DEF Cancel
    <2>2. flow' \in [Workflows -> Flow]
        BY <1>0, <1>7 DEF Cancel
    <2> QED
        BY <1>1, <1>7, <2>1, <2>2 DEF Cancel, FlowTypeOK
<1>8. CASE Reply(w, "none") /\ UNCHANGED <<flow, flows, cause>>
    BY <1>1, <1>3, <1>8 DEF FlowTypeOK
<1> QED
    BY <1>4, <1>5, <1>6, <1>7, <1>8 DEF Serve

LEMMA HandlerTypes ==
    ASSUME FlowTypeOK, NEW w \in Workflows,
           StatusReturns(w) \/ CompleteReturns(w) \/ Joined(w)
    PROVE  FlowTypeOK'
<1>1. wf' \in [Workflows -> Workflow] /\ restarts' \in 0..MaxRestarts
    BY DEF StatusReturns, CompleteReturns, Joined, FlowTypeOK
<1>2. call[w] \in Call /\ flow[w] \in Flow
    BY DEF FlowTypeOK
<1>3. CASE StatusReturns(w)
    <2> DEFINE answer == IF call[w].seen # "none" THEN call[w].seen
                         ELSE IF Done(w) THEN "torn"
                         ELSE IF OtpRequired(w) THEN "otp" ELSE "running"
    <2>1. answer \in Replies
        BY <1>2 DEF Call, Replies
    <2>2. call' \in [Workflows -> Call]
        BY <1>3, <2>1, CallMoves DEF StatusReturns
    <2>3. cause' \in [Workflows -> SUBSET Cause]
        BY <1>3, CauseMoves DEF StatusReturns, FlowTypeOK, Cause
    <2> QED
        BY <1>1, <1>3, <2>2, <2>3 DEF StatusReturns, FlowTypeOK
<1>4. CASE CompleteReturns(w)
    <2>1. flow[w].result \in Replies /\ "joining" \in CallSteps
        BY <1>2 DEF Flow, Replies, CallSteps
    <2>2. call' \in [Workflows -> Call]
        BY <1>4, <2>1, CallMoves DEF CompleteReturns
    <2>3. flow' \in [Workflows -> Flow] /\ flows' \subseteq Workflows
        BY <1>4, FlowUpdates DEF CompleteReturns, FlowTypeOK
    <2> QED
        BY <1>1, <1>4, <2>2, <2>3 DEF CompleteReturns, FlowTypeOK
<1>5. CASE Joined(w)
    <2>1. call' \in [Workflows -> Call]
        <3>1. "ok" \in Replies /\ "error" \in Replies
            BY DEF Replies
        <3> QED
            BY <1>5, <3>1, CallMoves DEF Joined
    <2> QED
        BY <1>1, <1>5, <2>1 DEF Joined, FlowTypeOK
<1> QED
    BY <1>3, <1>4, <1>5

LEMMA WorkflowTypes ==
    ASSUME FlowTypeOK, NEW w \in Workflows, WorkflowStep(w) \/ ClientLeaves(w)
    PROVE  FlowTypeOK'
<1>1. /\ flow' \in [Workflows -> Flow] /\ flows' \subseteq Workflows
      /\ restarts' \in 0..MaxRestarts
    BY DEF WorkflowStep, ClientLeaves, BrowserAuthStart, StartAnswered, BrowserAuthWait,
           StatusAnswered, BrowserAuthComplete, CompleteAnswered, BrowserAuthCancel, FlowTypeOK
<1>2. wf[w] \in Workflow /\ wf' = wf => wf' \in [Workflows -> Workflow]
    BY DEF FlowTypeOK
<1>3. /\ \A pc \in Pcs : Move(w, pc) => wf' \in [Workflows -> Workflow]
      /\ \A outcome \in Outcomes :
            End(w, outcome) \/ Cleanup(w, outcome) => wf' \in [Workflows -> Workflow]
      /\ wf' = wf => wf' \in [Workflows -> Workflow]
    BY WorkflowMoves DEF Pcs, FlowTypeOK
<1>4. /\ \A rpc \in Rpcs : Issue(w, rpc) => call' \in [Workflows -> Call]
      /\ Hang(w) => call' \in [Workflows -> Call]
      /\ call' = call => call' \in [Workflows -> Call]
    BY CallMoves DEF FlowTypeOK
<1>5. /\ \A why \in Cause : Blame(w, why) => cause' \in [Workflows -> SUBSET Cause]
      /\ cause' = cause => cause' \in [Workflows -> SUBSET Cause]
    BY CauseMoves DEF FlowTypeOK
<1>6. wf[w].outcome \in Outcomes
    BY DEF FlowTypeOK, Workflow, Outcomes
<1> USE DEF Pcs, Outcomes, Rpcs, Cause
<1>7. wf' \in [Workflows -> Workflow]
    <2>1. CASE BrowserAuthStart(w)
        BY <1>3, <2>1 DEF BrowserAuthStart
    <2>2. CASE StartAnswered(w)
        BY <1>3, <2>2 DEF StartAnswered
    <2>3. CASE BrowserAuthWait(w)
        BY <1>3, <2>3 DEF BrowserAuthWait
    <2>4. CASE StatusAnswered(w)
        BY <1>3, <2>4 DEF StatusAnswered
    <2>5. CASE BrowserAuthComplete(w)
        BY <1>3, <2>5 DEF BrowserAuthComplete
    <2>6. CASE CompleteAnswered(w)
        BY <1>3, <2>6 DEF CompleteAnswered
    <2>7. CASE BrowserAuthCancel(w)
        BY <1>3, <1>6, <2>7 DEF BrowserAuthCancel
    <2>8. CASE ClientLeaves(w)
        BY <1>3, <1>6, <2>8 DEF ClientLeaves
    <2> QED
        BY <2>1, <2>2, <2>3, <2>4, <2>5, <2>6, <2>7, <2>8 DEF WorkflowStep
<1>8. call' \in [Workflows -> Call]
    <2>1. CASE WorkflowStep(w)
        BY <1>4, <2>1
           DEF WorkflowStep, BrowserAuthStart, StartAnswered, BrowserAuthWait, StatusAnswered,
               BrowserAuthComplete, CompleteAnswered, BrowserAuthCancel
    <2>2. CASE ClientLeaves(w)
        <3>1. [call[w] EXCEPT !.client = FALSE] \in Call
            <4>1. call[w] \in Call
                BY DEF FlowTypeOK
            <4> QED
                BY <4>1 DEF Call
        <3>2. [call EXCEPT ![w].client = FALSE] \in [Workflows -> Call]
            BY <3>1 DEF FlowTypeOK
        <3> QED
            BY <1>4, <2>2, <3>2 DEF ClientLeaves
    <2> QED
        BY <2>1, <2>2
<1>9. cause' \in [Workflows -> SUBSET Cause]
    <2>1. CASE WorkflowStep(w)
        BY <1>5, <2>1
           DEF WorkflowStep, BrowserAuthStart, StartAnswered, BrowserAuthWait, StatusAnswered,
               BrowserAuthComplete, CompleteAnswered, BrowserAuthCancel
    <2>2. CASE ClientLeaves(w)
        BY <1>5, <2>2 DEF ClientLeaves
    <2> QED
        BY <2>1, <2>2
<1> QED
    BY <1>1, <1>7, <1>8, <1>9 DEF FlowTypeOK

LEMMA RestartTypes == FlowTypeOK /\ Restart => FlowTypeOK'
<1> SUFFICES ASSUME FlowTypeOK, Restart PROVE FlowTypeOK'
    OBVIOUS
<1>1. wf' \in [Workflows -> Workflow] /\ flows' \subseteq Workflows
    BY DEF Restart, FlowTypeOK
<1>2. restarts' \in 0..MaxRestarts
    <2>1. restarts \in 0..MaxRestarts /\ restarts < MaxRestarts /\ restarts' = restarts + 1
        BY DEF Restart, FlowTypeOK
    <2> QED
        BY <2>1, BrowserAssumption
<1>3. flow' \in [Workflows -> Flow]
    <2>1. ASSUME NEW v \in Workflows
          PROVE  flow[v] \in Flow /\ [flow[v] EXCEPT !.thread = "done", !.result = "error"] \in Flow
        BY DEF FlowTypeOK, Flow
    <2>2. flow' = [v \in Workflows |->
                      IF InFlight(v) THEN [flow[v] EXCEPT !.thread = "done", !.result = "error"]
                      ELSE flow[v]]
        BY DEF Restart
    <2> QED
        BY <2>1, <2>2
<1>4. call' \in [Workflows -> Call]
    <2> DEFINE Cut(v) == [call[v] EXCEPT !.at = "replied", !.reply = "none"]
               Open(v) == call[v].at \in {"queued", "reading", "waiting", "joining"}
    <2>1. ASSUME NEW v \in Workflows
          PROVE  call[v] \in Call /\ Cut(v) \in Call
        BY DEF FlowTypeOK, Call
    <2>2. call' = [v \in Workflows |-> IF Open(v) THEN Cut(v) ELSE call[v]]
        BY DEF Restart
    <2> HIDE DEF Cut, Open
    <2> QED
        BY <2>1, <2>2
<1>5. cause' \in [Workflows -> SUBSET Cause]
    <2>1. \A v \in Workflows : cause[v] \cup {"reply lost"} \in SUBSET Cause
        BY DEF FlowTypeOK, Cause
    <2> QED
        BY <2>1 DEF Restart, FlowTypeOK
<1> QED
    BY <1>1, <1>2, <1>3, <1>4, <1>5 DEF FlowTypeOK

LEMMA InitTypes == Init => FlowTypeOK
<1> SUFFICES ASSUME Init PROVE FlowTypeOK
    OBVIOUS
<1>1. wf \in [Workflows -> Workflow] /\ cause \in [Workflows -> SUBSET Cause]
    BY DEF Init, Workflow
<1>2. call \in [Workflows -> Call]
    BY DEF Init, NoCall, Call
<1>3. flow \in [Workflows -> Flow]
    BY DEF Init, Flow, Pages
<1> QED
    BY <1>1, <1>2, <1>3, BrowserAssumption DEF Init, FlowTypeOK

LEMMA NextTypes == FlowTypeOK /\ [Next]_vars => FlowTypeOK'
<1> SUFFICES ASSUME FlowTypeOK, [Next]_vars PROVE FlowTypeOK'
    OBVIOUS
<1>1. ASSUME NEW w \in Workflows, FlowStep(w) PROVE FlowTypeOK'
    BY <1>1, FlowStepMoves DEF FlowMoves, FlowTypeOK
<1>2. ASSUME NEW w \in Workflows, HandlerStep(w) PROVE FlowTypeOK'
    BY <1>2, ServeTypes, HandlerTypes DEF HandlerStep
<1>3. ASSUME NEW w \in Workflows, WorkflowStep(w) \/ ClientLeaves(w) PROVE FlowTypeOK'
    BY <1>3, WorkflowTypes
<1>4. CASE Restart
    BY <1>4, RestartTypes
<1>5. CASE UNCHANGED vars
    BY <1>5 DEF vars, FlowTypeOK
<1> QED
    BY <1>1, <1>2, <1>3, <1>4, <1>5 DEF Next

\* Workflows, calls, flows and histories keep their types.
THEOREM TypeCorrect == Spec => []FlowTypeOK
BY InitTypes, NextTypes, PTL DEF Spec

-----------------------------------------------------------------------------
(* What the updates do to the call of one workflow.                        *)

CallIs(w, rpc, at, client) ==
    /\ call'[w].rpc = rpc /\ call'[w].at = at /\ call'[w].client = client
    /\ \A v \in Workflows \ {w} : call'[v] = call[v]

LEMMA EnterEffect ==
    ASSUME FlowTypeOK, NEW w \in Workflows, NEW at, Enter(w, at)
    PROVE  CallIs(w, call[w].rpc, at, call[w].client)
<1>1. call[w] \in Call
    BY DEF FlowTypeOK
<1>2. call' = [call EXCEPT ![w] = [call[w] EXCEPT !.at = at]]
    BY DEF Enter, FlowTypeOK
<1> QED
    BY <1>1, <1>2 DEF CallIs, FlowTypeOK, Call

LEMMA ReplyEffect ==
    ASSUME FlowTypeOK, NEW w \in Workflows, NEW answer, Reply(w, answer)
    PROVE  CallIs(w, call[w].rpc, "replied", call[w].client)
<1>1. call[w] \in Call
    BY DEF FlowTypeOK
<1>2. call' = [call EXCEPT ![w] = [call[w] EXCEPT !.at = "replied", !.reply = answer]]
    BY DEF Reply, FlowTypeOK
<1> QED
    BY <1>1, <1>2 DEF CallIs, FlowTypeOK, Call

LEMMA IssueEffect ==
    ASSUME FlowTypeOK, NEW w \in Workflows, NEW rpc, Issue(w, rpc)
    PROVE  CallIs(w, rpc, "queued", TRUE)
<1> DEFINE c == [NoCall EXCEPT !.rpc = rpc, !.at = "queued", !.client = TRUE]
<1>1. c.rpc = rpc /\ c.at = "queued" /\ c.client = TRUE
    BY DEF NoCall
<1>2. call' = [call EXCEPT ![w] = c]
    BY DEF Issue
<1> HIDE DEF c
<1> QED
    BY <1>1, <1>2 DEF CallIs, FlowTypeOK

LEMMA HangEffect ==
    ASSUME FlowTypeOK, NEW w \in Workflows, Hang(w)
    PROVE  CallIs(w, "none", "none", FALSE)
BY DEF Hang, NoCall, CallIs, FlowTypeOK

LEMMA LeaveEffect ==
    ASSUME FlowTypeOK, NEW w \in Workflows, call' = [call EXCEPT ![w].client = FALSE]
    PROVE  CallIs(w, call[w].rpc, call[w].at, FALSE)
<1>1. call[w] \in Call
    BY DEF FlowTypeOK
<1> QED
    BY <1>1 DEF CallIs, FlowTypeOK, Call

LEMMA ReadEffect ==
    ASSUME FlowTypeOK, NEW w \in Workflows, NEW result,
           call' = [call EXCEPT ![w].at = "reading", ![w].seen = result]
    PROVE  CallIs(w, call[w].rpc, "reading", call[w].client)
<1>1. call[w] \in Call
    BY DEF FlowTypeOK
<1>2. call' = [call EXCEPT ![w] = [call[w] EXCEPT !.at = "reading", !.seen = result]]
    BY DEF FlowTypeOK
<1> QED
    BY <1>1, <1>2 DEF CallIs, FlowTypeOK, Call

-----------------------------------------------------------------------------
(* One flow that is not cancelled.  The invariant says where it is: alone  *)
(* in the registry, which no handler clears but of flows that are done or  *)
(* cancelled.                                                              *)

Busy(w) == InFlight(w) /\ ~flow[w].cancelled

OneInv ==
    /\ FlowTypeOK
    /\ \A w \in Workflows : Busy(w) => flows = {w}
    /\ \A w \in Workflows : call[w].at = "joining" => flow[w].cancelled

\* A step that leaves the registry as it is, wakes no flow and joins no thread.
LEMMA QuietOne ==
    ASSUME OneInv, FlowTypeOK', UNCHANGED flows,
           \A v \in Workflows : Busy(v)' => Busy(v),
           \A v \in Workflows : flow[v].cancelled => flow'[v].cancelled,
           \A v \in Workflows : call'[v].at = "joining" =>
               call[v].at = "joining" \/ flow'[v].cancelled
    PROVE  OneInv'
BY DEF OneInv

LEMMA FlowStepOne ==
    ASSUME OneInv, FlowTypeOK', NEW w \in Workflows, FlowStep(w)
    PROVE  OneInv'
<1>1. PICK g : FlowMoves(w, g)
    BY FlowStepMoves DEF OneInv
<1>2. InFlight(w) /\ UNCHANGED <<call, flows>>
    BY FlowStepMoves DEF OneInv
<1>3. flow'[w] = g /\ \A v \in Workflows \ {w} : flow'[v] = flow[v]
    BY <1>1 DEF FlowMoves, OneInv, FlowTypeOK
<1>4. \A v \in Workflows : flow'[v].cancelled = flow[v].cancelled
    BY <1>1, <1>3 DEF FlowMoves
<1>5. \A v \in Workflows : Busy(v)' => Busy(v)
    BY <1>2, <1>3, <1>4 DEF Busy, InFlight
<1> QED
    BY <1>2, <1>4, <1>5, QuietOne

LEMMA StartOne ==
    ASSUME OneInv, FlowTypeOK', NEW w \in Workflows, Start(w)
    PROVE  OneInv'
<1> DEFINE left == {v \in flows : ~Done(v)}
<1>1. flows' = IF left = {} THEN {w} ELSE left
    BY DEF Start, NewFlow
<1>2. CASE left # {}
    <2>1. Reply(w, "error") /\ flow' = flow
        BY <1>2 DEF Start, NewFlow
    <2>2. \A v \in Workflows : call'[v].at = "joining" => call[v].at = "joining"
        BY <2>1, ReplyEffect DEF CallIs, OneInv
    <2>3. ASSUME NEW v \in Workflows, Busy(v) PROVE flows' = {v}
        BY <1>1, <1>2, <2>3 DEF OneInv, Busy, InFlight, Done
    <2> QED
        BY <2>1, <2>2, <2>3 DEF OneInv, Busy, InFlight
<1>3. CASE left = {}
    <2>1. \A v \in Workflows : ~Busy(v)
        BY <1>3 DEF OneInv, Busy, InFlight, Done
    <2>2. flows' = {w}
        BY <1>1, <1>3
    <2>3. \/ Reply(w, "ok") /\ flow' = [flow EXCEPT ![w].thread = "entry"]
          \/ /\ Enter(w, "joining")
             /\ flow' = [flow EXCEPT ![w].thread = "entry", ![w].cancelled = TRUE]
        BY <1>3 DEF Start, NewFlow
    <2>4. /\ \A v \in Workflows \ {w} : flow'[v] = flow[v] /\ call'[v] = call[v]
          /\ flow'[w].cancelled \/ flow'[w].cancelled = flow[w].cancelled
          /\ call'[w].at = "joining" => flow'[w].cancelled
        <3>1. CASE Reply(w, "ok") /\ flow' = [flow EXCEPT ![w].thread = "entry"]
            BY <3>1 DEF Reply, OneInv, FlowTypeOK, Flow
        <3>2. CASE /\ Enter(w, "joining")
                   /\ flow' = [flow EXCEPT ![w].thread = "entry", ![w].cancelled = TRUE]
            <4>1. flow' = [flow EXCEPT ![w] = [flow[w] EXCEPT !.thread = "entry",
                                                             !.cancelled = TRUE]]
                BY <3>2 DEF OneInv, FlowTypeOK
            <4>2. flow[w] \in Flow
                BY DEF OneInv, FlowTypeOK
            <4>3. flow'[w].cancelled /\ \A v \in Workflows \ {w} : flow'[v] = flow[v]
                BY <4>1, <4>2 DEF OneInv, FlowTypeOK, Flow
            <4> QED
                BY <3>2, <4>3 DEF Enter, OneInv, FlowTypeOK
        <3> QED
            BY <2>3, <3>1, <3>2
    <2> QED
        BY <2>1, <2>2, <2>4 DEF OneInv, Busy, InFlight
<1> QED
    BY <1>2, <1>3

\* Cancelling a flow and joining its thread.
LEMMA CancelOne ==
    ASSUME OneInv, FlowTypeOK', NEW w \in Workflows, UNCHANGED flows,
           Enter(w, "joining"), flow' = [flow EXCEPT ![w].cancelled = TRUE]
    PROVE  OneInv'
<1>1. /\ \A v \in Workflows \ {w} : flow'[v] = flow[v] /\ call'[v] = call[v]
      /\ flow'[w].cancelled /\ flow'[w].thread = flow[w].thread
    BY DEF Enter, OneInv, FlowTypeOK, Flow
<1> QED
    BY <1>1, QuietOne DEF Busy, InFlight

LEMMA HandlerOne ==
    ASSUME OneInv, FlowTypeOK', NEW w \in Workflows, HandlerStep(w)
    PROVE  OneInv'
<1>1. CASE Serve(w)
    <2>1. CASE Start(w)
        BY <2>1, StartOne
    <2>2. CASE GetFlowStatus(w) \/ (Reply(w, "none") /\ UNCHANGED <<flow, flows, cause>>)
        <3>1. /\ UNCHANGED <<flow, flows>>
              /\ \A v \in Workflows : call'[v].at = "joining" => call[v].at = "joining"
            BY <2>2, ReplyEffect, ReadEffect DEF GetFlowStatus, CallIs, OneInv
        <3> QED
            BY <3>1, QuietOne DEF Busy, InFlight
    <2>3. CASE Complete(w)
        <3>1. /\ UNCHANGED flows
              /\ \A v \in Workflows : call'[v].at = "joining" => call[v].at = "joining"
            BY <2>3, EnterEffect, ReplyEffect DEF Complete, CallIs, OneInv
        <3>2. \A v \in Workflows : /\ flow'[v].cancelled = flow[v].cancelled
                                   /\ flow'[v].thread = flow[v].thread
            BY <2>3 DEF Complete, OneInv, FlowTypeOK, Flow
        <3> QED
            BY <3>1, <3>2, QuietOne DEF Busy, InFlight
    <2>4. CASE Cancel(w)
        <3>1. CASE w \in flows
            BY <2>4, <3>1, CancelOne DEF Cancel
        <3>2. CASE w \notin flows
            <4>1. /\ UNCHANGED <<flow, flows>>
                  /\ \A v \in Workflows : call'[v].at = "joining" => call[v].at = "joining"
                BY <2>4, <3>2, ReplyEffect DEF Cancel, CallIs, OneInv
            <4> QED
                BY <4>1, QuietOne DEF Busy, InFlight
        <3> QED
            BY <3>1, <3>2
    <2> QED
        BY <1>1, <2>1, <2>2, <2>3, <2>4 DEF Serve
<1>2. CASE StatusReturns(w)
    <2>1. /\ UNCHANGED <<flow, flows>>
          /\ \A v \in Workflows : call'[v].at = "joining" => call[v].at = "joining"
        BY <1>2, ReplyEffect DEF StatusReturns, CallIs, OneInv
    <2> QED
        BY <2>1, QuietOne DEF Busy, InFlight
<1>3. CASE CompleteReturns(w)
    <2>1. CASE Done(w) /\ flows' = flows \ {w} /\ flow' = flow /\ Reply(w, flow[w].result)
        <3>1. \A v \in Workflows : call'[v].at = "joining" => call[v].at = "joining"
            BY <2>1, ReplyEffect DEF CallIs, OneInv
        <3>2. ASSUME NEW v \in Workflows, Busy(v) PROVE flows' = {v}
            BY <2>1, <3>2 DEF OneInv, Busy, InFlight, Done
        <3> QED
            BY <2>1, <3>1, <3>2 DEF OneInv, Busy, InFlight
    <2>2. CASE /\ flow' = [flow EXCEPT ![w].cancelled = TRUE]
               /\ Enter(w, "joining")
               /\ UNCHANGED flows
        BY <2>2, CancelOne
    <2> QED
        BY <1>3, <2>1, <2>2 DEF CompleteReturns
<1>4. CASE Joined(w)
    <2>1. flow[w].cancelled /\ flows' = flows \ {w} /\ flow' = flow
        BY <1>4 DEF Joined, OneInv
    <2>2. \A v \in Workflows : call'[v].at = "joining" => call[v].at = "joining"
        BY <1>4, ReplyEffect DEF Joined, CallIs, OneInv
    <2>3. ASSUME NEW v \in Workflows, Busy(v) PROVE flows' = {v}
        BY <2>1, <2>3 DEF OneInv, Busy
    <2> QED
        BY <2>1, <2>2, <2>3 DEF OneInv, Busy, InFlight
<1> QED
    BY <1>1, <1>2, <1>3, <1>4 DEF HandlerStep

LEMMA NextOne == OneInv /\ [Next]_vars => OneInv'
<1> SUFFICES ASSUME OneInv, [Next]_vars PROVE OneInv'
    OBVIOUS
<1>1. FlowTypeOK'
    BY NextTypes DEF OneInv
<1>2. ASSUME NEW w \in Workflows, FlowStep(w) PROVE OneInv'
    BY <1>1, <1>2, FlowStepOne
<1>3. ASSUME NEW w \in Workflows, HandlerStep(w) PROVE OneInv'
    BY <1>1, <1>3, HandlerOne
<1>4. ASSUME NEW w \in Workflows, WorkflowStep(w) \/ ClientLeaves(w) PROVE OneInv'
    <2>1. /\ UNCHANGED <<flow, flows>>
          /\ \/ \E rpc : Issue(w, rpc)
             \/ Hang(w)
             \/ call' = call
             \/ call' = [call EXCEPT ![w].client = FALSE]
        BY <1>4 DEF WorkflowStep, ClientLeaves, BrowserAuthStart, StartAnswered,
                    BrowserAuthWait, StatusAnswered, BrowserAuthComplete, CompleteAnswered,
                    BrowserAuthCancel
    <2>2. \A v \in Workflows : call'[v].at = "joining" => call[v].at = "joining"
        BY <2>1, IssueEffect, HangEffect, LeaveEffect DEF CallIs, OneInv
    <2> QED
        BY <1>1, <2>1, <2>2, QuietOne DEF Busy, InFlight
<1>5. CASE Restart
    <2>1. \A v \in Workflows : ~InFlight(v)'
        BY <1>5 DEF Restart, InFlight, OneInv, FlowTypeOK, Flow
    <2>2. \A v \in Workflows : call'[v].at # "joining"
        BY <1>5 DEF Restart, OneInv, FlowTypeOK, Call
    <2> QED
        BY <1>1, <2>1, <2>2 DEF OneInv, Busy
<1>6. CASE UNCHANGED vars
    BY <1>1, <1>6 DEF vars, OneInv, Busy, InFlight
<1> QED
    BY <1>2, <1>3, <1>4, <1>5, <1>6 DEF Next

\* For any number of workflows, logins and restarts: of the browsers at work one at
\* most has not been cancelled.
THEOREM FlowsStayExclusive == Spec => []FlowsAreExclusive
<1>1. Init => OneInv
    BY InitTypes DEF Init, NoCall, OneInv, Busy, InFlight
<1>2. OneInv => FlowsAreExclusive
    BY DEF OneInv, FlowsAreExclusive, OneUncancelled, Busy
<1> QED
    BY <1>1, <1>2, NextOne, PTL DEF Spec

-----------------------------------------------------------------------------
(* A code is entered once.  The invariant follows the one Complete call of *)
(* a workflow: until it is served the flow has no code, and no other call  *)
(* can bring one.                                                          *)

\* A call somebody waits for is the one the workflow is at.
InTurn(w) ==
    /\ call[w].client =>
          \/ call[w].rpc = "Start" /\ wf[w].pc = "start"
          \/ call[w].rpc = "GetFlowStatus" /\ wf[w].pc = "browser"
          \/ call[w].rpc = "Complete" /\ wf[w].pc = "complete"
          \/ call[w].rpc = "Cancel" /\ wf[w].pc = "cancel"
    /\ call[w].at = "none" => ~call[w].client
    /\ call[w].rpc = "Complete" => wf[w].pc \in {"complete", "ended"}

CodeIsUnknown(w) ==
    \/ wf[w].pc \in {"idle", "start", "browser", "otp"}
    \/ call[w].rpc = "Complete" /\ call[w].at = "queued"

OnceInv(w) ==
    /\ InTurn(w)
    /\ CodeIsUnknown(w) => flow[w].otp = "none"
    /\ flow[w].otp # "taken" => flow[w].entered = 0
    /\ flow[w].entered <= 1

CodeInv == FlowTypeOK /\ \A w \in Workflows : OnceInv(w)

\* Steps of one workflow, its calls and its flow leave those of the others alone.
LEMMA OthersOnce ==
    ASSUME CodeInv, NEW w \in Workflows, OnceInv(w)', FlowTypeOK',
           \A v \in Workflows \ {w} :
               wf'[v] = wf[v] /\ call'[v] = call[v] /\ flow'[v] = flow[v]
    PROVE  CodeInv'
BY DEF CodeInv, OnceInv, InTurn, CodeIsUnknown

LEMMA FlowStepOnce ==
    ASSUME CodeInv, FlowTypeOK', NEW w \in Workflows, FlowStep(w)
    PROVE  CodeInv'
<1>1. PICK g : FlowMoves(w, g)
    BY FlowStepMoves DEF CodeInv
<1>2. UNCHANGED <<wf, call>>
    BY FlowStepMoves DEF CodeInv
<1>3. flow'[w] = g /\ \A v \in Workflows \ {w} : flow'[v] = flow[v]
    BY <1>1 DEF FlowMoves, CodeInv, FlowTypeOK
<1>4. OnceInv(w)'
    <2>1. CASE g.otp = flow[w].otp /\ g.entered = flow[w].entered
        BY <1>2, <1>3, <2>1 DEF CodeInv, OnceInv, InTurn, CodeIsUnknown
    <2>2. CASE /\ flow[w].otp = "set" /\ g.otp = "taken"
               /\ g.entered = IF flow[w].entered = 2 THEN 2 ELSE flow[w].entered + 1
        <3>1. flow[w].entered = 0 /\ ~CodeIsUnknown(w) /\ InTurn(w)
            BY <2>2 DEF CodeInv, OnceInv
        <3>2. g.entered = 1
            BY <2>2, <3>1
        <3> QED
            BY <1>2, <1>3, <2>2, <3>1, <3>2 DEF OnceInv, InTurn, CodeIsUnknown
    <2> QED
        BY <1>1, <2>1, <2>2 DEF FlowMoves
<1> QED
    BY <1>2, <1>3, <1>4, OthersOnce

\* What a handler leaves of the call and of the flow, when it gives no code.
LEMMA AnsweredOnce ==
    ASSUME CodeInv, FlowTypeOK', NEW w \in Workflows, UNCHANGED wf,
           NEW at \in CallSteps \ {"none", "queued"},
           CallIs(w, call[w].rpc, at, call[w].client),
           \A v \in Workflows \ {w} : flow'[v] = flow[v],
           flow'[w].otp = flow[w].otp, flow'[w].entered = flow[w].entered
    PROVE  CodeInv'
<1>1. OnceInv(w)'
    BY DEF CodeInv, OnceInv, InTurn, CodeIsUnknown, CallIs
<1> QED
    BY <1>1, OthersOnce DEF CallIs

LEMMA HandlerOnce ==
    ASSUME CodeInv, FlowTypeOK', NEW w \in Workflows, HandlerStep(w)
    PROVE  CodeInv'
<1>1. wf' = wf /\ FlowTypeOK
    BY DEF HandlerStep, Serve, StatusReturns, CompleteReturns, Joined, CodeInv
<1>2. flow[w] \in Flow
    BY <1>1 DEF FlowTypeOK
<1>3. \A at \in CallSteps : Enter(w, at) => CallIs(w, call[w].rpc, at, call[w].client)
    BY <1>1, EnterEffect
<1>4. \A answer : Reply(w, answer) => CallIs(w, call[w].rpc, "replied", call[w].client)
    BY <1>1, ReplyEffect
<1>5. \A at \in {"reading", "waiting", "joining", "replied"} :
          at \in CallSteps \ {"none", "queued"}
    BY DEF CallSteps
<1>6. CASE Serve(w) /\ Start(w)
    <2>1. /\ \E at \in {"joining", "replied"} : CallIs(w, call[w].rpc, at, call[w].client)
          /\ \/ flow' = flow
             \/ flow' = [flow EXCEPT ![w].thread = "entry"]
             \/ flow' = [flow EXCEPT ![w] = [flow[w] EXCEPT !.thread = "entry",
                                                           !.cancelled = TRUE]]
        <3>1. \/ Reply(w, "error") /\ flow' = flow
              \/ Reply(w, "ok") /\ flow' = [flow EXCEPT ![w].thread = "entry"]
              \/ /\ Enter(w, "joining")
                 /\ flow' = [flow EXCEPT ![w].thread = "entry", ![w].cancelled = TRUE]
            BY <1>6 DEF Start, NewFlow
        <3>2. [flow EXCEPT ![w].thread = "entry", ![w].cancelled = TRUE]
                = [flow EXCEPT ![w] = [flow[w] EXCEPT !.thread = "entry", !.cancelled = TRUE]]
            BY <1>1 DEF FlowTypeOK
        <3> QED
            BY <1>3, <1>4, <1>5, <3>1, <3>2
    <2>2. /\ \A v \in Workflows \ {w} : flow'[v] = flow[v]
          /\ flow'[w].otp = flow[w].otp /\ flow'[w].entered = flow[w].entered
        <3>1. CASE flow' = flow
            BY <3>1
        <3>2. CASE flow' = [flow EXCEPT ![w].thread = "entry"]
            BY <1>1, <1>2, <3>2 DEF FlowTypeOK, Flow
        <3>3. CASE flow' = [flow EXCEPT ![w] = [flow[w] EXCEPT !.thread = "entry",
                                                             !.cancelled = TRUE]]
            BY <1>1, <1>2, <3>3 DEF FlowTypeOK, Flow
        <3> QED
            BY <2>1, <3>1, <3>2, <3>3
    <2> QED
        BY <1>1, <1>5, <2>1, <2>2, AnsweredOnce
<1>7. CASE Serve(w) /\ GetFlowStatus(w)
    <2>1. flow' = flow /\ \E at \in {"reading", "replied"} :
                              CallIs(w, call[w].rpc, at, call[w].client)
        BY <1>1, <1>4, <1>7, ReadEffect DEF GetFlowStatus
    <2> QED
        BY <1>1, <1>5, <2>1, AnsweredOnce
<1>8. CASE Serve(w) /\ Complete(w)
    <2>1. CASE w \in flows
        <3>1. CallIs(w, "Complete", "waiting", call[w].client)
            BY <1>3, <1>5, <1>8, <2>1 DEF Complete
        <3>2. /\ \A v \in Workflows \ {w} : flow'[v] = flow[v]
              /\ flow'[w].otp = "set" /\ flow'[w].entered = flow[w].entered
            BY <1>1, <1>2, <1>8, <2>1 DEF Complete, FlowTypeOK, Flow
        <3>3. flow[w].otp = "none" /\ wf[w].pc \in {"complete", "ended"}
            BY <1>8 DEF Serve, Complete, CodeInv, OnceInv, InTurn, CodeIsUnknown
        <3>4. OnceInv(w)'
            BY <1>1, <1>8, <3>1, <3>2, <3>3
               DEF Complete, CodeInv, OnceInv, InTurn, CodeIsUnknown, CallIs
        <3> QED
            BY <1>1, <3>1, <3>2, <3>4, OthersOnce DEF CallIs
    <2>2. CASE w \notin flows
        <3>1. flow' = flow /\ CallIs(w, call[w].rpc, "replied", call[w].client)
            BY <1>4, <1>8, <2>2 DEF Complete
        <3> QED
            BY <1>1, <1>5, <3>1, AnsweredOnce
    <2> QED
        BY <2>1, <2>2
<1>9. CASE Serve(w) /\ Cancel(w)
    <2>1. /\ \E at \in {"joining", "replied"} : CallIs(w, call[w].rpc, at, call[w].client)
          /\ flow' = flow \/ flow' = [flow EXCEPT ![w].cancelled = TRUE]
        BY <1>3, <1>4, <1>5, <1>9 DEF Cancel
    <2>2. /\ \A v \in Workflows \ {w} : flow'[v] = flow[v]
          /\ flow'[w].otp = flow[w].otp /\ flow'[w].entered = flow[w].entered
        BY <1>1, <1>2, <2>1 DEF FlowTypeOK, Flow
    <2> QED
        BY <1>1, <1>5, <2>1, <2>2, AnsweredOnce
<1>10. CASE flow' = flow /\ \E answer : Reply(w, answer)
    BY <1>1, <1>4, <1>5, <1>10, AnsweredOnce
<1>11. CASE CompleteReturns(w)
    <2>1. /\ \E at \in {"joining", "replied"} : CallIs(w, call[w].rpc, at, call[w].client)
          /\ flow' = flow \/ flow' = [flow EXCEPT ![w].cancelled = TRUE]
        BY <1>3, <1>4, <1>5, <1>11 DEF CompleteReturns
    <2>2. /\ \A v \in Workflows \ {w} : flow'[v] = flow[v]
          /\ flow'[w].otp = flow[w].otp /\ flow'[w].entered = flow[w].entered
        BY <1>1, <1>2, <2>1 DEF FlowTypeOK, Flow
    <2> QED
        BY <1>1, <1>5, <2>1, <2>2, AnsweredOnce
<1> QED
    BY <1>6, <1>7, <1>8, <1>9, <1>10, <1>11 DEF HandlerStep, Serve, StatusReturns, Joined

\* Where a step leaves its workflow.
LEMMA MoveEffect ==
    ASSUME FlowTypeOK, NEW w \in Workflows
    PROVE  /\ \A pc : Move(w, pc) => wf'[w].pc = pc
           /\ \A outcome : End(w, outcome) => wf'[w].pc = "ended"
           /\ \A outcome : Cleanup(w, outcome) => wf'[w].pc = "cancel"
           /\ \A pc, outcome : Move(w, pc) \/ End(w, outcome) \/ Cleanup(w, outcome) =>
                 \A v \in Workflows \ {w} : wf'[v] = wf[v]
<1>1. wf[w] \in Workflow
    BY DEF FlowTypeOK
<1>2. ASSUME NEW pc, Move(w, pc)
      PROVE  wf'[w].pc = pc /\ \A v \in Workflows \ {w} : wf'[v] = wf[v]
    BY <1>1, <1>2 DEF Move, FlowTypeOK, Workflow
<1>3. ASSUME NEW outcome, NEW pc,
             wf' = [wf EXCEPT ![w] = [wf[w] EXCEPT !.pc = pc, !.outcome = outcome]]
      PROVE  wf'[w].pc = pc /\ \A v \in Workflows \ {w} : wf'[v] = wf[v]
    BY <1>1, <1>3 DEF FlowTypeOK, Workflow
<1>4. ASSUME NEW outcome, End(w, outcome)
      PROVE  wf'[w].pc = "ended" /\ \A v \in Workflows \ {w} : wf'[v] = wf[v]
    <2>1. wf' = [wf EXCEPT ![w] = [wf[w] EXCEPT !.pc = "ended", !.outcome = outcome]]
        BY <1>4 DEF End, FlowTypeOK
    <2> QED
        BY <1>3, <2>1
<1>5. ASSUME NEW outcome, Cleanup(w, outcome)
      PROVE  wf'[w].pc = "cancel" /\ \A v \in Workflows \ {w} : wf'[v] = wf[v]
    <2>1. wf' = [wf EXCEPT ![w] = [wf[w] EXCEPT !.pc = "cancel", !.outcome = outcome]]
        BY <1>5 DEF Cleanup, FlowTypeOK
    <2> QED
        BY <1>3, <2>1
<1> QED
    BY <1>2, <1>4, <1>5

WfIs(w, pc) == wf'[w].pc = pc /\ \A v \in Workflows \ {w} : wf'[v] = wf[v]

\* A workflow goes on, with or without a call.
LEMMA WorkflowOnce ==
    ASSUME CodeInv, FlowTypeOK', NEW w \in Workflows, WorkflowStep(w) \/ ClientLeaves(w)
    PROVE  CodeInv'
<1>1. FlowTypeOK /\ flow' = flow /\ OnceInv(w)
    BY DEF CodeInv, WorkflowStep, ClientLeaves, BrowserAuthStart, StartAnswered,
           BrowserAuthWait, StatusAnswered, BrowserAuthComplete, CompleteAnswered,
           BrowserAuthCancel
<1>2. /\ \A pc : Move(w, pc) => WfIs(w, pc)
      /\ \A outcome : End(w, outcome) => WfIs(w, "ended")
      /\ \A outcome : Cleanup(w, outcome) => WfIs(w, "cancel")
    BY <1>1, MoveEffect DEF WfIs
<1>3. wf' = wf => WfIs(w, wf[w].pc)
    BY DEF WfIs
<1>4. /\ \A rpc : Issue(w, rpc) => CallIs(w, rpc, "queued", TRUE)
      /\ Hang(w) => CallIs(w, "none", "none", FALSE)
      /\ call' = [call EXCEPT ![w].client = FALSE] => CallIs(w, call[w].rpc, call[w].at, FALSE)
    BY <1>1, IssueEffect, HangEffect, LeaveEffect
<1>5. ASSUME NEW pc, NEW rpc, NEW at, NEW client, WfIs(w, pc), CallIs(w, rpc, at, client),
             client => \/ rpc = "Start" /\ pc = "start"
                       \/ rpc = "GetFlowStatus" /\ pc = "browser"
                       \/ rpc = "Complete" /\ pc = "complete"
                       \/ rpc = "Cancel" /\ pc = "cancel",
             at = "none" => ~client,
             rpc = "Complete" => pc \in {"complete", "ended"},
             \/ pc \in {"idle", "start", "browser", "otp"}
             \/ rpc = "Complete" /\ at = "queued"
             => CodeIsUnknown(w)
      PROVE  CodeInv'
    <2>1. OnceInv(w)'
        BY <1>1, <1>5 DEF OnceInv, InTurn, CodeIsUnknown, WfIs, CallIs
    <2> QED
        BY <1>1, <1>5, <2>1, OthersOnce DEF WfIs, CallIs
<1>6. CASE BrowserAuthStart(w)
    <2>1. WfIs(w, "start") /\ CallIs(w, "Start", "queued", TRUE) /\ CodeIsUnknown(w)
        BY <1>2, <1>4, <1>6 DEF BrowserAuthStart, CodeIsUnknown
    <2> QED
        BY <1>5, <2>1
<1>7. CASE StartAnswered(w)
    <2>1. CodeIsUnknown(w)
        BY <1>1, <1>7 DEF StartAnswered, Answered, OnceInv, InTurn, CodeIsUnknown
    <2>2. CallIs(w, "none", "none", FALSE) /\ (WfIs(w, "browser") \/ WfIs(w, "ended"))
        BY <1>2, <1>4, <1>7 DEF StartAnswered
    <2> QED
        BY <1>5, <2>1, <2>2
<1>8. CASE BrowserAuthWait(w)
    <2>1. wf[w].pc = "browser" /\ CodeIsUnknown(w) /\ call[w].at = "none"
        BY <1>8 DEF BrowserAuthWait, CodeIsUnknown
    <2>2. CASE Issue(w, "GetFlowStatus") /\ wf' = wf
        BY <1>3, <1>4, <1>5, <2>1, <2>2
    <2>3. CASE Cleanup(w, "failed") /\ call' = call
        <3>1. ~call[w].client /\ call[w].rpc # "Complete"
            BY <1>1, <2>1 DEF OnceInv, InTurn
        <3>2. CallIs(w, call[w].rpc, "none", FALSE)
            BY <1>1, <2>1, <2>3, <3>1 DEF CallIs, FlowTypeOK, Call
        <3> QED
            BY <1>2, <1>5, <2>1, <2>3, <3>1, <3>2
    <2> QED
        BY <1>8, <2>2, <2>3 DEF BrowserAuthWait
<1>9. CASE StatusAnswered(w)
    <2>1. wf[w].pc = "browser" /\ CodeIsUnknown(w)
        BY <1>1, <1>9 DEF StatusAnswered, Answered, OnceInv, InTurn, CodeIsUnknown
    <2>2. CallIs(w, "none", "none", FALSE)
        BY <1>4, <1>9 DEF StatusAnswered
    <2>3. WfIs(w, "cancel") \/ WfIs(w, "otp") \/ WfIs(w, "browser")
        BY <1>2, <1>3, <1>9, <2>1 DEF StatusAnswered
    <2> QED
        BY <1>5, <2>1, <2>2, <2>3
<1>10. CASE BrowserAuthComplete(w)
    <2>1. /\ CodeIsUnknown(w) /\ wf[w].pc = "otp"
          /\ ~call[w].client /\ call[w].rpc # "Complete"
        BY <1>1, <1>10 DEF BrowserAuthComplete, OnceInv, InTurn, CodeIsUnknown
    <2>2. CASE Move(w, "complete") /\ Issue(w, "Complete")
        BY <1>2, <1>4, <1>5, <2>1, <2>2
    <2>3. CASE (Cleanup(w, "failed") \/ End(w, "failed")) /\ call' = call
        <3>1. CallIs(w, call[w].rpc, call[w].at, FALSE)
            BY <1>1, <2>1, <2>3 DEF CallIs, FlowTypeOK, Call
        <3>2. WfIs(w, "cancel") \/ WfIs(w, "ended")
            BY <1>2, <2>3
        <3> QED
            BY <1>5, <2>1, <3>1, <3>2
    <2> QED
        BY <1>10, <2>2, <2>3 DEF BrowserAuthComplete
<1>11. CASE CompleteAnswered(w)
    <2>1. WfIs(w, "ended") /\ CallIs(w, "none", "none", FALSE)
        BY <1>2, <1>4, <1>11 DEF CompleteAnswered
    <2> QED
        BY <1>5, <2>1
<1>12. CASE BrowserAuthCancel(w)
    <2>1. \/ CallIs(w, "Cancel", "queued", TRUE) /\ WfIs(w, "cancel")
          \/ CallIs(w, "none", "none", FALSE) /\ WfIs(w, "ended")
        BY <1>2, <1>3, <1>4, <1>12 DEF BrowserAuthCancel
    <2> QED
        BY <1>5, <2>1
<1>13. CASE ClientLeaves(w)
    <2>1. CASE Cleanup(w, "failed") /\ Hang(w)
        BY <1>2, <1>4, <1>5, <2>1
    <2>2. CASE (\E outcome : End(w, outcome)) /\ call' = [call EXCEPT ![w].client = FALSE]
        <3>1. WfIs(w, "ended") /\ CallIs(w, call[w].rpc, call[w].at, FALSE)
            BY <1>2, <1>4, <2>2
        <3> QED
            BY <1>5, <3>1 DEF CodeIsUnknown
    <2> QED
        BY <1>13, <2>1, <2>2 DEF ClientLeaves
<1> QED
    BY <1>6, <1>7, <1>8, <1>9, <1>10, <1>11, <1>12, <1>13 DEF WorkflowStep

\* A restart answers no call and takes no code.
LEMMA RestartOnce ==
    ASSUME CodeInv, FlowTypeOK', Restart
    PROVE  CodeInv'
<1> SUFFICES ASSUME NEW w \in Workflows PROVE OnceInv(w)'
    BY DEF CodeInv
<1>1. call[w] \in Call /\ flow[w] \in Flow /\ wf' = wf /\ OnceInv(w)
    BY DEF CodeInv, FlowTypeOK, Restart
<1>2. /\ call'[w].rpc = call[w].rpc /\ call'[w].client = call[w].client
      /\ call'[w].at = call[w].at \/ call'[w].at = "replied"
    BY <1>1 DEF Restart, Call
<1>3. flow'[w].otp = flow[w].otp /\ flow'[w].entered = flow[w].entered
    BY <1>1 DEF Restart, Flow
<1> QED
    BY <1>1, <1>2, <1>3 DEF OnceInv, InTurn, CodeIsUnknown

LEMMA NextOnce == CodeInv /\ [Next]_vars => CodeInv'
<1> SUFFICES ASSUME CodeInv, [Next]_vars PROVE CodeInv'
    OBVIOUS
<1>1. FlowTypeOK'
    BY NextTypes DEF CodeInv
<1>2. CASE UNCHANGED vars
    BY <1>1, <1>2 DEF vars, CodeInv, OnceInv, InTurn, CodeIsUnknown
<1> QED
    BY <1>1, <1>2, FlowStepOnce, HandlerOnce, WorkflowOnce, RestartOnce DEF Next

LEMMA InitOnce == Init => CodeInv
BY InitTypes DEF Init, NoCall, CodeInv, OnceInv, InTurn, CodeIsUnknown

\* For any number of workflows, logins and restarts: a code is entered once at most.
THEOREM CodesAreEnteredOnce == Spec => []CodeIsEnteredOnce
<1>1. Init => CodeInv
    BY InitOnce
<1>2. CodeInv => CodeIsEnteredOnce
    BY DEF CodeInv, OnceInv, CodeIsEnteredOnce
<1> QED
    BY <1>1, <1>2, NextOnce, PTL DEF Spec

-----------------------------------------------------------------------------
(* Losses.  A workflow from whom nothing was kept knows where its call is,  *)
(* and leaves no flow behind.                                               *)

\* After these a workflow may have left its flow behind.
Fault == {"reply lost", "otp unread", "cancel lost"}

Kept(w) == cause[w] \cap Fault = {}

\* Where its call is, and whether its flow is in the registry.
CallOK(w) ==
    LET pc == wf[w].pc
        c == call[w]
        g == flow[w]
        Asks(rpc, steps) == c.rpc = rpc /\ c.client /\ c.at \in steps
    IN  /\ pc \in {"idle", "otp", "ended"} => c.at = "none"
        /\ pc = "start" =>
              \/ Asks("Start", {"queued"}) /\ g.thread = "none" /\ w \notin flows
              \/ Asks("Start", {"replied"}) /\ c.reply = "ok"
              \/ Asks("Start", {"replied"}) /\ g.thread = "none" /\ w \notin flows
        /\ pc = "browser" =>
              c.at = "none" \/ Asks("GetFlowStatus", {"queued", "reading", "replied"})
        /\ pc = "complete" => Asks("Complete", {"queued", "waiting", "replied"})
        /\ pc = "cancel" => c.at = "none" \/ Asks("Cancel", {"queued", "joining", "replied"})
        /\ pc \in {"complete", "cancel"} /\ c.at = "replied" => w \notin flows
        /\ pc = "idle" => g.thread = "none"
        /\ pc \in {"idle", "ended"} => w \notin flows
        /\ pc \notin {"cancel", "ended"} => wf[w].outcome = "running"
        /\ g.thread = "done" <=> g.result # "none"

\* What it is told is what became of the flow.
ToldOK(w) ==
    LET pc == wf[w].pc
        c == call[w]
        g == flow[w]
    IN  /\ \/ pc = "start" /\ c.at = "replied" /\ c.reply = "ok"
           \/ pc \in {"browser", "otp"}
           \/ pc = "complete" /\ c.at # "replied"
           => w \in flows
        /\ pc = "browser" /\ c.at = "queued" => c.seen = "none"
        /\ pc = "browser" /\ c.at = "reading" => c.seen \in {"none", g.result}
        /\ pc = "browser" /\ c.at = "replied" =>
              c.reply \in {"running", "otp"} \/ (c.reply = g.result /\ g.result # "none")
        /\ pc = "complete" /\ c.at = "replied" => c.reply = g.result /\ g.result # "none"
        /\ pc = "cancel" => wf[w].outcome = "succeeded" \/ g.result = "error"
        /\ pc = "ended" =>
              wf[w].outcome = "succeeded" \/ g.result = "error" \/ g.thread = "none"

LossOK(w) == (Kept(w) => CallOK(w)) /\ (cause[w] = {} => ToldOK(w))

LossInv == FlowTypeOK /\ \A w \in Workflows : LossOK(w)

LEMMA KeptGrows ==
    ASSUME NEW w, cause[w] \subseteq cause'[w]
    PROVE  /\ Kept(w)' => Kept(w)
           /\ cause'[w] = {} => cause[w] = {}
<1>1. Kept(w)' => Kept(w)
    BY Zenon DEF Kept
<1> QED
    BY <1>1

LEMMA KeptSame ==
    ASSUME NEW w, cause'[w] = cause[w]
    PROVE  Kept(w)' <=> Kept(w)
BY Zenon DEF Kept

LEMMA NoCauseKept ==
    ASSUME NEW w, cause[w] = {}
    PROVE  Kept(w)
BY Zenon DEF Kept

LEMMA BlameGrows ==
    ASSUME FlowTypeOK, NEW w \in Workflows, NEW why, Blame(w, why)
    PROVE  /\ cause'[w] = cause[w] \cup {why} /\ cause'[w] # {}
           /\ \A v \in Workflows \ {w} : cause'[v] = cause[v]
           /\ Kept(w)' => Kept(w)
<1>1. /\ cause'[w] = cause[w] \cup {why} /\ cause'[w] # {}
      /\ \A v \in Workflows \ {w} : cause'[v] = cause[v]
    BY DEF Blame, FlowTypeOK
<1> QED
    BY <1>1, KeptGrows

LEMMA FaultBlamed ==
    ASSUME FlowTypeOK, NEW w \in Workflows, NEW why \in Fault, Blame(w, why)
    PROVE  LossOK(w)' /\ \A v \in Workflows \ {w} : cause'[v] = cause[v]
<1>1. /\ why \in cause'[w] /\ cause'[w] # {}
      /\ \A v \in Workflows \ {w} : cause'[v] = cause[v]
    BY BlameGrows
<1>2. ~Kept(w)'
    BY <1>1 DEF Kept
<1> QED
    BY <1>1, <1>2 DEF LossOK

\* The others lose their flow from the registry only with a cause, or when they know
\* what became of it.
LEMMA OneLoss ==
    ASSUME LossInv, FlowTypeOK', NEW w \in Workflows, LossOK(w)',
           \A v \in Workflows \ {w} :
               /\ wf'[v] = wf[v] /\ call'[v] = call[v] /\ flow'[v] = flow[v]
               /\ cause[v] \subseteq cause'[v]
               /\ v \in flows' => v \in flows
               /\ cause'[v] = {} /\ v \in flows => v \in flows' \/ wf[v].pc \in {"cancel", "ended"}
    PROVE  LossInv'
<1>1. ASSUME NEW v \in Workflows \ {w} PROVE LossOK(v)'
    <2>1. (Kept(v)' => Kept(v)) /\ (cause'[v] = {} => cause[v] = {})
        BY <1>1, KeptGrows
    <2>2. LossOK(v)
        BY DEF LossInv
    <2>3. Kept(v)' => CallOK(v)'
        BY <1>1, <2>1, <2>2 DEF LossOK, CallOK
    <2>4. cause'[v] = {} => ToldOK(v)'
        BY <1>1, <2>1, <2>2 DEF LossOK, ToldOK
    <2> QED
        BY <2>3, <2>4 DEF LossOK
<1> QED
    BY <1>1 DEF LossInv

-----------------------------------------------------------------------------
(* The flow, its workflow and its call after a step.                        *)

FlowRuns(w) ==
    /\ flow[w].thread \notin {"none", "done"} /\ flow'[w].thread # "none"
    /\ \/ flow'[w].thread = "done" /\ flow'[w].result \in {"ok", "error"}
       \/ flow'[w].thread # "done" /\ flow'[w].result = flow[w].result
    /\ \A v \in Workflows \ {w} : flow'[v] = flow[v]

LEMMA OtpRuns ==
    ASSUME FlowTypeOK, NEW w \in Workflows, NEW left, flow[w].thread = "waiting",
           TakeOtp(w, left)
    PROVE  FlowRuns(w)
<1> DEFINE n == IF flow[w].entered = 2 THEN 2 ELSE flow[w].entered + 1
           g == [flow[w] EXCEPT !.thread = flow[w].next, !.otp = left, !.entered = n]
<1>1. flow[w] \in Flow
    BY DEF FlowTypeOK
<1>2. flow[w].next \in Pages
    BY <1>1 DEF Flow
<1>3. flow' = [flow EXCEPT ![w] = g]
    BY DEF TakeOtp, FlowTypeOK
<1> HIDE DEF n
<1>4. g.thread = flow[w].next /\ g.result = flow[w].result
    BY <1>1 DEF Flow
<1> HIDE DEF g
<1> QED
    BY <1>2, <1>3, <1>4 DEF FlowRuns, FlowTypeOK, Pages

LEMMA TurnRuns ==
    ASSUME FlowTypeOK, NEW w \in Workflows, NEW page \in Pages \cup {"waiting"}, NEW next,
           next \in Pages \cup {"waiting", "captured"}, flow[w].thread = page,
           Turn(w, page, next) \/ (\E after : WaitFrom(w, page, after))
    PROVE  FlowRuns(w)
<1>1. flow[w] \in Flow
    BY DEF FlowTypeOK
<1>2. /\ flow[w].thread \notin {"none", "done"}
      /\ \A step \in Pages \cup {"waiting", "captured"} : step \notin {"none", "done"}
    BY DEF Pages
<1>3. CASE Turn(w, page, next)
    <2> DEFINE g == [flow[w] EXCEPT !.thread = next]
    <2>1. g.thread = next /\ g.result = flow[w].result
        BY <1>1 DEF Flow
    <2>2. flow' = [flow EXCEPT ![w] = g]
        BY <1>3 DEF Turn
    <2> HIDE DEF g
    <2> QED
        BY <1>2, <2>1, <2>2 DEF FlowRuns, FlowTypeOK
<1>4. ASSUME NEW after, WaitFrom(w, page, after) PROVE FlowRuns(w)
    <2> DEFINE g == [flow[w] EXCEPT !.thread = "waiting", !.next = after]
    <2>1. g.thread = "waiting" /\ g.result = flow[w].result
        BY <1>1 DEF Flow
    <2>2. flow' = [flow EXCEPT ![w] = g]
        BY <1>4 DEF WaitFrom
    <2> HIDE DEF g
    <2> QED
        BY <1>2, <2>1, <2>2 DEF FlowRuns, FlowTypeOK
<1> QED
    BY <1>3, <1>4

LEMMA FinishRuns ==
    ASSUME FlowTypeOK, NEW w \in Workflows, NEW result \in {"ok", "error"}, InFlight(w),
           Finish(w, result)
    PROVE  FlowRuns(w)
<1> DEFINE g == [flow[w] EXCEPT !.thread = "done", !.result = result]
<1>1. flow[w] \in Flow
    BY DEF FlowTypeOK
<1>2. g.thread = "done" /\ g.result = result
    BY <1>1 DEF Flow
<1>3. flow' = [flow EXCEPT ![w] = g]
    BY DEF Finish
<1> HIDE DEF g
<1> QED
    BY <1>2, <1>3 DEF FlowRuns, FlowTypeOK, InFlight

LEMMA FlowStepRuns ==
    ASSUME FlowTypeOK, NEW w \in Workflows, FlowStep(w)
    PROVE  FlowRuns(w)
<1>1. InFlight(w)
    BY FlowStepMoves
<1>2. CASE SubmitEmail(w) \/ FillProfile(w) \/ CaptureSession(w) \/ LoggedIn(w)
    BY <1>2, TurnRuns
       DEF SubmitEmail, FillProfile, CaptureSession, LoggedIn, Turn, Pages
<1>3. CASE SubmitPassword(w)
    <2>1. \E next \in {"capture", "code"} : Turn(w, "password", next)
        BY <1>3 DEF SubmitPassword
    <2> QED
        BY <2>1, TurnRuns DEF Turn, Pages
<1>4. CASE AsksForCode(w)
    <2>1. CASE WaitFrom(w, "code", "profile")
        BY <2>1, TurnRuns DEF WaitFrom, Pages
    <2>2. CASE Turn(w, "code", "profile")
        BY <2>2, TurnRuns DEF Turn, Pages
    <2> QED
        BY <1>4, <2>1, <2>2 DEF AsksForCode
<1>5. CASE AsksLoginForCode(w)
    <2>1. PICK page \in {"password", "capture"} : WaitFrom(w, page, page)
        BY <1>5 DEF AsksLoginForCode
    <2>2. page \in Pages /\ flow[w].thread = page
        BY <2>1 DEF Pages, WaitFrom
    <2> QED
        BY <2>1, <2>2, TurnRuns
<1>6. CASE OtpArrives(w)
    <2>1. flow[w].thread = "waiting" /\ (Finish(w, "error") \/ TakeOtp(w, "taken"))
        BY <1>6 DEF OtpArrives
    <2> QED
        BY <1>1, <2>1, OtpRuns, FinishRuns
<1>7. CASE RunSucceeds(w) \/ RunFails(w)
    BY <1>1, <1>7, FinishRuns DEF RunSucceeds, RunFails
<1> QED
    BY <1>2, <1>3, <1>4, <1>5, <1>6, <1>7 DEF FlowStep

\* A flow that is done stays as it is, and one that is not has no result yet.
LEMMA FlowStepLoss ==
    ASSUME LossInv, FlowTypeOK', NEW w \in Workflows, FlowStep(w)
    PROVE  LossInv'
<1>1. FlowTypeOK /\ LossOK(w) /\ flow[w] \in Flow
    BY DEF LossInv, FlowTypeOK
<1>2. FlowRuns(w) /\ UNCHANGED <<wf, call, flows, cause, restarts>>
    BY <1>1, FlowStepRuns, FlowStepMoves
<1>3. (Kept(w)' <=> Kept(w)) /\ (cause[w] = {} => Kept(w))
    BY <1>2, KeptSame, NoCauseKept
<1>4. Kept(w) => flow[w].result = "none"
    BY <1>1, <1>2 DEF LossOK, CallOK, FlowRuns
<1>5. Kept(w)' => CallOK(w)'
    BY <1>1, <1>2, <1>3, <1>4 DEF LossOK, CallOK, FlowRuns
<1>6. cause'[w] = {} => ToldOK(w)'
    BY <1>1, <1>2, <1>3, <1>4 DEF LossOK, ToldOK, FlowRuns
<1> QED
    BY <1>2, <1>5, <1>6, OneLoss DEF LossOK, FlowRuns

-----------------------------------------------------------------------------
(* The call and the workflow after a step, field by field.                  *)

WfOutcomeIs(w, pc, outcome) ==
    /\ wf'[w].pc = pc /\ wf'[w].outcome = outcome
    /\ \A v \in Workflows \ {w} : wf'[v] = wf[v]

LEMMA WorkflowEffect ==
    ASSUME FlowTypeOK, NEW w \in Workflows, NEW pc, NEW outcome
    PROVE  /\ Move(w, pc) => WfOutcomeIs(w, pc, wf[w].outcome)
           /\ End(w, outcome) => WfOutcomeIs(w, "ended", outcome)
           /\ Cleanup(w, outcome) => WfOutcomeIs(w, "cancel", outcome)
<1>1. wf[w] \in Workflow
    BY DEF FlowTypeOK
<1>2. ASSUME Move(w, pc) PROVE WfOutcomeIs(w, pc, wf[w].outcome)
    <2> DEFINE r == [wf[w] EXCEPT !.pc = pc]
    <2>1. r.pc = pc /\ r.outcome = wf[w].outcome
        BY <1>1 DEF Workflow
    <2>2. wf' = [wf EXCEPT ![w] = r]
        BY <1>2 DEF Move, FlowTypeOK
    <2> HIDE DEF r
    <2> QED
        BY <2>1, <2>2 DEF WfOutcomeIs, FlowTypeOK
<1>3. ASSUME NEW step, wf' = [wf EXCEPT ![w].pc = step, ![w].outcome = outcome]
      PROVE  WfOutcomeIs(w, step, outcome)
    <2> DEFINE r == [wf[w] EXCEPT !.pc = step, !.outcome = outcome]
    <2>1. r.pc = step /\ r.outcome = outcome
        BY <1>1 DEF Workflow
    <2>2. wf' = [wf EXCEPT ![w] = r]
        BY <1>3 DEF FlowTypeOK
    <2> HIDE DEF r
    <2> QED
        BY <2>1, <2>2 DEF WfOutcomeIs, FlowTypeOK
<1> QED
    BY <1>2, <1>3 DEF End, Cleanup

SeenIs(w, seen, reply) == call'[w].seen = seen /\ call'[w].reply = reply

LEMMA AnswerEffect ==
    ASSUME FlowTypeOK, NEW w \in Workflows
    PROVE  /\ \A at : Enter(w, at) => SeenIs(w, call[w].seen, call[w].reply)
           /\ \A answer : Reply(w, answer) => SeenIs(w, call[w].seen, answer)
           /\ \A rpc : Issue(w, rpc) => SeenIs(w, "none", "none")
           /\ \A result : call' = [call EXCEPT ![w].at = "reading", ![w].seen = result] =>
                  SeenIs(w, result, call[w].reply)
<1>1. call[w] \in Call
    BY DEF FlowTypeOK
<1>2. ASSUME NEW at, Enter(w, at) PROVE SeenIs(w, call[w].seen, call[w].reply)
    <2>1. call' = [call EXCEPT ![w] = [call[w] EXCEPT !.at = at]]
        BY <1>2 DEF Enter, FlowTypeOK
    <2> QED
        BY <1>1, <2>1 DEF SeenIs, FlowTypeOK, Call
<1>3. ASSUME NEW answer, Reply(w, answer) PROVE SeenIs(w, call[w].seen, answer)
    <2>1. call' = [call EXCEPT ![w] = [call[w] EXCEPT !.at = "replied", !.reply = answer]]
        BY <1>3 DEF Reply, FlowTypeOK
    <2> QED
        BY <1>1, <2>1 DEF SeenIs, FlowTypeOK, Call
<1>4. ASSUME NEW rpc, Issue(w, rpc) PROVE SeenIs(w, "none", "none")
    <2> DEFINE c == [NoCall EXCEPT !.rpc = rpc, !.at = "queued", !.client = TRUE]
    <2>1. c.seen = "none" /\ c.reply = "none"
        BY DEF NoCall
    <2>2. call' = [call EXCEPT ![w] = c]
        BY <1>4 DEF Issue
    <2> HIDE DEF c
    <2> QED
        BY <2>1, <2>2 DEF SeenIs, FlowTypeOK
<1>5. ASSUME NEW result, call' = [call EXCEPT ![w].at = "reading", ![w].seen = result]
      PROVE  SeenIs(w, result, call[w].reply)
    <2>1. call' = [call EXCEPT ![w] = [call[w] EXCEPT !.at = "reading", !.seen = result]]
        BY <1>5 DEF FlowTypeOK
    <2> QED
        BY <1>1, <2>1 DEF SeenIs, FlowTypeOK, Call
<1> QED
    BY <1>2, <1>3, <1>4, <1>5

\* A step of one workflow that blames nobody: what has to be shown.
LEMMA Blameless ==
    ASSUME LossInv, FlowTypeOK', NEW w \in Workflows, UNCHANGED cause,
           \A v \in Workflows \ {w} :
               /\ wf'[v] = wf[v] /\ call'[v] = call[v] /\ flow'[v] = flow[v]
               /\ v \in flows' <=> v \in flows,
           Kept(w) => CallOK(w)',
           cause[w] = {} => ToldOK(w)'
    PROVE  LossInv'
<1>1. Kept(w)' <=> Kept(w)
    BY KeptSame
<1>2. LossOK(w)'
    BY <1>1 DEF LossOK
<1> QED
    BY <1>2, OneLoss

LEMMA LossKnown ==
    ASSUME LossInv, NEW w \in Workflows
    PROVE  /\ FlowTypeOK /\ wf[w] \in Workflow /\ call[w] \in Call /\ flow[w] \in Flow
           /\ Kept(w) => CallOK(w)
           /\ cause[w] = {} => Kept(w) /\ CallOK(w) /\ ToldOK(w)
<1>1. cause[w] = {} => Kept(w)
    BY NoCauseKept
<1> QED
    BY <1>1 DEF LossInv, LossOK, FlowTypeOK

-----------------------------------------------------------------------------
(* The steps of the workflows.                                              *)

LEMMA StartLoss ==
    ASSUME LossInv, FlowTypeOK', NEW w \in Workflows, BrowserAuthStart(w)
    PROVE  LossInv'
<1>1. WfOutcomeIs(w, "start", wf[w].outcome) /\ CallIs(w, "Start", "queued", TRUE)
    BY LossKnown, WorkflowEffect, IssueEffect DEF BrowserAuthStart
<1>2. wf[w].pc = "idle" /\ UNCHANGED <<flow, flows, cause>>
    BY DEF BrowserAuthStart
<1>3. Kept(w) => CallOK(w)'
    BY <1>1, <1>2, LossKnown DEF CallOK, WfOutcomeIs, CallIs
<1>4. cause[w] = {} => ToldOK(w)'
    BY <1>1, <1>2, LossKnown DEF ToldOK, WfOutcomeIs, CallIs
<1> QED
    BY <1>1, <1>2, <1>3, <1>4, Blameless DEF WfOutcomeIs, CallIs

LEMMA StartedLoss ==
    ASSUME LossInv, FlowTypeOK', NEW w \in Workflows, StartAnswered(w)
    PROVE  LossInv'
<1>1. CallIs(w, "none", "none", FALSE)
    BY LossKnown, HangEffect DEF StartAnswered
<1>2. /\ call[w].rpc = "Start" /\ call[w].at = "replied" /\ call[w].client
      /\ UNCHANGED <<flow, flows, cause>>
    BY DEF StartAnswered, Answered
<1>3. \/ call[w].reply = "ok" /\ WfOutcomeIs(w, "browser", wf[w].outcome)
      \/ call[w].reply # "ok" /\ WfOutcomeIs(w, "ended", "failed")
    BY LossKnown, WorkflowEffect DEF StartAnswered
<1>4. Kept(w) => wf[w].pc = "start"
    BY <1>2, LossKnown DEF CallOK, Workflow
<1>5. Kept(w) => CallOK(w)'
    BY <1>1, <1>2, <1>3, <1>4, LossKnown DEF CallOK, WfOutcomeIs, CallIs
<1>6. cause[w] = {} => ToldOK(w)'
    BY <1>1, <1>2, <1>3, <1>4, LossKnown DEF CallOK, ToldOK, WfOutcomeIs, CallIs
<1> QED
    BY <1>1, <1>2, <1>3, <1>5, <1>6, Blameless DEF WfOutcomeIs, CallIs

\* A workflow that gives up goes on to cancel its flow.
LEMMA GaveUp ==
    ASSUME LossInv, FlowTypeOK', NEW w \in Workflows, NEW why, wf[w].pc \in {"browser", "otp"},
           call[w].at = "none" \/ wf[w].pc = "otp",
           Cleanup(w, "failed"), Blame(w, why), UNCHANGED <<call, flow, flows>>
    PROVE  LossInv'
<1>1. WfOutcomeIs(w, "cancel", "failed")
    BY LossKnown, WorkflowEffect
<1>2. /\ cause'[w] # {} /\ \A v \in Workflows \ {w} : cause'[v] = cause[v]
      /\ Kept(w)' => Kept(w)
    BY LossKnown, BlameGrows
<1>3. Kept(w)' => CallOK(w)'
    BY <1>1, <1>2, LossKnown DEF CallOK, WfOutcomeIs
<1>4. LossOK(w)'
    BY <1>2, <1>3 DEF LossOK
<1> QED
    BY <1>1, <1>2, <1>4, OneLoss DEF WfOutcomeIs

LEMMA WaitLoss ==
    ASSUME LossInv, FlowTypeOK', NEW w \in Workflows, BrowserAuthWait(w)
    PROVE  LossInv'
<1>1. wf[w].pc = "browser" /\ call[w].at = "none" /\ UNCHANGED <<flow, flows>>
    BY Zenon DEF BrowserAuthWait
<1>2. CASE Issue(w, "GetFlowStatus") /\ UNCHANGED <<wf, cause>>
    <2>1. CallIs(w, "GetFlowStatus", "queued", TRUE) /\ SeenIs(w, "none", "none")
        BY <1>2, LossKnown, IssueEffect, AnswerEffect
    <2>2. Kept(w) => CallOK(w)'
        BY <1>1, <1>2, <2>1, LossKnown DEF CallOK, CallIs
    <2>3. cause[w] = {} => ToldOK(w)'
        BY <1>1, <1>2, <2>1, LossKnown DEF ToldOK, CallIs, SeenIs
    <2> QED
        BY <1>1, <1>2, <2>1, <2>2, <2>3, Blameless DEF CallIs
<1>3. ASSUME NEW why, Cleanup(w, "failed"), Blame(w, why), UNCHANGED call PROVE LossInv'
    BY <1>1, <1>3, GaveUp
<1>4. \/ Issue(w, "GetFlowStatus") /\ UNCHANGED <<wf, cause>>
      \/ \E why : Cleanup(w, "failed") /\ Blame(w, why) /\ UNCHANGED call
    BY Zenon DEF BrowserAuthWait
<1> QED
    BY <1>2, <1>3, <1>4

LEMMA StatusLoss ==
    ASSUME LossInv, FlowTypeOK', NEW w \in Workflows, StatusAnswered(w)
    PROVE  LossInv'
<1>1. CallIs(w, "none", "none", FALSE)
    BY LossKnown, HangEffect DEF StatusAnswered
<1>2. /\ call[w].rpc = "GetFlowStatus" /\ call[w].at = "replied" /\ call[w].client
      /\ UNCHANGED <<flow, flows, cause>>
    BY DEF StatusAnswered, Answered
<1>3. \/ call[w].reply = "ok" /\ WfOutcomeIs(w, "cancel", "succeeded")
      \/ call[w].reply = "otp" /\ WfOutcomeIs(w, "otp", wf[w].outcome)
      \/ call[w].reply = "running" /\ wf' = wf
      \/ call[w].reply \notin {"ok", "otp", "running"} /\ WfOutcomeIs(w, "cancel", "failed")
    BY LossKnown, WorkflowEffect DEF StatusAnswered
<1>4. Kept(w) => wf[w].pc = "browser"
    BY <1>2, LossKnown DEF CallOK, Workflow
<1>5. Kept(w) => CallOK(w)'
    BY <1>1, <1>2, <1>3, <1>4, LossKnown DEF CallOK, WfOutcomeIs, CallIs
<1>6. cause[w] = {} => /\ w \in flows
                       /\ call[w].reply \notin {"ok", "otp", "running"} => flow[w].result = "error"
    BY <1>2, <1>4, LossKnown DEF ToldOK, Flow
<1>7. cause[w] = {} => ToldOK(w)'
    BY <1>1, <1>2, <1>3, <1>4, <1>6, LossKnown DEF ToldOK, WfOutcomeIs, CallIs
<1> QED
    BY <1>1, <1>2, <1>3, <1>5, <1>7, Blameless DEF WfOutcomeIs, CallIs

LEMMA CompleteLoss ==
    ASSUME LossInv, FlowTypeOK', NEW w \in Workflows, BrowserAuthComplete(w)
    PROVE  LossInv'
<1>1. wf[w].pc = "otp" /\ UNCHANGED <<flow, flows>>
    BY Zenon DEF BrowserAuthComplete
<1>2. CASE Move(w, "complete") /\ Issue(w, "Complete") /\ UNCHANGED cause
    <2>1. WfOutcomeIs(w, "complete", wf[w].outcome) /\ CallIs(w, "Complete", "queued", TRUE)
        BY <1>2, LossKnown, WorkflowEffect, IssueEffect
    <2>2. Kept(w) => CallOK(w)'
        BY <1>1, <1>2, <2>1, LossKnown DEF CallOK, CallIs, WfOutcomeIs
    <2>3. cause[w] = {} => ToldOK(w)'
        BY <1>1, <1>2, <2>1, LossKnown DEF ToldOK, CallIs, WfOutcomeIs
    <2> QED
        BY <1>1, <1>2, <2>1, <2>2, <2>3, Blameless DEF CallIs, WfOutcomeIs
<1>3. ASSUME NEW why, Cleanup(w, "failed"), Blame(w, why), UNCHANGED call PROVE LossInv'
    BY <1>1, <1>3, GaveUp
<1>4. ASSUME NEW why \in Fault, End(w, "failed"), Blame(w, why), UNCHANGED call PROVE LossInv'
    <2>1. WfOutcomeIs(w, "ended", "failed")
        BY <1>4, LossKnown, WorkflowEffect
    <2>2. LossOK(w)' /\ \A v \in Workflows \ {w} : cause'[v] = cause[v]
        BY <1>4, LossKnown, FaultBlamed
    <2> QED
        BY <1>1, <1>4, <2>1, <2>2, OneLoss DEF WfOutcomeIs
<1>5. \/ Move(w, "complete") /\ Issue(w, "Complete") /\ UNCHANGED cause
      \/ \E why : Cleanup(w, "failed") /\ Blame(w, why) /\ UNCHANGED call
      \/ \E why \in Fault : End(w, "failed") /\ Blame(w, why) /\ UNCHANGED call
    BY Zenon DEF BrowserAuthComplete, Fault
<1> QED
    BY <1>2, <1>3, <1>4, <1>5

LEMMA CompletedLoss ==
    ASSUME LossInv, FlowTypeOK', NEW w \in Workflows, CompleteAnswered(w)
    PROVE  LossInv'
<1>1. CallIs(w, "none", "none", FALSE)
    BY LossKnown, HangEffect DEF CompleteAnswered
<1>2. /\ call[w].rpc = "Complete" /\ call[w].at = "replied" /\ call[w].client
      /\ UNCHANGED <<flow, flows, cause>>
    BY DEF CompleteAnswered, Answered
<1>3. \/ call[w].reply = "ok" /\ WfOutcomeIs(w, "ended", "succeeded")
      \/ call[w].reply # "ok" /\ WfOutcomeIs(w, "ended", "failed")
    BY LossKnown, WorkflowEffect DEF CompleteAnswered
<1>4. Kept(w) => wf[w].pc = "complete"
    BY <1>2, LossKnown DEF CallOK, Workflow
<1>5. Kept(w) => CallOK(w)'
    BY <1>1, <1>2, <1>3, <1>4, LossKnown DEF CallOK, WfOutcomeIs, CallIs
<1>6. cause[w] = {} => call[w].reply = "ok" \/ flow[w].result = "error"
    BY <1>2, <1>4, LossKnown DEF ToldOK, Flow
<1>7. cause[w] = {} => ToldOK(w)'
    BY <1>1, <1>2, <1>3, <1>6 DEF ToldOK, WfOutcomeIs, CallIs
<1> QED
    BY <1>1, <1>2, <1>3, <1>5, <1>7, Blameless DEF WfOutcomeIs, CallIs

LEMMA CancelLoss ==
    ASSUME LossInv, FlowTypeOK', NEW w \in Workflows, BrowserAuthCancel(w)
    PROVE  LossInv'
<1>1. wf[w].pc = "cancel" /\ UNCHANGED <<flow, flows, cause>>
    BY DEF BrowserAuthCancel
<1>2. CASE call[w].at = "none" /\ Issue(w, "Cancel") /\ UNCHANGED wf
    <2>1. CallIs(w, "Cancel", "queued", TRUE)
        BY <1>2, LossKnown, IssueEffect
    <2>2. Kept(w) => CallOK(w)'
        BY <1>1, <1>2, <2>1, LossKnown DEF CallOK, CallIs
    <2>3. cause[w] = {} => ToldOK(w)'
        BY <1>1, <1>2, <2>1, LossKnown DEF ToldOK, CallIs
    <2> QED
        BY <1>1, <1>2, <2>1, <2>2, <2>3, Blameless DEF CallIs
<1>3. CASE Answered(w, "Cancel") /\ Hang(w) /\ End(w, wf[w].outcome)
    <2>1. CallIs(w, "none", "none", FALSE) /\ WfOutcomeIs(w, "ended", wf[w].outcome)
        BY <1>3, LossKnown, HangEffect, WorkflowEffect
    <2>2. call[w].at = "replied"
        BY <1>3 DEF Answered
    <2>3. Kept(w) => CallOK(w)'
        BY <1>1, <2>1, <2>2, LossKnown DEF CallOK, CallIs, WfOutcomeIs
    <2>4. cause[w] = {} => ToldOK(w)'
        BY <1>1, <2>1, LossKnown DEF ToldOK, CallIs, WfOutcomeIs
    <2> QED
        BY <1>1, <2>1, <2>3, <2>4, Blameless DEF CallIs, WfOutcomeIs
<1> QED
    BY <1>2, <1>3 DEF BrowserAuthCancel

LEMMA LeaveLoss ==
    ASSUME LossInv, FlowTypeOK', NEW w \in Workflows, ClientLeaves(w)
    PROVE  LossInv'
<1>1. \E why \in Fault : Blame(w, why)
    BY Zenon DEF ClientLeaves, Fault
<1>2. LossOK(w)' /\ \A v \in Workflows \ {w} : cause'[v] = cause[v]
    BY <1>1, LossKnown, FaultBlamed
<1>3. /\ \/ Cleanup(w, "failed") /\ Hang(w)
         \/ \E outcome : End(w, outcome) /\ call' = [call EXCEPT ![w].client = FALSE]
      /\ UNCHANGED <<flow, flows>>
    BY Zenon DEF ClientLeaves
<1>4. \A v \in Workflows \ {w} : wf'[v] = wf[v]
    BY <1>3, LossKnown, WorkflowEffect DEF WfOutcomeIs
<1>5. \A v \in Workflows \ {w} : call'[v] = call[v]
    BY <1>3, LossKnown, HangEffect, LeaveEffect DEF CallIs
<1> QED
    BY <1>2, <1>3, <1>4, <1>5, OneLoss

-----------------------------------------------------------------------------
(* The handlers, the restart, and the result.                               *)

FlowIs(w, thread, result) ==
    /\ flow'[w].thread = thread /\ flow'[w].result = result
    /\ \A v \in Workflows \ {w} : flow'[v] = flow[v]

LEMMA FlowEffect ==
    ASSUME FlowTypeOK, NEW w \in Workflows
    PROVE  /\ flow' = [flow EXCEPT ![w].thread = "entry"] => FlowIs(w, "entry", flow[w].result)
           /\ flow' = [flow EXCEPT ![w].otp = "set"] =>
                 FlowIs(w, flow[w].thread, flow[w].result)
           /\ flow' = [flow EXCEPT ![w].cancelled = TRUE] =>
                 FlowIs(w, flow[w].thread, flow[w].result)
           /\ flow' = [flow EXCEPT ![w].thread = "entry", ![w].cancelled = TRUE] =>
                 FlowIs(w, "entry", flow[w].result)
<1>1. flow[w] \in Flow
    BY DEF FlowTypeOK
<1>2. flow' = [flow EXCEPT ![w].thread = "entry", ![w].cancelled = TRUE] =>
          flow' = [flow EXCEPT ![w] = [flow[w] EXCEPT !.thread = "entry", !.cancelled = TRUE]]
    BY DEF FlowTypeOK
<1> QED
    BY <1>1, <1>2 DEF FlowIs, FlowTypeOK, Flow

LEMMA NewFlowLoss ==
    ASSUME LossInv, FlowTypeOK', NEW w \in Workflows, call[w].at = "queued", Start(w),
           UNCHANGED wf
    PROVE  LossInv'
<1> DEFINE left == {v \in flows : ~Done(v)}
<1>1. /\ flows' = IF left = {} THEN {w} ELSE left
      /\ \/ left # {} /\ Reply(w, "error") /\ UNCHANGED flow
         \/ /\ left = {} /\ call[w].client /\ Reply(w, "ok")
            /\ flow' = [flow EXCEPT ![w].thread = "entry"]
         \/ /\ left = {} /\ ~call[w].client /\ Enter(w, "joining")
            /\ flow' = [flow EXCEPT ![w].thread = "entry", ![w].cancelled = TRUE]
    BY DEF Start, NewFlow
<1>2. cause' = [v \in Workflows |->
                   IF v \in flows \ left /\ wf[v].outcome = "running"
                   THEN cause[v] \cup {"dropped"} ELSE cause[v]]
    BY DEF Start, NewFlow
<1> HIDE DEF left
<1>3. \A v \in Workflows :
          /\ cause[v] \subseteq cause'[v]
          /\ cause'[v] = {} => v \notin flows \ left \/ wf[v].outcome # "running"
    BY <1>2
<1>4. ASSUME NEW v \in Workflows \ {w}
      PROVE  /\ v \in flows' => v \in flows
             /\ cause'[v] = {} /\ v \in flows => v \in flows' \/ wf[v].pc \in {"cancel", "ended"}
    <2>1. v \in flows' => v \in flows
        BY <1>1, <1>4 DEF left
    <2>2. ASSUME cause'[v] = {}, v \in flows, v \notin flows'
          PROVE  wf[v].pc \in {"cancel", "ended"}
        <3>1. v \in flows \ left
            BY <1>1, <1>4, <2>2
        <3>2. wf[v].outcome # "running" /\ cause[v] = {}
            BY <1>3, <1>4, <2>2, <3>1
        <3> QED
            BY <1>4, <3>2, LossKnown DEF CallOK
    <2> QED
        BY <2>1, <2>2
<1>5. \A v \in Workflows \ {w} : call'[v] = call[v]
    BY <1>1, LossKnown, ReplyEffect, EnterEffect DEF CallIs
<1>6. \A v \in Workflows \ {w} : flow'[v] = flow[v]
    BY <1>1, LossKnown, FlowEffect DEF FlowIs
<1>7. (Kept(w)' => Kept(w)) /\ (cause'[w] = {} => cause[w] = {})
    BY <1>3, KeptGrows
<1>8. Kept(w) => /\ wf[w].pc = "start" /\ wf[w].outcome = "running" /\ call[w].client
                 /\ flow[w].thread = "none" /\ flow[w].result = "none" /\ w \notin flows
    BY LossKnown DEF CallOK, Workflow, Start
<1>9. Kept(w) => CallOK(w)' /\ ToldOK(w)'
    <2>1. call[w].rpc = "Start"
        BY DEF Start
    <2>2. CASE left # {} /\ Reply(w, "error") /\ UNCHANGED flow
        <3>1. CallIs(w, "Start", "replied", call[w].client) /\ SeenIs(w, call[w].seen, "error")
            BY <2>1, <2>2, LossKnown, ReplyEffect, AnswerEffect
        <3>2. w \in flows' => w \in flows
            BY <1>1, <2>2 DEF left
        <3> QED
            BY <1>8, <2>2, <3>1, <3>2 DEF CallOK, ToldOK, CallIs, SeenIs
    <2>3. CASE /\ left = {} /\ call[w].client /\ Reply(w, "ok")
               /\ flow' = [flow EXCEPT ![w].thread = "entry"]
        <3>1. CallIs(w, "Start", "replied", call[w].client) /\ SeenIs(w, call[w].seen, "ok")
            BY <2>1, <2>3, LossKnown, ReplyEffect, AnswerEffect
        <3>2. w \in flows' /\ FlowIs(w, "entry", flow[w].result)
            BY <1>1, <2>3, LossKnown, FlowEffect
        <3> QED
            BY <1>8, <3>1, <3>2 DEF CallOK, ToldOK, CallIs, SeenIs, FlowIs
    <2> QED
        BY <1>1, <1>8, <2>2, <2>3
<1>10. LossOK(w)'
    BY <1>7, <1>9, NoCauseKept DEF LossOK
<1> QED
    BY <1>3, <1>4, <1>5, <1>6, <1>10, OneLoss

LEMMA ServeLoss ==
    ASSUME LossInv, FlowTypeOK', NEW w \in Workflows, Serve(w)
    PROVE  LossInv'
<1>1. call[w].at = "queued" /\ UNCHANGED wf
    BY DEF Serve
<1>2. CASE Start(w)
    BY <1>1, <1>2, NewFlowLoss
<1>3. CASE GetFlowStatus(w)
    <2>1. call[w].rpc = "GetFlowStatus" /\ UNCHANGED <<flow, flows, cause>>
        BY <1>3 DEF GetFlowStatus
    <2>2. \/ /\ w \in flows /\ CallIs(w, "GetFlowStatus", "reading", call[w].client)
             /\ SeenIs(w, flow[w].result, call[w].reply)
          \/ /\ w \notin flows /\ CallIs(w, "GetFlowStatus", "replied", call[w].client)
             /\ SeenIs(w, call[w].seen, "missing")
        BY <1>3, <2>1, LossKnown, ReadEffect, ReplyEffect, AnswerEffect DEF GetFlowStatus
    <2>3. Kept(w) => wf[w].pc = "browser"
        BY <1>1, <2>1, LossKnown DEF CallOK, Workflow
    <2>4. Kept(w) => CallOK(w)'
        BY <1>1, <2>1, <2>2, <2>3, LossKnown DEF CallOK, CallIs
    <2>5. cause[w] = {} => ToldOK(w)'
        BY <1>1, <2>1, <2>2, <2>3, LossKnown DEF ToldOK, CallIs, SeenIs
    <2> QED
        BY <1>1, <2>1, <2>2, <2>4, <2>5, Blameless DEF CallIs
<1>4. CASE Complete(w)
    <2>1. call[w].rpc = "Complete" /\ UNCHANGED <<flows, cause>>
        BY <1>4 DEF Complete
    <2>2. \/ w \in flows /\ CallIs(w, "Complete", "waiting", call[w].client)
          \/ w \notin flows /\ CallIs(w, "Complete", "replied", call[w].client)
        BY <1>4, <2>1, LossKnown, EnterEffect, ReplyEffect DEF Complete
    <2>3. FlowIs(w, flow[w].thread, flow[w].result)
        BY <1>4, LossKnown, FlowEffect DEF Complete, FlowIs
    <2>4. Kept(w) => wf[w].pc = "complete"
        BY <1>1, <2>1, LossKnown DEF CallOK, Workflow
    <2>5. Kept(w) => CallOK(w)'
        BY <1>1, <2>1, <2>2, <2>3, <2>4, LossKnown DEF CallOK, CallIs, FlowIs
    <2>6. cause[w] = {} => ToldOK(w)'
        BY <1>1, <2>1, <2>2, <2>3, <2>4, LossKnown DEF ToldOK, CallIs, FlowIs
    <2> QED
        BY <1>1, <2>1, <2>2, <2>3, <2>5, <2>6, Blameless DEF CallIs, FlowIs
<1>5. CASE Cancel(w)
    <2>1. call[w].rpc = "Cancel" /\ UNCHANGED <<flows, cause>>
        BY <1>5 DEF Cancel
    <2>2. \/ w \in flows /\ CallIs(w, "Cancel", "joining", call[w].client)
          \/ w \notin flows /\ CallIs(w, "Cancel", "replied", call[w].client)
        BY <1>5, <2>1, LossKnown, EnterEffect, ReplyEffect DEF Cancel
    <2>3. FlowIs(w, flow[w].thread, flow[w].result)
        BY <1>5, LossKnown, FlowEffect DEF Cancel, FlowIs
    <2>4. Kept(w) => wf[w].pc = "cancel"
        BY <1>1, <2>1, LossKnown DEF CallOK, Workflow
    <2>5. Kept(w) => CallOK(w)'
        BY <1>1, <2>1, <2>2, <2>3, <2>4, LossKnown DEF CallOK, CallIs, FlowIs
    <2>6. cause[w] = {} => ToldOK(w)'
        BY <1>1, <2>1, <2>3, <2>4, LossKnown DEF ToldOK, CallIs, FlowIs
    <2> QED
        BY <1>1, <2>1, <2>2, <2>3, <2>5, <2>6, Blameless DEF CallIs, FlowIs
<1>6. CASE ~call[w].client /\ Reply(w, "none") /\ UNCHANGED <<flow, flows, cause>>
    <2>1. ~Kept(w)
        BY <1>1, <1>6, LossKnown DEF CallOK, Workflow
    <2>2. \A v \in Workflows \ {w} : call'[v] = call[v]
        BY <1>6, LossKnown, ReplyEffect DEF CallIs
    <2> QED
        BY <1>1, <1>6, <2>1, <2>2, Blameless, LossKnown
<1> QED
    BY <1>2, <1>3, <1>4, <1>5, <1>6 DEF Serve

LEMMA StatusReturnsLoss ==
    ASSUME LossInv, FlowTypeOK', NEW w \in Workflows, StatusReturns(w)
    PROVE  LossInv'
<1>1. call[w].at = "reading" /\ UNCHANGED <<wf, flow, flows>>
    BY DEF StatusReturns
<1>2. \E answer : /\ Reply(w, answer)
                  /\ \/ /\ call[w].seen = "none" /\ Done(w) /\ Blame(w, "torn")
                     \/ /\ UNCHANGED cause
                        /\ call[w].seen # "none" /\ answer = call[w].seen
                     \/ UNCHANGED cause /\ answer \in {"otp", "running"}
    BY DEF StatusReturns
<1>3. PICK answer : /\ Reply(w, answer)
                    /\ \/ /\ call[w].seen = "none" /\ Done(w) /\ Blame(w, "torn")
                       \/ /\ UNCHANGED cause
                          /\ call[w].seen # "none" /\ answer = call[w].seen
                       \/ UNCHANGED cause /\ answer \in {"otp", "running"}
    BY <1>2
<1>4. CallIs(w, call[w].rpc, "replied", call[w].client) /\ SeenIs(w, call[w].seen, answer)
    BY <1>3, LossKnown, ReplyEffect, AnswerEffect
<1>5. Kept(w) => wf[w].pc = "browser"
    BY <1>1, LossKnown DEF CallOK, Workflow
<1>6. Kept(w) => CallOK(w)'
    BY <1>1, <1>4, <1>5, LossKnown DEF CallOK, CallIs
<1>7. CASE Blame(w, "torn")
    <2>1. /\ cause'[w] # {} /\ \A v \in Workflows \ {w} : cause'[v] = cause[v]
          /\ Kept(w)' => Kept(w)
        BY <1>7, LossKnown, BlameGrows
    <2>2. LossOK(w)'
        BY <1>6, <2>1 DEF LossOK
    <2> QED
        BY <1>1, <1>4, <2>1, <2>2, OneLoss DEF CallIs
<1>8. CASE UNCHANGED cause
    <2>1. cause[w] = {} => ToldOK(w)'
        BY <1>1, <1>3, <1>4, <1>5, <1>8, LossKnown DEF ToldOK, CallIs, SeenIs, Blame, FlowTypeOK
    <2> QED
        BY <1>1, <1>4, <1>6, <1>8, <2>1, Blameless DEF CallIs
<1> QED
    BY <1>3, <1>7, <1>8

LEMMA CompleteReturnsLoss ==
    ASSUME LossInv, FlowTypeOK', NEW w \in Workflows, CompleteReturns(w)
    PROVE  LossInv'
<1>1. call[w].at = "waiting" /\ UNCHANGED <<wf, cause>>
    BY DEF CompleteReturns
<1>2. Kept(w) => wf[w].pc = "complete" /\ call[w].rpc = "Complete" /\ call[w].client
    BY <1>1, LossKnown DEF CallOK, Workflow
<1>3. CASE Done(w) /\ Reply(w, flow[w].result) /\ flows' = flows \ {w} /\ UNCHANGED flow
    <2>1. /\ CallIs(w, call[w].rpc, "replied", call[w].client)
          /\ SeenIs(w, call[w].seen, flow[w].result)
        BY <1>3, LossKnown, ReplyEffect, AnswerEffect
    <2>2. Kept(w) => CallOK(w)'
        BY <1>1, <1>2, <1>3, <2>1, LossKnown DEF CallOK, CallIs
    <2>3. Kept(w) => flow[w].result # "none"
        BY <1>3, LossKnown DEF CallOK, Done
    <2>4. cause[w] = {} => ToldOK(w)'
        BY <1>1, <1>2, <1>3, <2>1, <2>3, LossKnown DEF ToldOK, CallIs, SeenIs
    <2> QED
        BY <1>1, <1>3, <2>1, <2>2, <2>4, Blameless DEF CallIs
<1>4. CASE /\ ~call[w].client /\ flow' = [flow EXCEPT ![w].cancelled = TRUE]
           /\ Enter(w, "joining") /\ UNCHANGED flows
    <2>1. ~Kept(w) /\ cause[w] # {}
        BY <1>2, <1>4, LossKnown
    <2>2. \A v \in Workflows \ {w} : call'[v] = call[v] /\ flow'[v] = flow[v]
        BY <1>4, LossKnown, EnterEffect, FlowEffect DEF CallIs, FlowIs
    <2> QED
        BY <1>1, <1>4, <2>1, <2>2, Blameless
<1> QED
    BY <1>3, <1>4 DEF CompleteReturns

LEMMA JoinedLoss ==
    ASSUME LossInv, FlowTypeOK', NEW w \in Workflows, Joined(w)
    PROVE  LossInv'
<1>1. call[w].at = "joining" /\ flows' = flows \ {w} /\ UNCHANGED <<wf, flow, cause>>
    BY DEF Joined
<1>2. CallIs(w, call[w].rpc, "replied", call[w].client)
    BY LossKnown, ReplyEffect DEF Joined
<1>3. Kept(w) => wf[w].pc = "cancel"
    BY <1>1, LossKnown DEF CallOK, Workflow
<1>4. Kept(w) => CallOK(w)'
    BY <1>1, <1>2, <1>3, LossKnown DEF CallOK, CallIs
<1>5. cause[w] = {} => ToldOK(w)'
    BY <1>1, <1>2, <1>3, LossKnown DEF ToldOK, CallIs
<1> QED
    BY <1>1, <1>2, <1>4, <1>5, Blameless DEF CallIs

LEMMA RestartLoss ==
    ASSUME LossInv, FlowTypeOK', Restart
    PROVE  LossInv'
<1> SUFFICES ASSUME NEW w \in Workflows PROVE LossOK(w)'
    BY DEF LossInv
<1>1. FlowTypeOK /\ wf' = wf /\ flows' = {}
    BY Zenon DEF Restart, LossInv
<1>2. flow'[w] = IF InFlight(w) THEN [flow[w] EXCEPT !.thread = "done", !.result = "error"]
                 ELSE flow[w]
    BY Zenon DEF Restart
<1>3. call'[w] = IF call[w].at \in {"queued", "reading", "waiting", "joining"}
                 THEN [call[w] EXCEPT !.at = "replied", !.reply = "none"] ELSE call[w]
    BY Zenon DEF Restart
<1>4. \E why \in Fault : cause'[w] = IF wf[w].pc \in {"idle", "ended"} THEN cause[w]
                                     ELSE cause[w] \cup {why}
    BY Zenon DEF Restart, Fault
<1>5. Kept(w)' => wf[w].pc \in {"idle", "ended"}
    BY <1>4 DEF Kept
<1>6. wf[w].pc \in {"idle", "ended"} => cause'[w] = cause[w] /\ (Kept(w)' <=> Kept(w))
    BY <1>4 DEF Kept
<1>7. Kept(w)' => call[w].at = "none" /\ call'[w] = call[w] /\ CallOK(w)
    BY <1>3, <1>5, <1>6, LossKnown DEF CallOK
<1>8. /\ InFlight(w) => flow'[w].thread = "done" /\ flow'[w].result = "error"
      /\ ~InFlight(w) => flow'[w] = flow[w]
    BY <1>2, LossKnown DEF Flow
<1>9. Kept(w)' => CallOK(w)'
    BY <1>1, <1>5, <1>7, <1>8 DEF CallOK, InFlight
<1>10. cause'[w] = {} => ToldOK(w)'
    <2> SUFFICES ASSUME cause'[w] = {} PROVE ToldOK(w)'
        OBVIOUS
    <2>1. Kept(w)'
        BY DEF Kept
    <2> QED
        BY <1>1, <1>5, <1>6, <1>7, <1>8, <2>1, LossKnown DEF ToldOK, InFlight
<1> QED
    BY <1>9, <1>10 DEF LossOK

LEMMA InitLoss == Init => LossInv
<1> SUFFICES ASSUME Init, NEW w \in Workflows PROVE LossOK(w)
    BY InitTypes DEF LossInv
<1>1. /\ wf[w].pc = "idle" /\ wf[w].outcome = "running" /\ call[w].at = "none"
      /\ flow[w].thread = "none" /\ flow[w].result = "none" /\ flows = {}
    BY DEF Init, NoCall
<1> QED
    BY <1>1 DEF LossOK, CallOK, ToldOK

LEMMA NextLoss == LossInv /\ [Next]_vars => LossInv'
<1> SUFFICES ASSUME LossInv, [Next]_vars PROVE LossInv'
    OBVIOUS
<1>1. FlowTypeOK'
    BY NextTypes DEF LossInv
<1>2. ASSUME NEW w \in Workflows, FlowStep(w) PROVE LossInv'
    BY <1>1, <1>2, FlowStepLoss
<1>3. ASSUME NEW w \in Workflows, HandlerStep(w) PROVE LossInv'
    BY <1>1, <1>3, ServeLoss, StatusReturnsLoss, CompleteReturnsLoss, JoinedLoss
       DEF HandlerStep
<1>4. ASSUME NEW w \in Workflows, WorkflowStep(w) PROVE LossInv'
    BY <1>1, <1>4, StartLoss, StartedLoss, WaitLoss, StatusLoss, CompleteLoss,
       CompletedLoss, CancelLoss DEF WorkflowStep
<1>5. ASSUME NEW w \in Workflows, ClientLeaves(w) PROVE LossInv'
    BY <1>1, <1>5, LeaveLoss
<1>6. CASE Restart
    BY <1>1, <1>6, RestartLoss
<1>7. CASE UNCHANGED vars
    <2>1. UNCHANGED <<wf, call, flow, flows, cause>>
        BY <1>7 DEF vars
    <2>2. ASSUME NEW w \in Workflows PROVE LossOK(w)'
        BY <2>1 DEF LossInv, LossOK, Kept, CallOK, ToldOK
    <2> QED
        BY <1>1, <2>2 DEF LossInv
<1> QED
    BY <1>2, <1>3, <1>4, <1>5, <1>6, <1>7 DEF Next

-----------------------------------------------------------------------------
(* Two failures that lose no account.  A flow whose OTP could not be read   *)
(* back waits for it until it fails, and a cancel comes when the outcome is *)
(* known.                                                                   *)

Excuse == {"reply lost", "gave up", "torn", "dropped"}

\* The flow waits for an OTP that nobody has sent, or has failed.
NeedsOtp(w) ==
    \/ flow[w].thread = "waiting" /\ flow[w].otp = "none" /\ flow[w].result = "none"
    \/ flow[w].thread = "done" /\ flow[w].result = "error"

ToldToWait(w) ==
    \/ wf[w].pc = "otp"
    \/ wf[w].pc = "browser" /\ call[w].at = "replied" /\ call[w].reply = "otp"

Settled(w) ==
    /\ wf[w].pc = "ended"
    /\ call[w].at = "none" \/ call[w].rpc = "Cancel"
    /\ wf[w].outcome = "succeeded" \/ NeedsOtp(w)

SettleOK(w) ==
    /\ cause[w] = {} /\ ToldToWait(w) => NeedsOtp(w)
    /\ cause[w] # {} /\ cause[w] \cap Excuse = {} => Settled(w)

SettleInv == LossInv /\ CodeInv /\ \A w \in Workflows : SettleOK(w)

\* What a step that leaves w where it is has to show for it.
SameFor(w) ==
    /\ wf'[w] = wf[w] /\ call'[w] = call[w]
    /\ cause'[w] = cause[w] \/ cause'[w] \cap Excuse # {}

LEMMA StaysSettled ==
    ASSUME SettleInv, NEW w \in Workflows, SameFor(w), NeedsOtp(w) => NeedsOtp(w)'
    PROVE  SettleOK(w)'
<1>1. SettleOK(w) /\ (cause'[w] = cause[w] \/ (cause'[w] # {} /\ cause'[w] \cap Excuse # {}))
    BY Zenon DEF SettleInv, SameFor
<1>2. CASE cause'[w] = cause[w]
    BY <1>1, <1>2 DEF SettleOK, Settled, ToldToWait, SameFor
<1>3. CASE cause'[w] # {} /\ cause'[w] \cap Excuse # {}
    BY <1>3, Zenon DEF SettleOK
<1> QED
    BY <1>1, <1>2, <1>3

\* The wait for the OTP ends with it, or in a failure.
LEMMA FlowStepNeeds ==
    ASSUME FlowTypeOK, NEW w \in Workflows, FlowStep(w), NeedsOtp(w)
    PROVE  NeedsOtp(w)'
<1>1. flow[w].thread = "waiting" /\ flow[w].otp = "none"
    BY FlowStepMoves DEF NeedsOtp, InFlight
<1>2. OtpArrives(w)
    BY <1>1 DEF FlowStep, SubmitEmail, SubmitPassword, AsksForCode, AsksLoginForCode,
                FillProfile, CaptureSession, LoggedIn, RunSucceeds, RunFails, Turn, WaitFrom
<1>3. Finish(w, "error")
    BY <1>1, <1>2 DEF OtpArrives
<1> DEFINE g == [flow[w] EXCEPT !.thread = "done", !.result = "error"]
<1>4. flow' = [flow EXCEPT ![w] = g] /\ flow[w] \in Flow
    BY <1>3 DEF Finish, FlowTypeOK
<1>5. g.thread = "done" /\ g.result = "error"
    BY <1>4 DEF Flow
<1> HIDE DEF g
<1> QED
    BY <1>4, <1>5 DEF NeedsOtp, FlowTypeOK

\* What a handler does: it touches one call, and a flow that is asked for.
LEMMA HandlerEffect ==
    ASSUME FlowTypeOK, NEW w \in Workflows, HandlerStep(w)
    PROVE  /\ wf' = wf
           /\ call[w].at \in {"queued", "reading", "waiting", "joining"}
           /\ call'[w].rpc = call[w].rpc
           /\ \A v \in Workflows \ {w} : call'[v] = call[v] /\ flow'[v] = flow[v]
           /\ \A v \in Workflows : cause'[v] = cause[v] \/ cause'[v] \cap Excuse # {}
           /\ \A v \in Workflows : cause[v] \subseteq cause'[v]
           /\ call[w].rpc \notin {"Start", "Complete"} /\ NeedsOtp(w) => NeedsOtp(w)'
           /\ call'[w].at = "replied" /\ call'[w].reply = "otp" =>
                 flow' = flow /\ ~Done(w) /\ OtpRequired(w)
<1>1. call[w] \in Call /\ flow[w] \in Flow
    BY DEF FlowTypeOK
<1>2. \A at : Enter(w, at) => CallIs(w, call[w].rpc, at, call[w].client)
    BY EnterEffect
<1>3. \A answer : Reply(w, answer) => /\ CallIs(w, call[w].rpc, "replied", call[w].client)
                                      /\ SeenIs(w, call[w].seen, answer)
    BY ReplyEffect, AnswerEffect
<1>4. flow' = [flow EXCEPT ![w].cancelled = TRUE] =>
          /\ NeedsOtp(w) => NeedsOtp(w)'
          /\ \A v \in Workflows \ {w} : flow'[v] = flow[v]
    BY <1>1 DEF FlowTypeOK, Flow, NeedsOtp
<1>5. UNCHANGED flow => (NeedsOtp(w) => NeedsOtp(w)')
    BY DEF NeedsOtp
<1>6. CASE Serve(w)
    <2>1. wf' = wf /\ call[w].at = "queued"
        BY <1>6 DEF Serve
    <2>2. CASE Start(w)
        <3>1. /\ \/ Reply(w, "error") \/ Reply(w, "ok") \/ Enter(w, "joining")
              /\ call[w].rpc = "Start"
            BY <2>2 DEF Start, NewFlow
        <3>2. \A v \in Workflows \ {w} : flow'[v] = flow[v]
            BY <2>2, FlowEffect DEF Start, NewFlow, FlowIs
        <3>3. \A v \in Workflows : cause'[v] \in {cause[v], cause[v] \cup {"dropped"}}
            BY <2>2 DEF Start, NewFlow
        <3>4. \A v \in Workflows : /\ cause'[v] = cause[v] \/ cause'[v] \cap Excuse # {}
                                   /\ cause[v] \subseteq cause'[v]
            BY <3>3 DEF Excuse
        <3> QED
            BY <1>2, <1>3, <2>1, <3>1, <3>2, <3>4 DEF CallIs, SeenIs
    <2>3. CASE GetFlowStatus(w)
        <3>1. UNCHANGED <<flow, cause>>
            BY <2>3 DEF GetFlowStatus
        <3>2. \/ CallIs(w, call[w].rpc, "reading", call[w].client)
              \/ Reply(w, "missing")
            BY <2>3, ReadEffect DEF GetFlowStatus
        <3> QED
            BY <1>3, <1>5, <2>1, <3>1, <3>2 DEF CallIs, SeenIs
    <2>4. CASE Complete(w)
        <3>1. /\ UNCHANGED cause /\ call[w].rpc = "Complete"
              /\ Enter(w, "waiting") \/ Reply(w, "missing")
            BY <2>4 DEF Complete
        <3>2. \A v \in Workflows \ {w} : flow'[v] = flow[v]
            BY <2>4, FlowEffect DEF Complete, FlowIs
        <3> QED
            BY <1>2, <1>3, <2>1, <3>1, <3>2 DEF CallIs, SeenIs
    <2>5. CASE Cancel(w)
        <3>1. /\ UNCHANGED cause
              /\ Enter(w, "joining") \/ Reply(w, "ok")
              /\ UNCHANGED flow \/ flow' = [flow EXCEPT ![w].cancelled = TRUE]
            BY <2>5 DEF Cancel
        <3> QED
            BY <1>2, <1>3, <1>4, <1>5, <2>1, <3>1 DEF CallIs, SeenIs
    <2>6. CASE Reply(w, "none") /\ UNCHANGED <<flow, flows, cause>>
        BY <1>3, <1>5, <2>1, <2>6 DEF CallIs, SeenIs
    <2> QED
        BY <1>6, <2>2, <2>3, <2>4, <2>5, <2>6 DEF Serve
<1>7. CASE StatusReturns(w)
    <2>1. wf' = wf /\ flow' = flow /\ call[w].at = "reading"
        BY <1>7 DEF StatusReturns
    <2>2. \A v \in Workflows : /\ cause'[v] = cause[v] \/ cause'[v] \cap Excuse # {}
                               /\ cause[v] \subseteq cause'[v]
        <3>1. CASE UNCHANGED cause
            BY <3>1
        <3>2. CASE Blame(w, "torn")
            BY <3>2 DEF Blame, FlowTypeOK, Excuse
        <3> QED
            BY <1>7, <3>1, <3>2 DEF StatusReturns
    <2>3. \E answer : Reply(w, answer) /\ (answer = "otp" => ~Done(w) /\ OtpRequired(w))
        BY <1>1, <1>7 DEF StatusReturns, Call
    <2> QED
        BY <1>3, <1>5, <2>1, <2>2, <2>3 DEF CallIs, SeenIs
<1>8. CASE CompleteReturns(w)
    <2>1. wf' = wf /\ cause' = cause /\ call[w].at = "waiting"
        BY <1>8 DEF CompleteReturns
    <2>2. \/ UNCHANGED flow /\ Reply(w, flow[w].result)
          \/ flow' = [flow EXCEPT ![w].cancelled = TRUE] /\ Enter(w, "joining")
        BY <1>8 DEF CompleteReturns
    <2>3. flow[w].result # "otp"
        BY <1>1 DEF Flow
    <2> QED
        BY <1>2, <1>3, <1>4, <1>5, <2>1, <2>2, <2>3 DEF CallIs, SeenIs
<1>9. CASE Joined(w)
    <2>1. /\ UNCHANGED <<wf, flow, cause>> /\ call[w].at = "joining"
          /\ Reply(w, "ok") \/ Reply(w, "error")
        BY <1>9 DEF Joined
    <2> QED
        BY <1>3, <1>5, <2>1 DEF CallIs, SeenIs
<1> QED
    BY <1>6, <1>7, <1>8, <1>9 DEF HandlerStep

LEMMA SettleKnown ==
    ASSUME SettleInv, NEW w \in Workflows
    PROVE  /\ LossInv /\ FlowTypeOK /\ CodeInv /\ SettleOK(w) /\ InTurn(w)
           /\ CodeIsUnknown(w) => flow[w].otp = "none" /\ flow[w].entered = 0
           /\ call[w] \in Call /\ flow[w] \in Flow /\ wf[w] \in Workflow
           /\ cause[w] = {} => CallOK(w) /\ ToldOK(w)
BY LossKnown DEF SettleInv, CodeInv, OnceInv

LEMMA HandlerSettles ==
    ASSUME SettleInv, NEW w \in Workflows, HandlerStep(w), NEW v \in Workflows
    PROVE  SettleOK(v)'
<1>0. FlowTypeOK
    BY SettleKnown
<1>1. /\ wf' = wf
      /\ call[w].at \in {"queued", "reading", "waiting", "joining"}
      /\ call'[w].rpc = call[w].rpc
      /\ v # w => call'[v] = call[v] /\ flow'[v] = flow[v]
      /\ cause'[v] = cause[v] \/ cause'[v] \cap Excuse # {}
      /\ call[w].rpc \notin {"Start", "Complete"} /\ NeedsOtp(w) => NeedsOtp(w)'
      /\ call'[w].at = "replied" /\ call'[w].reply = "otp" =>
             flow' = flow /\ ~Done(w) /\ OtpRequired(w)
    BY <1>0, HandlerEffect
<1>2. CASE v # w
    <2>1. SameFor(v) /\ (NeedsOtp(v) => NeedsOtp(v)')
        BY <1>1, <1>2 DEF SameFor, NeedsOtp
    <2> QED
        BY <2>1, StaysSettled
<1>3. CASE v = w
    <2>1. CASE cause'[w] # cause[w]
        <3>1. cause'[w] \cap Excuse # {} /\ cause'[w] # {}
            BY <1>1, <1>3, <2>1
        <3> QED
            BY <1>3, <3>1, Zenon DEF SettleOK
    <2>2. CASE cause'[w] = cause[w] /\ cause[w] # {}
        <3>1. Settled(w) => Settled(w)'
            BY <1>1 DEF Settled
        <3> QED
            BY <1>3, <2>2, <3>1, SettleKnown, Zenon DEF SettleOK
    <2>3. CASE cause'[w] = cause[w] /\ cause[w] = {}
        <3>1. ASSUME ToldToWait(w)' PROVE NeedsOtp(w)'
            <4>1. wf[w].pc # "otp"
                BY <1>1, <2>3, SettleKnown DEF CallOK
            <4>2. /\ wf[w].pc = "browser" /\ flow' = flow /\ ~Done(w) /\ OtpRequired(w)
                BY <1>1, <3>1, <4>1 DEF ToldToWait
            <4>3. flow[w].otp = "none" /\ flow[w].entered = 0 /\ flow[w].result = "none"
                BY <2>3, <4>2, SettleKnown DEF CodeIsUnknown, CallOK, Done
            <4> QED
                BY <4>2, <4>3 DEF OtpRequired, NeedsOtp
        <3> QED
            BY <1>3, <2>3, <3>1 DEF SettleOK
    <2> QED
        BY <2>1, <2>2, <2>3
<1> QED
    BY <1>2, <1>3

\* A workflow that has settled takes no step.
LEMMA WorkflowSettles ==
    ASSUME SettleInv, NEW w \in Workflows, WorkflowStep(w) \/ ClientLeaves(w),
           NEW v \in Workflows
    PROVE  SettleOK(v)'
<1>0. FlowTypeOK
    BY SettleKnown
<1>1. /\ UNCHANGED flow
      /\ \A u \in Workflows \ {w} : wf'[u] = wf[u]
      /\ \A u \in Workflows \ {w} : call'[u] = call[u]
      /\ \A u \in Workflows \ {w} : cause'[u] = cause[u]
      /\ cause[w] \subseteq cause'[w]
    <2>1. \A why : Blame(w, why) => /\ \A u \in Workflows \ {w} : cause'[u] = cause[u]
                                    /\ cause[w] \subseteq cause'[w]
        BY <1>0, BlameGrows
    <2>2. /\ UNCHANGED flow
          /\ \/ UNCHANGED wf
             \/ \E pc : Move(w, pc)
             \/ \E outcome : End(w, outcome) \/ Cleanup(w, outcome)
          /\ \/ UNCHANGED call \/ Hang(w)
             \/ \E rpc : Issue(w, rpc)
             \/ call' = [call EXCEPT ![w].client = FALSE]
          /\ UNCHANGED cause \/ \E why : Blame(w, why)
        BY Zenon DEF WorkflowStep, ClientLeaves, BrowserAuthStart, StartAnswered, BrowserAuthWait,
           StatusAnswered, BrowserAuthComplete, CompleteAnswered, BrowserAuthCancel
    <2>3. \A u \in Workflows \ {w} : wf'[u] = wf[u]
        BY <1>0, <2>2, WorkflowEffect DEF WfOutcomeIs
    <2>4. \A u \in Workflows \ {w} : call'[u] = call[u]
        BY <1>0, <2>2, HangEffect, IssueEffect, LeaveEffect DEF CallIs
    <2>5. (\A u \in Workflows \ {w} : cause'[u] = cause[u]) /\ cause[w] \subseteq cause'[w]
        BY <2>1, <2>2
    <2> QED
        BY <2>2, <2>3, <2>4, <2>5
<1>2. CASE v # w
    <2>1. SameFor(v) /\ (NeedsOtp(v) => NeedsOtp(v)')
        BY <1>1, <1>2 DEF SameFor, NeedsOtp
    <2> QED
        BY <2>1, StaysSettled
<1>3. CASE v = w /\ cause[w] \cap Excuse # {}
    <2>1. cause'[w] \cap Excuse # {} /\ cause'[w] # {}
        BY <1>1, <1>3
    <2> QED
        BY <1>3, <2>1, Zenon DEF SettleOK
<1>4. CASE v = w /\ cause[w] # {} /\ cause[w] \cap Excuse = {}
    <2>1. Settled(w) /\ ~call[w].client
        BY <1>4, SettleKnown DEF SettleOK, Settled, InTurn
    <2>2. ~ClientLeaves(w)
        BY <2>1 DEF ClientLeaves
    <2>3. ~WorkflowStep(w)
        BY <2>1 DEF Settled, WorkflowStep, BrowserAuthStart, StartAnswered, BrowserAuthWait,
           StatusAnswered, BrowserAuthComplete, CompleteAnswered, BrowserAuthCancel, Answered
    <2> QED
        BY <2>2, <2>3
<1>5. CASE v = w /\ cause[w] = {}
    <2> SUFFICES SettleOK(w)'
        BY <1>5
    <2>0. CallOK(w) /\ ToldOK(w) /\ InTurn(w)
        BY <1>5, SettleKnown
    <2>1. UNCHANGED cause /\ (ToldToWait(w)' => NeedsOtp(w)') => SettleOK(w)'
        BY <1>5 DEF SettleOK
    <2>2. Blame(w, "reply lost") \/ Blame(w, "gave up") => SettleOK(w)'
        <3> SUFFICES ASSUME NEW why \in {"reply lost", "gave up"}, Blame(w, why)
                     PROVE  SettleOK(w)'
            BY Zenon
        <3>1. why \in cause'[w]
            <4>1. cause'[w] = cause[w] \cup {why}
                BY <1>0, BlameGrows, Zenon
            <4> QED
                BY <4>1
        <3>2. cause'[w] \cap Excuse # {} /\ cause'[w] # {}
            BY <3>1 DEF Excuse
        <3> QED
            BY <3>2, Zenon DEF SettleOK
    <2>3. Blame(w, "otp unread") \/ Blame(w, "cancel lost") => (Settled(w)' => SettleOK(w)')
        <3> SUFFICES ASSUME NEW why, Blame(w, why), Settled(w)' PROVE SettleOK(w)'
            BY Zenon
        <3>1. cause'[w] # {}
            BY <1>0, BlameGrows
        <3> QED
            BY <3>1, Zenon DEF SettleOK
    <2>4. CASE BrowserAuthStart(w)
        <3>1. WfOutcomeIs(w, "start", wf[w].outcome) /\ UNCHANGED cause
            BY <1>0, <2>4, WorkflowEffect DEF BrowserAuthStart
        <3>2. ~ToldToWait(w)'
            BY <3>1 DEF WfOutcomeIs, ToldToWait
        <3> QED
            BY <2>1, <3>1, <3>2, Zenon
    <2>5. CASE StartAnswered(w) \/ CompleteAnswered(w)
        <3>1. CallIs(w, "none", "none", FALSE) /\ UNCHANGED cause
            BY <1>0, <2>5, HangEffect DEF StartAnswered, CompleteAnswered
        <3>2. \/ Move(w, "browser")
              \/ \E outcome : End(w, outcome)
            BY <2>5, Zenon DEF StartAnswered, CompleteAnswered
        <3>3. wf'[w].pc # "otp"
            <4>1. CASE Move(w, "browser")
                BY <1>0, <4>1, WorkflowEffect DEF WfOutcomeIs
            <4>2. ASSUME NEW outcome, End(w, outcome) PROVE wf'[w].pc = "ended"
                BY <1>0, <4>2, WorkflowEffect DEF WfOutcomeIs
            <4> QED
                BY <3>2, <4>1, <4>2
        <3>4. ~ToldToWait(w)'
            BY <3>1, <3>3 DEF CallIs, ToldToWait
        <3> QED
            BY <2>1, <3>1, <3>4, Zenon
    <2>6. CASE BrowserAuthWait(w)
        <3>1. CASE Issue(w, "GetFlowStatus") /\ UNCHANGED <<wf, cause>>
            <4>1. call'[w].at = "queued" /\ wf[w].pc = "browser"
                BY <1>0, <2>6, <3>1, IssueEffect DEF BrowserAuthWait, CallIs
            <4>2. ~ToldToWait(w)'
                BY <3>1, <4>1 DEF ToldToWait
            <4> QED
                BY <2>1, <3>1, <4>2, Zenon
        <3>2. CASE Blame(w, "gave up")
            BY <2>2, <3>2, Zenon
        <3> QED
            BY <2>6, <3>1, <3>2, Zenon DEF BrowserAuthWait
    <2>7. CASE StatusAnswered(w)
        <3>1. /\ CallIs(w, "none", "none", FALSE) /\ UNCHANGED <<flow, cause>>
              /\ call[w].at = "replied" /\ wf[w].pc = "browser"
            BY <1>0, <2>0, <2>7, HangEffect DEF StatusAnswered, Answered, InTurn
        <3>2. wf'[w].pc = "otp" => call[w].reply = "otp"
            BY <1>0, <2>7, <3>1, WorkflowEffect DEF StatusAnswered, WfOutcomeIs
        <3>3. wf'[w].pc = "otp" => NeedsOtp(w)
            BY <1>5, <3>1, <3>2, SettleKnown DEF SettleOK, ToldToWait
        <3>4. ToldToWait(w)' => NeedsOtp(w)'
            BY <3>1, <3>3 DEF CallIs, ToldToWait, NeedsOtp
        <3> QED
            BY <2>1, <3>1, <3>4, Zenon
    <2>8. CASE BrowserAuthComplete(w)
        <3>1. wf[w].pc = "otp" /\ NeedsOtp(w) /\ call[w].at = "none"
            BY <1>5, <2>0, <2>8, SettleKnown DEF BrowserAuthComplete, SettleOK, ToldToWait, CallOK
        <3>2. CASE Move(w, "complete") /\ UNCHANGED cause
            <4>1. wf'[w].pc = "complete"
                BY <1>0, <3>2, WorkflowEffect DEF WfOutcomeIs
            <4>2. ~ToldToWait(w)'
                BY <4>1 DEF ToldToWait
            <4> QED
                BY <2>1, <3>2, <4>2, Zenon
        <3>3. CASE Blame(w, "gave up")
            BY <2>2, <3>3, Zenon
        <3>4. CASE End(w, "failed") /\ Blame(w, "otp unread") /\ UNCHANGED call
            <4>1. wf'[w].pc = "ended"
                BY <1>0, <3>4, WorkflowEffect DEF WfOutcomeIs
            <4>2. Settled(w)'
                BY <1>1, <3>1, <3>4, <4>1 DEF Settled, NeedsOtp
            <4> QED
                BY <2>3, <3>4, <4>2, Zenon
        <3> QED
            BY <2>8, <3>2, <3>3, <3>4, Zenon DEF BrowserAuthComplete
    <2>9. CASE BrowserAuthCancel(w)
        <3>1. wf'[w].pc \in {"cancel", "ended"} /\ UNCHANGED cause
            BY <1>0, <2>9, WorkflowEffect DEF BrowserAuthCancel, WfOutcomeIs
        <3>2. ~ToldToWait(w)'
            BY <3>1 DEF ToldToWait
        <3> QED
            BY <2>1, <3>1, <3>2, Zenon
    <2>10. CASE ClientLeaves(w)
        <3>1. CASE call[w].rpc # "Cancel"
            BY <2>2, <2>10, <3>1, Zenon DEF ClientLeaves
        <3>2. CASE call[w].rpc = "Cancel"
            <4>1. /\ wf[w].pc = "cancel" /\ Blame(w, "cancel lost")
                  /\ End(w, IF wf[w].outcome = "running" THEN "failed" ELSE wf[w].outcome)
                  /\ call' = [call EXCEPT ![w].client = FALSE]
                BY <2>0, <2>10, <3>2 DEF ClientLeaves, InTurn
            <4>2. call'[w].rpc = "Cancel"
                BY <1>0, <3>2, <4>1, LeaveEffect DEF CallIs
            <4>3. /\ wf'[w].pc = "ended"
                  /\ wf[w].outcome = "succeeded" => wf'[w].outcome = "succeeded"
                BY <1>0, <4>1, WorkflowEffect DEF WfOutcomeIs
            <4>4. wf[w].outcome = "succeeded" \/ NeedsOtp(w)
                BY <2>0, <4>1 DEF ToldOK, CallOK, NeedsOtp
            <4>5. Settled(w)'
                BY <1>1, <4>2, <4>3, <4>4 DEF Settled, NeedsOtp
            <4> QED
                BY <2>3, <4>1, <4>5, Zenon
        <3> QED
            BY <3>1, <3>2
    <2> QED
        BY <1>5, <2>4, <2>5, <2>6, <2>7, <2>8, <2>9, <2>10 DEF WorkflowStep
<1> QED
    BY <1>2, <1>3, <1>4, <1>5

LEMMA RestartSettles ==
    ASSUME SettleInv, Restart, NEW w \in Workflows
    PROVE  SettleOK(w)'
<1>1. wf' = wf
    BY Zenon DEF Restart
<1>2. flow'[w] = IF InFlight(w) THEN [flow[w] EXCEPT !.thread = "done", !.result = "error"]
                 ELSE flow[w]
    BY Zenon DEF Restart
<1>3. call'[w] = IF call[w].at \in {"queued", "reading", "waiting", "joining"}
                 THEN [call[w] EXCEPT !.at = "replied", !.reply = "none"] ELSE call[w]
    BY Zenon DEF Restart
<1>4. cause'[w] = IF wf[w].pc \in {"idle", "ended"} THEN cause[w] ELSE cause[w] \cup {"reply lost"}
    BY Zenon DEF Restart
<1>5. CASE wf[w].pc \notin {"idle", "ended"}
    <2>1. "reply lost" \in cause'[w]
        BY <1>4, <1>5
    <2>2. cause'[w] \cap Excuse # {} /\ cause'[w] # {}
        BY <2>1 DEF Excuse
    <2> QED
        BY <2>2, Zenon DEF SettleOK
<1>6. CASE wf[w].pc \in {"idle", "ended"}
    <2>1. cause'[w] = cause[w] /\ ~ToldToWait(w)'
        BY <1>1, <1>4, <1>6 DEF ToldToWait
    <2>2. NeedsOtp(w) => NeedsOtp(w)'
        <3>1. InFlight(w) => flow'[w].thread = "done" /\ flow'[w].result = "error"
            BY <1>2, SettleKnown DEF Flow
        <3>2. ~InFlight(w) => flow'[w] = flow[w]
            BY <1>2
        <3> QED
            BY <3>1, <3>2 DEF NeedsOtp
    <2>3. /\ call'[w].rpc = call[w].rpc
          /\ call[w].at = "none" => call'[w].at = "none"
        BY <1>3, SettleKnown DEF Call
    <2>4. Settled(w) => Settled(w)'
        BY <1>1, <2>2, <2>3 DEF Settled
    <2> QED
        BY <2>1, <2>4, SettleKnown, Zenon DEF SettleOK
<1> QED
    BY <1>5, <1>6

LEMMA InitSettle == Init => SettleInv
<1> SUFFICES ASSUME Init PROVE SettleInv
    OBVIOUS
<1>1. LossInv /\ CodeInv
    BY InitLoss, InitOnce
<1>2. \A w \in Workflows : cause[w] = {} /\ wf[w].pc = "idle"
    BY DEF Init
<1> QED
    BY <1>1, <1>2 DEF SettleInv, SettleOK, ToldToWait

LEMMA NextSettle == SettleInv /\ [Next]_vars => SettleInv'
<1> SUFFICES ASSUME SettleInv, [Next]_vars, NEW v \in Workflows PROVE SettleOK(v)'
    BY NextLoss, NextOnce DEF SettleInv
<1>1. ASSUME NEW w \in Workflows, FlowStep(w) PROVE SettleOK(v)'
    <2>1. FlowRuns(w) /\ UNCHANGED <<wf, call, flows, cause>>
        BY <1>1, SettleKnown, FlowStepRuns, FlowStepMoves
    <2>2. SameFor(v)
        BY <2>1 DEF SameFor
    <2>3. NeedsOtp(v) => NeedsOtp(v)'
        <3>1. CASE v = w
            BY <1>1, <3>1, SettleKnown, FlowStepNeeds
        <3>2. CASE v # w
            BY <2>1, <3>2 DEF FlowRuns, NeedsOtp
        <3> QED
            BY <3>1, <3>2
    <2> QED
        BY <2>2, <2>3, StaysSettled
<1>2. ASSUME NEW w \in Workflows, HandlerStep(w) PROVE SettleOK(v)'
    BY <1>2, HandlerSettles
<1>3. ASSUME NEW w \in Workflows, WorkflowStep(w) \/ ClientLeaves(w) PROVE SettleOK(v)'
    BY <1>3, WorkflowSettles
<1>4. CASE Restart
    BY <1>4, RestartSettles
<1>5. CASE UNCHANGED vars
    <2>1. SameFor(v) /\ (NeedsOtp(v) => NeedsOtp(v)')
        BY <1>5 DEF vars, SameFor, NeedsOtp
    <2> QED
        BY <2>1, StaysSettled
<1> QED
    BY <1>1, <1>2, <1>3, <1>4, <1>5 DEF Next

\* LossesHaveACause: a flow that stays behind its workflow and refuses every other
\* comes from a lost call or an OTP that could not be read back.  An account that is
\* got and not reported comes from a lost answer or a workflow that gave up or, where
\* nothing failed, from a flow that ended in the middle of a status or was dropped by
\* another start before its result was fetched.
THEOREM LossesAreExplained == Spec => []LossesHaveACause
<1>1. ASSUME LossInv PROVE BlockersHaveACause
    <2> SUFFICES ASSUME NEW w \in flows, wf[w].pc = "ended"
                 PROVE  cause[w] \cap Fault # {}
        BY Zenon DEF BlockersHaveACause, Fault
    <2>1. w \in Workflows
        BY <1>1 DEF LossInv, FlowTypeOK
    <2>2. ~Kept(w)
        BY <1>1, <2>1, LossKnown DEF CallOK
    <2> QED
        BY <2>2 DEF Kept
<1>2. ASSUME SettleInv PROVE SuccessIsReported
    <2> SUFFICES ASSUME NEW w \in Workflows, wf[w].pc = "ended", flow[w].result = "ok",
                        cause[w] \cap Excuse = {}
                 PROVE  wf[w].outcome = "succeeded"
        <3>1. \A w \in Workflows :
                  cause[w] \cap Excuse # {} => \/ cause[w] \cap {"reply lost", "gave up"} # {}
                                               \/ cause[w] \cap {"torn", "dropped"} # {}
            BY DEF Excuse
        <3> QED
            BY <3>1, Zenon DEF SuccessIsReported
    <2>1. CASE cause[w] = {}
        BY <1>2, <2>1, SettleKnown DEF CallOK, ToldOK
    <2>2. CASE cause[w] # {}
        <3>1. Settled(w)
            BY <1>2, <2>2, SettleKnown, Zenon DEF SettleOK
        <3> QED
            BY <3>1 DEF Settled, NeedsOtp
    <2> QED
        BY <2>1, <2>2
<1>3. SettleInv => LossesHaveACause
    BY <1>1, <1>2 DEF LossesHaveACause, SettleInv
<1> QED
    BY <1>3, InitSettle, NextSettle, PTL DEF Spec
=============================================================================
