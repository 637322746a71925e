------------------------------ MODULE BrowserFlow ------------------------------
(***************************************************************************)
(* browser-reg: browser flows, the registry of the service, its one gRPC   *)
(* worker, and the workflows of the orchestrator that start, poll,         *)
(* complete and cancel a flow.                                             *)
(*                                                                         *)
(* A flow is a thread that drives a browser from page to page; which page  *)
(* comes next is the site's choice.  Each page begins with a look at the   *)
(* cancel event, and so does each end of a wait for the OTP.  A workflow   *)
(* starts one flow, so that a flow goes by the name of its workflow.  A    *)
(* call is queued, served by the one worker, and may lose its client at    *)
(* any time.                                                               *)
(***************************************************************************)
EXTENDS Naturals, FiniteSets

CONSTANTS
    Workflows,      \* workflows that register an account or log one in
    Logins,         \* those that log one in
    MaxRestarts     \* bound: restarts of the service

ASSUME BrowserAssumption == Logins \subseteq Workflows /\ MaxRestarts \in Nat

VARIABLES
    wf,         \* each workflow: where it is, what it will report
    call,       \* the last call of each workflow
    flow,       \* BrowserFlow
    flows,      \* BrowserRegistrationServicer._flows
    cause,      \* history: what went wrong between a workflow and its flow
    restarts    \* restarts of the service

vars == <<wf, call, flow, flows, cause, restarts>>

Workflow == [pc: {"idle", "start", "browser", "otp", "complete", "cancel", "ended"},
             outcome: {"running", "succeeded", "failed"}]

\* client: whether somebody waits for the reply; seen: what the first half of
\* GetFlowStatus read.
Call == [rpc: {"none", "Start", "GetFlowStatus", "Complete", "Cancel"},
         at: {"none", "queued", "reading", "waiting", "joining", "replied"},
         client: BOOLEAN, seen: {"none", "ok", "error"},
         reply: {"none", "ok", "error", "missing", "running", "otp", "torn"}]

Pages == {"entry", "password", "code", "profile", "capture"}

\* thread: the page, the wait for the OTP, "captured" when a session is there; next:
\* the page after the wait; entered: history, how often an OTP was given to the site.
Flow == [thread: Pages \cup {"none", "waiting", "captured", "done"}, next: Pages,
         otp: {"none", "set", "taken"}, entered: 0..2, cancelled: BOOLEAN,
         result: {"none", "ok", "error"}]

Cause == {"reply lost", "otp unread", "cancel lost", "gave up", "dropped", "torn"}

FlowTypeOK ==
    /\ wf \in [Workflows -> Workflow]
    /\ call \in [Workflows -> Call]
    /\ flow \in [Workflows -> Flow]
    /\ flows \subseteq Workflows
    /\ cause \in [Workflows -> SUBSET Cause]
    /\ restarts \in 0..MaxRestarts

NoCall == [rpc |-> "none", at |-> "none", client |-> FALSE, seen |-> "none", reply |-> "none"]

Init ==
    /\ wf = [w \in Workflows |-> [pc |-> "idle", outcome |-> "running"]]
    /\ call = [w \in Workflows |-> NoCall]
    /\ flow = [w \in Workflows |->
                  [thread |-> "none", next |-> "profile", otp |-> "none", entered |-> 0,
                   cancelled |-> FALSE, result |-> "none"]]
    /\ flows = {}
    /\ cause = [w \in Workflows |-> {}]
    /\ restarts = 0

Blame(w, why) == cause' = [cause EXCEPT ![w] = @ \cup {why}]

-----------------------------------------------------------------------------
(* The thread of a flow.                                                    *)

InFlight(w) == flow[w].thread \notin {"none", "done"}

Done(w) == flow[w].thread = "done"

\* _otp_required_event is set by the first wait and never cleared.
OtpRequired(w) == flow[w].thread = "waiting" \/ flow[w].entered > 0

Finish(w, result) ==
    flow' = [flow EXCEPT ![w].thread = "done", ![w].result = result]

\* From page to page, unless the flow has been cancelled.
Turn(w, page, next) ==
    /\ flow[w].thread = page
    /\ ~flow[w].cancelled
    /\ flow' = [flow EXCEPT ![w].thread = next]
    /\ UNCHANGED <<wf, call, flows, cause, restarts>>

\* The way to the page of the e-mail address, and past it.
SubmitEmail(w) == Turn(w, "entry", "password")

\* A registration goes on from here whether or not the field was found.
SubmitPassword(w) == Turn(w, "password", IF w \in Logins THEN "capture" ELSE "code")

\* _wait_for_otp, up to its loop.
WaitFrom(w, page, next) ==
    /\ flow[w].thread = page
    /\ ~flow[w].cancelled
    /\ flow' = [flow EXCEPT ![w].thread = "waiting", ![w].next = next]
    /\ UNCHANGED <<wf, call, flows, cause, restarts>>

\* The site asks a registration for a code once at most.
AsksForCode(w) == WaitFrom(w, "code", "profile") \/ Turn(w, "code", "profile")

\* It may ask a login before and after the password, and again after a code.
AsksLoginForCode(w) ==
    w \in Logins /\ \E page \in {"password", "capture"} : WaitFrom(w, page, page)

TakeOtp(w, left) ==
    flow' = [flow EXCEPT ![w].thread = flow[w].next, ![w].otp = left,
                         ![w].entered = IF @ = 2 THEN 2 ELSE @ + 1]

\* Mutant: the OTP stays where it was.
OtpStays(w) ==
    /\ flow[w].thread = "waiting"
    /\ \/ flow[w].cancelled /\ Finish(w, "error")
       \/ ~flow[w].cancelled /\ flow[w].otp = "set" /\ TakeOtp(w, "set")
    /\ UNCHANGED <<wf, call, flows, cause, restarts>>

\* _wait_for_otp has no timeout.  It ends with the OTP, which it takes away, or with
\* an exception: the flow was cancelled, or the event is set from an earlier wait.
OtpArrives(w) ==
    /\ flow[w].thread = "waiting"
    /\ \/ /\ flow[w].cancelled \/ flow[w].otp = "taken"
          /\ Finish(w, "error")
       \/ ~flow[w].cancelled /\ flow[w].otp = "set" /\ TakeOtp(w, "taken")
    /\ UNCHANGED <<wf, call, flows, cause, restarts>>

\* The name and the birthday, if the form is there.
FillProfile(w) == Turn(w, "profile", "capture")

CaptureSession(w) == Turn(w, "capture", "captured")

\* The site may let a login in before it asks for the password, or after a code.
LoggedIn(w) == w \in Logins /\ Turn(w, "password", "captured")

\* With a session the flow looks at its cancel event no more.
RunSucceeds(w) ==
    /\ flow[w].thread = "captured"
    /\ Finish(w, "ok")
    /\ UNCHANGED <<wf, call, flows, cause, restarts>>

\* Every page may be missing, or be the wrong one, and every look at the cancel event
\* may raise.
RunFails(w) ==
    /\ InFlight(w)
    /\ flow[w].thread # "waiting"
    /\ Finish(w, "error")
    /\ UNCHANGED <<wf, call, flows, cause, restarts>>

-----------------------------------------------------------------------------
(* The handlers.                                                            *)

Free == \A w \in Workflows : call[w].at \notin {"reading", "waiting", "joining"}

Enter(w, at) == call' = [call EXCEPT ![w].at = at]

Reply(w, answer) == call' = [call EXCEPT ![w].at = "replied", ![w].reply = answer]

\* Mutant: a new flow takes the place of the one that is there.
NewFlowReplaces(w) ==
    /\ flows' = {w}
    /\ flow' = [flow EXCEPT ![w].thread = "entry"]
    /\ Reply(w, "ok")
    /\ UNCHANGED cause

\* _new_flow drops the flows that are done, also those whose result nobody has
\* fetched, and refuses when one is left.
NewFlow(w) ==
    LET left == {v \in flows : ~Done(v)}
    IN  /\ flows' = IF left = {} THEN {w} ELSE left
        /\ cause' = [v \in Workflows |->
                        IF v \in flows \ left /\ wf[v].outcome = "running"
                        THEN cause[v] \cup {"dropped"} ELSE cause[v]]
        /\ IF left # {}
           THEN Reply(w, "error") /\ UNCHANGED flow
           ELSE IF call[w].client
           THEN Reply(w, "ok") /\ flow' = [flow EXCEPT ![w].thread = "entry"]
           ELSE /\ Enter(w, "joining")
                /\ flow' = [flow EXCEPT ![w].thread = "entry", ![w].cancelled = TRUE]

Start(w) ==
    /\ call[w].rpc = "Start"
    /\ NewFlow(w)

\* The first half of GetFlowStatus: the result, if the flow is done.
GetFlowStatus(w) ==
    /\ call[w].rpc = "GetFlowStatus"
    /\ IF w \in flows
       THEN call' = [call EXCEPT ![w].at = "reading", ![w].seen = flow[w].result]
       ELSE Reply(w, "missing")
    /\ UNCHANGED <<flow, flows, cause>>

\* Mutant: the OTP is stored, the event is not set.
CompleteQuietly(w) ==
    /\ call[w].rpc = "Complete"
    /\ IF w \in flows THEN Enter(w, "waiting") ELSE Reply(w, "missing")
    /\ UNCHANGED <<flow, flows, cause>>

Complete(w) ==
    /\ call[w].rpc = "Complete"
    /\ IF w \in flows
       THEN Enter(w, "waiting") /\ flow' = [flow EXCEPT ![w].otp = "set"]
       ELSE Reply(w, "missing") /\ UNCHANGED flow
    /\ UNCHANGED <<flows, cause>>

Cancel(w) ==
    /\ call[w].rpc = "Cancel"
    /\ IF w \in flows
       THEN Enter(w, "joining") /\ flow' = [flow EXCEPT ![w].cancelled = TRUE]
       ELSE Reply(w, "ok") /\ UNCHANGED flow
    /\ UNCHANGED <<flows, cause>>

\* The worker takes a call from its queue; one that lost its client may be skipped.
Serve(w) ==
    /\ Free
    /\ call[w].at = "queued"
    /\ \/ Start(w) \/ GetFlowStatus(w) \/ Complete(w) \/ Cancel(w)
       \/ ~call[w].client /\ Reply(w, "none") /\ UNCHANGED <<flow, flows, cause>>
    /\ UNCHANGED <<wf, restarts>>

\* The second half: whether an OTP is wanted, and, once more, whether the flow is
\* done.  Done by now and not before is a status without a result.
StatusReturns(w) ==
    /\ call[w].at = "reading"
    /\ Reply(w, IF call[w].seen # "none" THEN call[w].seen
                ELSE IF Done(w) THEN "torn"
                ELSE IF OtpRequired(w) THEN "otp" ELSE "running")
    /\ IF call[w].seen = "none" /\ Done(w) THEN Blame(w, "torn") ELSE UNCHANGED cause
    /\ UNCHANGED <<wf, flow, flows, restarts>>

\* complete(): until the flow is done, or its client is gone.
CompleteReturns(w) ==
    /\ call[w].at = "waiting"
    /\ \/ /\ Done(w)
          /\ Reply(w, flow[w].result)
          /\ flows' = flows \ {w}
          /\ UNCHANGED flow
       \/ /\ ~Done(w) /\ ~call[w].client
          /\ flow' = [flow EXCEPT ![w].cancelled = TRUE]
          /\ Enter(w, "joining")
          /\ UNCHANGED flows
    /\ UNCHANGED <<wf, cause, restarts>>

\* join ends with the thread, or with its timeout; the flow is dropped either way.
Joined(w) ==
    /\ call[w].at = "joining"
    /\ flows' = flows \ {w}
    /\ Reply(w, IF call[w].rpc = "Cancel" THEN "ok" ELSE "error")
    /\ UNCHANGED <<wf, flow, cause, restarts>>

\* The process ends, and with it threads, registry and calls.
Restart ==
    /\ restarts < MaxRestarts
    /\ restarts' = restarts + 1
    /\ flows' = {}
    /\ flow' = [w \in Workflows |->
                   IF InFlight(w) THEN [flow[w] EXCEPT !.thread = "done", !.result = "error"]
                   ELSE flow[w]]
    /\ call' = [w \in Workflows |->
                   IF call[w].at \in {"queued", "reading", "waiting", "joining"}
                   THEN [call[w] EXCEPT !.at = "replied", !.reply = "none"] ELSE call[w]]
    /\ cause' = [w \in Workflows |->
                    IF wf[w].pc \in {"idle", "ended"} THEN cause[w]
                    ELSE cause[w] \cup {"reply lost"}]
    /\ UNCHANGED wf

-----------------------------------------------------------------------------
(* The workflows.                                                           *)

Move(w, pc) == wf' = [wf EXCEPT ![w].pc = pc]

End(w, outcome) == wf' = [wf EXCEPT ![w].pc = "ended", ![w].outcome = outcome]

\* What is left to do is to cancel the flow; the outcome is known.
Cleanup(w, outcome) == wf' = [wf EXCEPT ![w].pc = "cancel", ![w].outcome = outcome]

Answered(w, rpc) ==
    call[w].rpc = rpc /\ call[w].at = "replied" /\ call[w].client

Hang(w) == call' = [call EXCEPT ![w] = NoCall]

Issue(w, rpc) ==
    call' = [call EXCEPT ![w] = [NoCall EXCEPT !.rpc = rpc, !.at = "queued", !.client = TRUE]]

BrowserAuthStart(w) ==
    /\ wf[w].pc = "idle"
    /\ Move(w, "start")
    /\ Issue(w, "Start")
    /\ UNCHANGED <<flow, flows, cause, restarts>>

StartAnswered(w) ==
    /\ Answered(w, "Start")
    /\ IF call[w].reply = "ok" THEN Move(w, "browser") ELSE End(w, "failed")
    /\ Hang(w)
    /\ UNCHANGED <<flow, flows, cause, restarts>>

\* Mutant: a wait that gives up does not cancel.
WaitWithoutCancel(w) ==
    /\ wf[w].pc = "browser"
    /\ call[w].at = "none"
    /\ \/ Issue(w, "GetFlowStatus") /\ UNCHANGED <<wf, cause>>
       \/ End(w, "failed") /\ Blame(w, "gave up") /\ UNCHANGED call
    /\ UNCHANGED <<flow, flows, restarts>>

\* BrowserAuthWaitActivity polls until the flow is done or wants an OTP; its
\* deadline may end the polling.
BrowserAuthWait(w) ==
    /\ wf[w].pc = "browser"
    /\ call[w].at = "none"
    /\ \/ Issue(w, "GetFlowStatus") /\ UNCHANGED <<wf, cause>>
       \/ Cleanup(w, "failed") /\ Blame(w, "gave up") /\ UNCHANGED call
    /\ UNCHANGED <<flow, flows, restarts>>

\* A flow that is done decides, then the OTP.
StatusAnswered(w) ==
    /\ Answered(w, "GetFlowStatus")
    /\ Hang(w)
    /\ CASE call[w].reply = "ok" -> Cleanup(w, "succeeded")
         [] call[w].reply = "otp" -> Move(w, "otp")
         [] call[w].reply = "running" -> UNCHANGED wf
         [] OTHER -> Cleanup(w, "failed")
    /\ UNCHANGED <<flow, flows, cause, restarts>>

\* The wait for the OTP ends with one, or not.  The OTP is then read back from the
\* job, which may fail; nobody cancels the flow in that case.
BrowserAuthComplete(w) ==
    /\ wf[w].pc = "otp"
    /\ \/ Move(w, "complete") /\ Issue(w, "Complete") /\ UNCHANGED cause
       \/ Cleanup(w, "failed") /\ Blame(w, "gave up") /\ UNCHANGED call
       \/ End(w, "failed") /\ Blame(w, "otp unread") /\ UNCHANGED call
    /\ UNCHANGED <<flow, flows, restarts>>

CompleteAnswered(w) ==
    /\ Answered(w, "Complete")
    /\ End(w, IF call[w].reply = "ok" THEN "succeeded" ELSE "failed")
    /\ Hang(w)
    /\ UNCHANGED <<flow, flows, cause, restarts>>

BrowserAuthCancel(w) ==
    /\ wf[w].pc = "cancel"
    /\ \/ call[w].at = "none" /\ Issue(w, "Cancel") /\ UNCHANGED wf
       \/ Answered(w, "Cancel") /\ Hang(w) /\ End(w, wf[w].outcome)
    /\ UNCHANGED <<flow, flows, cause, restarts>>

\* The call ends for the client only: deadline, heartbeat, broken connection.  The
\* workflow of a poll goes on to cancel; after a start it knows no flow, after a
\* completion it does not cancel, and a cancel it gives up after its retries.
ClientLeaves(w) ==
    /\ call[w].client
    /\ Blame(w, IF call[w].rpc = "Cancel" THEN "cancel lost" ELSE "reply lost")
    /\ IF call[w].rpc = "GetFlowStatus"
       THEN Cleanup(w, "failed") /\ Hang(w)
       ELSE /\ End(w, IF wf[w].outcome = "running" THEN "failed" ELSE wf[w].outcome)
            /\ call' = [call EXCEPT ![w].client = FALSE]
    /\ UNCHANGED <<flow, flows, restarts>>

FlowStep(w) ==
    \/ SubmitEmail(w) \/ SubmitPassword(w) \/ AsksForCode(w) \/ AsksLoginForCode(w)
    \/ OtpArrives(w) \/ FillProfile(w) \/ CaptureSession(w) \/ LoggedIn(w)
    \/ RunSucceeds(w) \/ RunFails(w)

HandlerStep(w) == Serve(w) \/ StatusReturns(w) \/ CompleteReturns(w) \/ Joined(w)

WorkflowStep(w) ==
    \/ BrowserAuthStart(w) \/ StartAnswered(w) \/ BrowserAuthWait(w) \/ StatusAnswered(w)
    \/ BrowserAuthComplete(w) \/ CompleteAnswered(w) \/ BrowserAuthCancel(w)

Next ==
    \/ \E w \in Workflows :
          FlowStep(w) \/ HandlerStep(w) \/ WorkflowStep(w) \/ ClientLeaves(w)
    \/ Restart

Spec == Init /\ [][Next]_vars

\* The browser steps have deadlines of their own, the worker serves its queue in
\* order, and the activities poll and time out.
Fairness ==
    \A w \in Workflows :
        /\ WF_vars(FlowStep(w))
        /\ SF_vars(Serve(w))
        /\ WF_vars(StatusReturns(w) \/ CompleteReturns(w) \/ Joined(w))
        /\ WF_vars(WorkflowStep(w))

FairSpec == Spec /\ Fairness

-----------------------------------------------------------------------------
(* Properties                                                               *)

\* Of the browser threads at work one at most has not been cancelled: whatever calls
\* come and lose their clients, a flow leaves the registry done or cancelled.
OneUncancelled ==
    \A v, w \in Workflows :
        InFlight(v) /\ ~flow[v].cancelled /\ InFlight(w) /\ ~flow[w].cancelled => v = w

\* A flow that stays in the registry after its workflow, and refuses every other,
\* does so only because an answer was lost, the OTP could not be read back or the
\* cancel did not get through.
BlockersHaveACause ==
    \A w \in flows :
        wf[w].pc = "ended" /\ InFlight(w) /\ call[w].at \in {"none", "replied"} =>
            cause[w] \cap {"reply lost", "otp unread", "cancel lost"} # {}

\* A browser that got an account reports it.  Of the failures, a lost answer and a
\* deadline excuse it, the OTP that could not be read and the cancel that got lost do
\* not.  Where nothing failed, two orders of the code's own calls are left in which
\* the account is lost: the flow ended in the middle of a status, or another start
\* dropped it before its result was fetched.
SuccessIsReported ==
    \A w \in Workflows :
        wf[w].pc = "ended" /\ flow[w].result = "ok" =>
            \/ wf[w].outcome = "succeeded"
            \/ cause[w] \cap {"reply lost", "gave up"} # {}
            \/ cause[w] \cap {"torn", "dropped"} # {}

\* A code is given to the site once: a login that is asked again cannot send the old
\* code a second time, though the event of the first wait is still set.
CodeIsEnteredOnce == \A w \in Workflows : flow[w].entered <= 1

\* Every workflow ends: the one worker is never blocked for good, though Complete
\* keeps it until a flow is done, and a flow may wait for its OTP for ever.
WorkflowsEnd == \A w \in Workflows : wf[w].pc = "start" ~> wf[w].pc = "ended"

\* The registry of browser-reg keeps its promise of one flow at a time, but for those
\* that were cancelled.
FlowsAreExclusive == FlowTypeOK /\ OneUncancelled

\* A flow that blocks the service comes from a failure, never from the order of calls
\* alone.  An account that is got and not reported comes from a failure or from one of
\* two orders, a torn status and a dropped result, and from no other.
LossesHaveACause == BlockersHaveACause /\ SuccessIsReported
================================================================================
