------------------------------ MODULE PaymentFlow ------------------------------
(***************************************************************************)
(* The payment service: the flows its FlowStore keeps between calls, the   *)
(* handlers that work on them, the replay of a payment link by the GoPay   *)
(* app, and the payment activities and workflows of the orchestrator that  *)
(* call the two.                                                           *)
(*                                                                         *)
(* A handler is a thread: it goes on when its caller has given up, so a    *)
(* flow can be cancelled under it.  A workflow whose activity timed out    *)
(* goes on too, and so does the activity.  The requests a handler sends to *)
(* the payment provider are grouped by what they leave behind: a linked    *)
(* account, a charge, a payment.                                           *)
(***************************************************************************)
EXTENDS Naturals

CONSTANTS
    Workflows,      \* payment workflows; each makes one payment
    MaxRestarts     \* bound: restarts of the payment service

ASSUME PaymentAssumption == MaxRestarts \in Nat

VARIABLES
    wf,         \* each workflow, with the activity it waits for
    handler,    \* the thread that serves the last call of each workflow
    replay,     \* the thread of the GoPay app that pays the link of each workflow
    charger,    \* the GoPayCharger of a flow: its HTTP sessions
    store,      \* FlowStore._flows: the flows other calls can find
    state,      \* PendingFlow.state
    charges,    \* history: charges asked for at the provider for each flow; a POST
                \* repeated by _request_with_retries counts as one
    paid,       \* history: charges of each flow that were paid
    cause,      \* history: what went wrong between a workflow and the service
    restarts    \* restarts of the service

vars == <<wf, handler, replay, charger, store, state, charges, paid, cause, restarts>>

\* A workflow has at most one flow that PrepareGoPay made and one of StartGoPay; the
\* probe makes a charger of its own, which no store ever holds.
FlowIds == Workflows \X {"probe", "prepared", "fresh"}
Probe(w) == <<w, "probe">>
Prepared(w) == <<w, "prepared">>
Fresh(w) == <<w, "fresh">>

Waiting == {"probe", "prepare", "start", "fresh", "resend", "complete", "confirm", "tier"}

Workflow == [pc: Waiting \cup {"idle", "probed", "prepared", "startWait", "otp",
                               "completeWait", "replay", "replaying", "ended"},
             outcome: {"running", "succeeded", "failed"},
             kind: {"activate", "autopay", "gopay"}, flow: FlowIds, otp: BOOLEAN,
             resent: BOOLEAN, tokenization: BOOLEAN]

\* "settled" is also where ConfirmGoPayPayment starts.
Working == {"session", "trial", "checkout", "confirming", "approving", "redirecting",
            "fetching", "linkable", "loading", "linking", "consent", "charging", "charged",
            "otp", "settling", "confirmed", "settled", "finishing", "resending", "verifying",
            "tier"}

Handler == [rpc: {"none", "ProbePlusTrial", "PrepareGoPay", "StartGoPay",
                  "StartPreparedGoPay", "ResendGoPayOTP", "CompleteGoPay",
                  "ConfirmGoPayPayment", "ProbeTier"},
            step: Working \cup {"idle", "replied", "gone"}, flow: FlowIds,
            blocked: BOOLEAN,
            reply: {"none", "ok", "active", "ineligible", "manual", "missing", "fail"}]

Replaying == {"detail", "order", "capture", "captured"}

FlowState == [otp: BOOLEAN, charged: BOOLEAN]

Cause == {"reply lost", "timed out", "cancel lost", "otp unread"}

PaymentTypeOK ==
    /\ wf \in [Workflows -> Workflow]
    /\ handler \in [Workflows -> Handler]
    /\ replay \in [Workflows -> Replaying \cup {"none", "ok", "fail"}]
    /\ charger \in [FlowIds -> {"none", "open", "closed"}]
    /\ store \subseteq FlowIds
    /\ state \in [FlowIds -> FlowState]
    /\ charges \in [FlowIds -> Nat]
    /\ paid \in [FlowIds -> Nat]
    /\ cause \in [Workflows -> SUBSET Cause]
    /\ restarts \in 0..MaxRestarts

Init ==
    /\ wf = [w \in Workflows |->
                [pc |-> "idle", outcome |-> "running", kind |-> "activate",
                 flow |-> Fresh(w), otp |-> FALSE, resent |-> FALSE,
                 tokenization |-> TRUE]]
    /\ handler = [w \in Workflows |->
                     [rpc |-> "none", step |-> "idle", flow |-> Fresh(w),
                      blocked |-> FALSE, reply |-> "none"]]
    /\ replay = [w \in Workflows |-> "none"]
    /\ charger = [f \in FlowIds |-> "none"]
    /\ store = {}
    /\ state = [f \in FlowIds |-> [otp |-> TRUE, charged |-> FALSE]]
    /\ charges = [f \in FlowIds |-> 0]
    /\ paid = [f \in FlowIds |-> 0]
    /\ cause = [w \in Workflows |-> {}]
    /\ restarts = 0

-----------------------------------------------------------------------------
(* The handlers of the service.                                             *)

IsWorking(w) == handler[w].step \in Working

At(w, step) == handler[w].step = step

Goto(w, step) == handler' = [handler EXCEPT ![w].step = step]

Reply(w, answer) ==
    handler' = [handler EXCEPT ![w].step = "replied", ![w].reply = answer]

\* A call: a step to begin with, or an answer at once.
Called(w, rpc, step, f, answer) ==
    handler' = [handler EXCEPT ![w] = [rpc |-> rpc, step |-> step, flow |-> f,
                                       blocked |-> FALSE, reply |-> answer]]

Close(f) == charger' = [charger EXCEPT ![f] = "closed"]

\* Mutant: the flow is forgotten with its sessions open.
PopOnly(f) == store' = store \ {f} /\ UNCHANGED charger

\* _flows.pop and close: only who takes the flow out of the store closes it.
PopAndClose(f) ==
    IF f \in store
    THEN store' = store \ {f} /\ Close(f)
    ELSE UNCHANGED <<store, charger>>

\* A new flow begins with its charger.
CallNew(w, rpc, f) ==
    /\ Called(w, rpc, "checkout", f, "none")
    /\ charger' = [charger EXCEPT ![f] = "open"]
    /\ UNCHANGED store

\* The other calls look their flow up; a missing one is answered at once.
CallStored(w, rpc, f, step) ==
    /\ IF f \in store THEN Called(w, rpc, step, f, "none")
       ELSE Called(w, rpc, "replied", f, "missing")
    /\ UNCHANGED charger

\* The probes keep nothing: the plan of the account, then the price of a trial.
ProbePlusTrial(w) ==
    Called(w, "ProbePlusTrial", "session", Probe(w), "none") /\ UNCHANGED <<charger, store>>

ProbeTier(w) ==
    Called(w, "ProbeTier", "tier", Probe(w), "none") /\ UNCHANGED <<charger, store>>

PrepareGoPay(w) == CallNew(w, "PrepareGoPay", Prepared(w))

StartGoPay(w) == CallNew(w, "StartGoPay", Fresh(w))

StartPreparedGoPay(w) ==
    CallStored(w, "StartPreparedGoPay", Prepared(w), "loading") /\ UNCHANGED store

ResendGoPayOTP(w, f) ==
    CallStored(w, "ResendGoPayOTP", f, "resending") /\ UNCHANGED store

\* Mutant: whether an OTP is wanted is not looked at.
CompleteGoPayAlways(w, f) ==
    /\ CallStored(w, "CompleteGoPay", f, "otp")
    /\ UNCHANGED store

\* Without tokenization a charge that exists already only waits for its payment.
CompleteGoPay(w, f) ==
    /\ IF f \in store /\ ~wf[w].tokenization /\ ~state[f].otp
       THEN Called(w, "CompleteGoPay", "replied", f, "manual") /\ UNCHANGED charger
       ELSE CallStored(w, "CompleteGoPay", f, IF state[f].otp THEN "otp" ELSE "settling")
    /\ UNCHANGED store

\* The only handler that takes the flow out of the store before it works on it.
ConfirmGoPayPayment(w, f) ==
    CallStored(w, "ConfirmGoPayPayment", f, "settled") /\ store' = store \ {f}

\* An error of any step: what the except and finally clauses of its handler do.
HandlerFails(w) ==
    LET f == handler[w].flow IN
    /\ IsWorking(w)
    /\ Reply(w, "fail")
    /\ \/ handler[w].rpc \in {"PrepareGoPay", "StartGoPay", "ConfirmGoPayPayment"}
          /\ Close(f) /\ UNCHANGED store
       \/ handler[w].rpc \in {"StartPreparedGoPay", "CompleteGoPay"} /\ PopAndClose(f)
       \/ handler[w].rpc = "ProbePlusTrial" /\ UNCHANGED store
          /\ IF At(w, "trial") THEN Close(f) ELSE UNCHANGED charger
       \/ handler[w].rpc \in {"ResendGoPayOTP", "ProbeTier"} /\ UNCHANGED <<charger, store>>
    /\ UNCHANGED <<replay, wf, state, charges, paid, cause, restarts>>

\* The session of the account at the shop; an account that is plus needs no price.
ProbeSession(w) ==
    /\ At(w, "session")
    /\ \/ Reply(w, "active") /\ UNCHANGED charger
       \/ /\ Goto(w, "trial")
          /\ charger' = [charger EXCEPT ![handler[w].flow] = "open"]
    /\ UNCHANGED <<replay, wf, store, state, charges, paid, cause, restarts>>

\* A trial is a checkout that costs nothing; its charger is closed in any case.
ProbeTrial(w) ==
    /\ At(w, "trial")
    /\ \E answer \in {"ok", "ineligible"} : Reply(w, answer)
    /\ Close(handler[w].flow)
    /\ UNCHANGED <<replay, wf, store, state, charges, paid, cause, restarts>>

\* The session at the shop, or the one the caller names, and a payment method.
CreateCheckout(w) ==
    /\ At(w, "checkout")
    /\ Goto(w, "confirming")
    /\ UNCHANGED <<replay, wf, charger, store, state, charges, paid, cause, restarts>>

\* The answer holds the redirect already, or the shop has to approve first.
ConfirmCheckout(w) ==
    /\ At(w, "confirming")
    /\ \E step \in {"fetching", "approving"} : Goto(w, step)
    /\ UNCHANGED <<replay, wf, charger, store, state, charges, paid, cause, restarts>>

\* An approval that is blocked is tried once more, from the payment method on.
Approve(w) ==
    /\ At(w, "approving")
    /\ \/ Goto(w, "redirecting")
       \/ /\ ~handler[w].blocked
          /\ handler' = [handler EXCEPT ![w].step = "confirming", ![w].blocked = TRUE]
    /\ UNCHANGED <<replay, wf, charger, store, state, charges, paid, cause, restarts>>

\* The session is polled until it names the redirect; a timeout is an error.
FollowRedirect(w) ==
    /\ At(w, "redirecting")
    /\ Goto(w, "fetching")
    /\ UNCHANGED <<replay, wf, charger, store, state, charges, paid, cause, restarts>>

\* The redirect holds the token of the transaction.
FetchRedirect(w) ==
    /\ At(w, "fetching")
    /\ Goto(w, "linkable")
    /\ UNCHANGED <<replay, wf, charger, store, state, charges, paid, cause, restarts>>

\* The end of prepare_until_linking.
Checkout(w) ==
    LET f == handler[w].flow IN
    /\ At(w, "linkable")
    /\ \/ /\ handler[w].rpc = "PrepareGoPay"
          /\ store' = store \cup {f}
          /\ Reply(w, "ok")
       \/ /\ handler[w].rpc = "StartGoPay"
          /\ Goto(w, "loading")
          /\ UNCHANGED store
    /\ UNCHANGED <<replay, wf, charger, state, charges, paid, cause, restarts>>

\* The last statements of StartGoPay and StartPreparedGoPay.
Started(w, s) ==
    LET f == handler[w].flow IN
    /\ state' = [state EXCEPT ![f] = s]
    /\ store' = IF handler[w].rpc = "StartGoPay" THEN store \cup {f} ELSE store
    /\ Reply(w, "ok")

\* The transaction and its cookies; the requests around it may fail unnoticed.
LoadTransaction(w) ==
    /\ At(w, "loading")
    /\ Goto(w, "linking")
    /\ UNCHANGED <<replay, wf, charger, store, state, charges, paid, cause, restarts>>

\* The reference of the linking, after the retries of _midtrans_init_linking.
InitLinking(w) ==
    /\ At(w, "linking")
    /\ Goto(w, "consent")
    /\ UNCHANGED <<replay, wf, charger, store, state, charges, paid, cause, restarts>>

\* The consent sends the OTP, or says that the account is linked already.
UserConsent(w) ==
    /\ At(w, "consent")
    /\ \/ Started(w, [otp |-> TRUE, charged |-> FALSE])
       \/ Goto(w, "charging") /\ UNCHANGED <<state, store>>
    /\ UNCHANGED <<wf, replay, charger, charges, paid, cause, restarts>>

\* validate-otp, the PIN, validate-pin.
ValidateOTP(w) ==
    /\ At(w, "otp")
    /\ Goto(w, "charging")
    /\ UNCHANGED <<replay, wf, charger, store, state, charges, paid, cause, restarts>>

\* The charge may exist at the provider; its answer may still be a bad one.
CreateCharge(w) ==
    /\ At(w, "charging")
    /\ Goto(w, "charged")
    /\ charges' = [charges EXCEPT ![handler[w].flow] = @ + 1]
    /\ UNCHANGED <<replay, wf, charger, store, state, paid, cause, restarts>>

\* Without tokenization CompleteGoPay keeps the flow and waits for the payment.
Charged(w) ==
    LET f == handler[w].flow IN
    /\ At(w, "charged")
    /\ \/ /\ handler[w].rpc # "CompleteGoPay"
          /\ Started(w, [otp |-> FALSE, charged |-> TRUE])
       \/ /\ handler[w].rpc = "CompleteGoPay"
          /\ IF wf[w].tokenization
             THEN Goto(w, "settling") /\ UNCHANGED state
             ELSE /\ state' = [state EXCEPT ![f].charged = TRUE]
                  /\ Reply(w, "manual")
          /\ UNCHANGED store
    /\ UNCHANGED <<wf, replay, charger, charges, paid, cause, restarts>>

ConfirmCharge(w) ==
    /\ At(w, "settling")
    /\ Goto(w, "confirmed")
    /\ UNCHANGED <<replay, wf, charger, store, state, charges, paid, cause, restarts>>

\* payment/process: the money moves, and the answer may still be an error.
Settle(w) ==
    /\ At(w, "confirmed")
    /\ Goto(w, "settled")
    /\ paid' = [paid EXCEPT ![handler[w].flow] = @ + 1]
    /\ UNCHANGED <<replay, wf, charger, store, state, charges, cause, restarts>>

\* A poll that runs out of attempts is no error.
PollStatus(w) ==
    /\ At(w, "settled")
    /\ Goto(w, IF wf[w].tokenization THEN "verifying" ELSE "finishing")
    /\ UNCHANGED <<replay, wf, charger, store, state, charges, paid, cause, restarts>>

\* The shop learns of a payment made elsewhere; a failure here is no error.
FollowFinish(w) ==
    /\ At(w, "finishing")
    /\ Goto(w, "verifying")
    /\ UNCHANGED <<replay, wf, charger, store, state, charges, paid, cause, restarts>>

\* The shop confirms the plan; verify_timeout is an answer, not an error.
Verify(w) ==
    LET f == handler[w].flow IN
    /\ At(w, "verifying")
    /\ \E answer \in {"ok", "fail"} : Reply(w, answer)
    /\ \/ handler[w].rpc = "ConfirmGoPayPayment" /\ Close(f) /\ UNCHANGED store
       \/ handler[w].rpc = "CompleteGoPay" /\ PopAndClose(f)
    /\ UNCHANGED <<replay, wf, state, charges, paid, cause, restarts>>

ResendOTP(w) ==
    /\ At(w, "resending")
    /\ state' = [state EXCEPT ![handler[w].flow].otp = TRUE]
    /\ Reply(w, "ok")
    /\ UNCHANGED <<wf, replay, charger, store, charges, paid, cause, restarts>>

\* The plan of the account after the payment.
TierProbed(w) ==
    /\ At(w, "tier")
    /\ Reply(w, "ok")
    /\ UNCHANGED <<replay, wf, charger, store, state, charges, paid, cause, restarts>>

\* The process ends: sessions, store and threads are gone with it.
Restart ==
    /\ restarts < MaxRestarts
    /\ restarts' = restarts + 1
    /\ store' = {}
    /\ charger' = [f \in FlowIds |-> IF charger[f] = "open" THEN "closed" ELSE charger[f]]
    /\ handler' = [w \in Workflows |->
                      IF IsWorking(w) THEN [handler[w] EXCEPT !.step = "gone"]
                      ELSE handler[w]]
    /\ UNCHANGED <<replay, wf, state, charges, paid, cause>>

-----------------------------------------------------------------------------
(* The GoPay app pays the link of a charge.  Its thread too goes on when the *)
(* caller has given up, and when the flow of the charge is gone.             *)

PaymentDetail(w) ==
    /\ replay[w] = "detail"
    /\ replay' = [replay EXCEPT ![w] = "order"]
    /\ UNCHANGED <<wf, handler, charger, store, state, charges, paid, cause, restarts>>

\* The first capture asks for the PIN; no money moves.
PaymentOrder(w) ==
    /\ replay[w] = "order"
    /\ replay' = [replay EXCEPT ![w] = "capture"]
    /\ UNCHANGED <<wf, handler, charger, store, state, charges, paid, cause, restarts>>

\* The second capture: the money moves, and the answer may still be an error.
Capture(w) ==
    /\ replay[w] = "capture"
    /\ replay' = [replay EXCEPT ![w] = "captured"]
    /\ paid' = [paid EXCEPT ![wf[w].flow] = @ + 1]
    /\ UNCHANGED <<wf, handler, charger, store, state, charges, cause, restarts>>

\* The answer says PAID.
Captured(w) ==
    /\ replay[w] = "captured"
    /\ replay' = [replay EXCEPT ![w] = "ok"]
    /\ UNCHANGED <<wf, handler, charger, store, state, charges, paid, cause, restarts>>

\* An error of any step is an unsuccessful answer.
ReplayFails(w) ==
    /\ replay[w] \in Replaying
    /\ replay' = [replay EXCEPT ![w] = "fail"]
    /\ UNCHANGED <<wf, handler, charger, store, state, charges, paid, cause, restarts>>

-----------------------------------------------------------------------------
(* The workflows and their activities.                                      *)

Abandoned(w) == wf[w].outcome # "running"

Answered(w, pc, answer) ==
    /\ wf[w].pc = pc
    /\ At(w, "replied")
    /\ handler[w].reply = answer

Move(w, pc) == wf' = [wf EXCEPT ![w].pc = pc]

\* The end of the activity; the outcome of one that timed out is known already.
End(w, outcome) ==
    wf' = [wf EXCEPT ![w].pc = "ended", ![w].outcome = IF Abandoned(w) THEN @ ELSE outcome]

Blame(w, why) == cause' = [cause EXCEPT ![w] = @ \cup why]

\* CancelGoPay: the request gets there, or it does not.
CancelFlow(w, f, why) ==
    \/ PopAndClose(f) /\ Blame(w, why)
    \/ UNCHANGED <<store, charger>> /\ Blame(w, why \cup {"cancel lost"})

\* What the workflow cancels when its start activity failed: paymentFlowID knows
\* the prepared flow only.
StartFailed(w, why) ==
    /\ End(w, "failed")
    /\ IF wf[w].kind = "gopay" /\ ~Abandoned(w)
       THEN CancelFlow(w, Prepared(w), why)
       ELSE Blame(w, why) /\ UNCHANGED <<store, charger>>

\* The probe is skipped for an account that is known to be plus.  Only the
\* activation of an account leaves the tokenization to the configuration.
Begin(w) ==
    /\ wf[w].pc = "idle"
    /\ \E k \in {"activate", "autopay", "gopay"}, t \in BOOLEAN :
          /\ k # "activate" => t
          /\ \/ /\ wf' = [wf EXCEPT ![w].pc = "probe", ![w].kind = k, ![w].tokenization = t]
                /\ ProbePlusTrial(w)
             \/ /\ k = "activate"
                /\ wf' = [wf EXCEPT ![w].pc = "probed", ![w].tokenization = t]
                /\ UNCHANGED <<handler, charger, store>>
    /\ UNCHANGED <<replay, state, charges, paid, cause, restarts>>

\* An account that is plus already is activated all the same.  The activity also
\* fails when it cannot store what it learned.
ProbeReturns(w) ==
    /\ \E answer \in {"ok", "active", "ineligible", "fail"} :
          /\ Answered(w, "probe", answer)
          /\ \/ End(w, "failed")
             \/ /\ ~Abandoned(w)
                /\ answer \in {"ok", "active"}
                /\ answer = "active" => wf[w].kind = "activate"
                /\ Move(w, "probed")
    /\ UNCHANGED <<replay, handler, charger, store, state, charges, paid, cause, restarts>>

\* The sign-in at the GoPay app.  The workflow that signs a number up there
\* prepares its flow before the account has its PIN.
Prepare(w) ==
    /\ wf[w].pc = "probed"
    /\ \/ wf[w].kind = "gopay" /\ Move(w, "prepare") /\ PrepareGoPay(w)
       \/ /\ \/ wf[w].kind # "gopay" /\ Move(w, "startWait")
             \/ End(w, "failed")
          /\ UNCHANGED <<handler, charger, store>>
    /\ UNCHANGED <<replay, state, charges, paid, cause, restarts>>

PrepareReturns(w) ==
    /\ \/ /\ Answered(w, "prepare", "ok")
          /\ IF Abandoned(w)
             THEN End(w, "failed")
             ELSE wf' = [wf EXCEPT ![w].pc = "prepared", ![w].flow = Prepared(w)]
       \/ Answered(w, "prepare", "fail") /\ End(w, "failed")
    /\ UNCHANGED <<replay, handler, charger, store, state, charges, paid, cause, restarts>>

\* The PIN step between the two payment steps.
CreatePin(w) ==
    /\ wf[w].pc = "prepared"
    /\ \/ Move(w, "startWait") /\ UNCHANGED <<store, charger, cause>>
       \/ End(w, "failed") /\ CancelFlow(w, Prepared(w), {})
    /\ UNCHANGED <<replay, handler, state, charges, paid, restarts>>

\* startGoPayPayment: balance and token first, then the call.
StartActivity(w) ==
    /\ wf[w].pc = "startWait"
    /\ \/ /\ wf[w].kind = "gopay"
          /\ Move(w, "start")
          /\ StartPreparedGoPay(w)
          /\ UNCHANGED cause
       \/ wf[w].kind # "gopay" /\ Move(w, "fresh") /\ StartGoPay(w) /\ UNCHANGED cause
       \/ StartFailed(w, {}) /\ UNCHANGED handler
    /\ UNCHANGED <<replay, state, charges, paid, restarts>>

\* A prepared flow the service does not know (any more) is replaced by a new one.
StartReturns(w) ==
    /\ \/ /\ Answered(w, "start", "missing")
          /\ Move(w, "fresh")
          /\ StartGoPay(w)
          /\ UNCHANGED cause
       \/ /\ \E pc \in {"start", "fresh"} : Answered(w, pc, "ok")
          /\ LET f == handler[w].flow IN
             wf' = [wf EXCEPT ![w].flow = f, ![w].otp = state[f].otp,
                              ![w].pc = IF Abandoned(w) THEN "ended"
                                        ELSE IF state[f].otp THEN "otp" ELSE "completeWait"]
          /\ UNCHANGED <<handler, charger, store, cause>>
       \/ /\ \E pc \in {"start", "fresh"} : Answered(w, pc, "fail")
          /\ StartFailed(w, {})
          /\ UNCHANGED handler
    /\ UNCHANGED <<replay, state, charges, paid, restarts>>

\* waitForGoPayPaymentOTP: a code, one resend over SMS, or the end.
WaitOTP(w) ==
    /\ wf[w].pc = "otp"
    /\ \/ Move(w, "completeWait") /\ UNCHANGED <<handler, charger, store, cause>>
       \/ /\ ~wf[w].resent
          /\ wf' = [wf EXCEPT ![w].pc = "resend", ![w].resent = TRUE]
          /\ ResendGoPayOTP(w, wf[w].flow)
          /\ UNCHANGED cause
       \/ End(w, "failed") /\ CancelFlow(w, wf[w].flow, {}) /\ UNCHANGED handler
    /\ UNCHANGED <<replay, state, charges, paid, restarts>>

ResendReturns(w) ==
    /\ \/ /\ Answered(w, "resend", "ok")
          /\ IF Abandoned(w) THEN End(w, "failed") ELSE Move(w, "otp")
          /\ UNCHANGED <<store, charger, cause>>
       \/ /\ \E answer \in {"fail", "missing"} : Answered(w, "resend", answer)
          /\ End(w, "failed")
          /\ IF Abandoned(w)
             THEN UNCHANGED <<store, charger, cause>>
             ELSE CancelFlow(w, wf[w].flow, {})
    /\ UNCHANGED <<replay, handler, state, charges, paid, restarts>>

\* consumeStoredOTP may fail; nobody cancels the flow then.
CompleteActivity(w) ==
    /\ wf[w].pc = "completeWait"
    /\ \/ wf[w].otp /\ End(w, "failed") /\ Blame(w, {"otp unread"})
          /\ UNCHANGED <<handler, charger, store>>
       \/ Move(w, "complete") /\ CompleteGoPay(w, wf[w].flow) /\ UNCHANGED cause
    /\ UNCHANGED <<replay, state, charges, paid, restarts>>

\* Mutant: without the deferred cancel.
CompleteFailedOnly(w, why) ==
    End(w, "failed") /\ Blame(w, why) /\ UNCHANGED <<store, charger>>

\* The deferred cancel of completeGoPayPayment.
CompleteFailed(w, why) ==
    /\ End(w, "failed")
    /\ CancelFlow(w, wf[w].flow, why)

\* After the payment the account is activated, or its plan is probed once more.
CompleteReturns(w) ==
    /\ \/ /\ \E pc \in {"complete", "confirm"} : Answered(w, pc, "ok")
          /\ \/ /\ wf[w].kind # "activate" /\ ~Abandoned(w)
                /\ Move(w, "tier")
                /\ ProbeTier(w)
             \/ /\ \E outcome \in {"succeeded", "failed"} :
                      /\ outcome = "succeeded" => wf[w].kind = "activate"
                      /\ End(w, outcome)
                /\ UNCHANGED <<handler, store, charger>>
          /\ UNCHANGED cause
       \/ Answered(w, "complete", "manual") /\ Move(w, "replay")
          /\ UNCHANGED <<handler, store, charger, cause>>
       \/ /\ \E pc \in {"complete", "confirm"}, answer \in {"fail", "missing"} :
                Answered(w, pc, answer)
          /\ CompleteFailed(w, {})
          /\ UNCHANGED handler
    /\ UNCHANGED <<replay, state, charges, paid, restarts>>

\* A payment whose probe fails is reported as failed, though it can be recovered.
TierReturns(w) ==
    /\ \/ Answered(w, "tier", "ok") /\ End(w, "succeeded")
       \/ \E answer \in {"ok", "fail"} : Answered(w, "tier", answer) /\ End(w, "failed")
    /\ UNCHANGED <<replay, handler, charger, store, state, charges, paid, cause, restarts>>

\* replayGoPayPaymentLink: a token for the account, then the call.
Replay(w) ==
    /\ wf[w].pc = "replay"
    /\ \/ /\ Move(w, "replaying")
          /\ replay' = [replay EXCEPT ![w] = "detail"]
          /\ UNCHANGED <<charger, store, cause>>
       \/ CompleteFailed(w, {}) /\ UNCHANGED replay
    /\ UNCHANGED <<handler, state, charges, paid, restarts>>

\* Mutant: the answer of the replay is not looked at.
ReplayUnchecked(w) ==
    /\ wf[w].pc = "replaying"
    /\ replay[w] \in {"ok", "fail"}
    /\ Move(w, "confirm")
    /\ ConfirmGoPayPayment(w, wf[w].flow)
    /\ UNCHANGED <<cause, replay, state, charges, paid, restarts>>

ReplayReturns(w) ==
    /\ wf[w].pc = "replaying"
    /\ \/ /\ replay[w] = "ok"
          /\ Move(w, "confirm")
          /\ ConfirmGoPayPayment(w, wf[w].flow)
          /\ UNCHANGED cause
       \/ replay[w] = "fail" /\ CompleteFailed(w, {}) /\ UNCHANGED handler
    /\ UNCHANGED <<replay, state, charges, paid, restarts>>

\* The call ends with an error for the caller only, or with the service.
ReplyLost(w) ==
    /\ \/ /\ wf[w].pc \in {"probe", "prepare", "tier"}
          /\ End(w, "failed")
          /\ Blame(w, {"reply lost"})
          /\ UNCHANGED <<store, charger>>
       \/ wf[w].pc \in {"start", "fresh"} /\ StartFailed(w, {"reply lost"})
       \/ /\ wf[w].pc = "resend"
          /\ End(w, "failed")
          /\ IF Abandoned(w)
             THEN Blame(w, {"reply lost"}) /\ UNCHANGED <<store, charger>>
             ELSE CancelFlow(w, wf[w].flow, {"reply lost"})
       \/ /\ wf[w].pc \in {"complete", "replaying", "confirm"}
          /\ CompleteFailed(w, {"reply lost"})
    /\ UNCHANGED <<replay, handler, state, charges, paid, restarts>>

\* The activity misses its heartbeat or its deadline: the workflow goes on
\* without it, and the activity goes on as well.
ActivityTimesOut(w) ==
    /\ ~Abandoned(w)
    /\ wf[w].pc \in Waiting \cup {"startWait", "completeWait", "replay", "replaying"}
    /\ wf' = [wf EXCEPT ![w].outcome = "failed"]
    /\ \/ /\ wf[w].pc \in {"startWait", "start", "fresh"} /\ wf[w].kind = "gopay"
          /\ CancelFlow(w, Prepared(w), {"timed out"})
       \/ wf[w].pc = "resend" /\ CancelFlow(w, wf[w].flow, {"timed out"})
       \/ /\ \/ wf[w].pc \in {"probe", "prepare", "completeWait", "complete", "replay",
                             "replaying", "confirm", "tier"}
             \/ wf[w].pc \in {"startWait", "start", "fresh"} /\ wf[w].kind # "gopay"
          /\ Blame(w, {"timed out"})
          /\ UNCHANGED <<store, charger>>
    /\ UNCHANGED <<replay, handler, state, charges, paid, restarts>>

ServiceStep(w) ==
    \/ ProbeSession(w) \/ ProbeTrial(w) \/ CreateCheckout(w) \/ ConfirmCheckout(w)
    \/ Approve(w) \/ FollowRedirect(w) \/ FetchRedirect(w) \/ Checkout(w)
    \/ LoadTransaction(w) \/ InitLinking(w) \/ UserConsent(w) \/ ValidateOTP(w)
    \/ CreateCharge(w) \/ Charged(w) \/ ConfirmCharge(w) \/ Settle(w) \/ PollStatus(w)
    \/ FollowFinish(w) \/ Verify(w) \/ ResendOTP(w) \/ TierProbed(w) \/ HandlerFails(w)

ReplayStep(w) ==
    PaymentDetail(w) \/ PaymentOrder(w) \/ Capture(w) \/ Captured(w) \/ ReplayFails(w)

WorkflowStep(w) ==
    \/ Begin(w) \/ ProbeReturns(w) \/ Prepare(w) \/ PrepareReturns(w) \/ CreatePin(w)
    \/ StartActivity(w) \/ StartReturns(w)
    \/ WaitOTP(w) \/ ResendReturns(w) \/ CompleteActivity(w) \/ CompleteReturns(w)
    \/ TierReturns(w) \/ Replay(w) \/ ReplayReturns(w) \/ ReplyLost(w) \/ ActivityTimesOut(w)

Next == Restart \/ \E w \in Workflows : ServiceStep(w) \/ ReplayStep(w) \/ WorkflowStep(w)

Spec == Init /\ [][Next]_vars

-----------------------------------------------------------------------------
(* Properties                                                               *)

\* No charger is lost: an open one is in the store or in the hands of a running
\* handler, and nothing in the store has been closed.  Every early return and
\* except clause of every handler has to take part in this.
ChargersAreOwned ==
    /\ \A f \in FlowIds :
          charger[f] = "open" =>
             \/ f \in store
             \/ \E w \in Workflows : IsWorking(w) /\ handler[w].flow = f
    /\ \A f \in store : charger[f] = "open"

Quiet(w) == wf[w].pc = "ended" /\ ~IsWorking(w)

\* The store has no expiry, so a flow whose workflow is over stays for good.
\* That happens only after a fault between the two, or when the stored OTP could
\* not be read back: every ordinary way a payment ends removes its flow.
LeaksHaveACause ==
    \A f \in store : Quiet(f[1]) => cause[f[1]] # {}

\* A charger is closed under a handler that uses it only when the caller of that
\* handler had given up on it, never by the cancels of a payment that goes on.
CancelSparesHandlers ==
    \A w \in Workflows :
        IsWorking(w) /\ ~At(w, "tier") /\ charger[handler[w].flow] = "closed" =>
            cause[w] \cap {"reply lost", "timed out"} # {}

\* A payment charges once and is paid once, whatever is cancelled, times out or
\* restarts, and also when a lost prepared flow is replaced by a fresh one.
ChargedOnce ==
    \A w \in Workflows :
        /\ charges[Prepared(w)] + charges[Fresh(w)] <= 1
        /\ \A f \in FlowIds : paid[f] <= charges[f]

\* A workflow reports success only for a charge that was paid.
SuccessMeansPaid ==
    \A w \in Workflows : wf[w].outcome = "succeeded" => paid[wf[w].flow] = 1

\* The sessions of the payment service: each has one owner, and nobody closes the one
\* a handler charges with while its caller waits.
ChargersAreSound == PaymentTypeOK /\ ChargersAreOwned /\ CancelSparesHandlers
===============================================================================
