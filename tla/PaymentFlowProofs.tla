------------------------------ MODULE PaymentFlowProofs ------------------------------
(***************************************************************************)
(* Proofs about PaymentFlow, for any number of workflows and of restarts:  *)
(* a payment charges once, is paid once, and succeeds only when it is      *)
(* paid; its sessions have one owner, and stay in the store only after a   *)
(* fault.                                                                  *)
(***************************************************************************)
EXTENDS PaymentFlow, TLAPS

-----------------------------------------------------------------------------
(* The money of a workflow.                                                *)

FlowsOf(w) == {Probe(w), Prepared(w), Fresh(w)}

NoMoney(w) == \A f \in FlowsOf(w) : charges[f] = 0 /\ paid[f] = 0

\* The one charge of the workflow is that of flow f, and was paid n times.
OneCharge(w, f, n) ==
    /\ f \in {Prepared(w), Fresh(w)}
    /\ charges[f] = 1 /\ paid[f] = n
    /\ \A g \in FlowsOf(w) \ {f} : charges[g] = 0 /\ paid[g] = 0

MoneyOK(w) == NoMoney(w) \/ \E f \in FlowsOf(w), n \in {0, 1} : OneCharge(w, f, n)

-----------------------------------------------------------------------------
(* The invariant.                                                          *)

BeforeCharge == {"checkout", "confirming", "approving", "redirecting", "fetching", "linkable",
                 "loading", "linking", "consent", "charging", "otp"}

BeforePayment == {"charged", "settling", "confirmed"}

AfterPayment == {"settled", "finishing", "verifying"}

Preparing == {"checkout", "confirming", "approving", "redirecting", "fetching", "linkable"}

Starting == {"loading", "linking", "consent", "charging", "charged"}

\* The steps of each handler.
StepsOf(rpc) ==
    CASE rpc = "none" -> {}
      [] rpc = "ProbePlusTrial" -> {"session", "trial"}
      [] rpc = "PrepareGoPay" -> Preparing
      [] rpc = "StartGoPay" -> Preparing \cup Starting
      [] rpc = "StartPreparedGoPay" -> Starting
      [] rpc = "ResendGoPayOTP" -> {"resending"}
      [] rpc = "CompleteGoPay" -> {"otp", "charging"} \cup BeforePayment \cup AfterPayment
      [] rpc = "ConfirmGoPayPayment" -> AfterPayment
      [] rpc = "ProbeTier" -> {"tier"}

\* What a handler does next is what the money allows: it charges when nothing is
\* charged, and pays when nothing is paid.
HandlerOK(w) ==
    LET h == handler[w] IN
    /\ IsWorking(w) => h.step \in StepsOf(h.rpc)
    /\ h.flow \in FlowsOf(w)
    /\ h.rpc \notin {"none", "ProbePlusTrial", "ProbeTier"} => h.flow # Probe(w)
    /\ h.step \in BeforeCharge => NoMoney(w)
    /\ h.step \in BeforePayment => OneCharge(w, h.flow, 0)
    /\ h.step \in AfterPayment => OneCharge(w, h.flow, 1)

\* The handler a workflow waits for.
RpcOf(pc) ==
    CASE pc = "probe" -> "ProbePlusTrial"
      [] pc = "prepare" -> "PrepareGoPay"
      [] pc = "start" -> "StartPreparedGoPay"
      [] pc = "fresh" -> "StartGoPay"
      [] pc = "resend" -> "ResendGoPayOTP"
      [] pc = "complete" -> "CompleteGoPay"
      [] pc = "confirm" -> "ConfirmGoPayPayment"
      [] pc = "tier" -> "ProbeTier"

CallOK(w) ==
    LET pc == wf[w].pc
        h == handler[w]
    IN  /\ pc \in Waiting => h.rpc = RpcOf(pc)
        /\ pc \notin Waiting \cup {"ended"} => ~IsWorking(w)
        /\ pc \in {"resend", "complete", "confirm"} => h.flow = wf[w].flow

\* A flow that waits for a code is not charged yet, one that does not is.
StartedOK(w, f) == IF state[f].otp THEN NoMoney(w) ELSE OneCharge(w, f, 0)

\* What an answer tells the workflow that waits for it.
ReplyOK(w) ==
    LET pc == wf[w].pc
        h == handler[w]
    IN  h.step = "replied" =>
        /\ pc = "start" /\ h.reply = "missing" => NoMoney(w)
        /\ pc \in {"start", "fresh"} /\ h.reply = "ok" => StartedOK(w, h.flow)
        /\ pc = "complete" /\ h.reply = "manual" => OneCharge(w, h.flow, 0)
        /\ pc \in {"complete", "confirm"} /\ h.reply = "ok" => OneCharge(w, h.flow, 1)

WorkflowOK(w) ==
    LET pc == wf[w].pc
        f == wf[w].flow
    IN  /\ f \in {Prepared(w), Fresh(w)}
        /\ pc \in {"idle", "probe", "probed", "prepare", "prepared", "startWait"} => NoMoney(w)
        /\ pc \in {"otp", "resend"} => state[f].otp /\ NoMoney(w)
        /\ pc = "completeWait" => StartedOK(w, f)
        /\ pc = "replay" => OneCharge(w, f, 0)
        /\ pc = "tier" => OneCharge(w, f, 1)
        /\ wf[w].outcome = "succeeded" => pc = "ended" /\ OneCharge(w, f, 1)

\* The thread of the app pays a charge nobody else works on.
ReplayOK(w) ==
    /\ replay[w] # "none" => wf[w].pc \in {"replaying", "confirm", "tier", "ended"}
    /\ replay[w] \in Replaying => wf[w].pc \in {"replaying", "ended"} /\ ~IsWorking(w)
    /\ replay[w] \in {"detail", "order", "capture"} => OneCharge(w, wf[w].flow, 0)
    /\ replay[w] \in {"captured", "ok"} => OneCharge(w, wf[w].flow, 1)

PayOK(w) ==
    /\ MoneyOK(w) /\ HandlerOK(w) /\ CallOK(w) /\ ReplyOK(w) /\ WorkflowOK(w) /\ ReplayOK(w)

\* The types this takes.
PayTypeOK ==
    /\ wf \in [Workflows -> Workflow]
    /\ handler \in [Workflows -> Handler]
    /\ replay \in [Workflows -> Replaying \cup {"none", "ok", "fail"}]
    /\ state \in [FlowIds -> FlowState]
    /\ charges \in [FlowIds -> Nat]
    /\ paid \in [FlowIds -> Nat]

PayInv == PayTypeOK /\ \A w \in Workflows : PayOK(w)

-----------------------------------------------------------------------------
(* Lemmas: flows, money, and what a step of one workflow leaves alone.     *)

LEMMA FlowsAreApart ==
    ASSUME NEW w \in Workflows
    PROVE  /\ FlowsOf(w) \subseteq FlowIds
           /\ Prepared(w) # Fresh(w) /\ Probe(w) # Fresh(w) /\ Probe(w) # Prepared(w)
           /\ \A u \in Workflows \ {w} : FlowsOf(u) \cap FlowsOf(w) = {}
BY DEF FlowsOf, FlowIds, Probe, Prepared, Fresh

LEMMA OneChargeOnly ==
    ASSUME NEW w, NEW f, NEW n, OneCharge(w, f, n)
    PROVE  /\ ~NoMoney(w)
           /\ \A g, m : OneCharge(w, g, m) => g = f /\ m = n
BY DEF OneCharge, NoMoney, FlowsOf

KeptFor(u) ==
    /\ wf'[u] = wf[u] /\ handler'[u] = handler[u] /\ replay'[u] = replay[u]
    /\ \A f \in FlowsOf(u) :
          charges'[f] = charges[f] /\ paid'[f] = paid[f] /\ state'[f] = state[f]

LEMMA MoneyKept ==
    ASSUME NEW u,
           \A f \in FlowsOf(u) : charges'[f] = charges[f] /\ paid'[f] = paid[f]
    PROVE  /\ NoMoney(u)' <=> NoMoney(u)
           /\ MoneyOK(u)' <=> MoneyOK(u)
           /\ \A f, n : OneCharge(u, f, n)' <=> OneCharge(u, f, n)
<1>1. NoMoney(u)' <=> NoMoney(u)
    BY DEF NoMoney, FlowsOf
<1>2. \A f, n : OneCharge(u, f, n)' <=> OneCharge(u, f, n)
    BY DEF OneCharge, FlowsOf
<1> QED
    BY <1>1, <1>2 DEF MoneyOK, FlowsOf

LEMMA PayKept ==
    ASSUME NEW u \in Workflows, PayOK(u), KeptFor(u)
    PROVE  PayOK(u)'
<1>1. /\ NoMoney(u)' <=> NoMoney(u)
      /\ MoneyOK(u)' <=> MoneyOK(u)
      /\ \A f, n : OneCharge(u, f, n)' <=> OneCharge(u, f, n)
    BY MoneyKept DEF KeptFor
<1>2. IsWorking(u)' <=> IsWorking(u)
    BY DEF KeptFor, IsWorking
<1>3. \A f \in FlowsOf(u) : StartedOK(u, f)' <=> StartedOK(u, f)
    BY <1>1 DEF KeptFor, StartedOK
<1>4. handler[u].flow \in FlowsOf(u) /\ wf[u].flow \in FlowsOf(u)
    BY DEF PayOK, HandlerOK, WorkflowOK, FlowsOf
<1>5. HandlerOK(u)'
    BY <1>1, <1>2 DEF PayOK, HandlerOK, KeptFor, FlowsOf
<1>6. CallOK(u)'
    BY <1>2 DEF PayOK, CallOK, KeptFor
<1>7. ReplyOK(u)'
    <2>1. StartedOK(u, handler[u].flow)' <=> StartedOK(u, handler[u].flow)
        BY <1>1, <1>4 DEF StartedOK, KeptFor
    <2> QED
        BY <1>1, <2>1 DEF PayOK, ReplyOK, KeptFor
<1>8. WorkflowOK(u)'
    <2>1. /\ StartedOK(u, wf[u].flow)' <=> StartedOK(u, wf[u].flow)
          /\ state'[wf[u].flow] = state[wf[u].flow]
        BY <1>1, <1>4 DEF StartedOK, KeptFor
    <2> QED
        BY <1>1, <2>1 DEF PayOK, WorkflowOK, KeptFor
<1>9. ReplayOK(u)'
    BY <1>1, <1>2 DEF PayOK, ReplayOK, KeptFor
<1> QED
    BY <1>1, <1>5, <1>6, <1>7, <1>8, <1>9 DEF PayOK

\* What a step of workflow w leaves alone.
OthersKept(w) ==
    /\ \A u \in Workflows \ {w} :
          wf'[u] = wf[u] /\ handler'[u] = handler[u] /\ replay'[u] = replay[u]
    /\ \A f \in FlowIds \ FlowsOf(w) :
          charges'[f] = charges[f] /\ paid'[f] = paid[f] /\ state'[f] = state[f]

LEMMA OneWorkflow ==
    ASSUME PayInv, NEW w \in Workflows, PayTypeOK', OthersKept(w), PayOK(w)'
    PROVE  PayInv'
<1>1. ASSUME NEW u \in Workflows, u # w PROVE PayOK(u)'
    <2>1. FlowsOf(u) \subseteq FlowIds \ FlowsOf(w)
        BY <1>1, FlowsAreApart
    <2>2. KeptFor(u)
        BY <1>1, <2>1 DEF OthersKept, KeptFor
    <2> QED
        BY <2>2, PayKept DEF PayInv
<1> QED
    BY <1>1 DEF PayInv

-----------------------------------------------------------------------------
(* What the helpers of the handlers and of the workflows change.           *)

Replies == {"none", "ok", "active", "ineligible", "manual", "missing", "fail"}

Steps == Working \cup {"idle", "replied", "gone"}

HandlerMoves(w, step, reply) ==
    /\ handler' \in [Workflows -> Handler]
    /\ handler'[w].rpc = handler[w].rpc /\ handler'[w].flow = handler[w].flow
    /\ handler'[w].step = step /\ handler'[w].reply = reply
    /\ \A u \in Workflows \ {w} : handler'[u] = handler[u]

LEMMA GotoMoves ==
    ASSUME handler \in [Workflows -> Handler], NEW w \in Workflows, NEW step \in Working,
           Goto(w, step)
    PROVE  HandlerMoves(w, step, handler[w].reply)
<1> DEFINE h == [handler[w] EXCEPT !.step = step]
<1>1. handler[w] \in Handler
    OBVIOUS
<1>2. /\ h \in Handler /\ h.rpc = handler[w].rpc /\ h.flow = handler[w].flow
      /\ h.step = step /\ h.reply = handler[w].reply
    BY <1>1 DEF Handler
<1>3. handler' = [handler EXCEPT ![w] = h]
    BY DEF Goto
<1> HIDE DEF h
<1> QED
    BY <1>2, <1>3 DEF HandlerMoves

LEMMA ReplyMoves ==
    ASSUME handler \in [Workflows -> Handler], NEW w \in Workflows, NEW answer \in Replies,
           Reply(w, answer)
    PROVE  HandlerMoves(w, "replied", answer)
<1> DEFINE h == [handler[w] EXCEPT !.step = "replied", !.reply = answer]
<1>1. handler[w] \in Handler
    OBVIOUS
<1>2. /\ h \in Handler /\ h.rpc = handler[w].rpc /\ h.flow = handler[w].flow
      /\ h.step = "replied" /\ h.reply = answer
    BY <1>1 DEF Handler, Replies
<1>3. handler' = [handler EXCEPT ![w] = h]
    BY DEF Reply
<1> HIDE DEF h
<1> QED
    BY <1>2, <1>3 DEF HandlerMoves

Rpcs == {"none", "ProbePlusTrial", "PrepareGoPay", "StartGoPay", "StartPreparedGoPay",
         "ResendGoPayOTP", "CompleteGoPay", "ConfirmGoPayPayment", "ProbeTier"}

HandlerCalled(w, rpc, step, f, answer) ==
    /\ handler' \in [Workflows -> Handler]
    /\ handler'[w].rpc = rpc /\ handler'[w].flow = f
    /\ handler'[w].step = step /\ handler'[w].reply = answer
    /\ \A u \in Workflows \ {w} : handler'[u] = handler[u]

LEMMA CalledMoves ==
    ASSUME handler \in [Workflows -> Handler], NEW w \in Workflows, NEW rpc \in Rpcs,
           NEW step \in Steps, NEW f \in FlowIds, NEW answer \in Replies,
           Called(w, rpc, step, f, answer)
    PROVE  HandlerCalled(w, rpc, step, f, answer)
<1> DEFINE h == [rpc |-> rpc, step |-> step, flow |-> f, blocked |-> FALSE, reply |-> answer]
<1>1. /\ h \in Handler /\ h.rpc = rpc /\ h.flow = f /\ h.step = step /\ h.reply = answer
    BY DEF Handler, Rpcs, Steps, Replies
<1>2. handler' = [handler EXCEPT ![w] = h]
    BY DEF Called
<1> HIDE DEF h
<1> QED
    BY <1>1, <1>2 DEF HandlerCalled

WorkflowMoves(w, pc, outcome, f) ==
    /\ wf' \in [Workflows -> Workflow]
    /\ wf'[w].pc = pc /\ wf'[w].outcome = outcome /\ wf'[w].flow = f
    /\ \A u \in Workflows \ {w} : wf'[u] = wf[u]

Pcs == Waiting \cup {"idle", "probed", "prepared", "startWait", "otp", "completeWait",
                     "replay", "replaying", "ended"}

LEMMA MoveMoves ==
    ASSUME wf \in [Workflows -> Workflow], NEW w \in Workflows, NEW pc \in Pcs, Move(w, pc)
    PROVE  WorkflowMoves(w, pc, wf[w].outcome, wf[w].flow)
<1> DEFINE v == [wf[w] EXCEPT !.pc = pc]
<1>1. wf[w] \in Workflow
    OBVIOUS
<1>2. /\ v \in Workflow /\ v.pc = pc /\ v.outcome = wf[w].outcome /\ v.flow = wf[w].flow
    BY <1>1 DEF Workflow, Pcs
<1>3. wf' = [wf EXCEPT ![w] = v]
    BY DEF Move
<1> HIDE DEF v
<1> QED
    BY <1>2, <1>3 DEF WorkflowMoves

LEMMA EndMoves ==
    ASSUME wf \in [Workflows -> Workflow], NEW w \in Workflows,
           NEW outcome \in {"succeeded", "failed"}, End(w, outcome)
    PROVE  WorkflowMoves(w, "ended",
                         IF wf[w].outcome # "running" THEN wf[w].outcome ELSE outcome, wf[w].flow)
<1> DEFINE o == IF wf[w].outcome # "running" THEN wf[w].outcome ELSE outcome
           v == [wf[w] EXCEPT !.pc = "ended", !.outcome = o]
<1>1. wf[w] \in Workflow /\ o \in {"running", "succeeded", "failed"}
    BY DEF Workflow
<1>2. wf' = [wf EXCEPT ![w] = v]
    BY DEF End, Abandoned
<1> HIDE DEF o
<1>3. v \in Workflow /\ v.pc = "ended" /\ v.outcome = o /\ v.flow = wf[w].flow
    BY <1>1 DEF Workflow
<1> HIDE DEF v
<1>4. WorkflowMoves(w, "ended", o, wf[w].flow)
    BY <1>2, <1>3 DEF WorkflowMoves
<1> QED
    BY <1>4 DEF o

\* Who calls a handler that works, and on what.
LEMMA WhoCalls ==
    ASSUME PayTypeOK, NEW w \in Workflows, PayOK(w), IsWorking(w)
    PROVE  LET pc == wf[w].pc
               h == handler[w]
           IN  /\ pc \in Waiting \cup {"ended"}
               /\ h.step \in {"session", "trial"} => h.rpc = "ProbePlusTrial"
               /\ h.step \in Preparing => h.rpc \in {"PrepareGoPay", "StartGoPay"}
               /\ h.step \in {"loading", "linking", "consent"} =>
                     h.rpc \in {"StartGoPay", "StartPreparedGoPay"}
               /\ h.step \in {"charging", "charged"} =>
                     h.rpc \in {"StartGoPay", "StartPreparedGoPay", "CompleteGoPay"}
               /\ h.step \in {"otp", "settling", "confirmed"} => h.rpc = "CompleteGoPay"
               /\ h.step \in AfterPayment => h.rpc \in {"CompleteGoPay", "ConfirmGoPayPayment"}
               /\ h.step = "resending" => h.rpc = "ResendGoPayOTP"
               /\ h.step = "tier" => h.rpc = "ProbeTier"
               /\ h.rpc = "ProbePlusTrial" => pc \in {"probe", "ended"}
               /\ h.rpc = "PrepareGoPay" => pc \in {"prepare", "ended"}
               /\ h.rpc = "StartPreparedGoPay" => pc \in {"start", "ended"}
               /\ h.rpc = "StartGoPay" => pc \in {"fresh", "ended"}
               /\ h.rpc = "ResendGoPayOTP" => pc \in {"resend", "ended"}
               /\ h.rpc = "CompleteGoPay" => pc \in {"complete", "ended"}
               /\ h.rpc = "ConfirmGoPayPayment" => pc \in {"confirm", "ended"}
               /\ h.rpc = "ProbeTier" => pc \in {"tier", "ended"}
<1> DEFINE pc == wf[w].pc
           rpc == handler[w].rpc
           step == handler[w].step
<1>1. rpc \in Rpcs /\ step \in StepsOf(rpc) /\ pc \in Pcs
    BY DEF PayTypeOK, Handler, Workflow, Rpcs, Pcs, PayOK, HandlerOK
<1>2. pc \in Waiting \cup {"ended"} /\ (pc \in Waiting => rpc = RpcOf(pc))
    BY DEF PayOK, CallOK
<1> HIDE DEF pc, rpc, step
<1>3. /\ rpc = "none" => step \in {}
      /\ rpc = "ProbePlusTrial" => step \in {"session", "trial"}
      /\ rpc = "PrepareGoPay" => step \in Preparing
      /\ rpc = "StartGoPay" => step \in Preparing \cup Starting
      /\ rpc = "StartPreparedGoPay" => step \in Starting
      /\ rpc = "ResendGoPayOTP" => step \in {"resending"}
      /\ rpc = "CompleteGoPay" => step \in {"otp", "charging"} \cup BeforePayment \cup AfterPayment
      /\ rpc = "ConfirmGoPayPayment" => step \in AfterPayment
      /\ rpc = "ProbeTier" => step \in {"tier"}
    BY <1>1 DEF StepsOf
<1>4. /\ pc = "probe" => rpc = "ProbePlusTrial"
      /\ pc = "prepare" => rpc = "PrepareGoPay"
      /\ pc = "start" => rpc = "StartPreparedGoPay"
      /\ pc = "fresh" => rpc = "StartGoPay"
      /\ pc = "resend" => rpc = "ResendGoPayOTP"
      /\ pc = "complete" => rpc = "CompleteGoPay"
      /\ pc = "confirm" => rpc = "ConfirmGoPayPayment"
      /\ pc = "tier" => rpc = "ProbeTier"
    BY <1>2 DEF RpcOf, Waiting
<1>5. rpc = "ProbePlusTrial" => pc \in {"probe", "ended"}
    BY <1>2, <1>4 DEF Waiting
<1>6. rpc = "PrepareGoPay" => pc \in {"prepare", "ended"}
    BY <1>2, <1>4 DEF Waiting
<1>7. rpc = "StartPreparedGoPay" => pc \in {"start", "ended"}
    BY <1>2, <1>4 DEF Waiting
<1>8. rpc = "StartGoPay" => pc \in {"fresh", "ended"}
    BY <1>2, <1>4 DEF Waiting
<1>9. rpc = "ResendGoPayOTP" => pc \in {"resend", "ended"}
    BY <1>2, <1>4 DEF Waiting
<1>10. rpc = "CompleteGoPay" => pc \in {"complete", "ended"}
    BY <1>2, <1>4 DEF Waiting
<1>11. rpc = "ConfirmGoPayPayment" => pc \in {"confirm", "ended"}
    BY <1>2, <1>4 DEF Waiting
<1>12. rpc = "ProbeTier" => pc \in {"tier", "ended"}
    BY <1>2, <1>4 DEF Waiting
<1>13. /\ step \in {"session", "trial"} => rpc = "ProbePlusTrial"
       /\ step \in Preparing => rpc \in {"PrepareGoPay", "StartGoPay"}
       /\ step \in {"loading", "linking", "consent"} => rpc \in {"StartGoPay", "StartPreparedGoPay"}
       /\ step \in {"charging", "charged"} =>
             rpc \in {"StartGoPay", "StartPreparedGoPay", "CompleteGoPay"}
       /\ step \in {"otp", "settling", "confirmed"} => rpc = "CompleteGoPay"
       /\ step \in AfterPayment => rpc \in {"CompleteGoPay", "ConfirmGoPayPayment"}
       /\ step = "resending" => rpc = "ResendGoPayOTP"
       /\ step = "tier" => rpc = "ProbeTier"
    BY <1>1, <1>3 DEF Rpcs, Preparing, Starting, BeforePayment, AfterPayment
<1> QED
    BY <1>2, <1>5, <1>6, <1>7, <1>8, <1>9, <1>10, <1>11, <1>12, <1>13 DEF pc, rpc, step

-----------------------------------------------------------------------------
(* The handlers.                                                           *)

\* A step that touches no money and keeps on the same side of charge and payment.
LEMMA HandlerGoesOn ==
    ASSUME PayInv, NEW w \in Workflows, NEW step \in StepsOf(handler[w].rpc), NEW reply,
           IsWorking(w), HandlerMoves(w, step, reply),
           UNCHANGED <<wf, replay, state, charges, paid>>,
           step \in Working,
           step \in BeforeCharge => handler[w].step \in BeforeCharge,
           step \in BeforePayment => handler[w].step \in BeforePayment,
           step \in AfterPayment => handler[w].step \in AfterPayment
    PROVE  PayInv'
<1>1. PayTypeOK /\ PayOK(w)
    BY DEF PayInv
<1>2. PayTypeOK' /\ OthersKept(w)
    BY <1>1 DEF PayTypeOK, HandlerMoves, OthersKept
<1>3. /\ NoMoney(w)' <=> NoMoney(w)
      /\ MoneyOK(w)' <=> MoneyOK(w)
      /\ \A f, n : OneCharge(w, f, n)' <=> OneCharge(w, f, n)
    BY MoneyKept
<1>4. IsWorking(w)' /\ step # "replied"
    BY DEF IsWorking, HandlerMoves, Working
<1>5. HandlerOK(w)'
    BY <1>1, <1>3, <1>4 DEF PayOK, HandlerOK, HandlerMoves, FlowsOf
<1>6. CallOK(w)'
    BY <1>1, <1>4 DEF PayOK, CallOK, HandlerMoves
<1>7. ReplyOK(w)'
    BY <1>4 DEF ReplyOK, HandlerMoves
<1>8. WorkflowOK(w)'
    BY <1>1, <1>3 DEF PayOK, WorkflowOK, StartedOK
<1>9. ReplayOK(w)'
    BY <1>1, <1>3 DEF PayOK, ReplayOK
<1> QED
    BY <1>1, <1>2, <1>3, <1>5, <1>6, <1>7, <1>8, <1>9, OneWorkflow DEF PayOK

\* An answer, with what it says of the flow.
LEMMA HandlerReplies ==
    ASSUME PayInv, NEW w \in Workflows, NEW answer, IsWorking(w),
           HandlerMoves(w, "replied", answer), UNCHANGED <<wf, replay, charges, paid>>,
           state' \in [FlowIds -> FlowState],
           \A f \in FlowIds \ {handler[w].flow} : state'[f] = state[f],
           state' = state \/ wf[w].pc \notin {"otp", "resend", "completeWait"}
               \/ (wf[w].pc = "resend" /\ state'[handler[w].flow].otp),
           ReplyOK(w)'
    PROVE  PayInv'
<1>1. PayTypeOK /\ PayOK(w)
    BY DEF PayInv
<1>2. handler[w].flow \in FlowsOf(w) /\ wf[w].flow \in FlowsOf(w) /\ FlowsOf(w) \subseteq FlowIds
    BY <1>1, FlowsAreApart DEF PayOK, HandlerOK, WorkflowOK, FlowsOf
<1>3. PayTypeOK' /\ OthersKept(w)
    BY <1>1, <1>2 DEF PayTypeOK, HandlerMoves, OthersKept
<1>4. /\ NoMoney(w)' <=> NoMoney(w)
      /\ MoneyOK(w)' <=> MoneyOK(w)
      /\ \A f, n : OneCharge(w, f, n)' <=> OneCharge(w, f, n)
    BY MoneyKept
<1>5. ~IsWorking(w)'
    BY DEF IsWorking, HandlerMoves, Working
<1>6. HandlerOK(w)'
    BY <1>1, <1>4, <1>5
       DEF PayOK, HandlerOK, HandlerMoves, FlowsOf, BeforeCharge, BeforePayment, AfterPayment
<1>7. CallOK(w)'
    BY <1>1, <1>5 DEF PayOK, CallOK, HandlerMoves
<1>8. WorkflowOK(w)'
    <2>1. wf[w].pc = "resend" => handler[w].flow = wf[w].flow
        BY <1>1 DEF PayOK, CallOK
    <2>2. wf[w].pc \in {"otp", "resend"} => state'[wf[w].flow].otp
        BY <1>1, <2>1 DEF PayOK, WorkflowOK
    <2>3. wf[w].pc = "completeWait" => StartedOK(w, wf[w].flow)'
        BY <1>1, <1>4 DEF PayOK, WorkflowOK, StartedOK
    <2> QED
        BY <1>1, <1>4, <2>2, <2>3 DEF PayOK, WorkflowOK
<1>9. ReplayOK(w)'
    BY <1>1, <1>4, <1>5 DEF PayOK, ReplayOK
<1> QED
    BY <1>1, <1>3, <1>4, <1>6, <1>7, <1>8, <1>9, OneWorkflow DEF PayOK

\* The steps between the requests that move money.
Quietly == UNCHANGED <<wf, replay, state, charges, paid>>

LEMMA HandlerAdvances ==
    ASSUME PayInv, NEW w \in Workflows, NEW step \in Working, IsWorking(w), Goto(w, step), Quietly,
           \/ /\ handler[w].step \in Preparing
              /\ step \in Preparing \/ (step = "loading" /\ handler[w].rpc = "StartGoPay")
           \/ handler[w].step = "session" /\ step = "trial"
           \/ handler[w].step = "loading" /\ step = "linking"
           \/ handler[w].step = "linking" /\ step = "consent"
           \/ handler[w].step = "consent" /\ step = "charging"
           \/ handler[w].step = "otp" /\ step = "charging"
           \/ handler[w].step = "charged" /\ step = "settling" /\ handler[w].rpc = "CompleteGoPay"
           \/ handler[w].step = "settling" /\ step = "confirmed"
           \/ handler[w].step \in AfterPayment /\ step \in AfterPayment
    PROVE  PayInv'
<1>1. PayTypeOK /\ PayOK(w) /\ handler[w].rpc \in Rpcs
    BY DEF PayInv, PayTypeOK, Handler, Rpcs
<1>2. HandlerMoves(w, step, handler[w].reply)
    BY <1>1, GotoMoves DEF PayTypeOK
<1> DEFINE from == handler[w].step
           rpc == handler[w].rpc
<1>3. /\ from \in {"session", "trial"} => rpc = "ProbePlusTrial"
      /\ from \in Preparing => rpc \in {"PrepareGoPay", "StartGoPay"}
      /\ from \in {"loading", "linking", "consent"} => rpc \in {"StartGoPay", "StartPreparedGoPay"}
      /\ from \in {"otp", "settling", "confirmed"} => rpc = "CompleteGoPay"
      /\ from \in AfterPayment => rpc \in {"CompleteGoPay", "ConfirmGoPayPayment"}
    BY <1>1, WhoCalls
<1>4. /\ step \in StepsOf(rpc)
      /\ step \in BeforeCharge => from \in BeforeCharge
      /\ step \in BeforePayment => from \in BeforePayment
      /\ step \in AfterPayment => from \in AfterPayment
    <2> HIDE DEF from, rpc
    <2>1. CASE from \in Preparing /\ step \in Preparing
        BY <1>3, <2>1 DEF StepsOf, Preparing, BeforeCharge, BeforePayment, AfterPayment
    <2>2. CASE from \in Preparing /\ step = "loading" /\ rpc = "StartGoPay"
        BY <2>2 DEF StepsOf, Preparing, Starting, BeforeCharge, BeforePayment, AfterPayment
    <2>3. CASE from = "session" /\ step = "trial"
        BY <1>3, <2>3 DEF StepsOf, BeforeCharge, BeforePayment, AfterPayment
    <2>4. CASE from \in {"loading", "linking", "consent"} /\ step \in {"linking", "consent", "charging"}
        BY <1>3, <2>4 DEF StepsOf, Starting, BeforeCharge, BeforePayment, AfterPayment
    <2>5. CASE from = "otp" /\ step = "charging"
        BY <1>3, <2>5 DEF StepsOf, BeforeCharge, BeforePayment, AfterPayment
    <2>6. CASE from \in {"charged", "settling"} /\ step \in {"settling", "confirmed"}
               /\ rpc = "CompleteGoPay"
        BY <2>6 DEF StepsOf, BeforeCharge, BeforePayment, AfterPayment
    <2>7. CASE from \in AfterPayment /\ step \in AfterPayment
        BY <1>3, <2>7 DEF StepsOf, BeforeCharge, BeforePayment, AfterPayment
    <2> QED
        BY <1>3, <2>1, <2>2, <2>3, <2>4, <2>5, <2>6, <2>7 DEF from, rpc
<1> HIDE DEF from, rpc
<1>5. step \in BeforeCharge => handler[w].step \in BeforeCharge
    BY <1>4 DEF from
<1>6. step \in BeforePayment => handler[w].step \in BeforePayment
    BY <1>4 DEF from
<1>7. step \in AfterPayment => handler[w].step \in AfterPayment
    BY <1>4 DEF from
<1>8. step \in StepsOf(handler[w].rpc)
    BY <1>4 DEF rpc
<1> QED
    BY <1>2, <1>5, <1>6, <1>7, <1>8, HandlerGoesOn DEF Quietly

LEMMA HandlersAdvance ==
    ASSUME PayInv, NEW w \in Workflows,
           \/ (ProbeSession(w) /\ ~Reply(w, "active")) \/ CreateCheckout(w) \/ ConfirmCheckout(w)
           \/ Approve(w) \/ FollowRedirect(w) \/ FetchRedirect(w)
           \/ (Checkout(w) /\ handler[w].rpc = "StartGoPay")
           \/ LoadTransaction(w) \/ InitLinking(w) \/ ValidateOTP(w) \/ ConfirmCharge(w)
           \/ PollStatus(w) \/ FollowFinish(w)
    PROVE  PayInv'
<1>1. IsWorking(w)
    BY DEF IsWorking, Working, At, ProbeSession, CreateCheckout, ConfirmCheckout, Approve,
           FollowRedirect, FetchRedirect, Checkout, LoadTransaction, InitLinking, ValidateOTP,
           ConfirmCharge, PollStatus, FollowFinish
<1>2. CASE ProbeSession(w) /\ ~Reply(w, "active")
    <2>1. Goto(w, "trial") /\ handler[w].step = "session" /\ Quietly /\ "trial" \in Working
        BY <1>2 DEF ProbeSession, At, Quietly, Working
    <2> QED
        BY <1>1, <2>1, HandlerAdvances
<1>3. CASE CreateCheckout(w)
    <2>1. Goto(w, "confirming") /\ handler[w].step \in Preparing /\ Quietly
          /\ "confirming" \in Working /\ "confirming" \in Preparing
        BY <1>3 DEF CreateCheckout, At, Quietly, Working, Preparing
    <2> QED
        BY <1>1, <2>1, HandlerAdvances
<1>4. CASE ConfirmCheckout(w)
    <2>1. PICK step \in {"fetching", "approving"} : Goto(w, step)
        BY <1>4 DEF ConfirmCheckout
    <2>2. handler[w].step \in Preparing /\ Quietly /\ step \in Working /\ step \in Preparing
        BY <1>4 DEF ConfirmCheckout, At, Quietly, Working, Preparing
    <2> QED
        BY <1>1, <2>1, <2>2, HandlerAdvances
<1>5. CASE FollowRedirect(w)
    <2>1. Goto(w, "fetching") /\ handler[w].step \in Preparing /\ Quietly
          /\ "fetching" \in Working /\ "fetching" \in Preparing
        BY <1>5 DEF FollowRedirect, At, Quietly, Working, Preparing
    <2> QED
        BY <1>1, <2>1, HandlerAdvances
<1>6. CASE FetchRedirect(w)
    <2>1. Goto(w, "linkable") /\ handler[w].step \in Preparing /\ Quietly
          /\ "linkable" \in Working /\ "linkable" \in Preparing
        BY <1>6 DEF FetchRedirect, At, Quietly, Working, Preparing
    <2> QED
        BY <1>1, <2>1, HandlerAdvances
<1>7. CASE Checkout(w) /\ handler[w].rpc = "StartGoPay"
    <2>1. Goto(w, "loading") /\ handler[w].step \in Preparing /\ Quietly /\ "loading" \in Working
        BY <1>7 DEF Checkout, At, Quietly, Working, Preparing
    <2> QED
        BY <1>1, <1>7, <2>1, HandlerAdvances
<1>8. CASE LoadTransaction(w)
    <2>1. Goto(w, "linking") /\ handler[w].step = "loading" /\ Quietly /\ "linking" \in Working
        BY <1>8 DEF LoadTransaction, At, Quietly, Working
    <2> QED
        BY <1>1, <2>1, HandlerAdvances
<1>9. CASE InitLinking(w)
    <2>1. Goto(w, "consent") /\ handler[w].step = "linking" /\ Quietly /\ "consent" \in Working
        BY <1>9 DEF InitLinking, At, Quietly, Working
    <2> QED
        BY <1>1, <2>1, HandlerAdvances
<1>10. CASE ValidateOTP(w)
    <2>1. Goto(w, "charging") /\ handler[w].step = "otp" /\ Quietly /\ "charging" \in Working
        BY <1>10 DEF ValidateOTP, At, Quietly, Working
    <2> QED
        BY <1>1, <2>1, HandlerAdvances
<1>11. CASE ConfirmCharge(w)
    <2>1. Goto(w, "confirmed") /\ handler[w].step = "settling" /\ Quietly /\ "confirmed" \in Working
        BY <1>11 DEF ConfirmCharge, At, Quietly, Working
    <2> QED
        BY <1>1, <2>1, HandlerAdvances
<1>12. CASE PollStatus(w)
    <2>1. \E step \in {"verifying", "finishing"} : Goto(w, step)
        BY <1>12 DEF PollStatus
    <2>2. PICK step \in {"verifying", "finishing"} : Goto(w, step)
        BY <2>1
    <2>3. handler[w].step \in AfterPayment /\ Quietly /\ step \in Working /\ step \in AfterPayment
        BY <1>12 DEF PollStatus, At, Quietly, Working, AfterPayment
    <2> QED
        BY <1>1, <2>2, <2>3, HandlerAdvances
<1>13. CASE FollowFinish(w)
    <2>1. Goto(w, "verifying") /\ handler[w].step \in AfterPayment /\ Quietly
          /\ "verifying" \in Working /\ "verifying" \in AfterPayment
        BY <1>13 DEF FollowFinish, At, Quietly, Working, AfterPayment
    <2> QED
        BY <1>1, <2>1, HandlerAdvances
<1>14. CASE Approve(w)
    <2>1. CASE Goto(w, "redirecting")
        <3>1. handler[w].step \in Preparing /\ Quietly /\ "redirecting" \in Working
              /\ "redirecting" \in Preparing
            BY <1>14 DEF Approve, At, Quietly, Working, Preparing
        <3> QED
            BY <1>1, <2>1, <3>1, HandlerAdvances
    <2>2. CASE ~Goto(w, "redirecting")
        <3> DEFINE h == [handler[w] EXCEPT !.step = "confirming", !.blocked = TRUE]
        <3>1. handler[w] \in Handler /\ handler \in [Workflows -> Handler]
            BY DEF PayInv, PayTypeOK
        <3>2. /\ h \in Handler /\ h.rpc = handler[w].rpc /\ h.flow = handler[w].flow
              /\ h.step = "confirming" /\ h.reply = handler[w].reply
            BY <3>1 DEF Handler, Working
        <3>3. handler' = [handler EXCEPT ![w] = h]
            BY <1>14, <2>2 DEF Approve
        <3> HIDE DEF h
        <3>4. HandlerMoves(w, "confirming", handler[w].reply)
            BY <3>1, <3>2, <3>3 DEF HandlerMoves
        <3>5. handler[w].step = "approving" /\ Quietly
            BY <1>14 DEF Approve, At, Quietly
        <3>6. handler[w].rpc \in {"PrepareGoPay", "StartGoPay"}
            BY <1>1, <3>5, WhoCalls DEF PayInv, Preparing
        <3>7. "confirming" \in StepsOf(handler[w].rpc) /\ "confirming" \in Working
            BY <3>6 DEF StepsOf, Preparing, Working
        <3>8. /\ handler[w].step \in BeforeCharge
              /\ "confirming" \notin BeforePayment /\ "confirming" \notin AfterPayment
            BY <3>5 DEF BeforeCharge, BeforePayment, AfterPayment
        <3> QED
            BY <1>1, <3>4, <3>5, <3>7, <3>8, HandlerGoesOn DEF Quietly
    <2> QED
        BY <2>1, <2>2
<1> QED
    BY <1>2, <1>3, <1>4, <1>5, <1>6, <1>7, <1>8, <1>9, <1>10, <1>11, <1>12, <1>13, <1>14

\* An answer that tells the caller nothing about the money.
LEMMA HandlerAnswers ==
    ASSUME PayInv, NEW w \in Workflows, NEW answer \in Replies, IsWorking(w), Reply(w, answer),
           Quietly,
           \/ answer \in {"fail", "active", "ineligible"}
           \/ answer = "ok" /\ handler[w].rpc \in {"ProbePlusTrial", "PrepareGoPay", "ProbeTier"}
           \/ /\ answer = "ok" /\ handler[w].rpc \in {"CompleteGoPay", "ConfirmGoPayPayment"}
              /\ OneCharge(w, handler[w].flow, 1)
    PROVE  PayInv'
<1>1. PayTypeOK /\ PayOK(w)
    BY DEF PayInv
<1>2. HandlerMoves(w, "replied", answer)
    BY <1>1, ReplyMoves DEF PayTypeOK
<1>3. \A f, n : OneCharge(w, f, n)' <=> OneCharge(w, f, n)
    BY MoneyKept DEF Quietly
<1>4. ReplyOK(w)'
    <2>1. CASE answer \in {"fail", "active", "ineligible"}
        BY <1>2, <2>1 DEF ReplyOK, HandlerMoves
    <2>2. CASE answer = "ok" /\ handler[w].rpc \in {"ProbePlusTrial", "PrepareGoPay", "ProbeTier"}
        <3>1. wf[w].pc \in {"probe", "prepare", "tier", "ended"}
            BY <1>1, <2>2, WhoCalls
        <3> QED
            BY <1>2, <2>2, <3>1 DEF ReplyOK, HandlerMoves, Quietly
    <2>3. CASE /\ answer = "ok" /\ handler[w].rpc \in {"CompleteGoPay", "ConfirmGoPayPayment"}
               /\ OneCharge(w, handler[w].flow, 1)
        <3>1. wf[w].pc \in {"complete", "confirm", "ended"}
            BY <1>1, <2>3, WhoCalls
        <3>2. OneCharge(w, handler[w].flow, 1)'
            <4>1. \A f : f = handler[w].flow => OneCharge(w, f, 1)'
                BY <1>3, <2>3
            <4>2. handler'[w].flow = handler[w].flow
                BY <1>2 DEF HandlerMoves
            <4> QED
                BY <4>1, <4>2 DEF OneCharge
        <3> QED
            BY <1>2, <2>3, <3>1, <3>2 DEF ReplyOK, HandlerMoves, Quietly
    <2> QED
        BY <2>1, <2>2, <2>3
<1> QED
    BY <1>1, <1>2, <1>4, HandlerReplies DEF Quietly, PayTypeOK

LEMMA HandlersAnswer ==
    ASSUME PayInv, NEW w \in Workflows,
           \/ ProbeSession(w) /\ Reply(w, "active")
           \/ Checkout(w) /\ handler[w].rpc # "StartGoPay"
           \/ ProbeTrial(w) \/ Verify(w) \/ TierProbed(w) \/ HandlerFails(w)
    PROVE  PayInv'
<1>1. IsWorking(w)
    BY DEF IsWorking, Working, At, ProbeSession, Checkout, ProbeTrial, Verify, TierProbed,
           HandlerFails
<1>2. Quietly
    BY DEF Quietly, ProbeSession, Checkout, ProbeTrial, Verify, TierProbed, HandlerFails
<1>3. PayTypeOK /\ PayOK(w)
    BY DEF PayInv
<1>4. CASE ProbeSession(w) /\ Reply(w, "active")
    BY <1>1, <1>2, <1>4, HandlerAnswers DEF Replies
<1>5. CASE Checkout(w) /\ handler[w].rpc # "StartGoPay"
    <2>1. Reply(w, "ok") /\ handler[w].rpc = "PrepareGoPay"
        BY <1>5 DEF Checkout
    <2> QED
        BY <1>1, <1>2, <2>1, HandlerAnswers DEF Replies
<1>6. CASE ProbeTrial(w)
    <2>1. PICK answer \in {"ok", "ineligible"} : Reply(w, answer)
        BY <1>6 DEF ProbeTrial
    <2>2. handler[w].rpc = "ProbePlusTrial"
        BY <1>1, <1>3, <1>6, WhoCalls DEF ProbeTrial, At
    <2> QED
        BY <1>1, <1>2, <2>1, <2>2, HandlerAnswers DEF Replies
<1>7. CASE Verify(w)
    <2>1. PICK answer \in {"ok", "fail"} : Reply(w, answer)
        BY <1>7 DEF Verify
    <2>2. handler[w].step \in AfterPayment
        BY <1>7 DEF Verify, At, AfterPayment
    <2>3. handler[w].rpc \in {"CompleteGoPay", "ConfirmGoPayPayment"}
        BY <1>1, <1>3, <2>2, WhoCalls
    <2>4. OneCharge(w, handler[w].flow, 1)
        BY <1>3, <2>2 DEF PayOK, HandlerOK
    <2> QED
        BY <1>1, <1>2, <2>1, <2>3, <2>4, HandlerAnswers DEF Replies
<1>8. CASE TierProbed(w)
    <2>1. Reply(w, "ok")
        BY <1>8 DEF TierProbed
    <2>2. handler[w].rpc = "ProbeTier"
        BY <1>1, <1>3, <1>8, WhoCalls DEF TierProbed, At
    <2> QED
        BY <1>1, <1>2, <2>1, <2>2, HandlerAnswers DEF Replies
<1>9. CASE HandlerFails(w)
    <2>1. Reply(w, "fail")
        BY <1>9 DEF HandlerFails
    <2> QED
        BY <1>1, <1>2, <2>1, HandlerAnswers DEF Replies
<1> QED
    BY <1>4, <1>5, <1>6, <1>7, <1>8, <1>9

\* A start ends with a code under way and no charge, or with a charge and no code.
LEMMA HandlerStarts ==
    ASSUME PayInv, NEW w \in Workflows, NEW s \in FlowState, IsWorking(w), Started(w, s),
           UNCHANGED <<wf, replay, charges, paid>>,
           handler[w].rpc \in {"StartGoPay", "StartPreparedGoPay"},
           IF s.otp THEN NoMoney(w) ELSE OneCharge(w, handler[w].flow, 0)
    PROVE  PayInv'
<1> DEFINE f == handler[w].flow
<1>1. PayTypeOK /\ PayOK(w)
    BY DEF PayInv
<1>2. HandlerMoves(w, "replied", "ok")
    BY <1>1, ReplyMoves DEF PayTypeOK, Started, Replies
<1>3. f \in FlowIds
    BY <1>1, FlowsAreApart DEF PayOK, HandlerOK
<1>4. /\ state' \in [FlowIds -> FlowState] /\ state'[f] = s
      /\ \A g \in FlowIds \ {f} : state'[g] = state[g]
    BY <1>1, <1>3 DEF Started, PayTypeOK
<1>5. /\ NoMoney(w)' <=> NoMoney(w)
      /\ \A g, n : OneCharge(w, g, n)' <=> OneCharge(w, g, n)
    BY MoneyKept
<1>6. wf[w].pc \in {"start", "fresh", "ended"}
    BY <1>1, WhoCalls
<1>7. ReplyOK(w)'
    <2>1. StartedOK(w, handler[w].flow)'
        <3>1. handler'[w].flow = f
            BY <1>2 DEF HandlerMoves
        <3>2. IF s.otp THEN NoMoney(w)' ELSE \A g : g = f => OneCharge(w, g, 0)'
            BY <1>5
        <3> QED
            BY <1>4, <3>1, <3>2 DEF StartedOK, OneCharge
    <2> QED
        BY <1>2, <1>6, <2>1 DEF ReplyOK, HandlerMoves
<1> QED
    BY <1>2, <1>4, <1>6, <1>7, HandlerReplies

LEMMA ConsentPays ==
    ASSUME PayInv, NEW w \in Workflows, UserConsent(w)
    PROVE  PayInv'
<1>1. PayTypeOK /\ PayOK(w) /\ IsWorking(w) /\ handler[w].step = "consent"
    BY DEF PayInv, UserConsent, At, IsWorking, Working
<1>2. CASE Goto(w, "charging") /\ UNCHANGED state
    <2>1. Quietly /\ "charging" \in Working
        BY <1>2 DEF UserConsent, Quietly, Working
    <2> QED
        BY <1>1, <1>2, <2>1, HandlerAdvances
<1>3. CASE Started(w, [otp |-> TRUE, charged |-> FALSE])
    <2> DEFINE s == [otp |-> TRUE, charged |-> FALSE]
    <2>1. s \in FlowState /\ s.otp
        BY DEF FlowState
    <2>2. handler[w].rpc \in {"StartGoPay", "StartPreparedGoPay"}
        BY <1>1, WhoCalls
    <2>3. NoMoney(w)
        BY <1>1 DEF PayOK, HandlerOK, BeforeCharge
    <2>4. Started(w, s) /\ UNCHANGED <<wf, replay, charges, paid>>
        BY <1>3 DEF UserConsent
    <2> HIDE DEF s
    <2> QED
        BY <1>1, <2>1, <2>2, <2>3, <2>4, HandlerStarts
<1> QED
    BY <1>2, <1>3 DEF UserConsent

LEMMA ChargedPays ==
    ASSUME PayInv, NEW w \in Workflows, Charged(w)
    PROVE  PayInv'
<1> DEFINE f == handler[w].flow
<1>1. /\ PayTypeOK /\ PayOK(w) /\ IsWorking(w) /\ handler[w].step = "charged"
      /\ UNCHANGED <<wf, replay, charges, paid>>
    BY DEF PayInv, Charged, At, IsWorking, Working
<1>2. handler[w].rpc \in {"StartGoPay", "StartPreparedGoPay", "CompleteGoPay"}
    BY <1>1, WhoCalls
<1>3. OneCharge(w, f, 0)
    BY <1>1 DEF PayOK, HandlerOK, BeforePayment
<1>4. CASE handler[w].rpc # "CompleteGoPay"
    <2> DEFINE s == [otp |-> FALSE, charged |-> TRUE]
    <2>1. s \in FlowState /\ ~s.otp
        BY DEF FlowState
    <2>2. Started(w, s)
        BY <1>4 DEF Charged
    <2> HIDE DEF s
    <2> QED
        BY <1>1, <1>2, <1>3, <1>4, <2>1, <2>2, HandlerStarts
<1>5. CASE handler[w].rpc = "CompleteGoPay" /\ wf[w].tokenization
    <2>1. Goto(w, "settling") /\ Quietly /\ "settling" \in Working
        BY <1>5 DEF Charged, Quietly, Working
    <2> QED
        BY <1>1, <1>5, <2>1, HandlerAdvances
<1>6. CASE handler[w].rpc = "CompleteGoPay" /\ ~wf[w].tokenization
    <2>1. HandlerMoves(w, "replied", "manual")
        BY <1>1, <1>6, ReplyMoves DEF Charged, PayTypeOK, Replies
    <2>2. state' \in [FlowIds -> FlowState] /\ \A g \in FlowIds \ {f} : state'[g] = state[g]
        <3> DEFINE v == [state[f] EXCEPT !.charged = TRUE]
        <3>1. f \in FlowIds /\ state[f] \in FlowState
            BY <1>1, FlowsAreApart DEF PayOK, HandlerOK, PayTypeOK
        <3>2. v \in FlowState
            BY <3>1 DEF FlowState
        <3>3. state' = [state EXCEPT ![f] = v]
            BY <1>6 DEF Charged
        <3> HIDE DEF v
        <3> QED
            BY <1>1, <3>2, <3>3 DEF PayTypeOK
    <2>3. wf[w].pc \in {"complete", "ended"}
        BY <1>1, <1>6, WhoCalls
    <2>4. ReplyOK(w)'
        <3>1. \A g : g = f => OneCharge(w, g, 0)'
            BY <1>1, <1>3, MoneyKept
        <3>2. handler'[w].flow = f
            BY <2>1 DEF HandlerMoves
        <3>3. OneCharge(w, handler[w].flow, 0)'
            BY <3>1, <3>2 DEF OneCharge
        <3> QED
            BY <1>1, <2>1, <2>3, <3>3 DEF ReplyOK, HandlerMoves
    <2> QED
        BY <1>1, <2>1, <2>2, <2>3, <2>4, HandlerReplies
<1> QED
    BY <1>4, <1>5, <1>6

LEMMA ResendPays ==
    ASSUME PayInv, NEW w \in Workflows, ResendOTP(w)
    PROVE  PayInv'
<1> DEFINE f == handler[w].flow
           v == [state[f] EXCEPT !.otp = TRUE]
<1>1. /\ PayTypeOK /\ PayOK(w) /\ IsWorking(w) /\ handler[w].step = "resending"
      /\ UNCHANGED <<wf, replay, charges, paid>>
    BY DEF PayInv, ResendOTP, At, IsWorking, Working
<1>2. HandlerMoves(w, "replied", "ok")
    BY <1>1, ReplyMoves DEF ResendOTP, PayTypeOK, Replies
<1>3. f \in FlowIds /\ state[f] \in FlowState
    BY <1>1, FlowsAreApart DEF PayOK, HandlerOK, PayTypeOK
<1>4. v \in FlowState /\ v.otp
    BY <1>3 DEF FlowState
<1>5. state' = [state EXCEPT ![f] = v]
    BY DEF ResendOTP
<1> HIDE DEF v
<1>6. /\ state' \in [FlowIds -> FlowState] /\ \A g \in FlowIds \ {f} : state'[g] = state[g]
      /\ state'[f].otp
    BY <1>1, <1>3, <1>4, <1>5 DEF PayTypeOK
<1>7. wf[w].pc \in {"resend", "ended"}
    BY <1>1, WhoCalls
<1>8. ReplyOK(w)'
    BY <1>1, <1>2, <1>7 DEF ReplyOK, HandlerMoves
<1> QED
    BY <1>1, <1>2, <1>6, <1>7, <1>8, HandlerReplies

\* The charge is the first: whoever charges has found nothing charged.
LEMMA CreateChargePays ==
    ASSUME PayInv, NEW w \in Workflows, CreateCharge(w)
    PROVE  PayInv'
<1> DEFINE f == handler[w].flow
<1>1. /\ PayTypeOK /\ PayOK(w) /\ IsWorking(w) /\ handler[w].step = "charging"
      /\ Goto(w, "charged") /\ UNCHANGED <<replay, wf, state, paid>>
    BY DEF PayInv, CreateCharge, At, IsWorking, Working
<1>2. /\ handler[w].rpc \in {"StartGoPay", "StartPreparedGoPay", "CompleteGoPay"}
      /\ wf[w].pc \in {"start", "fresh", "complete", "ended"}
    BY <1>1, WhoCalls
<1>3. f \in {Prepared(w), Fresh(w)} /\ f \in FlowIds
    BY <1>1, <1>2, FlowsAreApart DEF PayOK, HandlerOK, FlowsOf
<1>4. NoMoney(w) /\ charges[f] = 0 /\ paid[f] = 0
    BY <1>1, <1>3 DEF PayOK, HandlerOK, BeforeCharge, NoMoney, FlowsOf
<1>5. /\ charges' \in [FlowIds -> Nat] /\ charges'[f] = 1
      /\ \A g \in FlowIds \ {f} : charges'[g] = charges[g]
    BY <1>1, <1>3, <1>4 DEF CreateCharge, PayTypeOK
<1>6. HandlerMoves(w, "charged", handler[w].reply)
    BY <1>1, GotoMoves DEF PayTypeOK, Working
<1>7. PayTypeOK' /\ OthersKept(w)
    BY <1>1, <1>3, <1>5, <1>6 DEF PayTypeOK, HandlerMoves, OthersKept, FlowsOf
<1>8. /\ charges'[f] = 1 /\ paid'[f] = 0
      /\ \A g \in FlowsOf(w) \ {f} : charges'[g] = 0 /\ paid'[g] = 0
    BY <1>1, <1>4, <1>5, FlowsAreApart DEF NoMoney
<1>9. handler'[w].flow = f /\ handler'[w].step = "charged" /\ handler'[w].rpc = handler[w].rpc
    BY <1>6 DEF HandlerMoves
<1> HIDE DEF f
<1>10. \A g : g = f => OneCharge(w, g, 0)'
    BY <1>3, <1>8 DEF OneCharge
<1>11. MoneyOK(w)'
    BY <1>3, <1>10 DEF MoneyOK, FlowsOf
<1>12. HandlerOK(w)'
    <2>1. OneCharge(w, handler[w].flow, 0)'
        BY <1>9, <1>10 DEF OneCharge
    <2>2. "charged" \in StepsOf(handler[w].rpc)
        BY <1>2 DEF StepsOf, Starting, BeforePayment
    <2>3. /\ "charged" \notin BeforeCharge /\ "charged" \in BeforePayment
          /\ "charged" \notin AfterPayment
        BY DEF BeforeCharge, BeforePayment, AfterPayment
    <2>4. f \in FlowsOf(w) /\ f # Probe(w)
        BY <1>3, FlowsAreApart DEF FlowsOf
    <2> QED
        BY <1>9, <2>1, <2>2, <2>3, <2>4 DEF HandlerOK
<1>13. CallOK(w)'
    BY <1>1, <1>2, <1>9 DEF PayOK, CallOK, f, Waiting
<1>14. ReplyOK(w)'
    BY <1>9 DEF ReplyOK
<1>15. WorkflowOK(w)'
    <2>1. wf[w].outcome # "succeeded"
        BY <1>1, <1>4, OneChargeOnly DEF PayOK, WorkflowOK
    <2> QED
        BY <1>1, <1>2, <2>1 DEF PayOK, WorkflowOK
<1>16. ReplayOK(w)'
    <2>1. replay[w] \notin Replaying /\ replay[w] # "ok"
        BY <1>1, <1>4, OneChargeOnly DEF PayOK, ReplayOK
    <2> QED
        BY <1>1, <2>1 DEF PayOK, ReplayOK, Replaying
<1> QED
    BY <1>7, <1>11, <1>12, <1>13, <1>14, <1>15, <1>16, OneWorkflow DEF PayOK

\* The payment is the first: whoever pays has found the charge unpaid.
LEMMA SettlePays ==
    ASSUME PayInv, NEW w \in Workflows, Settle(w)
    PROVE  PayInv'
<1> DEFINE f == handler[w].flow
<1>1. /\ PayTypeOK /\ PayOK(w) /\ IsWorking(w) /\ handler[w].step = "confirmed"
      /\ Goto(w, "settled") /\ UNCHANGED <<replay, wf, state, charges>>
    BY DEF PayInv, Settle, At, IsWorking, Working
<1>2. handler[w].rpc = "CompleteGoPay" /\ wf[w].pc \in {"complete", "ended"}
    BY <1>1, WhoCalls
<1>3. OneCharge(w, f, 0)
    BY <1>1 DEF PayOK, HandlerOK, BeforePayment
<1>4. f \in {Prepared(w), Fresh(w)} /\ f \in FlowIds
    BY <1>3, FlowsAreApart DEF OneCharge, FlowsOf
<1>5. /\ paid' \in [FlowIds -> Nat] /\ paid'[f] = 1
      /\ \A g \in FlowIds \ {f} : paid'[g] = paid[g]
    BY <1>1, <1>3, <1>4 DEF Settle, PayTypeOK, OneCharge
<1>6. HandlerMoves(w, "settled", handler[w].reply)
    BY <1>1, GotoMoves DEF PayTypeOK, Working
<1>7. PayTypeOK' /\ OthersKept(w)
    BY <1>1, <1>4, <1>5, <1>6 DEF PayTypeOK, HandlerMoves, OthersKept, FlowsOf
<1>8. /\ charges'[f] = 1 /\ paid'[f] = 1
      /\ \A g \in FlowsOf(w) \ {f} : charges'[g] = 0 /\ paid'[g] = 0
    BY <1>1, <1>3, <1>5, FlowsAreApart DEF OneCharge
<1>9. handler'[w].flow = f /\ handler'[w].step = "settled" /\ handler'[w].rpc = "CompleteGoPay"
    BY <1>2, <1>6 DEF HandlerMoves
<1> HIDE DEF f
<1>10. \A g : g = f => OneCharge(w, g, 1)'
    BY <1>4, <1>8 DEF OneCharge
<1>11. MoneyOK(w)'
    BY <1>4, <1>10 DEF MoneyOK, FlowsOf
<1>12. HandlerOK(w)'
    <2>1. OneCharge(w, handler[w].flow, 1)'
        BY <1>9, <1>10 DEF OneCharge
    <2>2. "settled" \in StepsOf("CompleteGoPay")
        BY DEF StepsOf, AfterPayment
    <2>3. /\ "settled" \notin BeforeCharge /\ "settled" \notin BeforePayment
          /\ "settled" \in AfterPayment
        BY DEF BeforeCharge, BeforePayment, AfterPayment
    <2>4. f \in FlowsOf(w) /\ f # Probe(w)
        BY <1>4, FlowsAreApart DEF FlowsOf
    <2> QED
        BY <1>9, <2>1, <2>2, <2>3, <2>4 DEF HandlerOK
<1>13. CallOK(w)'
    BY <1>1, <1>2, <1>9 DEF PayOK, CallOK, f, Waiting
<1>14. ReplyOK(w)'
    BY <1>9 DEF ReplyOK
<1>15. WorkflowOK(w)'
    <2>1. wf[w].outcome # "succeeded"
        BY <1>1, <1>3, OneChargeOnly DEF PayOK, WorkflowOK
    <2> QED
        BY <1>1, <1>2, <2>1 DEF PayOK, WorkflowOK
<1>16. ReplayOK(w)'
    <2>1. replay[w] \notin Replaying
        BY <1>1 DEF PayOK, ReplayOK
    <2>2. replay[w] # "ok"
        BY <1>1, <1>3, OneChargeOnly DEF PayOK, ReplayOK
    <2> QED
        BY <1>1, <2>1, <2>2 DEF PayOK, ReplayOK, Replaying
<1> QED
    BY <1>7, <1>11, <1>12, <1>13, <1>14, <1>15, <1>16, OneWorkflow DEF PayOK

LEMMA ServicePays ==
    ASSUME PayInv, NEW w \in Workflows, ServiceStep(w)
    PROVE  PayInv'
<1>1. CASE ProbeSession(w)
    BY <1>1, HandlersAdvance, HandlersAnswer
<1>2. CASE Checkout(w)
    BY <1>2, HandlersAdvance, HandlersAnswer
<1>3. CASE \/ CreateCheckout(w) \/ ConfirmCheckout(w) \/ Approve(w) \/ FollowRedirect(w)
           \/ FetchRedirect(w) \/ LoadTransaction(w) \/ InitLinking(w) \/ ValidateOTP(w)
           \/ ConfirmCharge(w) \/ PollStatus(w) \/ FollowFinish(w)
    BY <1>3, HandlersAdvance
<1>4. CASE ProbeTrial(w) \/ Verify(w) \/ TierProbed(w) \/ HandlerFails(w)
    BY <1>4, HandlersAnswer
<1>5. CASE UserConsent(w) \/ CreateCharge(w) \/ Charged(w) \/ Settle(w) \/ ResendOTP(w)
    BY <1>5, ConsentPays, CreateChargePays, ChargedPays, SettlePays, ResendPays
<1> QED
    BY <1>1, <1>2, <1>3, <1>4, <1>5 DEF ServiceStep

-----------------------------------------------------------------------------
(* The app.                                                                *)

LEMMA AppAdvances ==
    ASSUME PayInv, NEW w \in Workflows, NEW r \in Replaying \cup {"ok", "fail"},
           replay[w] \in Replaying, replay' = [replay EXCEPT ![w] = r],
           UNCHANGED <<wf, handler, state, charges, paid>>,
           r \in {"detail", "order", "capture"} => replay[w] \in {"detail", "order", "capture"},
           r \in {"captured", "ok"} => replay[w] \in {"captured", "ok"}
    PROVE  PayInv'
<1>1. PayTypeOK /\ PayOK(w)
    BY DEF PayInv
<1>2. /\ replay' \in [Workflows -> Replaying \cup {"none", "ok", "fail"}] /\ replay'[w] = r
      /\ \A u \in Workflows \ {w} : replay'[u] = replay[u]
    BY <1>1 DEF PayTypeOK
<1>3. PayTypeOK' /\ OthersKept(w)
    BY <1>1, <1>2 DEF PayTypeOK, OthersKept
<1>4. /\ NoMoney(w)' <=> NoMoney(w)
      /\ MoneyOK(w)' <=> MoneyOK(w)
      /\ \A f, n : OneCharge(w, f, n)' <=> OneCharge(w, f, n)
    BY MoneyKept
<1>5. IsWorking(w)' <=> IsWorking(w)
    BY DEF IsWorking
<1>6. HandlerOK(w)' /\ CallOK(w)' /\ ReplyOK(w)' /\ WorkflowOK(w)'
    BY <1>1, <1>4, <1>5 DEF PayOK, HandlerOK, CallOK, ReplyOK, WorkflowOK, StartedOK
<1>7. ReplayOK(w)'
    <2>1. wf[w].pc \in {"replaying", "ended"} /\ ~IsWorking(w)
        BY <1>1 DEF PayOK, ReplayOK
    <2>2. /\ r \in {"detail", "order", "capture"} => OneCharge(w, wf[w].flow, 0)
          /\ r \in {"captured", "ok"} => OneCharge(w, wf[w].flow, 1)
        BY <1>1 DEF PayOK, ReplayOK
    <2> QED
        BY <1>2, <1>4, <1>5, <2>1, <2>2 DEF ReplayOK
<1> QED
    BY <1>1, <1>3, <1>4, <1>6, <1>7, OneWorkflow DEF PayOK

\* The second capture pays a charge that is not paid.
LEMMA CapturePays ==
    ASSUME PayInv, NEW w \in Workflows, Capture(w)
    PROVE  PayInv'
<1> DEFINE f == wf[w].flow
<1>1. /\ PayTypeOK /\ PayOK(w) /\ replay[w] = "capture"
      /\ UNCHANGED <<wf, handler, state, charges>>
    BY DEF PayInv, Capture
<1>2. wf[w].pc \in {"replaying", "ended"} /\ ~IsWorking(w) /\ OneCharge(w, f, 0)
    BY <1>1 DEF PayOK, ReplayOK, Replaying
<1>3. f \in {Prepared(w), Fresh(w)} /\ f \in FlowIds
    BY <1>2, FlowsAreApart DEF OneCharge, FlowsOf
<1>4. /\ paid' \in [FlowIds -> Nat] /\ paid'[f] = 1
      /\ \A g \in FlowIds \ {f} : paid'[g] = paid[g]
    BY <1>1, <1>2, <1>3 DEF Capture, PayTypeOK, OneCharge
<1>5. /\ replay' \in [Workflows -> Replaying \cup {"none", "ok", "fail"}]
      /\ replay'[w] = "captured"
      /\ \A u \in Workflows \ {w} : replay'[u] = replay[u]
    BY <1>1 DEF Capture, PayTypeOK, Replaying
<1>6. PayTypeOK' /\ OthersKept(w)
    BY <1>1, <1>3, <1>4, <1>5 DEF PayTypeOK, OthersKept, FlowsOf
<1>7. /\ charges'[f] = 1 /\ paid'[f] = 1
      /\ \A g \in FlowsOf(w) \ {f} : charges'[g] = 0 /\ paid'[g] = 0
    BY <1>1, <1>2, <1>4, FlowsAreApart DEF OneCharge
<1>8. f' = f /\ ~IsWorking(w)'
    BY <1>1, <1>2 DEF IsWorking
<1> HIDE DEF f
<1>9. OneCharge(w, f, 1)' /\ \A g : g = f => OneCharge(w, g, 1)'
    BY <1>3, <1>7, <1>8 DEF OneCharge
<1>10. MoneyOK(w)'
    BY <1>3, <1>9 DEF MoneyOK, FlowsOf
<1>11. HandlerOK(w)'
    BY <1>1, <1>2, <1>8
       DEF PayOK, HandlerOK, IsWorking, Working, BeforeCharge, BeforePayment, AfterPayment, FlowsOf
<1>12. CallOK(w)'
    BY <1>1, <1>8 DEF PayOK, CallOK
<1>13. ReplyOK(w)'
    BY <1>1, <1>2 DEF ReplyOK
<1>14. WorkflowOK(w)'
    <2>1. wf[w].outcome # "succeeded"
        BY <1>1, <1>2, OneChargeOnly DEF PayOK, WorkflowOK
    <2> QED
        BY <1>1, <1>2, <2>1 DEF PayOK, WorkflowOK
<1>15. ReplayOK(w)'
    <2>1. OneCharge(w, wf[w].flow, 1)'
        BY <1>9 DEF f
    <2> QED
        BY <1>1, <1>2, <1>5, <1>8, <2>1 DEF ReplayOK
<1> QED
    BY <1>6, <1>10, <1>11, <1>12, <1>13, <1>14, <1>15, OneWorkflow DEF PayOK

LEMMA AppPays ==
    ASSUME PayInv, NEW w \in Workflows, ReplayStep(w)
    PROVE  PayInv'
<1>1. CASE PaymentDetail(w)
    BY <1>1, AppAdvances DEF PaymentDetail, Replaying
<1>2. CASE PaymentOrder(w)
    BY <1>2, AppAdvances DEF PaymentOrder, Replaying
<1>3. CASE Captured(w)
    BY <1>3, AppAdvances DEF Captured, Replaying
<1>4. CASE ReplayFails(w)
    BY <1>4, AppAdvances DEF ReplayFails, Replaying
<1>5. CASE Capture(w)
    BY <1>5, CapturePays
<1> QED
    BY <1>1, <1>2, <1>3, <1>4, <1>5 DEF ReplayStep

-----------------------------------------------------------------------------
(* The workflows: they end, wait for something other than a handler, or call one. *)

LEMMA WorkflowEnds ==
    ASSUME PayInv, NEW w \in Workflows, NEW outcome \in {"succeeded", "failed"}, End(w, outcome),
           UNCHANGED <<handler, replay, state, charges, paid>>,
           outcome = "succeeded" => OneCharge(w, wf[w].flow, 1)
    PROVE  PayInv'
<1> DEFINE o == IF wf[w].outcome # "running" THEN wf[w].outcome ELSE outcome
<1>1. PayTypeOK /\ PayOK(w)
    BY DEF PayInv
<1>2. WorkflowMoves(w, "ended", o, wf[w].flow)
    BY <1>1, EndMoves DEF PayTypeOK
<1>3. o = "succeeded" => OneCharge(w, wf[w].flow, 1)
    BY <1>1 DEF PayOK, WorkflowOK
<1> HIDE DEF o
<1>4. PayTypeOK' /\ OthersKept(w)
    BY <1>1, <1>2 DEF PayTypeOK, WorkflowMoves, OthersKept
<1>5. /\ NoMoney(w)' <=> NoMoney(w)
      /\ MoneyOK(w)' <=> MoneyOK(w)
      /\ \A f, n : OneCharge(w, f, n)' <=> OneCharge(w, f, n)
    BY MoneyKept
<1>6. IsWorking(w)' <=> IsWorking(w)
    BY DEF IsWorking
<1>7. /\ wf'[w].pc = "ended" /\ wf'[w].outcome = o /\ wf'[w].flow = wf[w].flow
      /\ "ended" \notin Waiting
    BY <1>2 DEF WorkflowMoves, Waiting
<1>8. HandlerOK(w)'
    BY <1>1, <1>5, <1>6 DEF PayOK, HandlerOK
<1>9. CallOK(w)' /\ ReplyOK(w)'
    BY <1>7 DEF CallOK, ReplyOK
<1>10. WorkflowOK(w)'
    <2>1. \A f : f = wf[w].flow /\ OneCharge(w, f, 1) => OneCharge(w, f, 1)'
        BY <1>5
    <2>2. o = "succeeded" => OneCharge(w, wf[w].flow, 1)'
        BY <1>3, <1>7, <2>1 DEF OneCharge
    <2> QED
        BY <1>1, <1>7, <2>2 DEF PayOK, WorkflowOK
<1>11. ReplayOK(w)'
    <2>1. \A f, n : f = wf[w].flow /\ OneCharge(w, f, n) => OneCharge(w, f, n)'
        BY <1>5
    <2>2. \A n : OneCharge(w, wf[w].flow, n) => OneCharge(w, wf[w].flow, n)'
        BY <1>7, <2>1 DEF OneCharge
    <2> QED
        BY <1>1, <1>6, <1>7, <2>2 DEF PayOK, ReplayOK
<1> QED
    BY <1>1, <1>4, <1>5, <1>8, <1>9, <1>10, <1>11, OneWorkflow DEF PayOK

\* It waits for something else: a code, a PIN, the app.
LEMMA WorkflowGoesOn ==
    ASSUME PayInv, NEW w \in Workflows, NEW f \in {Prepared(w), Fresh(w)},
           NEW pc \in {"probed", "prepared", "startWait", "otp", "completeWait", "replay"},
           WorkflowMoves(w, pc, wf[w].outcome, f), ~IsWorking(w),
           UNCHANGED <<handler, replay, state, charges, paid>>,
           wf[w].pc \notin {"replaying", "confirm", "tier", "ended"},
           pc \in {"probed", "prepared", "startWait"} => NoMoney(w),
           pc = "otp" => state[f].otp,
           pc \in {"otp", "completeWait"} => StartedOK(w, f),
           pc = "replay" => OneCharge(w, f, 0)
    PROVE  PayInv'
<1>1. PayTypeOK /\ PayOK(w)
    BY DEF PayInv
<1>2. PayTypeOK' /\ OthersKept(w)
    BY <1>1 DEF PayTypeOK, WorkflowMoves, OthersKept
<1>3. /\ NoMoney(w)' <=> NoMoney(w)
      /\ MoneyOK(w)' <=> MoneyOK(w)
      /\ OneCharge(w, f, 0)' <=> OneCharge(w, f, 0)
    <2>1. /\ NoMoney(w)' <=> NoMoney(w)
          /\ MoneyOK(w)' <=> MoneyOK(w)
          /\ \A g, n : OneCharge(w, g, n)' <=> OneCharge(w, g, n)
        BY MoneyKept
    <2> QED
        BY <2>1
<1>4. ~IsWorking(w)' /\ pc \notin Waiting
    BY DEF IsWorking, Waiting
<1>5. /\ wf'[w].pc = pc /\ wf'[w].flow = f /\ wf'[w].outcome = wf[w].outcome
      /\ wf[w].outcome # "succeeded"
    BY <1>1 DEF WorkflowMoves, PayOK, WorkflowOK
<1>6. replay[w] = "none"
    BY <1>1 DEF PayOK, ReplayOK
<1>7. HandlerOK(w)'
    BY <1>1, <1>3, <1>4, MoneyKept DEF PayOK, HandlerOK
<1>8. CallOK(w)'
    BY <1>4, <1>5 DEF CallOK, Waiting
<1>9. ReplyOK(w)'
    BY <1>5 DEF ReplyOK
<1>10. WorkflowOK(w)'
    <2>1. pc = "otp" => NoMoney(w)
        BY DEF StartedOK
    <2>2. pc = "completeWait" => StartedOK(w, f)'
        BY <1>3 DEF StartedOK
    <2>3. OneCharge(w, wf[w].flow, 0)' <=> OneCharge(w, f, 0)
        BY <1>3, <1>5 DEF OneCharge
    <2>4. StartedOK(w, wf[w].flow)' <=> StartedOK(w, f)'
        BY <1>5 DEF StartedOK, OneCharge
    <2> QED
        BY <1>3, <1>5, <2>1, <2>2, <2>3, <2>4 DEF WorkflowOK
<1>11. ReplayOK(w)'
    BY <1>6 DEF ReplayOK, Replaying
<1> QED
    BY <1>1, <1>2, <1>3, <1>7, <1>8, <1>9, <1>10, <1>11, OneWorkflow DEF PayOK

\* It calls a handler, which finds the money as its first step needs it.
LEMMA WorkflowCalls ==
    ASSUME PayInv, NEW w \in Workflows, NEW pc \in Waiting, NEW f \in FlowsOf(w),
           NEW step, NEW answer,
           WorkflowMoves(w, pc, wf[w].outcome, wf[w].flow),
           HandlerCalled(w, RpcOf(pc), step, f, answer),
           UNCHANGED <<replay, state, charges, paid>>,
           wf[w].pc # "ended", replay[w] \notin Replaying,
           replay[w] # "none" => pc \in {"confirm", "tier"},
           step \in StepsOf(RpcOf(pc)) \cup {"replied"},
           pc \notin {"probe", "tier"} => f # Probe(w),
           pc \in {"resend", "complete", "confirm"} => f = wf[w].flow,
           step \in BeforeCharge => NoMoney(w),
           step \in BeforePayment => OneCharge(w, f, 0),
           step \in AfterPayment => OneCharge(w, f, 1),
           pc \in {"probe", "prepare"} => NoMoney(w),
           pc = "resend" => state[f].otp /\ NoMoney(w),
           pc = "tier" => OneCharge(w, wf[w].flow, 1),
           step = "replied" =>
               \/ answer = "missing" /\ (pc = "start" => NoMoney(w))
               \/ answer = "manual" /\ pc = "complete" /\ OneCharge(w, f, 0)
    PROVE  PayInv'
<1>1. PayTypeOK /\ PayOK(w)
    BY DEF PayInv
<1>2. PayTypeOK' /\ OthersKept(w)
    BY <1>1 DEF PayTypeOK, WorkflowMoves, HandlerCalled, OthersKept
<1>3. /\ NoMoney(w)' <=> NoMoney(w)
      /\ MoneyOK(w)' <=> MoneyOK(w)
      /\ \A g, n : OneCharge(w, g, n)' <=> OneCharge(w, g, n)
    BY MoneyKept
<1>4. /\ wf'[w].pc = pc /\ wf'[w].flow = wf[w].flow /\ wf'[w].outcome = wf[w].outcome
      /\ wf[w].outcome # "succeeded" /\ wf[w].flow \in {Prepared(w), Fresh(w)}
    BY <1>1 DEF WorkflowMoves, PayOK, WorkflowOK
<1>5. /\ handler'[w].rpc = RpcOf(pc) /\ handler'[w].flow = f /\ handler'[w].step = step
      /\ handler'[w].reply = answer
    BY DEF HandlerCalled
<1>6. \A n : OneCharge(w, f, n) => OneCharge(w, handler[w].flow, n)'
    <2>1. \A g, n : g = f /\ OneCharge(w, g, n) => OneCharge(w, g, n)'
        BY <1>3
    <2> QED
        BY <1>5, <2>1 DEF OneCharge
<1>7. \A n : OneCharge(w, wf[w].flow, n) => OneCharge(w, wf[w].flow, n)'
    <2>1. \A g, n : g = wf[w].flow /\ OneCharge(w, g, n) => OneCharge(w, g, n)'
        BY <1>3
    <2> QED
        BY <1>4, <2>1 DEF OneCharge
<1>8. IsWorking(w)' => step \in StepsOf(RpcOf(pc)) /\ step # "replied"
    BY <1>5 DEF IsWorking, Working
<1>9. HandlerOK(w)'
    <2>1. RpcOf(pc) \notin {"none", "ProbePlusTrial", "ProbeTier"} => f # Probe(w)
        BY DEF RpcOf, Waiting
    <2>2. f \in FlowsOf(w)'
        BY DEF FlowsOf
    <2> QED
        BY <1>3, <1>5, <1>6, <1>8, <2>1, <2>2 DEF HandlerOK, FlowsOf
<1>10. CallOK(w)'
    BY <1>4, <1>5 DEF CallOK
<1>11. ReplyOK(w)'
    <2>1. step = "replied" => answer \in {"missing", "manual"}
        OBVIOUS
    <2>2. step = "replied" /\ answer = "missing" /\ pc = "start" => NoMoney(w)'
        BY <1>3
    <2>3. step = "replied" /\ answer = "manual" /\ pc = "complete" => OneCharge(w, handler[w].flow, 0)'
        BY <1>6
    <2> QED
        BY <1>4, <1>5, <2>1, <2>2, <2>3 DEF ReplyOK
<1>12. WorkflowOK(w)'
    <2>1. pc = "resend" => state[wf[w].flow].otp
        OBVIOUS
    <2>2. pc \in {"probe", "prepare", "resend"} => NoMoney(w)
        OBVIOUS
    <2>3. pc \notin {"idle", "probed", "prepared", "startWait", "otp", "completeWait", "replay"}
        BY DEF Waiting
    <2> QED
        BY <1>3, <1>4, <1>7, <2>1, <2>2, <2>3 DEF WorkflowOK
<1>13. ReplayOK(w)'
    <2>1. replay'[w] = replay[w]
        OBVIOUS
    <2>2. replay[w] \in {"captured", "ok"} => OneCharge(w, wf[w].flow, 1)
        BY <1>1 DEF PayOK, ReplayOK
    <2>3. replay[w] \notin {"detail", "order", "capture"}
        BY DEF Replaying
    <2> QED
        BY <1>4, <1>7, <2>1, <2>2, <2>3 DEF ReplayOK
<1> QED
    BY <1>1, <1>2, <1>3, <1>9, <1>10, <1>11, <1>12, <1>13, OneWorkflow DEF PayOK

\* A call that looks its flow up.
LEMMA StoredCalls ==
    ASSUME handler \in [Workflows -> Handler], NEW w \in Workflows, NEW rpc \in Rpcs,
           NEW f \in FlowIds, NEW step \in Working, CallStored(w, rpc, f, step)
    PROVE  HandlerCalled(w, rpc, step, f, "none") \/ HandlerCalled(w, rpc, "replied", f, "missing")
<1>1. Called(w, rpc, step, f, "none") \/ Called(w, rpc, "replied", f, "missing")
    BY DEF CallStored
<1> QED
    BY <1>1, CalledMoves DEF Steps, Replies

\* What holds at the points where a workflow decides.
LEMMA Deciding ==
    ASSUME PayInv, NEW w \in Workflows
    PROVE  /\ wf \in [Workflows -> Workflow] /\ handler \in [Workflows -> Handler]
           /\ wf[w].flow \in {Prepared(w), Fresh(w)}
           /\ FlowsOf(w) \subseteq FlowIds
           /\ {Probe(w), Prepared(w), Fresh(w)} = FlowsOf(w)
           /\ Prepared(w) # Probe(w) /\ Fresh(w) # Probe(w)
           /\ wf[w].pc \notin Waiting \cup {"ended"} => ~IsWorking(w)
           /\ wf[w].pc \notin {"replaying", "confirm", "tier", "ended"} => replay[w] = "none"
           /\ wf[w].pc \in {"idle", "probe", "probed", "prepare", "prepared", "startWait",
                            "otp", "resend"} => NoMoney(w)
           /\ \A pc, answer : Answered(w, pc, answer) =>
                 /\ wf[w].pc = pc /\ ~IsWorking(w)
                 /\ handler[w].step = "replied" /\ handler[w].reply = answer
           /\ ReplyOK(w) /\ CallOK(w) /\ WorkflowOK(w) /\ ReplayOK(w) /\ HandlerOK(w)
<1>1. PayTypeOK /\ PayOK(w)
    BY DEF PayInv
<1>2. \A pc, answer : Answered(w, pc, answer) =>
          /\ wf[w].pc = pc /\ ~IsWorking(w)
          /\ handler[w].step = "replied" /\ handler[w].reply = answer
    BY DEF Answered, At, IsWorking, Working
<1>3. FlowsOf(w) \subseteq FlowIds /\ Prepared(w) # Probe(w) /\ Fresh(w) # Probe(w)
    BY FlowsAreApart
<1>4. /\ wf[w].pc \notin Waiting \cup {"ended"} => ~IsWorking(w)
      /\ wf[w].pc \notin {"replaying", "confirm", "tier", "ended"} => replay[w] = "none"
      /\ wf[w].flow \in {Prepared(w), Fresh(w)}
      /\ wf[w].pc \in {"idle", "probe", "probed", "prepare", "prepared", "startWait",
                       "otp", "resend"} => NoMoney(w)
    BY <1>1 DEF PayOK, CallOK, ReplayOK, WorkflowOK
<1> QED
    BY <1>1, <1>2, <1>3, <1>4 DEF PayTypeOK, PayOK, FlowsOf

LEMMA RpcsOf ==
    /\ RpcOf("probe") = "ProbePlusTrial" /\ RpcOf("prepare") = "PrepareGoPay"
    /\ RpcOf("start") = "StartPreparedGoPay" /\ RpcOf("fresh") = "StartGoPay"
    /\ RpcOf("resend") = "ResendGoPayOTP" /\ RpcOf("complete") = "CompleteGoPay"
    /\ RpcOf("confirm") = "ConfirmGoPayPayment" /\ RpcOf("tier") = "ProbeTier"
BY DEF RpcOf

\* Where a step is: before the charge, before the payment, after it.
LEMMA Sides ==
    /\ {"checkout", "loading", "otp"} \subseteq BeforeCharge
    /\ {"session", "tier", "resending", "replied", "settling", "settled"} \cap BeforeCharge = {}
    /\ "settling" \in BeforePayment
    /\ {"session", "tier", "resending", "replied", "settled", "checkout", "loading", "otp"}
           \cap BeforePayment = {}
    /\ "settled" \in AfterPayment
    /\ {"session", "tier", "resending", "replied", "settling", "checkout", "loading", "otp"}
           \cap AfterPayment = {}
BY DEF BeforeCharge, BeforePayment, AfterPayment

\* A new StartGoPay, for a workflow that has charged nothing.
LEMMA FreshStarts ==
    ASSUME PayInv, NEW w \in Workflows, Move(w, "fresh"), StartGoPay(w),
           UNCHANGED <<replay, state, charges, paid>>, NoMoney(w),
           wf[w].pc \notin {"replaying", "confirm", "tier", "ended"}
    PROVE  PayInv'
<1>1. WorkflowMoves(w, "fresh", wf[w].outcome, wf[w].flow)
    BY Deciding, MoveMoves DEF Pcs, Waiting
<1>2. Fresh(w) \in FlowsOf(w) /\ Fresh(w) # Probe(w) /\ Fresh(w) \in FlowIds
    BY Deciding
<1>3. HandlerCalled(w, "StartGoPay", "checkout", Fresh(w), "none")
    BY <1>2, Deciding, CalledMoves DEF StartGoPay, CallNew, Rpcs, Steps, Working, Replies
<1>4. "checkout" \in StepsOf("StartGoPay") /\ "fresh" \in Waiting /\ "checkout" # "replied"
    BY DEF StepsOf, Preparing, Waiting
<1>5. replay[w] = "none" /\ "none" \notin Replaying
    BY Deciding DEF Replaying
<1> QED
    BY <1>1, <1>2, <1>3, <1>4, <1>5, RpcsOf, Sides, WorkflowCalls

LEMMA BeginPays ==
    ASSUME PayInv, NEW w \in Workflows, Begin(w)
    PROVE  PayInv'
<1>1. /\ wf[w].pc = "idle" /\ ~IsWorking(w) /\ replay[w] = "none" /\ NoMoney(w)
      /\ UNCHANGED <<replay, state, charges, paid>>
      /\ wf \in [Workflows -> Workflow] /\ wf[w] \in Workflow
    BY Deciding DEF Begin, Waiting
<1>2. PICK k \in {"activate", "autopay", "gopay"}, t \in BOOLEAN :
          \/ /\ wf' = [wf EXCEPT ![w].pc = "probe", ![w].kind = k, ![w].tokenization = t]
             /\ ProbePlusTrial(w)
          \/ /\ wf' = [wf EXCEPT ![w].pc = "probed", ![w].tokenization = t]
             /\ UNCHANGED <<handler, charger, store>>
    BY DEF Begin
<1>3. CASE /\ wf' = [wf EXCEPT ![w].pc = "probe", ![w].kind = k, ![w].tokenization = t]
           /\ ProbePlusTrial(w)
    <2> DEFINE v == [wf[w] EXCEPT !.pc = "probe", !.kind = k, !.tokenization = t]
    <2>1. v \in Workflow /\ v.pc = "probe" /\ v.outcome = wf[w].outcome /\ v.flow = wf[w].flow
        BY <1>1 DEF Workflow, Waiting
    <2>2. wf' = [wf EXCEPT ![w] = v]
        BY <1>3
    <2> HIDE DEF v
    <2>3. WorkflowMoves(w, "probe", wf[w].outcome, wf[w].flow)
        BY <1>1, <2>1, <2>2 DEF WorkflowMoves
    <2>4. Probe(w) \in FlowsOf(w) /\ Probe(w) \in FlowIds
        BY Deciding
    <2>5. HandlerCalled(w, "ProbePlusTrial", "session", Probe(w), "none")
        BY <1>3, <2>4, Deciding, CalledMoves
           DEF ProbePlusTrial, Rpcs, Steps, Working, Replies
    <2>6. "session" \in StepsOf("ProbePlusTrial") /\ "probe" \in Waiting
        BY DEF StepsOf, Waiting
    <2>7. replay[w] \notin Replaying /\ "session" # "replied"
        BY <1>1 DEF Replaying
    <2> QED
        BY <1>1, <2>3, <2>4, <2>5, <2>6, <2>7, RpcsOf, Sides, WorkflowCalls
<1>4. CASE /\ wf' = [wf EXCEPT ![w].pc = "probed", ![w].tokenization = t]
           /\ UNCHANGED <<handler, charger, store>>
    <2> DEFINE v == [wf[w] EXCEPT !.pc = "probed", !.tokenization = t]
    <2>1. v \in Workflow /\ v.pc = "probed" /\ v.outcome = wf[w].outcome /\ v.flow = wf[w].flow
        BY <1>1 DEF Workflow
    <2>2. wf' = [wf EXCEPT ![w] = v]
        BY <1>4
    <2> HIDE DEF v
    <2>3. WorkflowMoves(w, "probed", wf[w].outcome, wf[w].flow)
        BY <1>1, <2>1, <2>2 DEF WorkflowMoves
    <2>4. wf[w].flow \in {Prepared(w), Fresh(w)}
        BY Deciding
    <2> QED
        BY <1>1, <1>4, <2>3, <2>4, WorkflowGoesOn
<1> QED
    BY <1>2, <1>3, <1>4

\* To a point where it waits for no handler, with its flow as it was.
LEMMA Moves ==
    ASSUME PayInv, NEW w \in Workflows,
           NEW pc \in {"probed", "prepared", "startWait", "otp", "completeWait", "replay"},
           Move(w, pc), ~IsWorking(w),
           UNCHANGED <<handler, replay, state, charges, paid>>,
           wf[w].pc \notin {"replaying", "confirm", "tier", "ended"},
           pc \in {"probed", "prepared", "startWait"} => NoMoney(w),
           pc = "otp" => state[wf[w].flow].otp,
           pc \in {"otp", "completeWait"} => StartedOK(w, wf[w].flow),
           pc = "replay" => OneCharge(w, wf[w].flow, 0)
    PROVE  PayInv'
<1>1. pc \in Pcs
    BY DEF Pcs
<1>2. WorkflowMoves(w, pc, wf[w].outcome, wf[w].flow)
    BY <1>1, Deciding, MoveMoves
<1>3. wf[w].flow \in {Prepared(w), Fresh(w)}
    BY Deciding
<1> QED
    BY <1>2, <1>3, WorkflowGoesOn

LEMMA ProbeReturnsPays ==
    ASSUME PayInv, NEW w \in Workflows, ProbeReturns(w)
    PROVE  PayInv'
<1>1. /\ wf[w].pc = "probe" /\ ~IsWorking(w)
      /\ UNCHANGED <<replay, handler, state, charges, paid>>
    BY Deciding DEF ProbeReturns
<1>2. End(w, "failed") \/ Move(w, "probed")
    BY DEF ProbeReturns
<1>3. NoMoney(w)
    BY <1>1, Deciding
<1> QED
    BY <1>1, <1>2, <1>3, WorkflowEnds, Moves

LEMMA PreparePays ==
    ASSUME PayInv, NEW w \in Workflows, Prepare(w)
    PROVE  PayInv'
<1>1. /\ wf[w].pc = "probed" /\ ~IsWorking(w) /\ NoMoney(w) /\ replay[w] = "none"
      /\ UNCHANGED <<replay, state, charges, paid>>
    BY Deciding DEF Prepare, Waiting
<1>2. CASE Move(w, "prepare") /\ PrepareGoPay(w)
    <2>1. WorkflowMoves(w, "prepare", wf[w].outcome, wf[w].flow)
        BY <1>2, Deciding, MoveMoves DEF Pcs, Waiting
    <2>2. Prepared(w) \in FlowsOf(w) /\ Prepared(w) # Probe(w) /\ Prepared(w) \in FlowIds
        BY Deciding
    <2>3. HandlerCalled(w, "PrepareGoPay", "checkout", Prepared(w), "none")
        BY <1>2, <2>2, Deciding, CalledMoves
           DEF PrepareGoPay, CallNew, Rpcs, Steps, Working, Replies
    <2>4. "checkout" \in StepsOf("PrepareGoPay") /\ "prepare" \in Waiting
        BY DEF StepsOf, Preparing, Waiting
    <2>5. replay[w] \notin Replaying /\ "checkout" # "replied"
        BY <1>1 DEF Replaying
    <2> QED
        BY <1>1, <2>1, <2>2, <2>3, <2>4, <2>5, RpcsOf, Sides, WorkflowCalls
<1>3. CASE (Move(w, "startWait") \/ End(w, "failed")) /\ UNCHANGED handler
    BY <1>1, <1>3, WorkflowEnds, Moves
<1> QED
    BY <1>2, <1>3 DEF Prepare

LEMMA PrepareReturnsPays ==
    ASSUME PayInv, NEW w \in Workflows, PrepareReturns(w)
    PROVE  PayInv'
<1>1. /\ wf[w].pc = "prepare" /\ ~IsWorking(w)
      /\ UNCHANGED <<replay, handler, state, charges, paid>>
    BY Deciding DEF PrepareReturns
<1>2. NoMoney(w) /\ wf \in [Workflows -> Workflow] /\ Prepared(w) \in FlowIds
    BY <1>1, Deciding
<1>3. CASE End(w, "failed")
    BY <1>1, <1>3, WorkflowEnds
<1>4. CASE wf' = [wf EXCEPT ![w].pc = "prepared", ![w].flow = Prepared(w)]
    <2> DEFINE v == [wf[w] EXCEPT !.pc = "prepared", !.flow = Prepared(w)]
    <2>1. v \in Workflow /\ v.pc = "prepared" /\ v.outcome = wf[w].outcome /\ v.flow = Prepared(w)
        BY <1>2 DEF Workflow
    <2>2. wf' = [wf EXCEPT ![w] = v]
        BY <1>4
    <2> HIDE DEF v
    <2>3. WorkflowMoves(w, "prepared", wf[w].outcome, Prepared(w))
        BY <1>2, <2>1, <2>2 DEF WorkflowMoves
    <2> QED
        BY <1>1, <1>2, <2>3, WorkflowGoesOn
<1> QED
    BY <1>3, <1>4 DEF PrepareReturns

LEMMA CreatePinPays ==
    ASSUME PayInv, NEW w \in Workflows, CreatePin(w)
    PROVE  PayInv'
<1>1. /\ wf[w].pc = "prepared" /\ ~IsWorking(w) /\ NoMoney(w)
      /\ UNCHANGED <<replay, handler, state, charges, paid>>
    BY Deciding DEF CreatePin, Waiting
<1> QED
    BY <1>1, WorkflowEnds, Moves DEF CreatePin

LEMMA StartActivityPays ==
    ASSUME PayInv, NEW w \in Workflows, StartActivity(w)
    PROVE  PayInv'
<1>1. /\ wf[w].pc = "startWait" /\ ~IsWorking(w) /\ NoMoney(w) /\ replay[w] = "none"
      /\ UNCHANGED <<replay, state, charges, paid>>
    BY Deciding DEF StartActivity, Waiting
<1>2. CASE Move(w, "start") /\ StartPreparedGoPay(w)
    <2>1. WorkflowMoves(w, "start", wf[w].outcome, wf[w].flow)
        BY <1>2, Deciding, MoveMoves DEF Pcs, Waiting
    <2>2. Prepared(w) \in FlowsOf(w) /\ Prepared(w) # Probe(w) /\ Prepared(w) \in FlowIds
        BY Deciding
    <2>3. \/ HandlerCalled(w, "StartPreparedGoPay", "loading", Prepared(w), "none")
          \/ HandlerCalled(w, "StartPreparedGoPay", "replied", Prepared(w), "missing")
        BY <1>2, <2>2, Deciding, StoredCalls DEF StartPreparedGoPay, Rpcs, Working
    <2>4. "loading" \in StepsOf("StartPreparedGoPay") /\ "start" \in Waiting
        BY DEF StepsOf, Starting, Waiting
    <2>5. replay[w] \notin Replaying /\ "loading" # "replied"
        BY <1>1 DEF Replaying
    <2>6. CASE HandlerCalled(w, "StartPreparedGoPay", "loading", Prepared(w), "none")
        BY <1>1, <2>1, <2>2, <2>4, <2>5, <2>6, RpcsOf, Sides, WorkflowCalls
    <2>7. CASE HandlerCalled(w, "StartPreparedGoPay", "replied", Prepared(w), "missing")
        BY <1>1, <2>1, <2>2, <2>4, <2>5, <2>7, RpcsOf, Sides, WorkflowCalls
    <2> QED
        BY <2>3, <2>6, <2>7
<1>3. CASE Move(w, "fresh") /\ StartGoPay(w)
    BY <1>1, <1>3, FreshStarts
<1>4. CASE StartFailed(w, {}) /\ UNCHANGED handler
    BY <1>1, <1>4, WorkflowEnds DEF StartFailed
<1> QED
    BY <1>2, <1>3, <1>4 DEF StartActivity

LEMMA StartReturnsPays ==
    ASSUME PayInv, NEW w \in Workflows, StartReturns(w)
    PROVE  PayInv'
<1>1. UNCHANGED <<replay, state, charges, paid>>
    BY DEF StartReturns
<1>2. CASE Answered(w, "start", "missing") /\ Move(w, "fresh") /\ StartGoPay(w)
    <2>1. NoMoney(w) /\ wf[w].pc = "start"
        BY <1>2, Deciding DEF ReplyOK
    <2> QED
        BY <1>1, <1>2, <2>1, FreshStarts
<1>3. CASE /\ \E pc \in {"start", "fresh"} : Answered(w, pc, "ok")
           /\ LET f == handler[w].flow IN
              wf' = [wf EXCEPT ![w].flow = f, ![w].otp = state[f].otp,
                               ![w].pc = IF Abandoned(w) THEN "ended"
                                         ELSE IF state[f].otp THEN "otp" ELSE "completeWait"]
           /\ UNCHANGED handler
    <2> DEFINE f == handler[w].flow
    <2>1. /\ wf[w].pc \in {"start", "fresh"} /\ ~IsWorking(w) /\ StartedOK(w, f)
          /\ wf \in [Workflows -> Workflow] /\ replay[w] = "none"
        BY <1>3, Deciding DEF ReplyOK
    <2>2. f \in {Prepared(w), Fresh(w)} /\ f \in FlowIds
        <3>1. handler[w].rpc \in {"StartPreparedGoPay", "StartGoPay"}
            BY <2>1, Deciding, RpcsOf DEF CallOK, Waiting
        <3> QED
            BY <3>1, Deciding, FlowsAreApart DEF HandlerOK, FlowsOf
    <2>3. state[f] \in FlowState /\ state[f].otp \in BOOLEAN
        BY <2>2 DEF PayInv, PayTypeOK, FlowState
    <2> DEFINE otp == state[f].otp
    <2>4. CASE ~Abandoned(w)
        <3> DEFINE pc == IF otp THEN "otp" ELSE "completeWait"
                   v == [wf[w] EXCEPT !.flow = f, !.otp = otp, !.pc = pc]
        <3>1. pc \in {"otp", "completeWait"} /\ (pc = "otp" => state[f].otp)
            OBVIOUS
        <3>2. wf' = [wf EXCEPT ![w] = v]
            BY <1>3, <2>4
        <3> HIDE DEF pc, f, otp
        <3>3. otp \in BOOLEAN
            BY <2>3 DEF otp
        <3>4. v \in Workflow /\ v.pc = pc /\ v.outcome = wf[w].outcome /\ v.flow = f
            BY <2>1, <2>2, <3>1, <3>3 DEF Workflow
        <3> HIDE DEF v
        <3>5. WorkflowMoves(w, pc, wf[w].outcome, f)
            BY <2>1, <3>2, <3>4 DEF WorkflowMoves
        <3> QED
            BY <1>1, <1>3, <2>1, <2>2, <3>1, <3>5, WorkflowGoesOn
    <2>5. CASE Abandoned(w)
        \* The activity ends; its workflow has ended already.
        <3> DEFINE v == [wf[w] EXCEPT !.flow = f, !.otp = otp, !.pc = "ended"]
        <3>1. wf' = [wf EXCEPT ![w] = v]
            BY <1>3, <2>5
        <3> HIDE DEF f, otp
        <3>2. otp \in BOOLEAN
            BY <2>3 DEF otp
        <3>3. /\ v \in Workflow /\ v.pc = "ended" /\ v.outcome = wf[w].outcome /\ v.flow = f
            BY <2>1, <2>2, <3>2 DEF Workflow
        <3> HIDE DEF v
        <3>4. /\ wf' \in [Workflows -> Workflow] /\ wf'[w] = v
              /\ \A u \in Workflows \ {w} : wf'[u] = wf[u]
            BY <2>1, <3>1, <3>3
        <3>5. PayTypeOK' /\ OthersKept(w)
            BY <1>1, <1>3, <3>4 DEF PayInv, PayTypeOK, OthersKept
        <3>6. /\ MoneyOK(w)' <=> MoneyOK(w)
              /\ NoMoney(w)' <=> NoMoney(w)
              /\ \A g, n : OneCharge(w, g, n)' <=> OneCharge(w, g, n)
            BY <1>1, MoneyKept
        <3>7. HandlerOK(w)'
            BY <1>3, <3>6, Deciding DEF HandlerOK, IsWorking
        <3>8. CallOK(w)' /\ ReplyOK(w)'
            BY <3>3, <3>4 DEF CallOK, ReplyOK, Waiting
        <3>9. WorkflowOK(w)'
            BY <2>1, <2>2, <3>3, <3>4, Deciding DEF WorkflowOK
        <3>10. ReplayOK(w)'
            BY <1>1, <2>1 DEF ReplayOK, Replaying
        <3>11. MoneyOK(w)
            BY DEF PayInv, PayOK
        <3> QED
            BY <3>5, <3>6, <3>7, <3>8, <3>9, <3>10, <3>11, OneWorkflow DEF PayOK
    <2> QED
        BY <2>4, <2>5
<1>4. CASE StartFailed(w, {}) /\ UNCHANGED handler
    BY <1>1, <1>4, WorkflowEnds DEF StartFailed
<1> QED
    BY <1>2, <1>3, <1>4 DEF StartReturns

LEMMA WaitOTPPays ==
    ASSUME PayInv, NEW w \in Workflows, WaitOTP(w)
    PROVE  PayInv'
<1> DEFINE f == wf[w].flow
<1>1. /\ wf[w].pc = "otp" /\ ~IsWorking(w) /\ NoMoney(w) /\ replay[w] = "none"
      /\ state[f].otp /\ StartedOK(w, f) /\ wf \in [Workflows -> Workflow]
      /\ UNCHANGED <<replay, state, charges, paid>>
    BY Deciding DEF WaitOTP, Waiting, WorkflowOK, StartedOK
<1>2. CASE Move(w, "completeWait") /\ UNCHANGED handler
    BY <1>1, <1>2, Moves
<1>3. CASE /\ wf' = [wf EXCEPT ![w].pc = "resend", ![w].resent = TRUE]
           /\ ResendGoPayOTP(w, f)
    <2> DEFINE v == [wf[w] EXCEPT !.pc = "resend", !.resent = TRUE]
    <2>0. wf[w] \in Workflow
        BY <1>1
    <2>1. v \in Workflow /\ v.pc = "resend" /\ v.outcome = wf[w].outcome /\ v.flow = f
        BY <2>0 DEF Workflow, Waiting
    <2>2. wf' = [wf EXCEPT ![w] = v]
        BY <1>3
    <2> HIDE DEF v
    <2>3. WorkflowMoves(w, "resend", wf[w].outcome, wf[w].flow)
        BY <1>1, <2>1, <2>2 DEF WorkflowMoves
    <2>4. f \in FlowsOf(w) /\ f # Probe(w) /\ f \in FlowIds
        BY Deciding
    <2>5. \/ HandlerCalled(w, "ResendGoPayOTP", "resending", f, "none")
          \/ HandlerCalled(w, "ResendGoPayOTP", "replied", f, "missing")
        BY <1>3, <2>4, Deciding, StoredCalls DEF ResendGoPayOTP, Rpcs, Working
    <2>6. "resending" \in StepsOf("ResendGoPayOTP") /\ "resend" \in Waiting
        BY DEF StepsOf, Waiting
    <2>7. replay[w] \notin Replaying /\ "resending" # "replied"
        BY <1>1 DEF Replaying
    <2>8. CASE HandlerCalled(w, "ResendGoPayOTP", "resending", f, "none")
        BY <1>1, <2>3, <2>4, <2>6, <2>7, <2>8, RpcsOf, Sides, WorkflowCalls
    <2>9. CASE HandlerCalled(w, "ResendGoPayOTP", "replied", f, "missing")
        BY <1>1, <2>3, <2>4, <2>6, <2>7, <2>9, RpcsOf, Sides, WorkflowCalls
    <2> QED
        BY <2>5, <2>8, <2>9
<1>4. CASE End(w, "failed") /\ UNCHANGED handler
    BY <1>1, <1>4, WorkflowEnds
<1> QED
    BY <1>2, <1>3, <1>4 DEF WaitOTP

LEMMA ResendReturnsPays ==
    ASSUME PayInv, NEW w \in Workflows, ResendReturns(w)
    PROVE  PayInv'
<1>1. /\ wf[w].pc = "resend" /\ ~IsWorking(w)
      /\ UNCHANGED <<replay, handler, state, charges, paid>>
    BY Deciding DEF ResendReturns
<1>2. NoMoney(w) /\ state[wf[w].flow].otp
    BY <1>1, Deciding DEF WorkflowOK
<1>3. StartedOK(w, wf[w].flow)
    BY <1>2 DEF StartedOK
<1>4. End(w, "failed") \/ Move(w, "otp")
    BY DEF ResendReturns
<1> QED
    BY <1>1, <1>2, <1>3, <1>4, WorkflowEnds, Moves

\* CompleteGoPay charges when the flow waits for a code, and only pays when it does not.
LEMMA CompleteActivityPays ==
    ASSUME PayInv, NEW w \in Workflows, CompleteActivity(w)
    PROVE  PayInv'
<1> DEFINE f == wf[w].flow
<1>1. /\ wf[w].pc = "completeWait" /\ ~IsWorking(w) /\ replay[w] = "none" /\ StartedOK(w, f)
      /\ UNCHANGED <<replay, state, charges, paid>>
    BY Deciding DEF CompleteActivity, Waiting, WorkflowOK
<1>2. CASE End(w, "failed") /\ UNCHANGED handler
    BY <1>1, <1>2, WorkflowEnds
<1>3. CASE Move(w, "complete") /\ CompleteGoPay(w, f)
    <2>1. WorkflowMoves(w, "complete", wf[w].outcome, wf[w].flow)
        BY <1>3, Deciding, MoveMoves DEF Pcs, Waiting
    <2>2. f \in FlowsOf(w) /\ f # Probe(w) /\ f \in FlowIds
        BY Deciding
    <2>3. /\ {"otp", "settling"} \subseteq StepsOf("CompleteGoPay")
          /\ {"otp", "settling"} \subseteq Working /\ "complete" \in Waiting
        BY DEF StepsOf, BeforePayment, Waiting, Working
    <2>4. replay[w] \notin Replaying
        BY <1>1 DEF Replaying
    <2>5. CASE Called(w, "CompleteGoPay", "replied", f, "manual") /\ ~state[f].otp
        <3>1. HandlerCalled(w, "CompleteGoPay", "replied", f, "manual")
            BY <2>2, <2>5, Deciding, CalledMoves DEF Rpcs, Steps, Replies
        <3>2. OneCharge(w, f, 0)
            BY <1>1, <2>5 DEF StartedOK
        <3> QED
            BY <1>1, <2>1, <2>2, <2>3, <2>4, <3>1, <3>2, RpcsOf, Sides, WorkflowCalls
    <2>6. CASE CallStored(w, "CompleteGoPay", f, "otp") /\ state[f].otp
        <3>1. \/ HandlerCalled(w, "CompleteGoPay", "otp", f, "none")
              \/ HandlerCalled(w, "CompleteGoPay", "replied", f, "missing")
            BY <2>2, <2>3, <2>6, Deciding, StoredCalls DEF Rpcs
        <3>2. NoMoney(w)
            BY <1>1, <2>6 DEF StartedOK
        <3>3. CASE HandlerCalled(w, "CompleteGoPay", "otp", f, "none")
            BY <1>1, <2>1, <2>2, <2>3, <2>4, <3>2, <3>3, RpcsOf, Sides, WorkflowCalls
        <3>4. CASE HandlerCalled(w, "CompleteGoPay", "replied", f, "missing")
            BY <1>1, <2>1, <2>2, <2>3, <2>4, <3>4, RpcsOf, Sides, WorkflowCalls
        <3> QED
            BY <3>1, <3>3, <3>4
    <2>7. CASE CallStored(w, "CompleteGoPay", f, "settling") /\ ~state[f].otp
        <3>1. \/ HandlerCalled(w, "CompleteGoPay", "settling", f, "none")
              \/ HandlerCalled(w, "CompleteGoPay", "replied", f, "missing")
            BY <2>2, <2>3, <2>7, Deciding, StoredCalls DEF Rpcs
        <3>2. OneCharge(w, f, 0)
            BY <1>1, <2>7 DEF StartedOK
        <3>3. CASE HandlerCalled(w, "CompleteGoPay", "settling", f, "none")
            BY <1>1, <2>1, <2>2, <2>3, <2>4, <3>2, <3>3, RpcsOf, Sides, WorkflowCalls
        <3>4. CASE HandlerCalled(w, "CompleteGoPay", "replied", f, "missing")
            BY <1>1, <2>1, <2>2, <2>3, <2>4, <3>4, RpcsOf, Sides, WorkflowCalls
        <3> QED
            BY <3>1, <3>3, <3>4
    <2> QED
        BY <1>3, <2>5, <2>6, <2>7 DEF CompleteGoPay
<1> QED
    BY <1>2, <1>3 DEF CompleteActivity

LEMMA CompleteReturnsPays ==
    ASSUME PayInv, NEW w \in Workflows, CompleteReturns(w)
    PROVE  PayInv'
<1> DEFINE f == wf[w].flow
<1>1. /\ wf[w].pc \in {"complete", "confirm"} /\ ~IsWorking(w) /\ handler[w].flow = f
      /\ UNCHANGED <<replay, state, charges, paid>>
    BY Deciding DEF CompleteReturns, CallOK
<1>2. CASE \E pc \in {"complete", "confirm"} : Answered(w, pc, "ok")
    <2>1. OneCharge(w, f, 1)
        BY <1>1, <1>2, Deciding DEF ReplyOK
    <2>2. CASE Move(w, "tier") /\ ProbeTier(w)
        <3>1. WorkflowMoves(w, "tier", wf[w].outcome, wf[w].flow)
            BY <2>2, Deciding, MoveMoves DEF Pcs, Waiting
        <3>2. Probe(w) \in FlowsOf(w) /\ Probe(w) \in FlowIds
            BY Deciding
        <3>3. HandlerCalled(w, "ProbeTier", "tier", Probe(w), "none")
            BY <2>2, <3>2, Deciding, CalledMoves DEF ProbeTier, Rpcs, Steps, Working, Replies
        <3>4. "tier" \in StepsOf("ProbeTier") /\ "tier" \in Waiting /\ "tier" # "replied"
            BY DEF StepsOf, Waiting
        <3>5. replay[w] \notin Replaying
            BY <1>1, Deciding DEF ReplayOK
        <3> QED
            BY <1>1, <2>1, <3>1, <3>2, <3>3, <3>4, <3>5, RpcsOf, Sides, WorkflowCalls
    <2>3. CASE UNCHANGED handler /\ \E outcome \in {"succeeded", "failed"} : End(w, outcome)
        BY <1>1, <2>1, <2>3, WorkflowEnds
    <2>4. ~Answered(w, "complete", "manual")
        BY <1>2 DEF Answered
    <2>5. ~\E pc \in {"complete", "confirm"}, answer \in {"fail", "missing"} :
              Answered(w, pc, answer)
        BY <1>2 DEF Answered
    <2> QED
        BY <2>2, <2>3, <2>4, <2>5 DEF CompleteReturns
<1>3. CASE Answered(w, "complete", "manual") /\ Move(w, "replay") /\ UNCHANGED handler
    <2>1. OneCharge(w, f, 0) /\ wf[w].pc = "complete"
        BY <1>1, <1>3, Deciding DEF ReplyOK
    <2> QED
        BY <1>1, <1>3, <2>1, Moves
<1>4. CASE CompleteFailed(w, {}) /\ UNCHANGED handler
    BY <1>1, <1>4, WorkflowEnds DEF CompleteFailed
<1> QED
    BY <1>2, <1>3, <1>4 DEF CompleteReturns

LEMMA TierReturnsPays ==
    ASSUME PayInv, NEW w \in Workflows, TierReturns(w)
    PROVE  PayInv'
<1>1. /\ wf[w].pc = "tier" /\ UNCHANGED <<replay, handler, state, charges, paid>>
    BY Deciding DEF TierReturns
<1>2. OneCharge(w, wf[w].flow, 1)
    BY <1>1, Deciding DEF WorkflowOK
<1>3. End(w, "succeeded") \/ End(w, "failed")
    BY DEF TierReturns
<1> QED
    BY <1>1, <1>2, <1>3, WorkflowEnds

\* The app is called for a charge that is not paid.
LEMMA ReplayPays ==
    ASSUME PayInv, NEW w \in Workflows, Replay(w)
    PROVE  PayInv'
<1>1. /\ wf[w].pc = "replay" /\ ~IsWorking(w) /\ OneCharge(w, wf[w].flow, 0)
      /\ UNCHANGED <<handler, state, charges, paid>>
    BY Deciding DEF Replay, Waiting, WorkflowOK
<1>2. CASE CompleteFailed(w, {}) /\ UNCHANGED replay
    BY <1>1, <1>2, WorkflowEnds DEF CompleteFailed
<1>3. CASE Move(w, "replaying") /\ replay' = [replay EXCEPT ![w] = "detail"]
    <2>1. PayTypeOK /\ PayOK(w)
        BY DEF PayInv
    <2>2. WorkflowMoves(w, "replaying", wf[w].outcome, wf[w].flow)
        BY <1>3, <2>1, MoveMoves DEF PayTypeOK, Pcs
    <2>3. /\ replay' \in [Workflows -> Replaying \cup {"none", "ok", "fail"}]
          /\ replay'[w] = "detail"
          /\ \A u \in Workflows \ {w} : replay'[u] = replay[u]
        BY <1>3, <2>1 DEF PayTypeOK, Replaying
    <2>4. PayTypeOK' /\ OthersKept(w)
        BY <1>1, <2>1, <2>2, <2>3 DEF PayTypeOK, WorkflowMoves, OthersKept
    <2>5. /\ NoMoney(w)' <=> NoMoney(w)
          /\ MoneyOK(w)' <=> MoneyOK(w)
          /\ \A g, n : OneCharge(w, g, n)' <=> OneCharge(w, g, n)
        BY <1>1, MoneyKept
    <2>6. /\ wf'[w].pc = "replaying" /\ wf'[w].flow = wf[w].flow
          /\ wf'[w].outcome = wf[w].outcome /\ ~IsWorking(w)'
        BY <1>1, <2>2 DEF WorkflowMoves, IsWorking
    <2>7. HandlerOK(w)'
        BY <1>1, <2>1, <2>5, <2>6 DEF PayOK, HandlerOK, IsWorking
    <2>8. CallOK(w)' /\ ReplyOK(w)'
        BY <2>6 DEF CallOK, ReplyOK, Waiting
    <2>9. WorkflowOK(w)'
        BY <1>1, <2>1, <2>6 DEF PayOK, WorkflowOK
    <2>10. ReplayOK(w)'
        <3>1. \A g : g = wf[w].flow => OneCharge(w, g, 0)'
            BY <1>1, <2>5
        <3>2. OneCharge(w, wf[w].flow, 0)'
            BY <2>6, <3>1 DEF OneCharge
        <3> QED
            BY <2>3, <2>6, <3>2 DEF ReplayOK
    <2> QED
        BY <2>1, <2>4, <2>5, <2>7, <2>8, <2>9, <2>10, OneWorkflow DEF PayOK
<1> QED
    BY <1>2, <1>3 DEF Replay

LEMMA ReplayReturnsPays ==
    ASSUME PayInv, NEW w \in Workflows, ReplayReturns(w)
    PROVE  PayInv'
<1> DEFINE f == wf[w].flow
<1>1. /\ wf[w].pc = "replaying" /\ ~IsWorking(w)
      /\ UNCHANGED <<replay, state, charges, paid>>
    BY Deciding DEF ReplayReturns, Waiting
<1>2. CASE replay[w] = "fail" /\ CompleteFailed(w, {}) /\ UNCHANGED handler
    BY <1>1, <1>2, WorkflowEnds DEF CompleteFailed
<1>3. CASE replay[w] = "ok" /\ Move(w, "confirm") /\ ConfirmGoPayPayment(w, f)
    <2>1. WorkflowMoves(w, "confirm", wf[w].outcome, wf[w].flow)
        BY <1>3, Deciding, MoveMoves DEF Pcs, Waiting
    <2>2. f \in FlowsOf(w) /\ f # Probe(w) /\ f \in FlowIds
        BY Deciding
    <2>3. OneCharge(w, f, 1) /\ replay[w] \notin Replaying
        BY <1>3, Deciding DEF ReplayOK, Replaying
    <2>4. \/ HandlerCalled(w, "ConfirmGoPayPayment", "settled", f, "none")
          \/ HandlerCalled(w, "ConfirmGoPayPayment", "replied", f, "missing")
        BY <1>3, <2>2, Deciding, StoredCalls DEF ConfirmGoPayPayment, Rpcs, Working
    <2>5. "settled" \in StepsOf("ConfirmGoPayPayment") /\ "confirm" \in Waiting
        BY DEF StepsOf, AfterPayment, Waiting
    <2>6. CASE HandlerCalled(w, "ConfirmGoPayPayment", "settled", f, "none")
        BY <1>1, <2>1, <2>2, <2>3, <2>5, <2>6, RpcsOf, Sides, WorkflowCalls
    <2>7. CASE HandlerCalled(w, "ConfirmGoPayPayment", "replied", f, "missing")
        BY <1>1, <2>1, <2>2, <2>3, <2>5, <2>7, RpcsOf, Sides, WorkflowCalls
    <2> QED
        BY <2>4, <2>6, <2>7
<1> QED
    BY <1>2, <1>3 DEF ReplayReturns

\* The workflow gives up on an activity that goes on.
LEMMA TimeoutPays ==
    ASSUME PayInv, NEW w \in Workflows, ActivityTimesOut(w)
    PROVE  PayInv'
<1> DEFINE v == [wf[w] EXCEPT !.outcome = "failed"]
<1>1. PayTypeOK /\ PayOK(w) /\ UNCHANGED <<replay, handler, state, charges, paid>>
    BY DEF PayInv, ActivityTimesOut
<1>2. v \in Workflow /\ v.pc = wf[w].pc /\ v.outcome = "failed" /\ v.flow = wf[w].flow
    BY <1>1 DEF PayTypeOK, Workflow
<1>3. wf' = [wf EXCEPT ![w] = v]
    BY DEF ActivityTimesOut
<1> HIDE DEF v
<1>4. WorkflowMoves(w, wf[w].pc, "failed", wf[w].flow)
    BY <1>1, <1>2, <1>3 DEF PayTypeOK, WorkflowMoves
<1>5. PayTypeOK' /\ OthersKept(w)
    BY <1>1, <1>4 DEF PayTypeOK, WorkflowMoves, OthersKept
<1>6. /\ NoMoney(w)' <=> NoMoney(w)
      /\ MoneyOK(w)' <=> MoneyOK(w)
      /\ \A g, n : OneCharge(w, g, n)' <=> OneCharge(w, g, n)
    BY <1>1, MoneyKept
<1>7. /\ wf'[w].pc = wf[w].pc /\ wf'[w].flow = wf[w].flow /\ wf'[w].outcome = "failed"
      /\ IsWorking(w)' <=> IsWorking(w)
    BY <1>1, <1>4 DEF WorkflowMoves, IsWorking
<1>8. HandlerOK(w)' /\ CallOK(w)'
    BY <1>1, <1>6, <1>7 DEF PayOK, HandlerOK, CallOK
<1>9. \A n : OneCharge(w, wf[w].flow, n) => OneCharge(w, wf[w].flow, n)'
    <2>1. \A g, n : g = wf[w].flow /\ OneCharge(w, g, n) => OneCharge(w, g, n)'
        BY <1>6
    <2> QED
        BY <1>7, <2>1 DEF OneCharge
<1>10. ReplyOK(w)'
    BY <1>1, <1>6, <1>7 DEF PayOK, ReplyOK, StartedOK
<1>11. WorkflowOK(w)'
    <2>1. StartedOK(w, wf[w].flow) => StartedOK(w, wf[w].flow)'
        BY <1>1, <1>6, <1>7, <1>9 DEF StartedOK
    <2> QED
        BY <1>1, <1>6, <1>7, <1>9, <2>1 DEF PayOK, WorkflowOK
<1>12. ReplayOK(w)'
    BY <1>1, <1>7, <1>9 DEF PayOK, ReplayOK
<1> QED
    BY <1>1, <1>5, <1>6, <1>8, <1>10, <1>11, <1>12, OneWorkflow DEF PayOK

LEMMA WorkflowPays ==
    ASSUME PayInv, NEW w \in Workflows, WorkflowStep(w)
    PROVE  PayInv'
<1>1. CASE ReplyLost(w)
    <2>1. End(w, "failed") /\ UNCHANGED <<replay, handler, state, charges, paid>>
        BY <1>1 DEF ReplyLost, StartFailed, CompleteFailed
    <2> QED
        BY <2>1, WorkflowEnds
<1>2. CASE \/ Begin(w) \/ ProbeReturns(w) \/ Prepare(w) \/ PrepareReturns(w) \/ CreatePin(w)
           \/ StartActivity(w) \/ StartReturns(w)
    BY <1>2, BeginPays, ProbeReturnsPays, PreparePays, PrepareReturnsPays, CreatePinPays,
       StartActivityPays, StartReturnsPays
<1>3. CASE \/ WaitOTP(w) \/ ResendReturns(w) \/ CompleteActivity(w) \/ CompleteReturns(w)
           \/ TierReturns(w) \/ Replay(w) \/ ReplayReturns(w) \/ ActivityTimesOut(w)
    BY <1>3, WaitOTPPays, ResendReturnsPays, CompleteActivityPays, CompleteReturnsPays,
       TierReturnsPays, ReplayPays, ReplayReturnsPays, TimeoutPays
<1> QED
    BY <1>1, <1>2, <1>3 DEF WorkflowStep

-----------------------------------------------------------------------------
(* The service, the specification and the theorems.                        *)

LEMMA RestartPays == PayInv /\ Restart => PayInv'
<1> SUFFICES ASSUME PayInv, Restart PROVE PayInv'
    OBVIOUS
<1>1. UNCHANGED <<replay, wf, state, charges, paid>>
    BY DEF Restart
<1>2. ASSUME NEW w \in Workflows
      PROVE  handler'[w] \in Handler /\ PayOK(w)'
    <2>1. PayTypeOK /\ PayOK(w) /\ handler[w] \in Handler
        BY DEF PayInv, PayTypeOK
    <2>2. CASE ~IsWorking(w)
        <3>1. handler'[w] = handler[w]
            BY <2>2 DEF Restart
        <3>2. KeptFor(w)
            BY <1>1, <3>1 DEF KeptFor
        <3> QED
            BY <2>1, <3>1, <3>2, PayKept
    <2>3. CASE IsWorking(w)
        <3> DEFINE h == [handler[w] EXCEPT !.step = "gone"]
        <3>1. h \in Handler /\ h.rpc = handler[w].rpc /\ h.flow = handler[w].flow /\ h.step = "gone"
            BY <2>1 DEF Handler
        <3>2. handler'[w] = h
            BY <2>3 DEF Restart
        <3> HIDE DEF h
        <3>3. ~IsWorking(w)'
            BY <3>1, <3>2 DEF IsWorking, Working
        <3>4. /\ NoMoney(w)' <=> NoMoney(w)
              /\ MoneyOK(w)' <=> MoneyOK(w)
              /\ \A g, n : OneCharge(w, g, n)' <=> OneCharge(w, g, n)
            BY <1>1, MoneyKept
        <3>5. HandlerOK(w)'
            BY <2>1, <3>1, <3>2, <3>3
               DEF PayOK, HandlerOK, FlowsOf, BeforeCharge, BeforePayment, AfterPayment
        <3>6. CallOK(w)' /\ ReplyOK(w)'
            BY <1>1, <2>1, <3>1, <3>2, <3>3 DEF PayOK, CallOK, ReplyOK
        <3>7. WorkflowOK(w)' /\ ReplayOK(w)'
            BY <1>1, <2>1, <3>3, <3>4 DEF PayOK, WorkflowOK, ReplayOK, StartedOK
        <3> QED
            BY <2>1, <3>1, <3>2, <3>4, <3>5, <3>6, <3>7 DEF PayOK
    <2> QED
        BY <2>2, <2>3
<1>3. handler' \in [Workflows -> Handler]
    BY <1>2 DEF Restart
<1> QED
    BY <1>1, <1>2, <1>3 DEF PayInv, PayTypeOK

LEMMA InitPays == Init => PayInv
<1> SUFFICES ASSUME Init PROVE PayInv
    OBVIOUS
<1>1. ASSUME NEW w \in Workflows
      PROVE  /\ wf[w] \in Workflow /\ handler[w] \in Handler
             /\ wf[w].pc = "idle" /\ wf[w].outcome = "running" /\ wf[w].flow = Fresh(w)
             /\ handler[w].rpc = "none" /\ handler[w].step = "idle" /\ handler[w].flow = Fresh(w)
             /\ replay[w] = "none" /\ NoMoney(w)
    <2>1. Fresh(w) \in FlowIds /\ FlowsOf(w) \subseteq FlowIds
        BY FlowsAreApart DEF FlowsOf
    <2> QED
        BY <2>1 DEF Init, Workflow, Handler, NoMoney
<1>2. PayTypeOK
    BY <1>1 DEF Init, PayTypeOK, FlowState
<1>3. ASSUME NEW w \in Workflows PROVE PayOK(w)
    <2>1. ~IsWorking(w) /\ "idle" \notin Waiting
        BY <1>1 DEF IsWorking, Working, Waiting
    <2>2. MoneyOK(w)
        BY <1>1 DEF MoneyOK
    <2>3. HandlerOK(w)
        BY <1>1, <2>1 DEF HandlerOK, FlowsOf, BeforeCharge, BeforePayment, AfterPayment
    <2>4. CallOK(w) /\ ReplyOK(w)
        BY <1>1, <2>1 DEF CallOK, ReplyOK
    <2>5. WorkflowOK(w) /\ ReplayOK(w)
        BY <1>1 DEF WorkflowOK, ReplayOK, Replaying
    <2> QED
        BY <2>2, <2>3, <2>4, <2>5 DEF PayOK
<1> QED
    BY <1>2, <1>3 DEF PayInv

LEMMA NextPays == PayInv /\ [Next]_vars => PayInv'
<1> SUFFICES ASSUME PayInv, [Next]_vars PROVE PayInv'
    OBVIOUS
<1>1. CASE UNCHANGED vars
    <2>1. UNCHANGED <<wf, handler, replay, state, charges, paid>>
        BY <1>1 DEF vars
    <2>2. \A w \in Workflows : PayOK(w)'
        BY <2>1, PayKept DEF PayInv, KeptFor
    <2> QED
        BY <2>1, <2>2 DEF PayInv, PayTypeOK
<1>2. CASE Restart
    BY <1>2, RestartPays
<1>3. ASSUME NEW w \in Workflows, ServiceStep(w) \/ ReplayStep(w) \/ WorkflowStep(w)
      PROVE  PayInv'
    BY <1>3, ServicePays, AppPays, WorkflowPays
<1> QED
    BY <1>1, <1>2, <1>3 DEF Next

LEMMA PaymentsInvariant == Spec => []PayInv
<1> QED
    BY InitPays, NextPays, PTL DEF Spec

\* A payment charges once and is paid once: whatever is cancelled, times out or
\* restarts between StartGoPay, CompleteGoPay, the replay of the link and
\* ConfirmGoPayPayment, for any number of payments at once.
THEOREM PaymentsChargeOnce == Spec => []ChargedOnce
<1>1. PayInv => ChargedOnce
    <2> SUFFICES ASSUME PayInv, NEW w \in Workflows
                 PROVE  /\ charges[Prepared(w)] + charges[Fresh(w)] <= 1
                        /\ \A f \in FlowIds : paid[f] <= charges[f]
        BY DEF ChargedOnce
    <2>1. charges[Prepared(w)] + charges[Fresh(w)] <= 1
        <3>1. MoneyOK(w) /\ Prepared(w) # Fresh(w)
            BY FlowsAreApart DEF PayInv, PayOK
        <3>2. CASE NoMoney(w)
            BY <3>2 DEF NoMoney, FlowsOf
        <3>3. ASSUME NEW f \in FlowsOf(w), NEW n \in {0, 1}, OneCharge(w, f, n)
              PROVE  charges[Prepared(w)] + charges[Fresh(w)] <= 1
            <4>1. CASE f = Prepared(w)
                <5>1. charges[Prepared(w)] = 1 /\ charges[Fresh(w)] = 0
                    BY <3>1, <3>3, <4>1 DEF OneCharge, FlowsOf
                <5> QED
                    BY <5>1
            <4>2. CASE f = Fresh(w)
                <5>1. charges[Prepared(w)] = 0 /\ charges[Fresh(w)] = 1
                    BY <3>1, <3>3, <4>2 DEF OneCharge, FlowsOf
                <5> QED
                    BY <5>1
            <4> QED
                BY <3>3, <4>1, <4>2 DEF OneCharge
        <3> QED
            BY <3>1, <3>2, <3>3 DEF MoneyOK
    <2>2. ASSUME NEW f \in FlowIds PROVE paid[f] <= charges[f]
        <3>1. PICK u \in Workflows : f \in FlowsOf(u)
            BY DEF FlowIds, FlowsOf, Probe, Prepared, Fresh
        <3>2. MoneyOK(u)
            BY DEF PayInv, PayOK
        <3>3. CASE NoMoney(u)
            BY <3>1, <3>3 DEF NoMoney
        <3>4. ASSUME NEW g \in FlowsOf(u), NEW n \in {0, 1}, OneCharge(u, g, n)
              PROVE  paid[f] <= charges[f]
            BY <3>1, <3>4 DEF OneCharge
        <3> QED
            BY <3>2, <3>3, <3>4 DEF MoneyOK
    <2> QED
        BY <2>1, <2>2
<1> QED
    BY <1>1, PaymentsInvariant, PTL

\* A workflow that reports success has paid: by CompleteGoPay, or by the replay of
\* its link and a confirmation.
THEOREM SuccessesArePaid == Spec => []SuccessMeansPaid
<1>1. PayInv => SuccessMeansPaid
    BY DEF PayInv, PayOK, WorkflowOK, OneCharge, SuccessMeansPaid
<1> QED
    BY <1>1, PaymentsInvariant, PTL

-----------------------------------------------------------------------------
(* The sessions of the service.  A handler holds a flow outside the store     *)
(* (StartGoPay until it is done, ConfirmGoPayPayment from its pop on), or      *)
(* works on one that others find there, and cancel.                           *)

Holding == {"PrepareGoPay", "StartGoPay", "ConfirmGoPayPayment"}

Sharing == {"StartPreparedGoPay", "ResendGoPayOTP", "CompleteGoPay"}

Holds(w) == At(w, "trial") \/ (IsWorking(w) /\ handler[w].rpc \in Holding)

Settled(f) == f \in store <=> charger[f] = "open"

OwnersOK(w) ==
    \A f \in FlowsOf(w) :
        IF Holds(w) /\ f = handler[w].flow THEN f \notin store /\ charger[f] = "open"
        ELSE Settled(f)

\* Which flow a handler is about, and which flows do not exist yet.
NewFlowsOK(w) ==
    LET pc == wf[w].pc
        h == handler[w]
    IN  /\ h.rpc \in {"ProbePlusTrial", "ProbeTier"} => h.flow = Probe(w)
        /\ h.rpc \in {"PrepareGoPay", "StartPreparedGoPay"} => h.flow = Prepared(w)
        /\ h.rpc = "StartGoPay" => h.flow = Fresh(w)
        /\ pc \in {"prepare", "prepared", "start"} => wf[w].kind = "gopay"
        /\ Probe(w) \notin store
        /\ pc = "idle" \/ h.step = "session" => charger[Probe(w)] = "none"
        /\ pc \in {"idle", "probe", "probed"} => Prepared(w) \notin store
        /\ pc \in {"idle", "probe", "probed", "prepare", "prepared", "startWait", "start"} =>
              Fresh(w) \notin store

GaveUp(w) == "reply lost" \in cause[w] \/ "timed out" \in cause[w]

\* Only a caller that gave up has taken a flow from under its handler.
SparedOK(w) ==
    IsWorking(w) /\ handler[w].rpc \in Sharing /\ handler[w].flow \notin store => GaveUp(w)

\* The flow a workflow still knows of.
Known(w) ==
    LET pc == wf[w].pc
    IN  IF pc \in {"idle", "probe", "probed", "tier", "ended"} THEN {}
        ELSE IF pc \in {"prepare", "prepared", "startWait", "start"}
             THEN IF wf[w].kind = "gopay" THEN {Prepared(w)} ELSE {}
        ELSE IF pc = "fresh" THEN {Fresh(w)}
        ELSE {wf[w].flow}

\* The answers after which it lets go of the flow without a cancel.
LetGo(w) ==
    LET pc == wf[w].pc
        answer == handler[w].reply
    IN  \/ pc = "prepare" /\ answer = "fail"
        \/ pc = "start" /\ answer = "missing"
        \/ pc = "fresh" /\ answer = "fail"
        \/ pc \in {"complete", "confirm"} /\ answer = "ok"

\* A workflow that met no fault knows the flow it has in the store.
KnownOK(w) ==
    cause[w] = {} =>
        /\ wf[w].pc # "ended" => wf[w].outcome = "running"
        /\ wf[w].pc = "ended" => ~IsWorking(w)
        /\ \A f \in FlowsOf(w) : f \in store => f \in Known(w)
        /\ handler[w].step = "replied" /\ LetGo(w) => handler[w].flow \notin store

SessionOK(w) == OwnersOK(w) /\ NewFlowsOK(w) /\ SparedOK(w) /\ KnownOK(w)

SessionTypeOK ==
    /\ charger \in [FlowIds -> {"none", "open", "closed"}]
    /\ store \subseteq FlowIds
    /\ cause \in [Workflows -> SUBSET Cause]
    /\ restarts \in 0..MaxRestarts

SessionInv == SessionTypeOK /\ \A w \in Workflows : SessionOK(w)

LEMMA InitSession == Init => SessionInv
<1> SUFFICES ASSUME Init PROVE SessionInv
    OBVIOUS
<1>1. SessionTypeOK
    BY PaymentAssumption DEF Init, SessionTypeOK, Cause
<1>2. ASSUME NEW w \in Workflows PROVE SessionOK(w)
    <2>1. /\ wf[w].pc = "idle" /\ wf[w].outcome = "running" /\ store = {}
          /\ handler[w].rpc = "none" /\ handler[w].step = "idle"
          /\ \A f \in FlowsOf(w) : charger[f] = "none"
        BY FlowsAreApart DEF Init
    <2>2. ~IsWorking(w) /\ ~Holds(w)
        BY <2>1 DEF IsWorking, Working, Holds, At
    <2> QED
        BY <2>1, <2>2 DEF SessionOK, OwnersOK, Settled, NewFlowsOK, SparedOK, KnownOK, FlowsOf
<1> QED
    BY <1>1, <1>2 DEF SessionInv

\* What a step of workflow w leaves alone.
SessionsApart(w) ==
    /\ \A u \in Workflows \ {w} :
          wf'[u] = wf[u] /\ handler'[u] = handler[u] /\ cause'[u] = cause[u]
    /\ \A f \in FlowIds \ FlowsOf(w) : charger'[f] = charger[f] /\ (f \in store' <=> f \in store)

LEMMA GaveUpKept ==
    ASSUME NEW w, cause'[w] = cause[w]
    PROVE  GaveUp(w)' <=> GaveUp(w)
BY Zenon DEF GaveUp

LEMMA SessionKept ==
    ASSUME NEW u \in Workflows, PayOK(u), SessionOK(u),
           wf'[u] = wf[u], handler'[u] = handler[u], cause'[u] = cause[u],
           \A f \in FlowsOf(u) : charger'[f] = charger[f] /\ (f \in store' <=> f \in store)
    PROVE  SessionOK(u)'
<1>1. handler[u].flow \in FlowsOf(u) /\ {Probe(u), Prepared(u), Fresh(u)} = FlowsOf(u)
    BY DEF PayOK, HandlerOK, FlowsOf
<1>2. (IsWorking(u)' <=> IsWorking(u)) /\ (Holds(u)' <=> Holds(u))
    BY DEF IsWorking, Holds, At
<1>3. OwnersOK(u)'
    BY <1>2 DEF SessionOK, OwnersOK, Settled
<1>4. NewFlowsOK(u)'
    BY <1>1 DEF SessionOK, NewFlowsOK
<1>5. SparedOK(u)'
    BY <1>1, <1>2, GaveUpKept DEF SessionOK, SparedOK
<1>6. KnownOK(u)'
    <2>1. (LetGo(u)' <=> LetGo(u)) /\ Known(u)' = Known(u)
        BY DEF LetGo, Known
    <2> QED
        BY <1>1, <1>2, <2>1 DEF SessionOK, KnownOK
<1> QED
    BY <1>3, <1>4, <1>5, <1>6 DEF SessionOK

LEMMA OneSession ==
    ASSUME PayInv, SessionInv, NEW w \in Workflows, SessionTypeOK', SessionsApart(w),
           SessionOK(w)'
    PROVE  SessionInv'
<1>1. ASSUME NEW u \in Workflows, u # w PROVE SessionOK(u)'
    <2>1. FlowsOf(u) \subseteq FlowIds \ FlowsOf(w)
        BY <1>1, FlowsAreApart
    <2>2. PayOK(u) /\ SessionOK(u)
        BY DEF PayInv, SessionInv
    <2> QED
        BY <1>1, <2>1, <2>2, SessionKept DEF SessionsApart
<1> QED
    BY <1>1 DEF SessionInv

\* What holds of a workflow and of its handler.
LEMMA SessionFacts ==
    ASSUME PayInv, SessionInv, NEW w \in Workflows
    PROVE  /\ PayTypeOK /\ PayOK(w) /\ SessionTypeOK
           /\ OwnersOK(w) /\ NewFlowsOK(w) /\ SparedOK(w) /\ KnownOK(w)
           /\ handler[w].flow \in FlowsOf(w) /\ wf[w].flow \in {Prepared(w), Fresh(w)}
           /\ FlowsOf(w) \subseteq FlowIds
           /\ FlowsOf(w) = {Probe(w), Prepared(w), Fresh(w)}
           /\ Prepared(w) # Fresh(w) /\ Probe(w) # Fresh(w) /\ Probe(w) # Prepared(w)
           /\ wf[w] \in Workflow /\ handler[w] \in Handler
           /\ handler[w].rpc \notin {"none", "ProbePlusTrial", "ProbeTier"} =>
                 handler[w].flow # Probe(w) \/ ~IsWorking(w)
<1>1. PayTypeOK /\ PayOK(w) /\ SessionTypeOK /\ SessionOK(w)
    BY DEF PayInv, SessionInv
<1>2. handler[w].flow \in FlowsOf(w) /\ wf[w].flow \in {Prepared(w), Fresh(w)}
    BY <1>1 DEF PayOK, HandlerOK, WorkflowOK
<1>3. wf[w] \in Workflow /\ handler[w] \in Handler
    BY <1>1 DEF PayTypeOK
<1>4. handler[w].rpc \notin {"none", "ProbePlusTrial", "ProbeTier"} => handler[w].flow # Probe(w)
    BY <1>1 DEF PayOK, HandlerOK
<1> QED
    BY <1>1, <1>2, <1>3, <1>4, FlowsAreApart DEF SessionOK, FlowsOf

-----------------------------------------------------------------------------
(* The handlers: they go on with their flow as it is, or answer.            *)

\* A step that leaves sessions and store alone.
LEMMA HandlerKeepsFlow ==
    ASSUME PayInv, SessionInv, NEW w \in Workflows, NEW step \in Working, NEW reply,
           HandlerMoves(w, step, reply), IsWorking(w), handler[w].step \notin {"session", "trial"},
           step \notin {"session", "trial"}, UNCHANGED <<wf, charger, store, cause, restarts>>
    PROVE  SessionInv'
<1>1. HandlerMoves(w, step, reply)
    OBVIOUS
<1>2. SessionTypeOK' /\ SessionsApart(w)
    BY <1>1 DEF SessionInv, SessionTypeOK, SessionsApart, HandlerMoves
<1>3. IsWorking(w)' /\ (Holds(w)' <=> Holds(w)) /\ step # "replied"
    BY <1>1 DEF IsWorking, Holds, At, HandlerMoves, Working
<1>4. OwnersOK(w)'
    BY <1>1, <1>3, SessionFacts DEF OwnersOK, Settled, HandlerMoves
<1>5. NewFlowsOK(w)'
    BY <1>1, SessionFacts DEF NewFlowsOK, HandlerMoves
<1>6. SparedOK(w)'
    BY <1>1, <1>3, SessionFacts, GaveUpKept DEF SparedOK, HandlerMoves
<1>7. KnownOK(w)'
    <2>1. Known(w)' = Known(w)
        BY DEF Known
    <2> QED
        BY <1>1, <1>3, <2>1, SessionFacts DEF KnownOK, HandlerMoves
<1> QED
    BY <1>2, <1>4, <1>5, <1>6, <1>7, OneSession DEF SessionOK

\* What an answer leaves behind.
LEMMA HandlerLeavesFlow ==
    ASSUME PayInv, SessionInv, NEW w \in Workflows, NEW answer \in Replies \ {"missing"},
           IsWorking(w), Reply(w, answer), UNCHANGED <<wf, cause, restarts>>,
           charger' \in [FlowIds -> {"none", "open", "closed"}], store' \subseteq FlowIds,
           \A f \in FlowIds \ {handler[w].flow} :
               charger'[f] = charger[f] /\ (f \in store' <=> f \in store),
           handler[w].flow \in store' <=> charger'[handler[w].flow] = "open",
           handler[w].flow \in store' /\ handler[w].flow \notin store =>
               handler[w].rpc \in {"PrepareGoPay", "StartGoPay"},
           answer = "ok" /\ handler[w].rpc \in {"CompleteGoPay", "ConfirmGoPayPayment"} =>
               handler[w].flow \notin store',
           answer = "fail" /\ handler[w].rpc \in {"PrepareGoPay", "StartGoPay"} =>
               handler[w].flow \notin store'
    PROVE  SessionInv'
<1> DEFINE f == handler[w].flow
           rpc == handler[w].rpc
           pc == wf[w].pc
<1>1. HandlerMoves(w, "replied", answer)
    BY ReplyMoves DEF PayInv, PayTypeOK
<1>2. SessionTypeOK' /\ SessionsApart(w)
    BY <1>1, SessionFacts DEF SessionTypeOK, SessionsApart, HandlerMoves
<1>3. ~IsWorking(w)' /\ ~Holds(w)'
    BY <1>1 DEF IsWorking, Holds, At, HandlerMoves, Working
<1>4. /\ pc \in Waiting \cup {"ended"}
      /\ rpc = "PrepareGoPay" => pc \in {"prepare", "ended"}
      /\ rpc = "StartGoPay" => pc \in {"fresh", "ended"}
      /\ pc \in Waiting => rpc = RpcOf(pc)
    BY SessionFacts, WhoCalls DEF PayOK, CallOK
<1>5. OwnersOK(w)'
    <2>1. ASSUME NEW g \in FlowsOf(w), g # f PROVE Settled(g)'
        BY <2>1, SessionFacts DEF OwnersOK, Settled
    <2>2. f \in store' <=> charger'[f] = "open"
        OBVIOUS
    <2> HIDE DEF f
    <2>3. ASSUME NEW g \in FlowsOf(w) PROVE Settled(g)'
        BY <2>1, <2>2, <2>3 DEF Settled
    <2> QED
        BY <1>3, <2>3 DEF OwnersOK
<1>6. NewFlowsOK(w)'
    <2>1. \A g \in FlowsOf(w) : g \in store' /\ g \notin store =>
              \/ g = Prepared(w) /\ pc \in {"prepare", "ended"}
              \/ g = Fresh(w) /\ pc \in {"fresh", "ended"}
        BY <1>4, SessionFacts DEF NewFlowsOK
    <2>2. pc # "idle"
        BY <1>4 DEF Waiting
    <2> QED
        BY <1>1, <2>1, <2>2, SessionFacts DEF NewFlowsOK, HandlerMoves
<1>7. SparedOK(w)'
    BY <1>3 DEF SparedOK
<1>8. KnownOK(w)'
    <2>1. Known(w)' = Known(w)
        BY DEF Known
    <2>2. ASSUME cause[w] = {}
          PROVE  /\ pc # "ended" /\ wf[w].outcome = "running"
                 /\ \A g \in FlowsOf(w) : g \in store' => g \in Known(w)
                 /\ LetGo(w)' => f \notin store'
        <3>1. pc # "ended" /\ wf[w].outcome = "running"
            BY <2>2, SessionFacts DEF KnownOK
        <3>2. ASSUME NEW g \in FlowsOf(w), g \in store' PROVE g \in Known(w)
            <4>1. CASE g \in store
                BY <2>2, <4>1, SessionFacts DEF KnownOK
            <4>2. CASE g \notin store
                <5>1. g = f /\ rpc \in {"PrepareGoPay", "StartGoPay"}
                    BY <3>2, <4>2, SessionFacts
                <5> QED
                    BY <1>4, <3>1, <5>1, SessionFacts DEF NewFlowsOK, Known
            <4> QED
                BY <4>1, <4>2
        <3>3. LetGo(w)' => f \notin store'
            <4>1. LetGo(w)' =>
                      \/ pc \in {"prepare", "fresh"} /\ answer = "fail"
                      \/ pc \in {"complete", "confirm"} /\ answer = "ok"
                BY <1>1 DEF LetGo, HandlerMoves
            <4>2. /\ pc \in {"prepare", "fresh"} => rpc \in {"PrepareGoPay", "StartGoPay"}
                  /\ pc \in {"complete", "confirm"} => rpc \in {"CompleteGoPay", "ConfirmGoPayPayment"}
                BY <1>4, RpcsOf DEF Waiting
            <4> QED
                BY <4>1, <4>2
        <3> QED
            BY <3>1, <3>2, <3>3
    <2> QED
        BY <1>1, <1>3, <2>1, <2>2 DEF KnownOK, HandlerMoves, FlowsOf
<1> QED
    BY <1>2, <1>5, <1>6, <1>7, <1>8, OneSession DEF SessionOK

LEMMA ServiceKeepsFlow ==
    ASSUME PayInv, SessionInv, NEW w \in Workflows,
           \/ CreateCheckout(w) \/ ConfirmCheckout(w) \/ Approve(w) \/ FollowRedirect(w)
           \/ FetchRedirect(w) \/ (Checkout(w) /\ handler[w].rpc = "StartGoPay")
           \/ LoadTransaction(w) \/ InitLinking(w) \/ (UserConsent(w) /\ Goto(w, "charging"))
           \/ ValidateOTP(w) \/ CreateCharge(w) \/ (Charged(w) /\ Goto(w, "settling"))
           \/ ConfirmCharge(w) \/ Settle(w) \/ PollStatus(w) \/ FollowFinish(w),
           UNCHANGED <<charger, store>>
    PROVE  SessionInv'
<1> DEFINE Inner == Working \ {"session", "trial"}
<1>1. handler[w].step \in Inner /\ UNCHANGED <<wf, cause, restarts>>
    BY DEF Working, At, CreateCheckout, ConfirmCheckout, Approve, FollowRedirect, FetchRedirect,
           Checkout, LoadTransaction, InitLinking, UserConsent, ValidateOTP, CreateCharge,
           Charged, ConfirmCharge, Settle, PollStatus, FollowFinish
<1>2. CASE Approve(w) /\ ~Goto(w, "redirecting")
    <2> DEFINE h == [handler[w] EXCEPT !.step = "confirming", !.blocked = TRUE]
    <2>1. /\ h \in Handler /\ h.rpc = handler[w].rpc /\ h.flow = handler[w].flow
          /\ h.step = "confirming" /\ h.reply = handler[w].reply
        <3>1. handler[w] \in Handler
            BY DEF PayInv, PayTypeOK
        <3> QED
            BY <3>1 DEF Handler, Working
    <2>2. handler' = [handler EXCEPT ![w] = h]
        BY <1>2 DEF Approve
    <2> HIDE DEF h
    <2>3. HandlerMoves(w, "confirming", handler[w].reply)
        BY <2>1, <2>2 DEF PayInv, PayTypeOK, HandlerMoves
    <2> QED
        BY <1>1, <2>3, HandlerKeepsFlow DEF IsWorking, Working
<1>3. CASE ~Approve(w) \/ Goto(w, "redirecting")
    <2>1. \E step \in Inner : Goto(w, step)
        BY <1>3 DEF Working, At, CreateCheckout, ConfirmCheckout, FollowRedirect, FetchRedirect,
               Checkout, LoadTransaction, InitLinking, ValidateOTP, CreateCharge,
               ConfirmCharge, Settle, PollStatus, FollowFinish
    <2>2. PICK step \in Inner : HandlerMoves(w, step, handler[w].reply)
        BY <2>1, GotoMoves DEF PayInv, PayTypeOK
    <2> QED
        BY <1>1, <2>2, HandlerKeepsFlow DEF IsWorking
<1> QED
    BY <1>2, <1>3

\* Closing the sessions of a flow, or taking it out of the store and closing them.
LEMMA Closes ==
    ASSUME SessionTypeOK, NEW f \in FlowIds, (Close(f) /\ UNCHANGED store) \/ PopAndClose(f)
    PROVE  /\ charger' \in [FlowIds -> {"none", "open", "closed"}] /\ store' \subseteq store
           /\ \A g \in FlowIds \ {f} : charger'[g] = charger[g] /\ (g \in store' <=> g \in store)
           /\ PopAndClose(f) =>
                 /\ f \notin store'
                 /\ charger[f] # "open" \/ f \in store => charger'[f] # "open"
           /\ Close(f) => charger'[f] = "closed"
BY DEF SessionTypeOK, Close, PopAndClose

LEMMA HandlerFailsSoundly ==
    ASSUME PayInv, SessionInv, NEW w \in Workflows, HandlerFails(w)
    PROVE  SessionInv'
<1> DEFINE f == handler[w].flow
           rpc == handler[w].rpc
<1>1. /\ IsWorking(w) /\ Reply(w, "fail") /\ UNCHANGED <<wf, cause, restarts>>
      /\ f \in FlowIds /\ SessionTypeOK
      /\ Holds(w) => f \notin store
      /\ ~Holds(w) => Settled(f)
    BY SessionFacts DEF HandlerFails, OwnersOK
<1>2. CASE (Holds(w) /\ Close(f) /\ UNCHANGED store) \/ (~Holds(w) /\ PopAndClose(f))
    BY <1>1, <1>2, Closes, HandlerLeavesFlow DEF Settled, SessionTypeOK, Replies, Holds
<1>3. CASE UNCHANGED <<charger, store>> /\ ~Holds(w)
    BY <1>1, <1>3, HandlerLeavesFlow DEF Settled, SessionTypeOK, Replies, Holds, Holding
<1>4. Holds(w) <=> At(w, "trial") \/ rpc \in {"PrepareGoPay", "StartGoPay", "ConfirmGoPayPayment"}
    BY <1>1 DEF Holds, Holding
<1>5. At(w, "trial") => rpc = "ProbePlusTrial"
    BY <1>1, SessionFacts, WhoCalls DEF At
<1> QED
    BY <1>2, <1>3, <1>4, <1>5 DEF HandlerFails

\* A probe that needs a price opens sessions of its own, and closes them.
LEMMA ProbesKeepSessions ==
    ASSUME PayInv, SessionInv, NEW w \in Workflows, ProbeSession(w) \/ ProbeTrial(w) \/ TierProbed(w)
    PROVE  SessionInv'
<1> DEFINE f == handler[w].flow
<1>1. /\ IsWorking(w) /\ UNCHANGED <<wf, store, cause, restarts>>
      /\ f \in FlowIds /\ SessionTypeOK /\ Probe(w) \notin store
    BY SessionFacts
       DEF ProbeSession, ProbeTrial, TierProbed, IsWorking, At, Working, NewFlowsOK
<1>2. /\ At(w, "session") \/ At(w, "trial") => handler[w].rpc = "ProbePlusTrial"
      /\ At(w, "tier") => handler[w].rpc = "ProbeTier"
      /\ wf[w].pc # "idle"
    BY <1>1, SessionFacts, WhoCalls DEF At, Waiting
<1>3. /\ At(w, "session") \/ At(w, "trial") \/ At(w, "tier")
      /\ f = Probe(w)
    BY <1>2, SessionFacts DEF ProbeSession, ProbeTrial, TierProbed, NewFlowsOK
<1>4. At(w, "session") => charger[f] = "none"
    BY <1>3, SessionFacts DEF NewFlowsOK, At
<1>5. CASE At(w, "trial") /\ Close(f) /\ \E answer \in {"ok", "ineligible"} : Reply(w, answer)
    <2>1. charger' \in [FlowIds -> {"none", "open", "closed"}] /\ charger'[f] = "closed"
          /\ \A g \in FlowIds \ {f} : charger'[g] = charger[g]
        BY <1>1, <1>5 DEF Close, SessionTypeOK
    <2> QED
        BY <1>1, <1>2, <1>3, <1>5, <2>1, HandlerLeavesFlow DEF SessionTypeOK, Replies
<1>6. CASE /\ UNCHANGED charger
           /\ (At(w, "session") /\ Reply(w, "active")) \/ (At(w, "tier") /\ Reply(w, "ok"))
    <2>1. Settled(f)
        <3>1. At(w, "session") \/ At(w, "tier") => ~Holds(w)
            BY <1>2 DEF Holds, At, Holding
        <3> QED
            BY <1>6, <3>1, SessionFacts DEF OwnersOK
    <2> QED
        BY <1>1, <1>2, <1>3, <1>6, <2>1, HandlerLeavesFlow DEF SessionTypeOK, Replies, Settled
<1>7. CASE At(w, "session") /\ Goto(w, "trial") /\ charger' = [charger EXCEPT ![f] = "open"]
    <2>1. HandlerMoves(w, "trial", handler[w].reply)
        BY <1>7, GotoMoves DEF PayInv, PayTypeOK, Working
    <2>2. /\ charger' \in [FlowIds -> {"none", "open", "closed"}] /\ charger'[f] = "open"
          /\ \A g \in FlowIds \ {f} : charger'[g] = charger[g]
        BY <1>1, <1>7 DEF SessionTypeOK
    <2>3. SessionTypeOK' /\ SessionsApart(w)
        BY <1>1, <2>1, <2>2, SessionFacts DEF SessionTypeOK, SessionsApart, HandlerMoves
    <2>4. Holds(w)' /\ IsWorking(w)'
        BY <2>1 DEF Holds, At, HandlerMoves, IsWorking, Working
    <2>5. OwnersOK(w)'
        <3>1. ~Holds(w)
            BY <1>2, <1>7 DEF Holds, At, Holding
        <3> QED
            BY <1>1, <1>3, <2>1, <2>2, <2>4, <3>1, SessionFacts DEF OwnersOK, Settled, HandlerMoves
    <2>6. NewFlowsOK(w)'
        BY <1>1, <1>2, <2>1, SessionFacts DEF NewFlowsOK, HandlerMoves
    <2>7. SparedOK(w)'
        BY <1>2, <1>7, <2>1 DEF SparedOK, Sharing, HandlerMoves
    <2>8. KnownOK(w)'
        <3>1. Known(w)' = Known(w)
            BY <1>1 DEF Known
        <3> QED
            BY <1>1, <2>1, <3>1, SessionFacts DEF KnownOK, HandlerMoves
    <2> QED
        BY <2>3, <2>5, <2>6, <2>7, <2>8, OneSession DEF SessionOK
<1> QED
    BY <1>5, <1>6, <1>7 DEF ProbeSession, ProbeTrial, TierProbed

\* The answers of the handlers that work on a payment.
LEMMA AnswersKeepSessions ==
    ASSUME PayInv, SessionInv, NEW w \in Workflows,
           \/ (Checkout(w) /\ handler[w].rpc = "PrepareGoPay")
           \/ (UserConsent(w) /\ ~Goto(w, "charging")) \/ (Charged(w) /\ ~Goto(w, "settling"))
           \/ Verify(w) \/ ResendOTP(w)
    PROVE  SessionInv'
<1> DEFINE f == handler[w].flow
           rpc == handler[w].rpc
<1>1. /\ IsWorking(w) /\ UNCHANGED <<wf, cause, restarts>>
      /\ f \in FlowIds /\ SessionTypeOK
    BY SessionFacts
       DEF Checkout, UserConsent, Charged, Verify, ResendOTP, IsWorking, At, Working
<1>2. /\ At(w, "linkable") \/ At(w, "consent") \/ At(w, "charged") \/ At(w, "verifying")
             \/ At(w, "resending")
      /\ At(w, "consent") => rpc \in {"StartGoPay", "StartPreparedGoPay"}
      /\ At(w, "charged") => rpc \in {"StartGoPay", "StartPreparedGoPay", "CompleteGoPay"}
      /\ At(w, "verifying") => rpc \in {"CompleteGoPay", "ConfirmGoPayPayment"}
      /\ At(w, "resending") => rpc = "ResendGoPayOTP"
    BY <1>1, SessionFacts, WhoCalls
       DEF Checkout, UserConsent, Charged, Verify, ResendOTP, At, AfterPayment
<1>3. /\ Holds(w) <=> rpc \in {"PrepareGoPay", "StartGoPay", "ConfirmGoPayPayment"}
      /\ Holds(w) => f \notin store /\ charger[f] = "open"
      /\ ~Holds(w) => Settled(f)
    BY <1>1, <1>2, SessionFacts DEF Holds, At, Holding, OwnersOK
<1>4. CASE /\ rpc \in {"PrepareGoPay", "StartGoPay"}
           /\ store' = store \cup {f} /\ UNCHANGED charger /\ Reply(w, "ok")
    BY <1>1, <1>3, <1>4, HandlerLeavesFlow DEF SessionTypeOK, Replies, Settled
<1>5. CASE /\ rpc \in {"StartPreparedGoPay", "CompleteGoPay", "ResendGoPayOTP"}
           /\ UNCHANGED <<store, charger>>
           /\ \/ rpc # "CompleteGoPay" /\ Reply(w, "ok")
              \/ Reply(w, "manual")
    BY <1>1, <1>3, <1>5, HandlerLeavesFlow DEF SessionTypeOK, Replies, Settled
<1>6. CASE /\ rpc = "ConfirmGoPayPayment" /\ Close(f) /\ UNCHANGED store
           /\ \E answer \in {"ok", "fail"} : Reply(w, answer)
    BY <1>1, <1>3, <1>6, Closes, HandlerLeavesFlow DEF SessionTypeOK, Replies, Settled
<1>7. CASE /\ rpc = "CompleteGoPay" /\ PopAndClose(f)
           /\ \E answer \in {"ok", "fail"} : Reply(w, answer)
    BY <1>1, <1>3, <1>7, Closes, HandlerLeavesFlow DEF SessionTypeOK, Replies, Settled
<1>8. CASE Checkout(w) /\ rpc = "PrepareGoPay"
    BY <1>4, <1>8 DEF Checkout
<1>9. CASE UserConsent(w) /\ ~Goto(w, "charging")
    BY <1>2, <1>4, <1>5, <1>9 DEF UserConsent, Started
<1>10. CASE Charged(w) /\ ~Goto(w, "settling")
    BY <1>2, <1>4, <1>5, <1>10 DEF Charged, Started
<1>11. CASE Verify(w)
    BY <1>6, <1>7, <1>11 DEF Verify
<1>12. CASE ResendOTP(w)
    BY <1>2, <1>5, <1>12 DEF ResendOTP
<1> QED
    BY <1>8, <1>9, <1>10, <1>11, <1>12

LEMMA ServiceKeepsSessions ==
    ASSUME PayInv, SessionInv, NEW w \in Workflows, ServiceStep(w)
    PROVE  SessionInv'
<1>1. CASE HandlerFails(w)
    BY <1>1, HandlerFailsSoundly
<1>2. CASE ProbeSession(w) \/ ProbeTrial(w) \/ TierProbed(w)
    BY <1>2, ProbesKeepSessions
<1>3. CASE Verify(w) \/ ResendOTP(w)
    BY <1>3, AnswersKeepSessions
<1>4. CASE Checkout(w)
    BY <1>4, AnswersKeepSessions, ServiceKeepsFlow DEF Checkout
<1>5. CASE UserConsent(w)
    <2>1. Goto(w, "charging") => UNCHANGED <<charger, store>>
        <3>1. Goto(w, "charging") => ~Reply(w, "ok")
            <4>1. handler[w] \in Handler
                BY SessionFacts
            <4> QED
                BY <4>1 DEF Goto, Reply, PayInv, PayTypeOK, Handler
        <3> QED
            BY <1>5, <3>1 DEF UserConsent, Started
    <2> QED
        BY <1>5, <2>1, AnswersKeepSessions, ServiceKeepsFlow
<1>6. CASE Charged(w)
    <2>1. Goto(w, "settling") => UNCHANGED <<charger, store>>
        <3>1. Goto(w, "settling") => ~Reply(w, "ok")
            <4>1. handler[w] \in Handler
                BY SessionFacts
            <4> QED
                BY <4>1 DEF Goto, Reply, PayInv, PayTypeOK, Handler
        <3> QED
            BY <1>6, <3>1 DEF Charged, Started
    <2> QED
        BY <1>6, <2>1, AnswersKeepSessions, ServiceKeepsFlow
<1>7. CASE \/ CreateCheckout(w) \/ ConfirmCheckout(w) \/ Approve(w) \/ FollowRedirect(w)
           \/ FetchRedirect(w) \/ LoadTransaction(w) \/ InitLinking(w) \/ ValidateOTP(w)
           \/ CreateCharge(w) \/ ConfirmCharge(w) \/ Settle(w) \/ PollStatus(w) \/ FollowFinish(w)
    <2>1. UNCHANGED <<charger, store>>
        BY <1>7 DEF CreateCheckout, ConfirmCheckout, Approve, FollowRedirect, FetchRedirect,
                    LoadTransaction, InitLinking, ValidateOTP, CreateCharge, ConfirmCharge,
                    Settle, PollStatus, FollowFinish
    <2> QED
        BY <1>7, <2>1, ServiceKeepsFlow
<1> QED
    BY <1>1, <1>2, <1>3, <1>4, <1>5, <1>6, <1>7 DEF ServiceStep

-----------------------------------------------------------------------------
(* Steps that leave the service alone, and its restart.                     *)

LEMMA OthersKeepSessions ==
    ASSUME PayInv, SessionInv, UNCHANGED <<wf, handler, charger, store, cause, restarts>>
    PROVE  SessionInv'
<1>1. \A w \in Workflows : SessionOK(w)'
    BY SessionKept DEF PayInv, SessionInv
<1> QED
    BY <1>1 DEF SessionInv, SessionTypeOK

LEMMA RestartKeepsSessions ==
    ASSUME PayInv, SessionInv, Restart
    PROVE  SessionInv'
<1>1. /\ UNCHANGED <<wf, cause>> /\ store' = {}
      /\ charger' = [f \in FlowIds |-> IF charger[f] = "open" THEN "closed" ELSE charger[f]]
    BY DEF Restart
<1>2. SessionTypeOK'
    <2>1. restarts' \in 0..MaxRestarts
        BY PaymentAssumption DEF Restart, SessionInv, SessionTypeOK
    <2> QED
        BY <1>1, <2>1 DEF SessionInv, SessionTypeOK
<1>3. ASSUME NEW w \in Workflows PROVE SessionOK(w)'
    <2>1. /\ ~IsWorking(w)' /\ handler'[w].rpc = handler[w].rpc
          /\ handler'[w].flow = handler[w].flow /\ handler'[w].step \notin {"session", "trial"}
        <3>1. CASE IsWorking(w)
            <4> DEFINE h == [handler[w] EXCEPT !.step = "gone"]
            <4>1. handler'[w] = h
                BY <3>1 DEF Restart
            <4>2. h.step = "gone" /\ h.rpc = handler[w].rpc /\ h.flow = handler[w].flow
                BY SessionFacts DEF Handler
            <4> HIDE DEF h
            <4> QED
                BY <4>1, <4>2 DEF IsWorking, Working
        <3>2. CASE ~IsWorking(w)
            <4>1. handler'[w] = handler[w]
                BY <3>2 DEF Restart
            <4> QED
                BY <3>2, <4>1 DEF IsWorking, Working
        <3> QED
            BY <3>1, <3>2
    <2>2. ~Holds(w)' /\ \A f \in FlowsOf(w) : f \notin store' /\ charger'[f] # "open"
        BY <1>1, <2>1, SessionFacts DEF Holds, At
    <2>3. OwnersOK(w)'
        BY <2>2 DEF OwnersOK, Settled, FlowsOf
    <2>4. NewFlowsOK(w)'
        BY <1>1, <2>1, SessionFacts DEF NewFlowsOK
    <2>5. SparedOK(w)' /\ KnownOK(w)'
        BY <1>1, <2>1, SessionFacts DEF SparedOK, KnownOK
    <2> QED
        BY <2>3, <2>4, <2>5 DEF SessionOK
<1> QED
    BY <1>2, <1>3 DEF SessionInv

-----------------------------------------------------------------------------
(* The workflows.                                                           *)

\* What becomes of a workflow, and of what is known to have gone wrong with it.
Becomes(w, pc, kind, outcome, f) ==
    /\ wf'[w].pc = pc /\ wf'[w].kind = kind /\ wf'[w].outcome = outcome /\ wf'[w].flow = f
    /\ \A u \in Workflows \ {w} : wf'[u] = wf[u]

CauseGrows(w) ==
    /\ cause' \in [Workflows -> SUBSET Cause]
    /\ \A u \in Workflows \ {w} : cause'[u] = cause[u]
    /\ cause'[w] = {} => cause[w] = {}
    /\ GaveUp(w) => GaveUp(w)'

LEMMA BlameGrows ==
    ASSUME SessionTypeOK, NEW w \in Workflows, NEW why \in SUBSET Cause, Blame(w, why)
    PROVE  /\ CauseGrows(w)
           /\ why # {} => cause'[w] # {}
           /\ "reply lost" \in why \/ "timed out" \in why => GaveUp(w)'
<1>1. cause \in [Workflows -> SUBSET Cause]
    BY DEF SessionTypeOK
<1> HIDE DEF Cause
<1>2. cause' \in [Workflows -> SUBSET Cause]
    BY <1>1 DEF Blame
<1>3. cause'[w] = cause[w] \cup why
    BY <1>1 DEF Blame
<1>4. \A u \in Workflows \ {w} : cause'[u] = cause[u]
    BY <1>1 DEF Blame
<1>5. GaveUp(w) => GaveUp(w)'
    BY <1>3, Zenon DEF GaveUp
<1>6. cause'[w] = {} => cause[w] = {} /\ why = {}
    BY <1>3
<1>7. "reply lost" \in why \/ "timed out" \in why => GaveUp(w)'
    BY <1>3, Zenon DEF GaveUp
<1> QED
    BY <1>2, <1>4, <1>5, <1>6, <1>7, Zenon DEF CauseGrows

LEMMA CauseStays ==
    ASSUME SessionTypeOK, NEW w \in Workflows, UNCHANGED cause
    PROVE  CauseGrows(w) /\ cause'[w] = cause[w]
BY GaveUpKept DEF CauseGrows, SessionTypeOK

\* A cancel removes the flow, unless it is lost.
LEMMA CancelGrows ==
    ASSUME SessionTypeOK, NEW w \in Workflows, NEW f, NEW why \in SUBSET Cause,
           CancelFlow(w, f, why)
    PROVE  /\ CauseGrows(w)
           /\ PopAndClose(f) \/ (UNCHANGED <<store, charger>> /\ cause'[w] # {})
           /\ why # {} => cause'[w] # {}
           /\ "reply lost" \in why \/ "timed out" \in why => GaveUp(w)'
<1>1. CASE PopAndClose(f) /\ Blame(w, why)
    BY <1>1, BlameGrows, Zenon
<1>2. CASE UNCHANGED <<store, charger>> /\ Blame(w, why \cup {"cancel lost"})
    <2> DEFINE all == why \cup {"cancel lost"}
    <2>1. all \in SUBSET Cause /\ all # {} /\ why \subseteq all
        BY Zenon DEF Cause
    <2> HIDE DEF all
    <2>2. Blame(w, all)
        BY <1>2, Zenon DEF all
    <2>3. CauseGrows(w) /\ cause'[w] # {}
        BY <2>1, <2>2, BlameGrows, Zenon
    <2>4. "reply lost" \in why \/ "timed out" \in why => GaveUp(w)'
        BY <2>1, <2>2, BlameGrows, Zenon
    <2> QED
        BY <1>2, <2>3, <2>4, Zenon
<1> QED
    BY <1>1, <1>2, Zenon DEF CancelFlow

\* The workflow goes on or ends, and has taken at most one flow from the store.
LEMMA WorkflowLeavesFlows ==
    ASSUME PayInv, SessionInv, NEW w \in Workflows, NEW pc, NEW kind, NEW outcome, NEW g,
           NEW f \in FlowsOf(w),
           Becomes(w, pc, kind, outcome, g), CauseGrows(w), UNCHANGED <<handler, restarts>>,
           PopAndClose(f) \/ UNCHANGED <<store, charger>>,
           UNCHANGED <<store, charger>> \/ ~IsWorking(w) \/ GaveUp(w)',
           pc # "idle",
           pc \in {"probe", "probed"} => wf[w].pc \in {"idle", "probe", "probed"},
           pc \in {"prepare", "prepared", "startWait", "start"} =>
               wf[w].pc \in {"probed", "prepare", "prepared", "startWait", "start"},
           pc \in {"prepare", "prepared", "start"} => kind = "gopay",
           cause'[w] = {} =>
               /\ pc # "ended" => outcome = "running"
               /\ pc = "ended" => ~IsWorking(w)
               /\ \A d \in FlowsOf(w) : d \in store' => d \in Known(w)'
               /\ handler[w].step = "replied" /\ LetGo(w)' => handler[w].flow \notin store'
    PROVE  SessionInv'
<1>1. SessionTypeOK /\ f \in FlowIds
    BY SessionFacts
<1>2. /\ charger' \in [FlowIds -> {"none", "open", "closed"}] /\ store' \subseteq store
      /\ \A d \in FlowIds \ {f} : charger'[d] = charger[d] /\ (d \in store' <=> d \in store)
      /\ \/ charger'[f] = charger[f] /\ (f \in store' <=> f \in store)
         \/ charger'[f] = "closed" /\ f \in store /\ f \notin store'
    BY <1>1 DEF SessionTypeOK, PopAndClose, Close
<1>3. SessionTypeOK' /\ SessionsApart(w)
    BY <1>1, <1>2 DEF SessionTypeOK, SessionsApart, CauseGrows, Becomes
<1>4. (IsWorking(w)' <=> IsWorking(w)) /\ (Holds(w)' <=> Holds(w))
    BY DEF IsWorking, Holds, At
<1>5. OwnersOK(w)'
    <2>1. \A d \in FlowsOf(w) :
              IF Holds(w) /\ d = handler[w].flow THEN d \notin store' /\ charger'[d] = "open"
              ELSE d \in store' <=> charger'[d] = "open"
        BY <1>2, SessionFacts DEF OwnersOK, Settled
    <2> QED
        BY <1>4, <2>1 DEF OwnersOK, Settled
<1>6. NewFlowsOK(w)'
    <2>1. At(w, "session") => charger'[Probe(w)] = "none"
        BY <1>2, SessionFacts DEF NewFlowsOK, At
    <2> QED
        BY <1>2, <2>1, SessionFacts DEF NewFlowsOK, Becomes, At
<1>7. SparedOK(w)'
    <2>1. CASE UNCHANGED <<store, charger>>
        BY <2>1, <1>4, SessionFacts DEF SparedOK, CauseGrows
    <2>2. CASE ~IsWorking(w) \/ GaveUp(w)'
        BY <2>2, <1>4 DEF SparedOK
    <2> QED
        BY <2>1, <2>2
<1>8. KnownOK(w)'
    BY <1>4 DEF KnownOK, Becomes, FlowsOf
<1> QED
    BY <1>3, <1>5, <1>6, <1>7, <1>8, OneSession DEF SessionOK

\* It calls a handler: one that makes its flow, one that finds it in the store, one
\* that takes it from there, or a probe.
LEMMA WorkflowCallsSoundly ==
    ASSUME PayInv, SessionInv, NEW w \in Workflows, NEW pc \in Waiting, NEW kind,
           NEW rpc, NEW step, NEW answer, NEW f \in FlowsOf(w),
           HandlerCalled(w, rpc, step, f, answer),
           Becomes(w, pc, kind, wf[w].outcome, wf[w].flow), UNCHANGED <<cause, restarts>>,
           ~IsWorking(w), wf[w].pc # "ended",
           step \in (Working \ {"trial"}) \cup {"replied"},
           \/ /\ rpc \in {"PrepareGoPay", "StartGoPay"} /\ step \in Working
              /\ f \notin store /\ UNCHANGED store /\ charger' = [charger EXCEPT ![f] = "open"]
           \/ /\ rpc \in Sharing /\ UNCHANGED <<store, charger>>
              /\ step \in Working => f \in store
           \/ /\ rpc = "ConfirmGoPayPayment" /\ store' = store \ {f} /\ UNCHANGED charger
              /\ step \in Working <=> f \in store
           \/ rpc \in {"ProbePlusTrial", "ProbeTier"} /\ UNCHANGED <<store, charger>>,
           rpc \in {"ProbePlusTrial", "ProbeTier"} => f = Probe(w),
           rpc \in {"PrepareGoPay", "StartPreparedGoPay"} => f = Prepared(w),
           rpc = "StartGoPay" => f = Fresh(w),
           step = "session" => wf[w].pc = "idle" /\ rpc = "ProbePlusTrial",
           pc = "probe" => wf[w].pc = "idle",
           pc \in {"prepare", "start"} =>
               kind = "gopay" /\ wf[w].pc \in {"probed", "startWait"},
           step = "replied" => answer = "manual" \/ (answer = "missing" /\ f \notin store),
           cause[w] = {} => \A d \in FlowsOf(w) : d \in store' => d \in Known(w)'
    PROVE  SessionInv'
<1>1. SessionTypeOK /\ f \in FlowIds
    BY SessionFacts
<1>2. /\ charger' \in [FlowIds -> {"none", "open", "closed"}] /\ store' \subseteq store
      /\ \A d \in FlowIds \ {f} : charger'[d] = charger[d] /\ (d \in store' <=> d \in store)
    BY <1>1 DEF SessionTypeOK
<1>3. SessionTypeOK' /\ SessionsApart(w)
    BY <1>1, <1>2 DEF SessionTypeOK, SessionsApart, HandlerCalled, Becomes
<1>4. /\ IsWorking(w)' <=> step \in Working
      /\ Holds(w)' <=> step \in Working /\ rpc \in Holding
      /\ step = "replied" => step \notin Working
    BY DEF IsWorking, Holds, At, HandlerCalled, Working
<1>5. ~Holds(w)
    BY SessionFacts DEF Holds, At, IsWorking, Working
<1>6. \A d \in FlowsOf(w) : Settled(d)
    BY <1>5, SessionFacts DEF OwnersOK
<1>7. OwnersOK(w)'
    <2>1. \A d \in FlowsOf(w) :
              IF step \in Working /\ rpc \in Holding /\ d = f
              THEN d \notin store' /\ charger'[d] = "open"
              ELSE d \in store' <=> charger'[d] = "open"
        <3>1. CASE rpc \in {"PrepareGoPay", "StartGoPay"}
            BY <1>1, <1>2, <1>6, <3>1, SessionFacts DEF Settled, Holding, Sharing, SessionTypeOK
        <3>2. CASE rpc \in Sharing \cup {"ProbePlusTrial", "ProbeTier"}
            BY <1>6, <3>2 DEF Settled, Holding, Sharing
        <3>3. CASE rpc = "ConfirmGoPayPayment"
            BY <1>1, <1>2, <1>6, <3>3, SessionFacts DEF Settled, Holding, Sharing
        <3> QED
            BY <3>1, <3>2, <3>3
    <2> QED
        BY <1>4, <2>1 DEF OwnersOK, Settled, HandlerCalled
<1>8. NewFlowsOK(w)'
    <2>1. pc # "idle" /\ pc \notin {"probed", "prepared", "startWait"}
        BY DEF Waiting
    <2>2. step = "session" => charger'[Probe(w)] = "none"
        BY SessionFacts DEF NewFlowsOK, Sharing
    <2> QED
        BY <1>2, <2>1, <2>2, SessionFacts DEF NewFlowsOK, HandlerCalled, Becomes
<1>9. SparedOK(w)'
    <2>1. rpc \in Sharing /\ step \in Working => f \in store'
        BY DEF Sharing
    <2> QED
        BY <1>4, <2>1 DEF SparedOK, HandlerCalled, Sharing
<1>10. KnownOK(w)'
    <2>1. pc # "ended"
        BY DEF Waiting
    <2>2. cause[w] = {} => wf[w].outcome = "running"
        BY SessionFacts DEF KnownOK
    <2>3. step = "replied" => f \notin store' \/ ~LetGo(w)'
        BY <1>2 DEF LetGo, HandlerCalled
    <2> QED
        BY <2>1, <2>2, <2>3 DEF KnownOK, HandlerCalled, Becomes, FlowsOf
<1> QED
    BY <1>3, <1>7, <1>8, <1>9, <1>10, OneSession DEF SessionOK

\* The effect of the helpers of the workflows.
LEMMA MoveBecomes ==
    ASSUME PayInv, NEW w \in Workflows, NEW pc, Move(w, pc)
    PROVE  Becomes(w, pc, wf[w].kind, wf[w].outcome, wf[w].flow)
<1> DEFINE v == [wf[w] EXCEPT !.pc = pc]
<1>1. wf \in [Workflows -> Workflow] /\ wf[w] \in Workflow
    BY DEF PayInv, PayTypeOK
<1>2. /\ v.pc = pc /\ v.kind = wf[w].kind /\ v.outcome = wf[w].outcome /\ v.flow = wf[w].flow
    BY <1>1 DEF Workflow
<1>3. wf' = [wf EXCEPT ![w] = v]
    BY DEF Move
<1> HIDE DEF v
<1> QED
    BY <1>1, <1>2, <1>3 DEF Becomes

LEMMA EndBecomes ==
    ASSUME PayInv, NEW w \in Workflows, NEW outcome, End(w, outcome)
    PROVE  \E o : Becomes(w, "ended", wf[w].kind, o, wf[w].flow)
<1> DEFINE o == IF Abandoned(w) THEN wf[w].outcome ELSE outcome
           v == [wf[w] EXCEPT !.pc = "ended", !.outcome = o]
<1>1. wf \in [Workflows -> Workflow] /\ wf[w] \in Workflow
    BY DEF PayInv, PayTypeOK
<1>2. wf' = [wf EXCEPT ![w] = v]
    BY DEF End
<1> HIDE DEF o
<1>3. /\ v.pc = "ended" /\ v.kind = wf[w].kind /\ v.outcome = o /\ v.flow = wf[w].flow
    BY <1>1 DEF Workflow
<1> HIDE DEF v
<1>4. Becomes(w, "ended", wf[w].kind, o, wf[w].flow)
    BY <1>1, <1>2, <1>3 DEF Becomes
<1> QED
    BY <1>4

\* The end of a workflow that leaves nothing in the store unless something went wrong.
LEMMA WorkflowEndsSoundly ==
    ASSUME PayInv, SessionInv, NEW w \in Workflows, NEW outcome, End(w, outcome),
           CauseGrows(w), UNCHANGED <<handler, restarts>>, NEW f \in FlowsOf(w),
           PopAndClose(f) \/ UNCHANGED <<store, charger>>,
           ~IsWorking(w) \/ (GaveUp(w)' /\ cause'[w] # {}),
           cause'[w] = {} => \A d \in FlowsOf(w) : d \notin store'
    PROVE  SessionInv'
<1>1. PICK o : Becomes(w, "ended", wf[w].kind, o, wf[w].flow)
    BY EndBecomes
<1>2. handler[w].flow \in FlowsOf(w)
    BY SessionFacts
<1> QED
    BY <1>1, <1>2, WorkflowLeavesFlows

\* It moves on without a call.
LEMMA WorkflowMovesOn ==
    ASSUME PayInv, SessionInv, NEW w \in Workflows, NEW pc \in {"probed", "startWait", "otp",
               "completeWait", "replay", "replaying"}, Move(w, pc), wf[w].pc # "ended",
           UNCHANGED <<handler, restarts, charger, store, cause>>,
           pc = "probed" => wf[w].pc = "probe",
           pc = "startWait" => wf[w].pc \in {"probed", "prepared"},
           cause[w] = {} => \A d \in FlowsOf(w) : d \in store => d \in Known(w)'
    PROVE  SessionInv'
<1>1. Becomes(w, pc, wf[w].kind, wf[w].outcome, wf[w].flow)
    BY MoveBecomes
<1>2. CauseGrows(w) /\ cause'[w] = cause[w]
    BY CauseStays, SessionFacts
<1>3. cause[w] = {} => wf[w].outcome = "running"
    BY SessionFacts DEF KnownOK
<1>4. ~LetGo(w)'
    BY <1>1 DEF LetGo, Becomes
<1>5. wf[w].flow \in FlowsOf(w)
    BY SessionFacts
<1> QED
    BY <1>1, <1>2, <1>3, <1>4, <1>5, WorkflowLeavesFlows

\* A cause that takes a workflow away from a handler that works.
LosesReply(why) == "reply lost" \in why

\* An end with a cancel, which removes the flow, is lost, or finds nothing.
LEMMA CancelsSoundly ==
    ASSUME PayInv, SessionInv, NEW w \in Workflows, NEW f \in FlowsOf(w),
           NEW why \in SUBSET Cause, End(w, "failed"), CancelFlow(w, f, why),
           UNCHANGED <<handler, restarts>>,
           ~IsWorking(w) \/ LosesReply(why),
           cause[w] = {} /\ why = {} => \A d \in FlowsOf(w) : d \in store => d = f
    PROVE  SessionInv'
<1>1. /\ CauseGrows(w)
      /\ PopAndClose(f) \/ (UNCHANGED <<store, charger>> /\ cause'[w] # {})
      /\ why # {} => cause'[w] # {}
      /\ LosesReply(why) => GaveUp(w)' /\ why # {}
    BY CancelGrows, SessionFacts, Zenon DEF LosesReply
<1>2. cause'[w] = {} => cause[w] = {}
    BY <1>1 DEF CauseGrows
<1>3. PopAndClose(f) => \A d \in store' : d \in store /\ d # f
    BY DEF PopAndClose
<1>4. cause'[w] = {} => \A d \in FlowsOf(w) : d \notin store'
    BY <1>1, <1>2, <1>3
<1> QED
    BY <1>1, <1>4, WorkflowEndsSoundly

\* An end without one.
LEMMA EndsSoundly ==
    ASSUME PayInv, SessionInv, NEW w \in Workflows, NEW outcome, NEW why \in SUBSET Cause,
           End(w, outcome), Blame(w, why) \/ (why = {} /\ UNCHANGED cause),
           UNCHANGED <<handler, store, charger, restarts>>,
           ~IsWorking(w) \/ LosesReply(why),
           cause[w] = {} /\ why = {} => \A d \in FlowsOf(w) : d \notin store
    PROVE  SessionInv'
<1>1. /\ CauseGrows(w)
      /\ why # {} => cause'[w] # {}
      /\ LosesReply(why) => GaveUp(w)' /\ why # {}
    BY BlameGrows, CauseStays, SessionFacts, Zenon DEF LosesReply
<1>2. cause'[w] = {} => cause[w] = {}
    BY <1>1 DEF CauseGrows
<1>3. cause'[w] = {} => \A d \in FlowsOf(w) : d \notin store'
    BY <1>1, <1>2
<1>4. wf[w].flow \in FlowsOf(w)
    BY SessionFacts
<1> QED
    BY <1>1, <1>3, <1>4, WorkflowEndsSoundly

\* What a workflow that met no fault has in the store.
LEMMA KnownFlows ==
    ASSUME PayInv, SessionInv, NEW w \in Workflows, cause[w] = {}
    PROVE  /\ wf[w].pc # "ended" => wf[w].outcome = "running"
           /\ wf[w].pc \in {"idle", "probe", "probed", "tier", "ended"} =>
                 \A d \in FlowsOf(w) : d \notin store
           /\ wf[w].pc \in {"prepare", "prepared", "startWait", "start"} =>
                 \A d \in FlowsOf(w) : d \in store => d = Prepared(w) /\ wf[w].kind = "gopay"
           /\ wf[w].pc = "fresh" => \A d \in FlowsOf(w) : d \in store => d = Fresh(w)
           /\ wf[w].pc \in {"otp", "completeWait", "resend", "complete", "replay", "replaying",
                            "confirm"} =>
                 \A d \in FlowsOf(w) : d \in store => d = wf[w].flow
BY SessionFacts DEF KnownOK, Known

\* What an answer tells it.
LEMMA AnswerFacts ==
    ASSUME PayInv, SessionInv, NEW w \in Workflows, NEW pc \in Waiting, NEW answer,
           Answered(w, pc, answer)
    PROVE  /\ wf[w].pc = pc /\ ~IsWorking(w) /\ pc # "ended"
           /\ handler[w].rpc = RpcOf(pc)
           /\ pc \in {"prepare", "start"} => handler[w].flow = Prepared(w)
           /\ pc = "fresh" => handler[w].flow = Fresh(w)
           /\ pc \in {"resend", "complete", "confirm"} => handler[w].flow = wf[w].flow
           /\ cause[w] = {} /\ ( \/ pc \in {"prepare", "fresh"} /\ answer = "fail"
                                 \/ pc = "start" /\ answer = "missing"
                                 \/ pc \in {"complete", "confirm"} /\ answer = "ok") =>
                 handler[w].flow \notin store
<1>1. wf[w].pc = pc /\ handler[w].step = "replied" /\ handler[w].reply = answer
    BY DEF Answered, At
<1>2. ~IsWorking(w) /\ pc # "ended"
    BY <1>1 DEF IsWorking, Working, Waiting
<1>3. handler[w].rpc = RpcOf(pc)
    BY <1>1, SessionFacts DEF PayOK, CallOK
<1>4. /\ pc \in {"prepare", "start"} => handler[w].flow = Prepared(w)
      /\ pc = "fresh" => handler[w].flow = Fresh(w)
      /\ pc \in {"resend", "complete", "confirm"} => handler[w].flow = wf[w].flow
    BY <1>1, <1>3, RpcsOf, SessionFacts DEF PayOK, CallOK, NewFlowsOK
<1> QED
    BY <1>1, <1>2, <1>3, <1>4, SessionFacts DEF KnownOK, LetGo

\* Where a workflow waits for no handler, none works.
LEMMA DecidesAlone ==
    ASSUME PayInv, SessionInv, NEW w \in Workflows,
           wf[w].pc \in {"idle", "probed", "prepared", "startWait", "otp", "completeWait",
                         "replay", "replaying"}
    PROVE  ~IsWorking(w) /\ wf[w].pc \notin Waiting /\ wf[w].pc # "ended"
<1>1. wf[w].pc \notin Waiting
    BY DEF Waiting
<1> QED
    BY <1>1, SessionFacts DEF PayOK, CallOK

\* The calls that look their flow up.
LEMMA StoredCallsSoundly ==
    ASSUME PayInv, SessionInv, NEW w \in Workflows, NEW pc \in {"start", "resend", "complete"},
           NEW rpc \in Sharing, NEW step \in Working \ {"session", "trial"}, NEW f \in FlowsOf(w),
           CallStored(w, rpc, f, step), UNCHANGED <<store, cause, restarts>>,
           Becomes(w, pc, wf[w].kind, wf[w].outcome, wf[w].flow),
           ~IsWorking(w), wf[w].pc # "ended",
           rpc = "StartPreparedGoPay" => f = Prepared(w),
           pc = "start" => wf[w].kind = "gopay" /\ wf[w].pc = "startWait",
           cause[w] = {} => \A d \in FlowsOf(w) : d \in store => d \in Known(w)'
    PROVE  SessionInv'
<1>1. /\ f \in FlowIds /\ rpc \in Rpcs /\ pc \in Waiting /\ UNCHANGED charger
      /\ handler \in [Workflows -> Handler]
    BY SessionFacts DEF Sharing, Rpcs, Waiting, CallStored, PayTypeOK
<1>2. rpc \notin {"PrepareGoPay", "StartGoPay", "ConfirmGoPayPayment", "ProbePlusTrial", "ProbeTier"}
    BY DEF Sharing
<1>3. "replied" \notin Working
    BY DEF Working
<1>4. CASE f \in store
    <2>1. HandlerCalled(w, rpc, step, f, "none")
        BY <1>1, <1>4, CalledMoves DEF CallStored, Steps, Replies
    <2> QED
        BY <1>1, <1>2, <1>3, <1>4, <2>1, WorkflowCallsSoundly
<1>5. CASE f \notin store
    <2>1. HandlerCalled(w, rpc, "replied", f, "missing")
        BY <1>1, <1>5, CalledMoves DEF CallStored, Steps, Replies
    <2> QED
        BY <1>1, <1>2, <1>3, <1>5, <2>1, WorkflowCallsSoundly
<1> QED
    BY <1>4, <1>5

-----------------------------------------------------------------------------
(* Every step of a workflow keeps the sessions sound.                       *)

\* The flow a workflow knows of after a step.
LEMMA KnownNext ==
    ASSUME NEW w, NEW pc, NEW kind, NEW outcome, NEW g, Becomes(w, pc, kind, outcome, g)
    PROVE  /\ pc \in {"prepare", "prepared", "startWait", "start"} /\ kind = "gopay" =>
                 Known(w)' = {Prepared(w)}
           /\ pc = "fresh" => Known(w)' = {Fresh(w)}
           /\ pc \in {"otp", "completeWait", "resend", "complete", "replay", "replaying",
                      "confirm"} => Known(w)' = {g}
BY DEF Becomes, Known

\* It ends, and nothing went wrong in this step.
LEMMA EndsQuietly ==
    ASSUME PayInv, SessionInv, NEW w \in Workflows, NEW outcome, End(w, outcome),
           UNCHANGED <<handler, store, charger, restarts, cause>>, ~IsWorking(w),
           cause[w] = {} => \A d \in FlowsOf(w) : d \notin store
    PROVE  SessionInv'
<1>1. {} \in SUBSET Cause
    OBVIOUS
<1>2. UNCHANGED <<handler, store, charger, restarts>> /\ UNCHANGED cause
    OBVIOUS
<1> QED
    BY <1>1, <1>2, EndsSoundly

\* It ends with a cancel of the only flow it can have in the store.
LEMMA CancelsQuietly ==
    ASSUME PayInv, SessionInv, NEW w \in Workflows, NEW f \in FlowsOf(w),
           End(w, "failed"), CancelFlow(w, f, {}), UNCHANGED <<handler, restarts>>, ~IsWorking(w),
           cause[w] = {} => \A d \in FlowsOf(w) : d \in store => d = f
    PROVE  SessionInv'
<1>1. {} \in SUBSET Cause
    OBVIOUS
<1> QED
    BY <1>1, CancelsSoundly

\* It goes on, or ends, without a call: a new flow of its own, or none.
LEMMA WorkflowGoesOnSoundly ==
    ASSUME PayInv, SessionInv, NEW w \in Workflows, NEW pc, NEW kind, NEW outcome,
           NEW g \in FlowsOf(w), Becomes(w, pc, kind, outcome, g),
           UNCHANGED <<handler, restarts, charger, store, cause>>,
           pc \in {"probed", "prepared", "otp", "completeWait", "ended"}, ~IsWorking(w),
           pc = "probed" => wf[w].pc = "idle",
           pc = "prepared" => kind = "gopay" /\ wf[w].pc = "prepare",
           cause[w] = {} => pc = "ended" \/ outcome = "running",
           cause[w] = {} => \A d \in FlowsOf(w) : d \in store => d \in Known(w)'
    PROVE  SessionInv'
<1>1. CauseGrows(w) /\ cause'[w] = cause[w]
    BY CauseStays, SessionFacts
<1>2. ~LetGo(w)'
    BY DEF LetGo, Becomes
<1> QED
    BY <1>1, <1>2, WorkflowLeavesFlows

LEMMA BeginSoundly ==
    ASSUME PayInv, SessionInv, NEW w \in Workflows, Begin(w)
    PROVE  SessionInv'
<1>1. /\ wf[w].pc = "idle" /\ ~IsWorking(w) /\ UNCHANGED <<cause, restarts>>
      /\ wf \in [Workflows -> Workflow] /\ wf[w] \in Workflow
      /\ handler \in [Workflows -> Handler] /\ wf[w].flow \in FlowsOf(w)
      /\ Probe(w) \in FlowsOf(w) /\ Probe(w) \in FlowIds
    BY DecidesAlone, SessionFacts DEF Begin, PayTypeOK
<1>2. cause[w] = {} => wf[w].outcome = "running" /\ \A d \in FlowsOf(w) : d \notin store
    BY <1>1, KnownFlows
<1>3. PICK k \in {"activate", "autopay", "gopay"}, t \in BOOLEAN :
          \/ /\ wf' = [wf EXCEPT ![w].pc = "probe", ![w].kind = k, ![w].tokenization = t]
             /\ ProbePlusTrial(w)
          \/ /\ wf' = [wf EXCEPT ![w].pc = "probed", ![w].tokenization = t]
             /\ UNCHANGED <<handler, charger, store>>
    BY DEF Begin
<1>4. CASE /\ wf' = [wf EXCEPT ![w].pc = "probe", ![w].kind = k, ![w].tokenization = t]
           /\ ProbePlusTrial(w)
    <2> DEFINE v == [wf[w] EXCEPT !.pc = "probe", !.kind = k, !.tokenization = t]
    <2>1. v.pc = "probe" /\ v.kind = k /\ v.outcome = wf[w].outcome /\ v.flow = wf[w].flow
        BY <1>1 DEF Workflow
    <2>2. wf' = [wf EXCEPT ![w] = v]
        BY <1>4
    <2> HIDE DEF v
    <2>3. Becomes(w, "probe", k, wf[w].outcome, wf[w].flow)
        BY <1>1, <2>1, <2>2 DEF Becomes
    <2>4. HandlerCalled(w, "ProbePlusTrial", "session", Probe(w), "none")
        BY <1>1, <1>4, CalledMoves DEF ProbePlusTrial, Rpcs, Steps, Working, Replies
    <2>5. UNCHANGED <<store, charger>> /\ "probe" \in Waiting /\ "session" \in Working
        BY <1>4 DEF ProbePlusTrial, Waiting, Working
    <2> QED
        BY <1>1, <1>2, <2>3, <2>4, <2>5, WorkflowCallsSoundly
<1>5. CASE /\ wf' = [wf EXCEPT ![w].pc = "probed", ![w].tokenization = t]
           /\ UNCHANGED <<handler, charger, store>>
    <2> DEFINE v == [wf[w] EXCEPT !.pc = "probed", !.tokenization = t]
    <2>1. /\ v.pc = "probed" /\ v.kind = wf[w].kind
          /\ v.outcome = wf[w].outcome /\ v.flow = wf[w].flow
        BY <1>1 DEF Workflow
    <2>2. wf' = [wf EXCEPT ![w] = v]
        BY <1>5
    <2> HIDE DEF v
    <2>3. Becomes(w, "probed", wf[w].kind, wf[w].outcome, wf[w].flow)
        BY <1>1, <2>1, <2>2 DEF Becomes
    <2> QED
        BY <1>1, <1>2, <1>5, <2>3, WorkflowGoesOnSoundly
<1> QED
    BY <1>3, <1>4, <1>5

LEMMA ProbeReturnsSoundly ==
    ASSUME PayInv, SessionInv, NEW w \in Workflows, ProbeReturns(w)
    PROVE  SessionInv'
<1>1. /\ wf[w].pc = "probe" /\ ~IsWorking(w)
      /\ UNCHANGED <<handler, charger, store, cause, restarts>>
    BY Deciding DEF ProbeReturns
<1>2. cause[w] = {} => \A d \in FlowsOf(w) : d \notin store
    BY <1>1, KnownFlows
<1>3. CASE End(w, "failed")
    BY <1>1, <1>2, <1>3, EndsQuietly
<1>4. CASE Move(w, "probed")
    BY <1>1, <1>2, <1>4, WorkflowMovesOn
<1> QED
    BY <1>3, <1>4 DEF ProbeReturns

\* A new flow begins.
LEMMA NewFlowSoundly ==
    ASSUME PayInv, SessionInv, NEW w \in Workflows, NEW pc \in {"prepare", "fresh"},
           NEW rpc \in {"PrepareGoPay", "StartGoPay"}, NEW f \in FlowsOf(w),
           Move(w, pc), CallNew(w, rpc, f), UNCHANGED <<cause, restarts>>,
           ~IsWorking(w), wf[w].pc # "ended", f \notin store,
           rpc = "PrepareGoPay" => f = Prepared(w) /\ pc = "prepare",
           rpc = "StartGoPay" => f = Fresh(w) /\ pc = "fresh",
           pc = "prepare" => wf[w].kind = "gopay" /\ wf[w].pc = "probed",
           cause[w] = {} => \A d \in FlowsOf(w) : d \notin store
    PROVE  SessionInv'
<1>1. Becomes(w, pc, wf[w].kind, wf[w].outcome, wf[w].flow)
    BY MoveBecomes
<1>2. HandlerCalled(w, rpc, "checkout", f, "none")
    BY SessionFacts, CalledMoves DEF CallNew, Rpcs, Steps, Working, Replies, PayTypeOK
<1>3. /\ pc \in Waiting /\ "checkout" \in Working
      /\ UNCHANGED store /\ charger' = [charger EXCEPT ![f] = "open"]
    BY DEF Waiting, Working, CallNew
<1> QED
    BY <1>1, <1>2, <1>3, WorkflowCallsSoundly

LEMMA PrepareSoundly ==
    ASSUME PayInv, SessionInv, NEW w \in Workflows, Prepare(w)
    PROVE  SessionInv'
<1>1. wf[w].pc = "probed" /\ ~IsWorking(w) /\ UNCHANGED <<cause, restarts>>
    BY DecidesAlone DEF Prepare
<1>2. cause[w] = {} => \A d \in FlowsOf(w) : d \notin store
    BY <1>1, KnownFlows
<1>3. CASE wf[w].kind = "gopay" /\ Move(w, "prepare") /\ PrepareGoPay(w)
    <2>1. Prepared(w) \in FlowsOf(w) /\ Prepared(w) \notin store
        BY <1>1, SessionFacts DEF NewFlowsOK
    <2> QED
        BY <1>1, <1>2, <1>3, <2>1, NewFlowSoundly DEF PrepareGoPay
<1>4. CASE Move(w, "startWait") /\ UNCHANGED <<handler, charger, store>>
    BY <1>1, <1>2, <1>4, WorkflowMovesOn
<1>5. CASE End(w, "failed") /\ UNCHANGED <<handler, charger, store>>
    BY <1>1, <1>2, <1>5, EndsQuietly
<1> QED
    BY <1>3, <1>4, <1>5 DEF Prepare

LEMMA PrepareReturnsSoundly ==
    ASSUME PayInv, SessionInv, NEW w \in Workflows, PrepareReturns(w)
    PROVE  SessionInv'
<1>1. UNCHANGED <<handler, charger, store, cause, restarts>>
    BY DEF PrepareReturns
<1>2. PICK answer \in {"ok", "fail"} : Answered(w, "prepare", answer)
    BY DEF PrepareReturns
<1>3. /\ wf[w].pc = "prepare" /\ ~IsWorking(w) /\ handler[w].flow = Prepared(w)
      /\ cause[w] = {} /\ answer = "fail" => Prepared(w) \notin store
    BY <1>2, AnswerFacts DEF Waiting
<1>4. /\ cause[w] = {} => wf[w].outcome = "running"
      /\ cause[w] = {} => \A d \in FlowsOf(w) : d \in store => d = Prepared(w)
      /\ wf[w].kind = "gopay"
    BY <1>3, KnownFlows, SessionFacts DEF NewFlowsOK
<1>5. CASE End(w, "failed") /\ (answer = "fail" \/ Abandoned(w))
    BY <1>1, <1>3, <1>4, <1>5, EndsQuietly DEF Abandoned
<1>6. CASE wf' = [wf EXCEPT ![w].pc = "prepared", ![w].flow = Prepared(w)]
    <2> DEFINE v == [wf[w] EXCEPT !.pc = "prepared", !.flow = Prepared(w)]
    <2>1. wf \in [Workflows -> Workflow] /\ wf[w] \in Workflow /\ Prepared(w) \in FlowsOf(w)
        BY SessionFacts DEF PayTypeOK
    <2>2. /\ v.pc = "prepared" /\ v.kind = wf[w].kind
          /\ v.outcome = wf[w].outcome /\ v.flow = Prepared(w)
        BY <2>1 DEF Workflow
    <2>3. wf' = [wf EXCEPT ![w] = v]
        BY <1>6
    <2> HIDE DEF v
    <2>4. Becomes(w, "prepared", wf[w].kind, wf[w].outcome, Prepared(w))
        BY <2>1, <2>2, <2>3 DEF Becomes
    <2>5. Known(w)' = {Prepared(w)}
        BY <1>4, <2>4, KnownNext
    <2> QED
        BY <1>1, <1>3, <1>4, <2>1, <2>4, <2>5, WorkflowGoesOnSoundly
<1> QED
    BY <1>2, <1>5, <1>6 DEF PrepareReturns, Answered

LEMMA CreatePinSoundly ==
    ASSUME PayInv, SessionInv, NEW w \in Workflows, CreatePin(w)
    PROVE  SessionInv'
<1>1. wf[w].pc = "prepared" /\ ~IsWorking(w) /\ UNCHANGED <<handler, restarts>>
    BY DecidesAlone DEF CreatePin
<1>2. /\ cause[w] = {} => \A d \in FlowsOf(w) : d \in store => d = Prepared(w)
      /\ wf[w].kind = "gopay" /\ Prepared(w) \in FlowsOf(w)
    BY <1>1, KnownFlows, SessionFacts DEF NewFlowsOK
<1>3. CASE Move(w, "startWait") /\ UNCHANGED <<store, charger, cause>>
    <2>1. Known(w)' = {Prepared(w)}
        BY <1>2, <1>3, MoveBecomes, KnownNext
    <2> QED
        BY <1>1, <1>2, <1>3, <2>1, WorkflowMovesOn
<1>4. CASE End(w, "failed") /\ CancelFlow(w, Prepared(w), {})
    BY <1>1, <1>2, <1>4, CancelsQuietly
<1> QED
    BY <1>3, <1>4 DEF CreatePin

\* The start activity fails: only the flow prepared for it is cancelled.
LEMMA StartFailsSoundly ==
    ASSUME PayInv, SessionInv, NEW w \in Workflows, NEW why \in SUBSET Cause,
           StartFailed(w, why), UNCHANGED <<handler, restarts>>, wf[w].pc # "ended",
           ~IsWorking(w) \/ LosesReply(why),
           cause[w] = {} /\ why = {} =>
               \A d \in FlowsOf(w) : d \in store => d = Prepared(w) /\ wf[w].kind = "gopay"
    PROVE  SessionInv'
<1>1. End(w, "failed") /\ Prepared(w) \in FlowsOf(w)
    BY SessionFacts DEF StartFailed
<1>2. CASE wf[w].kind = "gopay" /\ ~Abandoned(w)
    <2>1. CancelFlow(w, Prepared(w), why)
        BY <1>2 DEF StartFailed
    <2> QED
        BY <1>1, <2>1, CancelsSoundly
<1>3. CASE wf[w].kind # "gopay" \/ Abandoned(w)
    <2>1. Blame(w, why) /\ UNCHANGED <<store, charger>>
        BY <1>3 DEF StartFailed
    <2>2. cause[w] = {} => wf[w].outcome = "running"
        BY KnownFlows
    <2>3. cause[w] = {} /\ why = {} => \A d \in FlowsOf(w) : d \notin store
        BY <1>3, <2>2 DEF Abandoned
    <2>4. UNCHANGED <<handler, store, charger, restarts>>
        BY <2>1
    <2> QED
        BY <1>1, <2>1, <2>3, <2>4, EndsSoundly
<1> QED
    BY <1>2, <1>3

LEMMA StartActivitySoundly ==
    ASSUME PayInv, SessionInv, NEW w \in Workflows, StartActivity(w)
    PROVE  SessionInv'
<1>1. wf[w].pc = "startWait" /\ ~IsWorking(w) /\ UNCHANGED restarts
    BY DecidesAlone DEF StartActivity
<1>2. /\ cause[w] = {} =>
             \A d \in FlowsOf(w) : d \in store => d = Prepared(w) /\ wf[w].kind = "gopay"
      /\ Prepared(w) \in FlowsOf(w) /\ Fresh(w) \in FlowsOf(w) /\ Fresh(w) \notin store
    BY <1>1, KnownFlows, SessionFacts DEF NewFlowsOK
<1>3. CASE wf[w].kind = "gopay" /\ Move(w, "start") /\ StartPreparedGoPay(w) /\ UNCHANGED cause
    <2>1. Becomes(w, "start", wf[w].kind, wf[w].outcome, wf[w].flow)
        BY <1>3, MoveBecomes
    <2>2. Known(w)' = {Prepared(w)}
        BY <1>3, <2>1, KnownNext
    <2>3. "StartPreparedGoPay" \in Sharing /\ "loading" \in Working \ {"session", "trial"}
        BY DEF Sharing, Working
    <2>4. /\ CallStored(w, "StartPreparedGoPay", Prepared(w), "loading")
          /\ UNCHANGED <<store, cause, restarts>>
        BY <1>1, <1>3 DEF StartPreparedGoPay
    <2> QED
        BY <1>1, <1>2, <1>3, <2>1, <2>2, <2>3, <2>4, StoredCallsSoundly
<1>4. CASE wf[w].kind # "gopay" /\ Move(w, "fresh") /\ StartGoPay(w) /\ UNCHANGED cause
    BY <1>1, <1>2, <1>4, NewFlowSoundly DEF StartGoPay
<1>5. CASE StartFailed(w, {}) /\ UNCHANGED handler
    <2>1. {} \in SUBSET Cause /\ UNCHANGED <<handler, restarts>>
        BY <1>1, <1>5
    <2> QED
        BY <1>1, <1>2, <1>5, <2>1, StartFailsSoundly
<1> QED
    BY <1>3, <1>4, <1>5 DEF StartActivity

LEMMA StartReturnsSoundly ==
    ASSUME PayInv, SessionInv, NEW w \in Workflows, StartReturns(w)
    PROVE  SessionInv'
<1>1. UNCHANGED restarts
    BY DEF StartReturns
<1>2. \A pc \in {"start", "fresh"}, answer \in {"ok", "missing", "fail"} :
          Answered(w, pc, answer) =>
              /\ wf[w].pc = pc /\ ~IsWorking(w)
              /\ pc = "start" => handler[w].flow = Prepared(w)
              /\ pc = "fresh" => handler[w].flow = Fresh(w)
              /\ cause[w] = {} /\ pc = "fresh" /\ answer = "fail" => Fresh(w) \notin store
              /\ cause[w] = {} /\ pc = "start" /\ answer = "missing" => Prepared(w) \notin store
    BY AnswerFacts DEF Waiting
<1>3. /\ cause[w] = {} /\ wf[w].pc = "start" =>
            \A d \in FlowsOf(w) : d \in store => d = Prepared(w) /\ wf[w].kind = "gopay"
      /\ cause[w] = {} /\ wf[w].pc = "fresh" =>
            \A d \in FlowsOf(w) : d \in store => d = Fresh(w)
      /\ cause[w] = {} /\ wf[w].pc \in {"start", "fresh"} => wf[w].outcome = "running"
      /\ Prepared(w) \in FlowsOf(w) /\ Fresh(w) \in FlowsOf(w)
    BY KnownFlows, SessionFacts
<1>4. CASE /\ Answered(w, "start", "missing") /\ Move(w, "fresh") /\ StartGoPay(w)
           /\ UNCHANGED cause
    <2>1. wf[w].pc = "start" /\ ~IsWorking(w) /\ (cause[w] = {} => Prepared(w) \notin store)
        BY <1>2, <1>4
    <2>2. Fresh(w) \notin store
        BY <2>1, SessionFacts DEF NewFlowsOK
    <2> QED
        BY <1>1, <1>3, <1>4, <2>1, <2>2, NewFlowSoundly DEF StartGoPay
<1>5. CASE /\ \E pc \in {"start", "fresh"} : Answered(w, pc, "ok")
           /\ LET f == handler[w].flow IN
              wf' = [wf EXCEPT ![w].flow = f, ![w].otp = state[f].otp,
                               ![w].pc = IF Abandoned(w) THEN "ended"
                                         ELSE IF state[f].otp THEN "otp" ELSE "completeWait"]
           /\ UNCHANGED <<handler, charger, store, cause>>
    <2> DEFINE f == handler[w].flow
               pc == IF Abandoned(w) THEN "ended"
                     ELSE IF state[f].otp THEN "otp" ELSE "completeWait"
               v == [wf[w] EXCEPT !.flow = f, !.otp = state[f].otp, !.pc = pc]
    <2>1. /\ wf \in [Workflows -> Workflow] /\ wf[w] \in Workflow /\ f \in FlowsOf(w)
          /\ wf' = [wf EXCEPT ![w] = v]
        BY <1>5, SessionFacts DEF PayTypeOK
    <2>2. /\ wf[w].pc \in {"start", "fresh"} /\ ~IsWorking(w)
          /\ cause[w] = {} => \A d \in FlowsOf(w) : d \in store => d = f
        BY <1>2, <1>3, <1>5
    <2>3. pc \in {"otp", "completeWait", "ended"} /\ (pc = "ended" <=> Abandoned(w))
        OBVIOUS
    <2> HIDE DEF f, pc
    <2>4. v.pc = pc /\ v.kind = wf[w].kind /\ v.outcome = wf[w].outcome /\ v.flow = f
        BY <2>1 DEF Workflow
    <2> HIDE DEF v
    <2>5. Becomes(w, pc, wf[w].kind, wf[w].outcome, f)
        BY <2>1, <2>4 DEF Becomes
    <2>6. pc # "ended" => Known(w)' = {f}
        BY <2>3, <2>5, KnownNext
    <2>7. cause[w] = {} => pc # "ended" /\ wf[w].outcome = "running"
        BY <1>3, <2>2, <2>3 DEF Abandoned
    <2>8. UNCHANGED <<handler, restarts, charger, store, cause>>
        BY <1>1, <1>5
    <2> QED
        BY <2>1, <2>2, <2>3, <2>5, <2>6, <2>7, <2>8, WorkflowGoesOnSoundly
<1>6. CASE /\ \E pc \in {"start", "fresh"} : Answered(w, pc, "fail")
           /\ StartFailed(w, {}) /\ UNCHANGED handler
    <2> PICK pc \in {"start", "fresh"} : Answered(w, pc, "fail")
        BY <1>6
    <2>0. /\ wf[w].pc = pc /\ ~IsWorking(w)
          /\ cause[w] = {} /\ pc = "fresh" => Fresh(w) \notin store
        BY <1>2
    <2>1. cause[w] = {} =>
              \A d \in FlowsOf(w) : d \in store => d = Prepared(w) /\ wf[w].kind = "gopay"
        BY <1>3, <2>0
    <2>2. {} \in SUBSET Cause /\ UNCHANGED <<handler, restarts>>
        BY <1>1, <1>6
    <2> QED
        BY <1>6, <2>0, <2>1, <2>2, StartFailsSoundly
<1> QED
    BY <1>4, <1>5, <1>6 DEF StartReturns

LEMMA WaitOTPSoundly ==
    ASSUME PayInv, SessionInv, NEW w \in Workflows, WaitOTP(w)
    PROVE  SessionInv'
<1> DEFINE f == wf[w].flow
<1>1. wf[w].pc = "otp" /\ ~IsWorking(w) /\ UNCHANGED restarts
    BY DecidesAlone DEF WaitOTP
<1>2. /\ cause[w] = {} => \A d \in FlowsOf(w) : d \in store => d = f
      /\ f \in FlowsOf(w) /\ wf \in [Workflows -> Workflow] /\ wf[w] \in Workflow
    BY <1>1, KnownFlows, SessionFacts DEF PayTypeOK
<1>3. CASE Move(w, "completeWait") /\ UNCHANGED <<handler, charger, store, cause>>
    <2>1. Known(w)' = {f}
        BY <1>3, MoveBecomes, KnownNext
    <2> QED
        BY <1>1, <1>2, <1>3, <2>1, WorkflowMovesOn
<1>4. CASE /\ wf' = [wf EXCEPT ![w].pc = "resend", ![w].resent = TRUE]
           /\ ResendGoPayOTP(w, f) /\ UNCHANGED cause
    <2> DEFINE v == [wf[w] EXCEPT !.pc = "resend", !.resent = TRUE]
    <2>1. v.pc = "resend" /\ v.kind = wf[w].kind /\ v.outcome = wf[w].outcome /\ v.flow = f
        BY <1>2 DEF Workflow
    <2>2. wf' = [wf EXCEPT ![w] = v]
        BY <1>4
    <2> HIDE DEF v
    <2>3. Becomes(w, "resend", wf[w].kind, wf[w].outcome, f)
        BY <1>2, <2>1, <2>2 DEF Becomes
    <2>4. Known(w)' = {f}
        BY <2>3, KnownNext
    <2>5. "ResendGoPayOTP" \in Sharing /\ "resending" \in Working \ {"session", "trial"}
        BY DEF Sharing, Working
    <2>6. CallStored(w, "ResendGoPayOTP", f, "resending") /\ UNCHANGED <<store, cause, restarts>>
        BY <1>1, <1>4 DEF ResendGoPayOTP
    <2> QED
        BY <1>1, <1>2, <2>3, <2>4, <2>5, <2>6, StoredCallsSoundly
<1>5. CASE End(w, "failed") /\ CancelFlow(w, f, {}) /\ UNCHANGED handler
    BY <1>1, <1>2, <1>5, CancelsQuietly
<1> QED
    BY <1>3, <1>4, <1>5 DEF WaitOTP

LEMMA ResendReturnsSoundly ==
    ASSUME PayInv, SessionInv, NEW w \in Workflows, ResendReturns(w)
    PROVE  SessionInv'
<1> DEFINE f == wf[w].flow
<1>1. wf[w].pc = "resend" /\ ~IsWorking(w) /\ UNCHANGED <<handler, restarts>>
    BY Deciding DEF ResendReturns
<1>2. /\ cause[w] = {} => \A d \in FlowsOf(w) : d \in store => d = f
      /\ cause[w] = {} => ~Abandoned(w)
      /\ f \in FlowsOf(w)
    BY <1>1, KnownFlows, SessionFacts DEF Abandoned
<1>3. CASE Move(w, "otp") /\ UNCHANGED <<store, charger, cause>>
    <2>1. Known(w)' = {f}
        BY <1>3, MoveBecomes, KnownNext
    <2> QED
        BY <1>1, <1>2, <1>3, <2>1, WorkflowMovesOn
<1>4. CASE Abandoned(w) /\ End(w, "failed") /\ UNCHANGED <<store, charger, cause>>
    BY <1>1, <1>2, <1>4, EndsQuietly
<1>5. CASE End(w, "failed") /\ CancelFlow(w, f, {})
    BY <1>1, <1>2, <1>5, CancelsQuietly
<1> QED
    BY <1>3, <1>4, <1>5 DEF ResendReturns

LEMMA CompleteActivitySoundly ==
    ASSUME PayInv, SessionInv, NEW w \in Workflows, CompleteActivity(w)
    PROVE  SessionInv'
<1> DEFINE f == wf[w].flow
<1>1. /\ wf[w].pc = "completeWait" /\ UNCHANGED restarts
      /\ \/ /\ End(w, "failed") /\ UNCHANGED <<handler, charger, store>>
            /\ \E why \in SUBSET Cause : why # {} /\ Blame(w, why)
         \/ Move(w, "complete") /\ CompleteGoPay(w, f) /\ UNCHANGED cause
    BY Zenon DEF CompleteActivity, Cause
<1>2. /\ ~IsWorking(w) /\ wf[w].pc # "ended"
      /\ cause[w] = {} => \A d \in FlowsOf(w) : d \in store => d = f
      /\ f \in FlowsOf(w) /\ f \in FlowIds /\ handler \in [Workflows -> Handler]
    BY <1>1, DecidesAlone, KnownFlows, SessionFacts DEF PayTypeOK
<1>3. ASSUME NEW why \in SUBSET Cause, why # {}, Blame(w, why), End(w, "failed"),
             UNCHANGED <<handler, charger, store>>
      PROVE  SessionInv'
    <2>1. UNCHANGED <<handler, store, charger, restarts>>
        BY <1>1, <1>3
    <2> QED
        BY <1>2, <1>3, <2>1, EndsSoundly
<1>4. CASE Move(w, "complete") /\ CompleteGoPay(w, f) /\ UNCHANGED cause
    <2>1. Becomes(w, "complete", wf[w].kind, wf[w].outcome, f)
        BY <1>4, MoveBecomes
    <2>2. Known(w)' = {f}
        BY <2>1, KnownNext
    <2>3. /\ "CompleteGoPay" \in Sharing /\ "complete" \in Waiting
          /\ {"otp", "settling"} \subseteq Working \ {"session", "trial"}
          /\ UNCHANGED <<store, charger, cause, restarts>>
        BY <1>1, <1>4 DEF Sharing, Waiting, Working, CompleteGoPay, CallStored
    <2>4. CASE Called(w, "CompleteGoPay", "replied", f, "manual")
        <3>1. HandlerCalled(w, "CompleteGoPay", "replied", f, "manual")
            BY <1>2, <2>4, CalledMoves DEF Rpcs, Steps, Replies
        <3>2. "replied" \notin Working
            BY DEF Working
        <3> QED
            BY <1>2, <2>1, <2>2, <2>3, <3>1, <3>2, WorkflowCallsSoundly DEF Sharing
    <2>5. CASE \E step \in {"otp", "settling"} : CallStored(w, "CompleteGoPay", f, step)
        <3> PICK step \in {"otp", "settling"} : CallStored(w, "CompleteGoPay", f, step)
            BY <2>5
        <3>1. step \in Working \ {"session", "trial"}
            BY <2>3
        <3>2. UNCHANGED <<store, cause, restarts>>
            BY <2>3
        <3> QED
            BY <1>2, <2>1, <2>2, <2>3, <3>1, <3>2, StoredCallsSoundly
    <2> QED
        BY <1>4, <2>4, <2>5 DEF CompleteGoPay
<1> QED
    BY <1>1, <1>3, <1>4

LEMMA CompleteReturnsSoundly ==
    ASSUME PayInv, SessionInv, NEW w \in Workflows, CompleteReturns(w)
    PROVE  SessionInv'
<1> DEFINE f == wf[w].flow
<1>1. /\ wf[w].pc \in {"complete", "confirm"} /\ ~IsWorking(w) /\ UNCHANGED restarts
    BY Deciding DEF CompleteReturns
<1>2. /\ cause[w] = {} => \A d \in FlowsOf(w) : d \in store => d = f
      /\ f \in FlowsOf(w) /\ Probe(w) \in FlowsOf(w) /\ Probe(w) \in FlowIds
      /\ handler \in [Workflows -> Handler]
    BY <1>1, KnownFlows, SessionFacts DEF PayTypeOK
<1>3. CASE \E pc \in {"complete", "confirm"} : Answered(w, pc, "ok")
    <2>1. cause[w] = {} => f \notin store
        BY <1>3, AnswerFacts DEF Waiting
    <2>2. cause[w] = {} => \A d \in FlowsOf(w) : d \notin store
        BY <1>2, <2>1
    <2>3. CASE Move(w, "tier") /\ ProbeTier(w) /\ UNCHANGED cause
        <3>1. Becomes(w, "tier", wf[w].kind, wf[w].outcome, f)
            BY <2>3, MoveBecomes
        <3>2. HandlerCalled(w, "ProbeTier", "tier", Probe(w), "none")
            BY <1>2, <2>3, CalledMoves DEF ProbeTier, Rpcs, Steps, Working, Replies
        <3>3. UNCHANGED <<store, charger>> /\ "tier" \in Waiting /\ "tier" \in Working
            BY <2>3 DEF ProbeTier, Waiting, Working
        <3> QED
            BY <1>1, <1>2, <2>2, <2>3, <3>1, <3>2, <3>3, WorkflowCallsSoundly
    <2>4. CASE /\ \E outcome \in {"succeeded", "failed"} : End(w, outcome)
               /\ UNCHANGED <<handler, store, charger, cause>>
        BY <1>1, <2>2, <2>4, EndsQuietly
    <2>5. /\ ~Answered(w, "complete", "manual")
          /\ ~\E pc \in {"complete", "confirm"}, answer \in {"fail", "missing"} :
                 Answered(w, pc, answer)
        BY <1>3 DEF Answered
    <2> QED
        BY <2>3, <2>4, <2>5 DEF CompleteReturns
<1>4. CASE Move(w, "replay") /\ UNCHANGED <<handler, store, charger, cause>>
    <2>1. Known(w)' = {f}
        BY <1>4, MoveBecomes, KnownNext
    <2> QED
        BY <1>1, <1>2, <1>4, <2>1, WorkflowMovesOn
<1>5. CASE CompleteFailed(w, {}) /\ UNCHANGED handler
    BY <1>1, <1>2, <1>5, CancelsQuietly DEF CompleteFailed
<1> QED
    BY <1>3, <1>4, <1>5 DEF CompleteReturns

LEMMA TierReturnsSoundly ==
    ASSUME PayInv, SessionInv, NEW w \in Workflows, TierReturns(w)
    PROVE  SessionInv'
<1>1. /\ wf[w].pc = "tier" /\ ~IsWorking(w)
      /\ UNCHANGED <<handler, charger, store, cause, restarts>>
    BY Deciding DEF TierReturns
<1>2. cause[w] = {} => \A d \in FlowsOf(w) : d \notin store
    BY <1>1, KnownFlows
<1>3. \E outcome : End(w, outcome)
    BY DEF TierReturns
<1> QED
    BY <1>1, <1>2, <1>3, EndsQuietly

LEMMA ReplaySoundly ==
    ASSUME PayInv, SessionInv, NEW w \in Workflows, Replay(w)
    PROVE  SessionInv'
<1> DEFINE f == wf[w].flow
<1>1. wf[w].pc = "replay" /\ ~IsWorking(w) /\ UNCHANGED <<handler, restarts>>
    BY DecidesAlone DEF Replay
<1>2. /\ cause[w] = {} => \A d \in FlowsOf(w) : d \in store => d = f
      /\ f \in FlowsOf(w)
    BY <1>1, KnownFlows, SessionFacts
<1>3. CASE Move(w, "replaying") /\ UNCHANGED <<charger, store, cause>>
    <2>1. Known(w)' = {f}
        BY <1>3, MoveBecomes, KnownNext
    <2> QED
        BY <1>1, <1>2, <1>3, <2>1, WorkflowMovesOn
<1>4. CASE CompleteFailed(w, {})
    BY <1>1, <1>2, <1>4, CancelsQuietly DEF CompleteFailed
<1> QED
    BY <1>3, <1>4 DEF Replay

LEMMA ReplayReturnsSoundly ==
    ASSUME PayInv, SessionInv, NEW w \in Workflows, ReplayReturns(w)
    PROVE  SessionInv'
<1> DEFINE f == wf[w].flow
<1>1. wf[w].pc = "replaying" /\ ~IsWorking(w) /\ UNCHANGED restarts
    BY DecidesAlone DEF ReplayReturns
<1>2. /\ cause[w] = {} => \A d \in FlowsOf(w) : d \in store => d = f
      /\ f \in FlowsOf(w) /\ f \in FlowIds /\ handler \in [Workflows -> Handler]
    BY <1>1, KnownFlows, SessionFacts DEF PayTypeOK
<1>3. CASE Move(w, "confirm") /\ ConfirmGoPayPayment(w, f) /\ UNCHANGED cause
    <2>1. Becomes(w, "confirm", wf[w].kind, wf[w].outcome, f)
        BY <1>3, MoveBecomes
    <2>2. Known(w)' = {f}
        BY <2>1, KnownNext
    <2>3. /\ store' = store \ {f} /\ UNCHANGED charger
          /\ "settled" \in Working /\ "replied" \notin Working /\ "confirm" \in Waiting
        BY <1>3 DEF ConfirmGoPayPayment, CallStored, Working, Waiting
    <2>4. \A d \in FlowsOf(w) : cause[w] = {} => d \notin store'
        BY <1>2, <2>3
    <2>5. CASE f \in store
        <3>1. HandlerCalled(w, "ConfirmGoPayPayment", "settled", f, "none")
            BY <1>2, <1>3, <2>5, CalledMoves
               DEF ConfirmGoPayPayment, CallStored, Rpcs, Steps, Working, Replies
        <3> QED
            BY <1>1, <1>2, <1>3, <2>1, <2>3, <2>4, <2>5, <3>1, WorkflowCallsSoundly
    <2>6. CASE f \notin store
        <3>1. HandlerCalled(w, "ConfirmGoPayPayment", "replied", f, "missing")
            BY <1>2, <1>3, <2>6, CalledMoves
               DEF ConfirmGoPayPayment, CallStored, Rpcs, Steps, Replies
        <3> QED
            BY <1>1, <1>2, <1>3, <2>1, <2>3, <2>4, <2>6, <3>1, WorkflowCallsSoundly
    <2> QED
        BY <2>5, <2>6
<1>4. CASE CompleteFailed(w, {}) /\ UNCHANGED handler
    BY <1>1, <1>2, <1>4, CancelsQuietly DEF CompleteFailed
<1> QED
    BY <1>3, <1>4 DEF ReplayReturns

LEMMA ReplyLostSoundly ==
    ASSUME PayInv, SessionInv, NEW w \in Workflows, ReplyLost(w)
    PROVE  SessionInv'
<1>1. \E why \in SUBSET Cause :
          /\ why # {} /\ LosesReply(why) /\ UNCHANGED <<handler, restarts>>
          /\ \/ End(w, "failed") /\ Blame(w, why) /\ UNCHANGED <<store, charger>>
             \/ wf[w].pc \in {"start", "fresh"} /\ StartFailed(w, why)
             \/ End(w, "failed") /\ CancelFlow(w, wf[w].flow, why)
    BY Zenon DEF ReplyLost, CompleteFailed, LosesReply, Cause
<1>2. PICK why \in SUBSET Cause :
          /\ why # {} /\ LosesReply(why) /\ UNCHANGED <<handler, restarts>>
          /\ \/ End(w, "failed") /\ Blame(w, why) /\ UNCHANGED <<store, charger>>
             \/ wf[w].pc \in {"start", "fresh"} /\ StartFailed(w, why)
             \/ End(w, "failed") /\ CancelFlow(w, wf[w].flow, why)
    BY <1>1, Zenon
<1>3. CASE End(w, "failed") /\ Blame(w, why) /\ UNCHANGED <<store, charger>>
    <2>1. UNCHANGED <<handler, store, charger, restarts>>
        BY <1>2, <1>3
    <2> QED
        BY <1>2, <1>3, <2>1, EndsSoundly
<1>4. CASE wf[w].pc \in {"start", "fresh"} /\ StartFailed(w, why)
    BY <1>2, <1>4, StartFailsSoundly
<1>5. CASE End(w, "failed") /\ CancelFlow(w, wf[w].flow, why)
    <2>1. wf[w].flow \in FlowsOf(w)
        BY SessionFacts
    <2> QED
        BY <1>2, <1>5, <2>1, CancelsSoundly
<1> QED
    BY <1>2, <1>3, <1>4, <1>5

\* The workflow has given up: its cancel may close the sessions of a handler at work.
LEMMA TimeoutSoundly ==
    ASSUME PayInv, SessionInv, NEW w \in Workflows, ActivityTimesOut(w)
    PROVE  SessionInv'
<1> DEFINE v == [wf[w] EXCEPT !.outcome = "failed"]
<1>1. /\ wf' = [wf EXCEPT ![w] = v]
      /\ UNCHANGED <<handler, restarts>>
    BY Zenon DEF ActivityTimesOut
<1>2. wf[w].pc # "idle"
    BY Zenon DEF ActivityTimesOut, Waiting
<1>3. \E why \in SUBSET Cause :
          /\ why # {} /\ "timed out" \in why
          /\ \/ CancelFlow(w, Prepared(w), why) \/ CancelFlow(w, wf[w].flow, why)
             \/ Blame(w, why) /\ UNCHANGED <<store, charger>>
    BY Zenon DEF ActivityTimesOut, Cause
<1>4. /\ wf \in [Workflows -> Workflow] /\ wf[w] \in Workflow /\ SessionTypeOK
      /\ Prepared(w) \in FlowsOf(w) /\ wf[w].flow \in FlowsOf(w)
      /\ wf[w].pc \in {"prepare", "prepared", "start"} => wf[w].kind = "gopay"
    BY SessionFacts DEF PayTypeOK, NewFlowsOK
<1>5. /\ CauseGrows(w) /\ cause'[w] # {} /\ GaveUp(w)'
      /\ \E f \in FlowsOf(w) : PopAndClose(f) \/ UNCHANGED <<store, charger>>
    BY <1>3, <1>4, CancelGrows, BlameGrows, Zenon
<1>6. v.pc = wf[w].pc /\ v.kind = wf[w].kind /\ v.outcome = "failed" /\ v.flow = wf[w].flow
    BY <1>4 DEF Workflow
<1> HIDE DEF v
<1>7. Becomes(w, wf[w].pc, wf[w].kind, "failed", wf[w].flow)
    BY <1>1, <1>4, <1>6 DEF Becomes
<1> QED
    BY <1>1, <1>2, <1>4, <1>5, <1>7, WorkflowLeavesFlows

LEMMA WorkflowKeepsSessions ==
    ASSUME PayInv, SessionInv, NEW w \in Workflows, WorkflowStep(w)
    PROVE  SessionInv'
<1>1. CASE \/ Begin(w) \/ ProbeReturns(w) \/ Prepare(w) \/ PrepareReturns(w) \/ CreatePin(w)
           \/ StartActivity(w) \/ StartReturns(w) \/ WaitOTP(w)
    BY <1>1, BeginSoundly, ProbeReturnsSoundly, PrepareSoundly, PrepareReturnsSoundly,
       CreatePinSoundly, StartActivitySoundly, StartReturnsSoundly, WaitOTPSoundly
<1>2. CASE \/ ResendReturns(w) \/ CompleteActivity(w) \/ CompleteReturns(w) \/ TierReturns(w)
           \/ Replay(w) \/ ReplayReturns(w) \/ ReplyLost(w) \/ ActivityTimesOut(w)
    BY <1>2, ResendReturnsSoundly, CompleteActivitySoundly, CompleteReturnsSoundly,
       TierReturnsSoundly, ReplaySoundly, ReplayReturnsSoundly, ReplyLostSoundly, TimeoutSoundly
<1> QED
    BY <1>1, <1>2 DEF WorkflowStep

LEMMA NextKeepsSessions == PayInv /\ SessionInv /\ [Next]_vars => SessionInv'
<1> SUFFICES ASSUME PayInv, SessionInv, [Next]_vars PROVE SessionInv'
    OBVIOUS
<1>1. CASE UNCHANGED vars
    BY <1>1, OthersKeepSessions DEF vars
<1>2. CASE Restart
    BY <1>2, RestartKeepsSessions
<1>3. ASSUME NEW w \in Workflows, ServiceStep(w) \/ ReplayStep(w) \/ WorkflowStep(w)
      PROVE  SessionInv'
    <2>1. ReplayStep(w) => UNCHANGED <<wf, handler, charger, store, cause, restarts>>
        BY DEF ReplayStep, PaymentDetail, PaymentOrder, Capture, Captured, ReplayFails
    <2> QED
        BY <1>3, <2>1, OthersKeepSessions, ServiceKeepsSessions, WorkflowKeepsSessions
<1> QED
    BY <1>1, <1>2, <1>3 DEF Next

LEMMA SessionsInvariant == Spec => [](PayInv /\ SessionInv)
<1>1. Init => PayInv /\ SessionInv
    BY InitPays, InitSession
<1>2. (PayInv /\ SessionInv) /\ [Next]_vars => (PayInv /\ SessionInv)'
    BY NextPays, NextKeepsSessions
<1> QED
    BY <1>1, <1>2, PTL DEF Spec

\* The sessions of every flow have one owner through every early return, except
\* clause, cancel and restart, and the cancels of a payment never close them under
\* a handler whose caller still waits.
THEOREM SessionsStaySound == Spec => []ChargersAreSound
<1>1. PayInv /\ SessionInv => ChargersAreSound
    <2> SUFFICES ASSUME PayInv, SessionInv PROVE ChargersAreSound
        OBVIOUS
    <2>1. PaymentTypeOK
        BY DEF PayInv, PayTypeOK, SessionInv, SessionTypeOK, PaymentTypeOK
    <2>2. ASSUME NEW f \in FlowIds
          PROVE  /\ charger[f] = "open" =>
                        f \in store \/ \E u \in Workflows : IsWorking(u) /\ handler[u].flow = f
                 /\ f \in store => charger[f] = "open"
        <3>1. PICK u \in Workflows : f \in FlowsOf(u)
            BY DEF FlowIds, FlowsOf, Probe, Prepared, Fresh
        <3>2. Holds(u) => IsWorking(u)
            BY DEF Holds, At, IsWorking, Working
        <3> QED
            BY <3>1, <3>2, SessionFacts DEF OwnersOK, Settled
    <2>3. ChargersAreOwned
        BY <2>2, SessionFacts DEF ChargersAreOwned, SessionInv, SessionTypeOK
    <2>4. ASSUME NEW w \in Workflows, IsWorking(w), ~At(w, "tier"),
                 charger[handler[w].flow] = "closed"
          PROVE  GaveUp(w)
        <3> DEFINE f == handler[w].flow
                   rpc == handler[w].rpc
        <3>1. ~Holds(w) /\ f \notin store
            BY <2>4, SessionFacts DEF OwnersOK, Settled
        <3>2. handler[w].step \in StepsOf(rpc) /\ rpc \in Rpcs
            BY <2>4, SessionFacts DEF PayOK, HandlerOK, Handler, Rpcs
        <3>3. rpc # "ProbeTier" /\ rpc # "none"
            BY <2>4, <3>2 DEF StepsOf, At
        <3>4. rpc # "ProbePlusTrial"
            <4>1. At(w, "session") /\ rpc = "ProbePlusTrial" => charger[f] = "none"
                BY SessionFacts DEF NewFlowsOK, At
            <4>2. rpc = "ProbePlusTrial" => At(w, "session") \/ At(w, "trial")
                BY <3>2 DEF StepsOf, At
            <4> QED
                BY <2>4, <3>1, <4>1, <4>2 DEF Holds
        <3>5. rpc \in Sharing
            BY <2>4, <3>1, <3>2, <3>3, <3>4 DEF Rpcs, Holds, Holding, Sharing
        <3> QED
            BY <2>4, <3>1, <3>5, SessionFacts DEF SparedOK
    <2>5. ASSUME NEW w \in Workflows, GaveUp(w)
          PROVE  cause[w] \cap {"reply lost", "timed out"} # {}
        BY <2>5, Zenon DEF GaveUp
    <2>6. CancelSparesHandlers
        BY <2>4, <2>5, Zenon DEF CancelSparesHandlers
    <2> QED
        BY <2>1, <2>3, <2>6 DEF ChargersAreSound
<1> QED
    BY <1>1, SessionsInvariant, PTL

\* A flow that outlives its payment in the store was left there by a lost answer, a
\* lost cancel, a missed deadline or a code that could not be read back.
THEOREM LeaksAreExplained == Spec => []LeaksHaveACause
<1>1. PayInv /\ SessionInv => LeaksHaveACause
    <2> SUFFICES ASSUME PayInv, SessionInv, NEW f \in store, Quiet(f[1]), cause[f[1]] = {}
                 PROVE  FALSE
        BY DEF LeaksHaveACause
    <2>1. f \in FlowIds
        BY DEF SessionInv, SessionTypeOK
    <2>2. PICK u \in Workflows : f \in FlowsOf(u) /\ f[1] = u
        BY <2>1 DEF FlowIds, FlowsOf, Probe, Prepared, Fresh
    <2>3. wf[u].pc = "ended" /\ cause[u] = {}
        BY <2>2 DEF Quiet
    <2> QED
        BY <2>2, <2>3, KnownFlows
<1> QED
    BY <1>1, SessionsInvariant, PTL
=============================================================================
