----------------------------- MODULE SupplyProofs -----------------------------
(***************************************************************************)
(* Proofs about what the workflows are supplied with: SmsActivations, for  *)
(* any limits of failures and retries and any number of activations, and   *)
(* MailboxRegistration, for any mailboxes, any jobs and any number of      *)
(* restarts of the service.                                                *)
(***************************************************************************)
EXTENDS SmsActivations, MailboxRegistration, FiniteSetTheorems, TLAPS

(***************************************************************************)
(* SmsActivations                                                          *)
(***************************************************************************)

-----------------------------------------------------------------------------
(* The invariant.  A workflow that holds an activation has rented it; one  *)
(* that is given up was rented before.                                     *)

Holding == Steps \ {"get_number", "ended"}

Workflow == [at: Steps, id: 0..MaxActivations, failures: 0..MaxFailures, attempt: 0..MaxRetries]

WorkflowOK ==
    /\ wf.at = "get_number" => wf.id = 0
    /\ wf.at \in Holding => wf.id \in Ids /\ activations[wf.id] # "free"
    /\ wf.at # "ended" => wf.failures < MaxFailures
    /\ wf.at = "change_retry" => wf.attempt < MaxRetries

RentInv ==
    /\ SmsTypeOK
    /\ WorkflowOK
    /\ \A i \in cancels : activations[i] # "free"
    /\ ActivationsAreReleased
    /\ NoCancelUnderUse

LEMMA InitRent == SmsInit => RentInv
<1> SUFFICES ASSUME SmsInit PROVE RentInv
    OBVIOUS
<1>1. SmsTypeOK
    <2>1. 0 \in 0..MaxActivations /\ 0 \in 0..MaxFailures /\ 0 \in 0..MaxRetries
          /\ 0 \in 0..MaxDeaths
        BY SmsAssumption
    <2>2. wf \in [at: Steps, id: 0..MaxActivations, failures: 0..MaxFailures, attempt: 0..MaxRetries]
        BY <2>1 DEF SmsInit, Steps
    <2>3. wf.at \notin ChangeSteps \cup DeactivateSteps
        BY DEF SmsInit, ChangeSteps, DeactivateSteps
    <2>4. activations \in [Ids -> ActivationStates]
        BY DEF SmsInit, ActivationStates
    <2> QED
        BY <2>1, <2>2, <2>3, <2>4 DEF SmsInit, SmsTypeOK
<1> QED
    BY <1>1, SmsAssumption
       DEF SmsInit, RentInv, WorkflowOK, Holding, ActivationsAreReleased, NoCancelUnderUse, Live, Ids

-----------------------------------------------------------------------------
(* What the steps of the workflow do to it.                                *)

LEMMA Goes ==
    ASSUME RentInv, NEW step \in Steps, Goto(step)
    PROVE  /\ wf' \in Workflow
           /\ wf'.at = step /\ wf'.id = wf.id
           /\ wf'.failures = wf.failures /\ wf'.attempt = wf.attempt
BY DEF RentInv, SmsTypeOK, Goto, Workflow

\* The round is over: another one, or the end.
LEMMA Records ==
    ASSUME RentInv, wf.at # "ended", RecordFailure
    PROVE  /\ wf' \in Workflow
           /\ \/ /\ wf'.at = "get_number" /\ wf'.id = 0
                 /\ wf'.failures = wf.failures + 1 /\ wf'.failures < MaxFailures
              \/ wf'.at = "ended"
<1>1. /\ wf \in Workflow /\ wf.failures < MaxFailures
      /\ wf.failures \in Nat /\ MaxFailures \in Nat /\ 0 \in 0..MaxActivations /\ 0 \in 0..MaxRetries
    BY SmsAssumption DEF RentInv, SmsTypeOK, WorkflowOK, Workflow
<1>2. CASE wf.failures + 1 >= MaxFailures
    <2>1. wf' = [wf EXCEPT !.at = "ended", !.failures = wf.failures + 1]
        BY <1>2 DEF RecordFailure
    <2>2. wf.failures + 1 \in 0..MaxFailures
        BY <1>1
    <2> QED
        BY <1>1, <2>1, <2>2 DEF Workflow, Steps
<1>3. CASE ~(wf.failures + 1 >= MaxFailures)
    BY <1>1, <1>3 DEF RecordFailure, Workflow, Steps
<1> QED
    BY <1>2, <1>3

\* The workflow goes on with the activation it holds.
LEMMA StaysRent ==
    ASSUME RentInv, wf' \in Workflow, wf.at \in Holding, wf'.at \in Holding, wf'.id = wf.id,
           wf'.failures = wf.failures, wf'.at = "change_retry" => wf'.attempt < MaxRetries,
           UNCHANGED <<sms, activations, cancels, unreleased, deaths>>
    PROVE  RentInv'
<1>1. SmsTypeOK' /\ WorkflowOK'
    BY DEF RentInv, SmsTypeOK, WorkflowOK, Holding, Workflow, sms
<1>2. ActivationsAreReleased' /\ NoCancelUnderUse'
    BY DEF RentInv, ActivationsAreReleased, NoCancelUnderUse, Live, Holding
<1> QED
    BY <1>1, <1>2 DEF RentInv

\* It lets go of the activation, which somebody else then has to release, or has
\* released.
LEMMA LetsGoRent ==
    ASSUME RentInv, wf.at \in Holding, RecordFailure \/ Goto("ended"),
           UNCHANGED <<sms, deaths>>,
           activations' \in [Ids -> ActivationStates],
           \A i \in Ids : activations'[i] = activations[i] \/ (i = wf.id /\ activations'[i] = "finished"),
           cancels' = cancels \/ cancels' = cancels \cup {wf.id},
           unreleased \subseteq unreleased', unreleased' \subseteq Ids,
           activations'[wf.id] = "finished" \/ wf.id \in cancels' \/ wf.id \in unreleased'
    PROVE  RentInv'
<1>1. wf.id \in Ids /\ activations[wf.id] # "free" /\ wf.at # "ended"
    BY DEF RentInv, WorkflowOK, Holding
<1>2. /\ wf' \in Workflow
      /\ \/ wf'.at = "get_number" /\ wf'.id = 0 /\ wf'.failures < MaxFailures
         \/ wf'.at = "ended"
    BY <1>1, Records, Goes DEF Steps
<1>3. SmsTypeOK' /\ WorkflowOK'
    <2>1. wf'.at \notin ChangeSteps \cup DeactivateSteps /\ wf'.at \notin Holding
        BY <1>2 DEF Holding, ChangeSteps, DeactivateSteps
    <2> QED
        BY <1>1, <1>2, <2>1 DEF RentInv, SmsTypeOK, WorkflowOK, Workflow, sms
<1>4. \A i \in cancels' : activations'[i] # "free"
    BY <1>1 DEF RentInv, SmsTypeOK
<1>5. ActivationsAreReleased'
    <2> SUFFICES ASSUME NEW i \in Ids, Live(i)'
                 PROVE  i \in cancels' \/ i \in unreleased'
        BY DEF ActivationsAreReleased
    <2>1. CASE i = wf.id
        BY <2>1 DEF Live
    <2>2. CASE i # wf.id
        BY <2>2 DEF RentInv, ActivationsAreReleased, Live
    <2> QED
        BY <2>1, <2>2
<1>6. NoCancelUnderUse'
    BY <1>1, <1>2 DEF RentInv, SmsTypeOK, NoCancelUnderUse, Ids
<1> QED
    BY <1>3, <1>4, <1>5, <1>6 DEF RentInv

LEMMA AcquireRent ==
    ASSUME RentInv, AcquireNumber
    PROVE  RentInv'
<1>1. wf.at = "get_number" /\ wf.id = 0 /\ UNCHANGED <<sms, cancels, deaths>>
    BY DEF AcquireNumber, RentInv, WorkflowOK
<1>2. \A i \in Ids : Live(i) => i \in cancels \/ i \in unreleased
    BY <1>1 DEF RentInv, ActivationsAreReleased, Ids
<1>3. CASE /\ RecordFailure \/ Goto("ended")
           /\ UNCHANGED <<activations, unreleased>>
    <2>1. /\ wf' \in Workflow
          /\ \/ wf'.at = "get_number" /\ wf'.id = 0 /\ wf'.failures < MaxFailures
             \/ wf'.at = "ended"
        BY <1>1, <1>3, Records, Goes DEF Steps
    <2>2. wf'.at \notin ChangeSteps \cup DeactivateSteps /\ wf'.at \notin Holding
        BY <2>1 DEF Holding, ChangeSteps, DeactivateSteps
    <2>3. SmsTypeOK' /\ WorkflowOK'
        BY <1>1, <1>3, <2>1, <2>2 DEF RentInv, SmsTypeOK, WorkflowOK, Workflow, sms
    <2>4. ActivationsAreReleased'
        BY <1>1, <1>2, <1>3 DEF ActivationsAreReleased, Live
    <2>5. NoCancelUnderUse'
        BY <1>1, <2>1 DEF RentInv, SmsTypeOK, NoCancelUnderUse, Ids
    <2> QED
        BY <1>1, <1>3, <2>3, <2>4, <2>5 DEF RentInv
<1>4. ASSUME NEW i \in Ids, activations[i] = "free",
             activations' = [activations EXCEPT ![i] = "waiting"],
             \/ wf' = [wf EXCEPT !.at = "check_phone", !.id = i] /\ UNCHANGED unreleased
             \/ RecordFailure /\ unreleased' = unreleased \cup {i}
             \/ Goto("ended") /\ unreleased' = unreleased \cup {i}
      PROVE  RentInv'
    <2>1. /\ activations' \in [Ids -> ActivationStates]
          /\ activations'[i] = "waiting"
          /\ \A j \in Ids \ {i} : activations'[j] = activations[j]
        BY <1>4 DEF RentInv, SmsTypeOK, ActivationStates
    <2>2. /\ wf' \in Workflow
          /\ \/ /\ wf'.at = "check_phone" /\ wf'.id = i
                /\ wf'.failures = wf.failures /\ unreleased' = unreleased
             \/ /\ wf'.at = "get_number" /\ wf'.id = 0 /\ wf'.failures < MaxFailures
                /\ unreleased' = unreleased \cup {i}
             \/ wf'.at = "ended" /\ unreleased' = unreleased \cup {i}
        <3>1. CASE wf' = [wf EXCEPT !.at = "check_phone", !.id = i] /\ UNCHANGED unreleased
            <4>1. i \in 0..MaxActivations
                BY SmsAssumption DEF Ids
            <4> QED
                BY <3>1, <4>1 DEF RentInv, SmsTypeOK, Workflow, Steps, ChangeSteps
        <3>2. CASE Goto("ended") /\ unreleased' = unreleased \cup {i}
            BY <3>2, Goes DEF Steps
        <3>3. CASE RecordFailure /\ unreleased' = unreleased \cup {i}
            BY <1>1, <3>3, Records DEF Steps
        <3> QED
            BY <1>4, <3>1, <3>2, <3>3
    <2>3. SmsTypeOK'
        BY <1>1, <2>1, <2>2
           DEF RentInv, SmsTypeOK, Workflow, sms, ChangeSteps, DeactivateSteps
    <2>4. WorkflowOK'
        BY <1>1, <2>1, <2>2 DEF RentInv, WorkflowOK, Holding
    <2>5. \A j \in cancels' : activations'[j] # "free"
        BY <1>1, <2>1 DEF RentInv, SmsTypeOK
    <2>6. ActivationsAreReleased'
        BY <1>1, <1>2, <2>1, <2>2 DEF ActivationsAreReleased, Live
    <2>7. NoCancelUnderUse'
        BY <1>1, <1>4, <2>2 DEF RentInv, NoCancelUnderUse
    <2> QED
        BY <2>3, <2>4, <2>5, <2>6, <2>7 DEF RentInv
<1> QED
    BY <1>3, <1>4 DEF AcquireNumber

\* finishSMSActivation finishes the activation or leaves it unreleased.
LEMMA Finishes ==
    ASSUME RentInv, wf.id \in Ids, FinishActivation(wf.id)
    PROVE  /\ activations' \in [Ids -> ActivationStates]
           /\ \A i \in Ids : \/ activations'[i] = activations[i]
                             \/ i = wf.id /\ activations'[i] = "finished"
           /\ unreleased \subseteq unreleased' /\ unreleased' \subseteq Ids
           /\ activations'[wf.id] = "finished" \/ wf.id \in unreleased'
BY DEF FinishActivation, RentInv, SmsTypeOK, ActivationStates

LEMMA WorkflowRent ==
    ASSUME RentInv, WorkflowStep
    PROVE  RentInv'
<1>1. CASE AcquireNumber
    BY <1>1, AcquireRent
<1>2. ASSUME NEW step \in Holding, step # "change_retry", Goto(step), wf.at \in Holding,
             UNCHANGED <<sms, activations, cancels, unreleased, deaths>>
      PROVE  RentInv'
    BY <1>2, Goes, StaysRent DEF Holding
<1>3. ASSUME wf.at \in Holding, RecordFailure \/ Goto("ended"), CancelAsync(wf.id),
             UNCHANGED <<sms, activations, unreleased, deaths>>
      PROVE  RentInv'
    <2>1. cancels' = cancels \cup {wf.id}
        BY <1>3 DEF CancelAsync
    <2> QED
        BY <1>3, <2>1, LetsGoRent DEF RentInv, SmsTypeOK
<1>4. ASSUME wf.at \in Holding, RecordFailure \/ Goto("ended"), FinishActivation(wf.id),
             UNCHANGED <<sms, cancels, deaths>>
      PROVE  RentInv'
    <2>1. wf.id \in Ids
        BY <1>4 DEF RentInv, WorkflowOK
    <2> QED
        BY <1>4, <2>1, Finishes, LetsGoRent
<1>5. CASE CheckPhone
    BY <1>2, <1>3, <1>5 DEF CheckPhone, Holding, Steps, ChangeSteps
<1>6. CASE ChangePhoneStart
    BY <1>2, <1>3, <1>6 DEF ChangePhoneStart, Holding, Steps, ChangeSteps
<1>7. CASE MarkMessageSent
    BY <1>2, <1>3, <1>7 DEF MarkMessageSent, Holding, Steps, ChangeSteps
<1>8. CASE WaitCode
    <2>1. UNCHANGED <<sms, activations, cancels, unreleased, deaths>> /\ wf.at \in Holding
        BY <1>8 DEF WaitCode, Holding, Steps, ChangeSteps, DeactivateSteps
    <2>2. CASE \E step \in {"change_complete", "cancel_and_end", "deactivate_complete", "finish"} :
                   Goto(step)
        BY <1>2, <2>1, <2>2 DEF Holding, Steps, ChangeSteps, DeactivateSteps
    <2>3. CASE Goto(MissedCode(wf.attempt))
        <3>1. CASE wf.attempt < MaxRetries
            <4>1. Goto("change_retry")
                BY <2>3, <3>1 DEF MissedCode
            <4> QED
                BY <2>1, <3>1, <4>1, Goes, StaysRent DEF Holding, Steps, ChangeSteps
        <3>2. CASE ~(wf.attempt < MaxRetries)
            <4>1. Goto("cancel")
                BY <2>3, <3>2 DEF MissedCode
            <4> QED
                BY <1>2, <2>1, <4>1 DEF Holding, Steps, ChangeSteps
        <3> QED
            BY <3>1, <3>2
    <2> QED
        BY <1>8, <2>2, <2>3 DEF WaitCode
<1>9. CASE ChangePhoneRetry
    <2>1. /\ UNCHANGED <<sms, activations, cancels, unreleased, deaths>>
          /\ wf.at = "change_retry" /\ wf.at \in Holding
        BY <1>9 DEF ChangePhoneRetry, Holding, Steps, ChangeSteps
    <2>2. CASE wf' = [wf EXCEPT !.at = "wait_code", !.attempt = wf.attempt + 1]
        <3>1. wf \in Workflow /\ wf.attempt + 1 \in 0..MaxRetries
            BY <2>1, SmsAssumption DEF RentInv, SmsTypeOK, WorkflowOK, Workflow
        <3>2. /\ wf' \in Workflow /\ wf'.at = "wait_code" /\ wf'.id = wf.id
              /\ wf'.failures = wf.failures
            BY <2>2, <3>1 DEF Workflow, Steps, ChangeSteps
        <3> QED
            BY <2>1, <3>2, StaysRent DEF Holding, Steps, ChangeSteps
    <2>3. CASE Goto("cancel") \/ Goto("cancel_and_end")
        BY <1>2, <2>1, <2>3 DEF Holding, Steps, ChangeSteps
    <2> QED
        BY <1>9, <2>2, <2>3 DEF ChangePhoneRetry
<1>10. CASE CancelBeforeRotation
    BY <1>3, <1>10 DEF CancelBeforeRotation, Holding, Steps, ChangeSteps
<1>11. CASE ChangePhoneComplete
    BY <1>2, <1>4, <1>11 DEF ChangePhoneComplete, Holding, Steps, ChangeSteps
<1>12. CASE StatusAfterChange
    <2>1. wf.at \in Holding /\ UNCHANGED <<sms, activations, cancels, deaths>>
        BY <1>12 DEF StatusAfterChange, Holding, Steps, ChangeSteps
    <2>2. wf.id \in Ids
        BY <2>1 DEF RentInv, WorkflowOK
    <2>3. CASE Goto("deactivate_start") /\ UNCHANGED unreleased
        BY <1>2, <2>1, <2>3 DEF Holding, Steps, DeactivateSteps
    <2>4. CASE Goto("ended") /\ unreleased' = unreleased \cup {wf.id}
        BY <2>1, <2>2, <2>4, LetsGoRent DEF RentInv, SmsTypeOK
    <2> QED
        BY <1>12, <2>3, <2>4 DEF StatusAfterChange
<1>13. CASE DeactivateStart
    BY <1>2, <1>4, <1>13 DEF DeactivateStart, Holding, Steps, DeactivateSteps
<1>14. CASE DeactivateComplete
    BY <1>4, <1>14 DEF DeactivateComplete, Holding, Steps, DeactivateSteps
<1> QED
    BY <1>1, <1>5, <1>6, <1>7, <1>8, <1>9, <1>10, <1>11, <1>12, <1>13, <1>14 DEF WorkflowStep

-----------------------------------------------------------------------------
(* The other steps.                                                        *)

\* An activity dies with the goroutines of its worker, or without.
LEMMA DiesRent ==
    ASSUME RentInv, ActivityDies
    PROVE  RentInv'
<1>1. PICK lost \in SUBSET cancels :
          /\ cancels' = cancels \ lost
          /\ \/ /\ wf.at \in {"wait_code", "change_retry", "deactivate_wait"}
                /\ Goto("cancel_and_end") \/ Goto("finish")
                /\ unreleased' = unreleased \cup lost
             \/ /\ Goto("ended")
                /\ unreleased' = unreleased \cup lost \cup ({wf.id} \ {0})
    BY DEF ActivityDies
<1>2. UNCHANGED <<sms, activations>> /\ deaths' \in 0..MaxDeaths /\ wf.at # "ended"
    BY SmsAssumption DEF ActivityDies, RentInv, SmsTypeOK
<1>3. wf.id \in Ids \cup {0} /\ (wf.at \in Holding => wf.id \in Ids /\ activations[wf.id] # "free")
    BY SmsAssumption DEF RentInv, SmsTypeOK, WorkflowOK, Ids
<1>4. /\ wf' \in Workflow /\ wf'.id = wf.id /\ wf'.failures = wf.failures
      /\ wf'.at \in {"cancel_and_end", "finish", "ended"}
      /\ wf'.at # "ended" => /\ wf.at \in Holding
                             /\ unreleased' = unreleased \cup lost
      /\ wf'.at = "ended" => unreleased' = unreleased \cup lost \cup ({wf.id} \ {0})
    BY <1>1, Goes DEF Holding, Steps, ChangeSteps, DeactivateSteps
<1>5. SmsTypeOK'
    BY <1>1, <1>2, <1>3, <1>4 DEF RentInv, SmsTypeOK, Workflow, sms, ChangeSteps, DeactivateSteps
<1>6. WorkflowOK'
    BY <1>2, <1>3, <1>4 DEF RentInv, WorkflowOK, Holding
<1>7. ActivationsAreReleased'
    <2> SUFFICES ASSUME NEW i \in Ids, Live(i)
                 PROVE  \/ wf'.id = i /\ wf'.at # "ended"
                        \/ i \in cancels' \/ i \in unreleased'
        BY <1>2 DEF ActivationsAreReleased, Live
    <2>1. CASE wf.id = i
        BY <1>4, <2>1 DEF Ids
    <2>2. CASE i \in cancels
        BY <1>1, <1>4, <2>2
    <2>3. CASE i \in unreleased
        BY <1>4, <2>3
    <2> QED
        BY <2>1, <2>2, <2>3 DEF RentInv, ActivationsAreReleased
<1>8. NoCancelUnderUse' /\ \A i \in cancels' : activations'[i] # "free"
    BY <1>1, <1>2, <1>4 DEF RentInv, NoCancelUnderUse
<1> QED
    BY <1>5, <1>6, <1>7, <1>8 DEF RentInv

\* The provider, or a goroutine, ends an activation or brings its code.
LEMMA ProviderRent ==
    ASSUME RentInv, NEW i \in Ids, UNCHANGED <<sms, wf, deaths>>,
           cancels' \subseteq cancels, unreleased \subseteq unreleased', unreleased' \subseteq Ids,
           \/ activations' = activations
           \/ activations[i] # "free" /\ \E s \in {"code", "cancelled"} :
                  activations' = [activations EXCEPT ![i] = s],
           Live(i)' => Live(i) /\ (i \in cancels' \/ i \in unreleased' \/ i \notin cancels),
           \A j \in cancels \ cancels' : j = i
    PROVE  RentInv'
<1>1. /\ activations' \in [Ids -> ActivationStates]
      /\ \A j \in Ids \ {i} : activations'[j] = activations[j]
      /\ \A j \in Ids : activations[j] # "free" => activations'[j] # "free"
    BY DEF RentInv, SmsTypeOK, ActivationStates
<1>2. wf.at \in ChangeSteps \cup DeactivateSteps => wf.at \in Holding
    BY DEF Holding, Steps, ChangeSteps, DeactivateSteps
<1>3. SmsTypeOK' /\ WorkflowOK'
    BY <1>1, <1>2 DEF RentInv, SmsTypeOK, WorkflowOK, sms
<1>4. \A j \in cancels' : activations'[j] # "free"
    BY <1>1 DEF RentInv, SmsTypeOK
<1>5. ActivationsAreReleased'
    BY <1>1 DEF RentInv, ActivationsAreReleased, Live
<1>6. NoCancelUnderUse'
    BY DEF RentInv, NoCancelUnderUse
<1> QED
    BY <1>3, <1>4, <1>5, <1>6 DEF RentInv

\* What is written to the row of the provider.
LEMMA RowRent ==
    ASSUME RentInv, UNCHANGED <<activations, wf, cancels, unreleased, deaths>>,
           config' \in Rows, bootstrap' \in {"pending", "read", "done"}, between' \in BOOLEAN
    PROVE  RentInv'
<1>1. SmsTypeOK' /\ WorkflowOK'
    BY DEF RentInv, SmsTypeOK, WorkflowOK
<1>2. ActivationsAreReleased' /\ NoCancelUnderUse'
    BY DEF RentInv, ActivationsAreReleased, NoCancelUnderUse, Live
<1> QED
    BY <1>1, <1>2 DEF RentInv

LEMMA NextRent == RentInv /\ [SmsNext]_smsVars => RentInv'
<1> SUFFICES ASSUME RentInv, [SmsNext]_smsVars PROVE RentInv'
    OBVIOUS
<1>1. config \in Rows /\ bootstrap \in {"pending", "read", "done"} /\ between \in BOOLEAN
      /\ unreleased \subseteq Ids /\ activations \in [Ids -> ActivationStates]
    BY DEF RentInv, SmsTypeOK
<1>2. CASE UpsertProvider \/ DeleteProvider \/ BootstrapReads \/ BootstrapWrites \/ SmsServiceRestarts
    <2>1. /\ UNCHANGED <<activations, wf, cancels, unreleased, deaths>>
          /\ config' \in Rows /\ bootstrap' \in {"pending", "read", "done"} /\ between' \in BOOLEAN
        BY <1>1, <1>2 DEF UpsertProvider, DeleteProvider, BootstrapReads, BootstrapWrites,
                          SmsServiceRestarts, Rows
    <2> QED
        BY <2>1, RowRent
<1>3. ASSUME NEW i \in Ids, CodeArrives(i) \/ ProviderCancels(i)
      PROVE  RentInv'
    <2>1. /\ UNCHANGED <<sms, wf, cancels, unreleased, deaths>>
          /\ activations[i] = "waiting"
          /\ \E s \in {"code", "cancelled"} : activations' = [activations EXCEPT ![i] = s]
        BY <1>3 DEF CodeArrives, ProviderCancels
    <2> QED
        BY <1>1, <2>1, ProviderRent DEF Live
<1>4. ASSUME NEW i \in Ids, CancelActivation(i)
      PROVE  RentInv'
    <2>1. /\ UNCHANGED <<sms, wf, deaths>> /\ cancels' = cancels \ {i}
          /\ \/ /\ activations[i] = "waiting" /\ unreleased' = unreleased
                /\ activations' = [activations EXCEPT ![i] = "cancelled"]
             \/ /\ activations[i] \in {"cancelled", "finished"}
                /\ activations' = activations /\ unreleased' = unreleased
             \/ unreleased' = unreleased \cup {i} /\ activations' = activations
        BY <1>4 DEF CancelActivation
    <2>2. Live(i)' => Live(i) /\ i \in unreleased'
        BY <1>1, <2>1 DEF Live
    <2> QED
        BY <1>1, <2>1, <2>2, ProviderRent
<1>5. CASE UNCHANGED smsVars
    BY <1>1, <1>5, RowRent DEF smsVars, sms
<1> QED
    BY <1>2, <1>3, <1>4, <1>5, WorkflowRent, DiesRent DEF SmsNext

LEMMA RentIsSound == SmsSpec => []RentInv
BY InitRent, NextRent, PTL DEF SmsSpec

\* For any limits: no rented number is forgotten, and none is cancelled under the
\* workflow that waits on it.
THEOREM ActivationsStaySound == SmsSpec => []ActivationsAreSound
<1>1. RentInv => ActivationsAreSound
    BY DEF RentInv, ActivationsAreSound
<1> QED
    BY <1>1, RentIsSound, PTL

-----------------------------------------------------------------------------
(* What a change of phone spends.  A round rents one number at most, and a *)
(* round that ends is a failure or the last one.                           *)

Rented == {i \in Ids : activations[i] # "free"}

SpendInv ==
    /\ wf.at = "get_number" => Cardinality(Rented) <= wf.failures
    /\ wf.at \in Holding => Cardinality(Rented) <= wf.failures + 1
    /\ Cardinality(Rented) <= MaxFailures

LEMMA RentedIsFinite == IsFiniteSet(Rented) /\ Cardinality(Rented) \in Nat
<1>1. IsFiniteSet(Ids)
    BY SmsAssumption, FS_Interval DEF Ids
<1>2. Rented \subseteq Ids
    BY DEF Rented
<1> QED
    BY <1>1, <1>2, FS_Subset, FS_CardinalityType

\* A step that rents nothing, and where it leaves the workflow.
LEMMA NothingRented ==
    ASSUME RentInv, SpendInv, Rented' = Rented,
           \/ wf' = wf
           \/ wf'.at = "ended"
           \/ wf.at \in Holding /\ wf'.at # "get_number" /\ wf'.failures = wf.failures
           \/ wf.at # "ended" /\ wf'.at = "get_number" /\ wf'.failures = wf.failures + 1
    PROVE  SpendInv'
<1> DEFINE n == Cardinality(Rented)
<1>1. n \in Nat /\ wf.failures \in Nat /\ MaxFailures \in Nat /\ wf.at \in Steps
    BY RentedIsFinite, SmsAssumption DEF RentInv, SmsTypeOK
<1>2. Cardinality(Rented)' = n
    OBVIOUS
<1>3. /\ wf.at = "get_number" => n <= wf.failures
      /\ wf.at \in Holding => n <= wf.failures + 1
      /\ n <= MaxFailures
    BY DEF SpendInv
<1> HIDE DEF n
<1>4. CASE wf' = wf
    BY <1>2, <1>3, <1>4 DEF SpendInv
<1>5. CASE wf'.at = "ended"
    BY <1>2, <1>3, <1>5 DEF SpendInv, Holding
<1>6. CASE wf.at \in Holding /\ wf'.at # "get_number" /\ wf'.failures = wf.failures
    BY <1>2, <1>3, <1>6 DEF SpendInv
<1>7. CASE wf'.at = "get_number" /\ wf'.failures = wf.failures + 1 /\ wf.at # "ended"
    <2>1. n <= wf.failures + 1
        BY <1>1, <1>3, <1>7 DEF Holding
    <2> QED
        BY <1>2, <1>3, <1>7, <2>1 DEF SpendInv, Holding
<1> QED
    BY <1>4, <1>5, <1>6, <1>7

LEMMA SpendStep ==
    ASSUME RentInv, SpendInv, WorkflowStep \/ ActivityDies
    PROVE  SpendInv'
<1>1. /\ wf.failures \in Nat /\ MaxFailures \in Nat /\ wf.at \in Steps
      /\ activations \in [Ids -> ActivationStates]
    BY SmsAssumption DEF RentInv, SmsTypeOK
<1>2. wf.at # "ended"
    BY DEF WorkflowStep, ActivityDies, AcquireNumber, CheckPhone, ChangePhoneStart,
           MarkMessageSent, WaitCode, ChangePhoneRetry, CancelBeforeRotation,
           ChangePhoneComplete, StatusAfterChange, DeactivateStart, DeactivateComplete
<1>3. CASE AcquireNumber /\ UNCHANGED activations
    <2>1. RecordFailure \/ Goto("ended")
        <3>1. \A i \in Ids : activations[i] = "free" =>
                  activations' # [activations EXCEPT ![i] = "waiting"]
            BY <1>1, <1>3
        <3> QED
            BY <1>3, <3>1 DEF AcquireNumber
    <2>2. wf'.at = "ended" \/ (wf'.at = "get_number" /\ wf'.failures = wf.failures + 1)
        BY <1>2, <2>1, Records, Goes DEF Steps
    <2> QED
        BY <1>2, <1>3, <2>2, NothingRented DEF Rented
<1>4. CASE AcquireNumber /\ \E i \in Ids : /\ activations[i] = "free"
                                          /\ activations' = [activations EXCEPT ![i] = "waiting"]
                                          /\ \/ wf' = [wf EXCEPT !.at = "check_phone", !.id = i]
                                             \/ RecordFailure \/ Goto("ended")
    <2>1. PICK i \in Ids : /\ activations[i] = "free"
                           /\ activations' = [activations EXCEPT ![i] = "waiting"]
                           /\ \/ wf' = [wf EXCEPT !.at = "check_phone", !.id = i]
                              \/ RecordFailure \/ Goto("ended")
        BY <1>4
    <2>2. Rented' = Rented \cup {i} /\ i \notin Rented
        BY <1>1, <2>1 DEF Rented
    <2>3. Cardinality(Rented') = Cardinality(Rented) + 1
        BY <2>2, RentedIsFinite, FS_AddElement
    <2>4. Cardinality(Rented) <= wf.failures /\ wf.failures < MaxFailures
        BY <1>2, <1>4 DEF SpendInv, AcquireNumber, RentInv, WorkflowOK
    <2>5. \/ wf'.at = "ended"
          \/ wf'.at = "check_phone" /\ wf'.failures = wf.failures
          \/ wf'.at = "get_number" /\ wf'.failures = wf.failures + 1
        <3>1. CASE wf' = [wf EXCEPT !.at = "check_phone", !.id = i]
            BY <3>1 DEF RentInv, SmsTypeOK
        <3>2. CASE RecordFailure
            BY <1>2, <3>2, Records
        <3>3. CASE Goto("ended")
            BY <3>3, Goes DEF Steps
        <3> QED
            BY <2>1, <3>1, <3>2, <3>3
    <2> DEFINE n == Cardinality(Rented)
               m == Cardinality(Rented')
    <2>6. n \in Nat /\ m = n + 1 /\ n <= wf.failures /\ wf.failures < MaxFailures
        BY <2>3, <2>4, RentedIsFinite
    <2> HIDE DEF n, m
    <2>7. m <= MaxFailures /\ m <= wf.failures + 1
        BY <1>1, <2>6
    <2>8. Cardinality(Rented)' = m
        BY DEF m
    <2> QED
        BY <2>5, <2>7, <2>8 DEF SpendInv, Holding
<1>5. CASE ~AcquireNumber
    <2>1. /\ \A i \in Ids : activations'[i] # "free" <=> activations[i] # "free"
          /\ \/ RecordFailure \/ Goto("ended")
             \/ wf.at # "get_number" /\ \E step \in Holding : Goto(step)
             \/ wf.at \in Holding /\ wf' = [wf EXCEPT !.at = "wait_code", !.attempt = @ + 1]
        <3>1. CASE ActivityDies
            BY <3>1 DEF ActivityDies, Holding, Steps, ChangeSteps
        <3>2. CASE WorkflowStep /\ UNCHANGED activations
            <4>1. CASE WaitCode
                <5>1. PICK step \in Holding : Goto(step)
                    BY <4>1 DEF WaitCode, MissedCode, Holding, Steps, ChangeSteps, DeactivateSteps
                <5>2. wf.at # "get_number"
                    BY <4>1 DEF WaitCode
                <5> QED
                    BY <3>2, <5>1, <5>2
            <4>2. CASE ChangePhoneRetry
                BY <3>2, <4>2 DEF ChangePhoneRetry, Holding, Steps, ChangeSteps
            <4>3. CASE CheckPhone \/ ChangePhoneStart \/ MarkMessageSent
                BY <3>2, <4>3 DEF CheckPhone, ChangePhoneStart, MarkMessageSent,
                                  Holding, Steps, ChangeSteps
            <4>4. CASE CancelBeforeRotation \/ DeactivateComplete
                BY <3>2, <4>4 DEF CancelBeforeRotation, DeactivateComplete
            <4>5. CASE ChangePhoneComplete \/ StatusAfterChange \/ DeactivateStart
                BY <3>2, <4>5 DEF ChangePhoneComplete, StatusAfterChange, DeactivateStart,
                                  Holding, Steps, ChangeSteps, DeactivateSteps
            <4> QED
                BY <1>5, <3>2, <4>1, <4>2, <4>3, <4>4, <4>5 DEF WorkflowStep
        <3>3. CASE /\ FinishActivation(wf.id) /\ wf.at \in Holding
                   /\ RecordFailure \/ Goto("ended")
            <4>1. wf.id \in Ids /\ activations[wf.id] # "free"
                BY <3>3 DEF RentInv, WorkflowOK
            <4> QED
                BY <3>3, <4>1, Finishes
        <3>4. CASE WorkflowStep /\ ~UNCHANGED activations
            <4>1. /\ FinishActivation(wf.id) /\ wf.at \in Holding
                  /\ RecordFailure \/ Goto("ended")
                BY <1>5, <3>4 DEF WorkflowStep, CheckPhone, ChangePhoneStart,
                   MarkMessageSent, WaitCode, ChangePhoneRetry, CancelBeforeRotation,
                   ChangePhoneComplete, StatusAfterChange, DeactivateStart, DeactivateComplete,
                   Holding, Steps, ChangeSteps, DeactivateSteps
            <4> QED
                BY <3>3, <4>1
        <3> QED
            BY <3>1, <3>2, <3>4
    <2>2. Rented' = Rented
        BY <2>1 DEF Rented
    <2>3. CASE RecordFailure
        BY <1>2, <2>2, <2>3, Records, NothingRented
    <2>4. CASE Goto("ended")
        BY <2>2, <2>4, Goes, NothingRented DEF Steps
    <2>5. CASE wf.at # "get_number" /\ \E step \in Holding : Goto(step)
        BY <1>1, <1>2, <2>2, <2>5, Goes, NothingRented DEF Holding
    <2>6. CASE wf.at \in Holding /\ wf' = [wf EXCEPT !.at = "wait_code", !.attempt = @ + 1]
        <3>1. wf'.at = "wait_code" /\ wf'.failures = wf.failures
            BY <2>6 DEF RentInv, SmsTypeOK
        <3> QED
            BY <2>2, <2>6, <3>1, NothingRented
    <2> QED
        BY <2>1, <2>3, <2>4, <2>5, <2>6
<1> QED
    BY <1>3, <1>4, <1>5 DEF AcquireNumber

\* For any limits: one change of phone rents MaxFailures numbers at most.
THEOREM SpendStaysBounded == SmsSpec => []SpendIsBounded
<1>1. SmsInit => SpendInv
    <2> SUFFICES ASSUME SmsInit PROVE SpendInv
        OBVIOUS
    <2>1. Rented = {}
        BY DEF SmsInit, Rented
    <2>2. Cardinality(Rented) = 0
        BY <2>1, FS_EmptySet
    <2> QED
        BY <2>2, SmsAssumption DEF SmsInit, SpendInv, Holding
<1>2. RentInv /\ SpendInv /\ [SmsNext]_smsVars => SpendInv'
    <2> SUFFICES ASSUME RentInv, SpendInv, [SmsNext]_smsVars PROVE SpendInv'
        OBVIOUS
    <2>1. CASE WorkflowStep \/ ActivityDies
        BY <2>1, SpendStep
    <2>2. CASE ~(WorkflowStep \/ ActivityDies)
        <3>1. wf' = wf
            BY <2>2 DEF SmsNext, smsVars, UpsertProvider, DeleteProvider, BootstrapReads,
                        BootstrapWrites, SmsServiceRestarts, CodeArrives, ProviderCancels,
                        CancelActivation
        <3>2. \A i \in Ids : activations'[i] # "free" <=> activations[i] # "free"
            <4>1. \/ activations' = activations
                  \/ \E i \in Ids : \E s \in {"code", "cancelled"} :
                        /\ activations[i] = "waiting"
                        /\ activations' = [activations EXCEPT ![i] = s]
                BY <2>2 DEF SmsNext, smsVars, UpsertProvider, DeleteProvider, BootstrapReads,
                            BootstrapWrites, SmsServiceRestarts, CodeArrives, ProviderCancels,
                            CancelActivation
            <4> QED
                BY <4>1 DEF RentInv, SmsTypeOK
        <3>3. Rented' = Rented
            BY <3>2 DEF Rented
        <3> QED
            BY <3>1, <3>3, NothingRented
    <2> QED
        BY <2>1, <2>2
<1>3. SpendInv => SpendIsBounded
    BY DEF SpendInv, SpendIsBounded, Rented
<1> QED
    BY <1>1, <1>2, <1>3, RentIsSound, PTL DEF SmsSpec

-----------------------------------------------------------------------------
(* The row of the provider.                                                *)

RowInv == bootstrap = "read" /\ config # "none" => between

\* The bootstrap replaces no row an operator wrote before it looked.
THEOREM OperatorsRowStays == SmsSpec => OperatorsRowStands
<1>1. SmsInit => RowInv
    BY DEF SmsInit, RowInv
<1>2. RowInv /\ [SmsNext]_smsVars => RowInv'
    BY DEF RowInv, SmsNext, smsVars, sms, UpsertProvider, DeleteProvider, BootstrapReads,
           BootstrapWrites, SmsServiceRestarts, CodeArrives, ProviderCancels, CancelActivation,
           WorkflowStep, ActivityDies, AcquireNumber, CheckPhone, ChangePhoneStart,
           MarkMessageSent, WaitCode, ChangePhoneRetry, CancelBeforeRotation,
           ChangePhoneComplete, StatusAfterChange, DeactivateStart, DeactivateComplete
<1>3. RowInv /\ [SmsNext]_smsVars =>
          [(config \in {"operator", "disabled"} /\ config' = "env") => between]_smsVars
    BY DEF RowInv, SmsNext, smsVars, sms, UpsertProvider, DeleteProvider, BootstrapReads,
           BootstrapWrites, SmsServiceRestarts, CodeArrives, ProviderCancels, CancelActivation,
           WorkflowStep, ActivityDies, AcquireNumber, CheckPhone, ChangePhoneStart,
           MarkMessageSent, WaitCode, ChangePhoneRetry, CancelBeforeRotation,
           ChangePhoneComplete, StatusAfterChange, DeactivateStart, DeactivateComplete
<1> QED
    BY <1>1, <1>2, <1>3, PTL DEF SmsSpec, OperatorsRowStands

(***************************************************************************)
(* MailboxRegistration                                                     *)
(***************************************************************************)

-----------------------------------------------------------------------------
(* What a step leaves of a job.                                            *)

JobIs(j, at, before, records, email) ==
    /\ job' \in [Jobs -> Job]
    /\ job'[j].at = at /\ job'[j].before = before
    /\ job'[j].records = records /\ job'[j].email = email
    /\ \A i \in Jobs \ {j} : job'[i] = job[i]

LEMMA JobMoves ==
    ASSUME job \in [Jobs -> Job], NEW j \in Jobs, NEW at \in Stages
    PROVE  /\ job' = [job EXCEPT ![j].at = at] =>
                 JobIs(j, at, job[j].before, job[j].records, job[j].email)
           /\ \A before \in SUBSET Record :
                 job' = [job EXCEPT ![j].at = at, ![j].before = before] =>
                     JobIs(j, at, before, job[j].records, job[j].email)
           /\ \A records \in SUBSET Record :
                 job' = [job EXCEPT ![j].at = at, ![j].records = records] =>
                     JobIs(j, at, job[j].before, records, job[j].email)
           /\ \A email \in Emails, skip \in BOOLEAN :
                 job' = [job EXCEPT ![j].at = at, ![j].email = email, ![j].skip = skip] =>
                     JobIs(j, at, job[j].before, job[j].records, email)
<1>1. job[j] \in Job
    OBVIOUS
<1>2. ASSUME job' = [job EXCEPT ![j].at = at]
      PROVE  JobIs(j, at, job[j].before, job[j].records, job[j].email)
    <2>1. [job[j] EXCEPT !.at = at] \in Job
        BY <1>1 DEF Job
    <2> QED
        BY <1>1, <1>2, <2>1 DEF JobIs, Job
<1>3. ASSUME NEW before \in SUBSET Record,
             job' = [job EXCEPT ![j].at = at, ![j].before = before]
      PROVE  JobIs(j, at, before, job[j].records, job[j].email)
    <2> DEFINE g == [job[j] EXCEPT !.at = at, !.before = before]
    <2>1. /\ g \in Job /\ g.at = at /\ g.before = before
          /\ g.records = job[j].records /\ g.email = job[j].email
        BY <1>1 DEF Job
    <2>2. job' = [job EXCEPT ![j] = g]
        BY <1>3
    <2> HIDE DEF g
    <2> QED
        BY <2>1, <2>2 DEF JobIs
<1>4. ASSUME NEW records \in SUBSET Record,
             job' = [job EXCEPT ![j].at = at, ![j].records = records]
      PROVE  JobIs(j, at, job[j].before, records, job[j].email)
    <2> DEFINE g == [job[j] EXCEPT !.at = at, !.records = records]
    <2>1. /\ g \in Job /\ g.at = at /\ g.before = job[j].before
          /\ g.records = records /\ g.email = job[j].email
        BY <1>1 DEF Job
    <2>2. job' = [job EXCEPT ![j] = g]
        BY <1>4
    <2> HIDE DEF g
    <2> QED
        BY <2>1, <2>2 DEF JobIs
<1>5. ASSUME NEW email \in Emails, NEW skip \in BOOLEAN,
             job' = [job EXCEPT ![j].at = at, ![j].email = email, ![j].skip = skip]
      PROVE  JobIs(j, at, job[j].before, job[j].records, email)
    <2> DEFINE g == [job[j] EXCEPT !.at = at, !.email = email, !.skip = skip]
    <2>1. /\ g \in Job /\ g.at = at /\ g.before = job[j].before
          /\ g.records = job[j].records /\ g.email = email
        BY <1>1 DEF Job
    <2>2. job' = [job EXCEPT ![j] = g]
        BY <1>5
    <2> HIDE DEF g
    <2> QED
        BY <2>1, <2>2 DEF JobIs
<1> QED
    BY <1>2, <1>3, <1>4, <1>5

-----------------------------------------------------------------------------
(* The invariant.  Beside the properties it says where a record can come   *)
(* from: it names a mailbox of the files, and a token that is written      *)
(* down.                                                                   *)

JobOK(j) ==
    /\ \A r \in job[j].records : r.email \in listed /\ (r.token => r.email \in tokens)
    /\ job[j].at = "oauth" => job[j].email \in listed
    /\ job[j].at # "answered" => job[j].records = {}

RegInv ==
    /\ RegTypeOK
    /\ \A j \in Jobs : JobOK(j)
    /\ \A i, j \in Jobs : Running(i) /\ Running(j) => i = j
    /\ \A m \in Emails : mailbox[m].token => m \in tokens
    /\ PendingHasNoToken
    /\ FoundAreKept

LEMMA Collected ==
    ASSUME RegTypeOK
    PROVE  /\ CollectRecords \in SUBSET Record
           /\ \A r \in CollectRecords : r.email \in listed /\ (r.token => r.email \in tokens)
           /\ \A m \in listed : \E r \in CollectRecords : r.email = m /\ r.token = (m \in tokens)
<1>1. ASSUME NEW m \in listed
      PROVE  [email |-> m, token |-> m \in tokens] \in Record
    BY DEF RegTypeOK, Record
<1>2. ASSUME NEW r \in CollectRecords
      PROVE  r \in Record /\ r.email \in listed /\ (r.token => r.email \in tokens)
    <2>1. PICK m \in listed : r = [email |-> m, token |-> m \in tokens]
        BY <1>2 DEF CollectRecords
    <2>2. r.email = m /\ r.token = (m \in tokens)
        BY <2>1
    <2> QED
        BY <1>1, <2>1, <2>2
<1>3. ASSUME NEW m \in listed
      PROVE  \E r \in CollectRecords : r.email = m /\ r.token = (m \in tokens)
    <2>1. [email |-> m, token |-> m \in tokens] \in CollectRecords
        BY DEF CollectRecords
    <2> QED
        BY <2>1
<1> QED
    BY <1>2, <1>3

\* A step that tells no job anything, ends no run and takes nothing from the store.
LEMMA QuietStep ==
    ASSUME RegInv, RegTypeOK', UNCHANGED <<listed, tokens, dropped, outdated>>,
           \A i \in Jobs : /\ JobOK(i)'
                           /\ Running(i)' <=> Running(i)
                           /\ job'[i].records = job[i].records
                           /\ job'[i].before = job[i].before,
           \A m \in Emails : /\ mailbox'[m].known = mailbox[m].known
                             /\ mailbox'[m].token = mailbox[m].token
                             /\ mailbox'[m].auth \in {mailbox[m].auth, "AUTH_FAILED"}
    PROVE  RegInv'
<1>1. PendingHasNoToken'
    BY DEF RegInv, PendingHasNoToken
<1>2. FoundAreKept'
    BY DEF RegInv, RegTypeOK, FoundAreKept
<1> QED
    BY <1>1, <1>2 DEF RegInv

\* A mailbox may be marked.
LEMMA Marked ==
    ASSUME RegTypeOK, NEW m,
           mailbox' \in {mailbox, [mailbox EXCEPT ![m].auth = "AUTH_FAILED"]}
    PROVE  /\ mailbox' \in [Emails -> Mailbox]
           /\ \A n \in Emails : /\ mailbox'[n].known = mailbox[n].known
                                /\ mailbox'[n].token = mailbox[n].token
                                /\ mailbox'[n].auth \in {mailbox[n].auth, "AUTH_FAILED"}
<1>1. \A n \in Emails : mailbox[n] \in Mailbox
    BY DEF RegTypeOK
<1>2. \A n \in Emails : [mailbox[n] EXCEPT !.auth = "AUTH_FAILED"] \in Mailbox
    BY <1>1 DEF Mailbox, Auths
<1>3. CASE m \in Emails
    BY <1>1, <1>2, <1>3 DEF RegTypeOK, Mailbox
<1>4. CASE m \notin Emails
    <2>1. mailbox' = mailbox
        BY <1>4 DEF RegTypeOK
    <2> QED
        BY <1>1, <2>1 DEF RegTypeOK
<1> QED
    BY <1>3, <1>4

\* The steps that only take a job further, and the marks of the store.
LEMMA QuietReg ==
    ASSUME RegInv, NEW j \in Jobs,
           \/ Call(j) \/ SelectAccount(j) \/ AlreadyRunning(j) \/ ChildEnds(j)
           \/ OAuthFails(j) \/ OAuthSkips(j) \/ Finish(j)
    PROVE  RegInv'
<1>1. /\ UNCHANGED <<listed, tokens, dropped, outdated, restarts>>
      /\ mailbox' \in {mailbox, [mailbox EXCEPT ![job[j].email].auth = "AUTH_FAILED"]}
    BY DEF Call, SelectAccount, AlreadyRunning, ChildEnds, OAuthFails, OAuthSkips, Finish
<1>2. /\ mailbox' \in [Emails -> Mailbox]
      /\ \A n \in Emails : /\ mailbox'[n].known = mailbox[n].known
                           /\ mailbox'[n].token = mailbox[n].token
                           /\ mailbox'[n].auth \in {mailbox[n].auth, "AUTH_FAILED"}
    BY <1>1, Marked DEF RegInv
<1>3. \E at \in Stages, email \in Emails \cup {NoEmail} :
         /\ JobIs(j, at, job[j].before, job[j].records, email)
         /\ at # "answered"
         /\ at = "oauth" => email \in listed
         /\ at \in {"running", "ended"} <=> Running(j)
         /\ job[j].records = {}
    <2>1. job \in [Jobs -> Job] /\ job[j].email \in Emails \cup {NoEmail}
        BY DEF RegInv, RegTypeOK, Job
    <2>2. \A at \in Stages : job' = [job EXCEPT ![j].at = at] =>
              JobIs(j, at, job[j].before, job[j].records, job[j].email)
        BY <2>1, JobMoves
    <2>3. CASE Call(j)
        BY <2>1, <2>2, <2>3 DEF Call, Stages, Running, RegInv, JobOK
    <2>4. CASE SelectAccount(j)
        <3>1. PICK m \in Emails, skip \in BOOLEAN :
                  /\ mailbox[m].known
                  /\ job' = [job EXCEPT ![j].at = "oauth", ![j].email = m, ![j].skip = skip]
            BY <2>4 DEF SelectAccount, RegInv, RegTypeOK, Mailbox
        <3>2. JobIs(j, "oauth", job[j].before, job[j].records, m)
            BY <2>1, <3>1, JobMoves DEF Stages
        <3>3. m \in listed /\ job[j].records = {} /\ ~Running(j)
            BY <2>4, <3>1 DEF SelectAccount, RegInv, RegTypeOK, JobOK, Running
        <3> QED
            BY <3>2, <3>3 DEF Stages
    <2>5. CASE AlreadyRunning(j) \/ OAuthFails(j) \/ OAuthSkips(j) \/ Finish(j)
        <3>1. /\ job' = [job EXCEPT ![j].at = "done"]
              /\ job[j].records = {} /\ ~Running(j)
            BY <2>5 DEF AlreadyRunning, OAuthFails, OAuthSkips, Finish, Running, RegInv, JobOK
        <3> QED
            BY <2>1, <2>2, <3>1 DEF Stages
    <2>6. CASE ChildEnds(j)
        BY <2>1, <2>2, <2>6 DEF ChildEnds, Stages, Running, RegInv, JobOK
    <2> QED
        BY <2>3, <2>4, <2>5, <2>6
<1>4. RegTypeOK'
    BY <1>1, <1>2, <1>3 DEF RegInv, RegTypeOK, JobIs
<1>5. ASSUME NEW i \in Jobs
      PROVE  /\ JobOK(i)' /\ (Running(i)' <=> Running(i))
             /\ job'[i].records = job[i].records /\ job'[i].before = job[i].before
    <2>1. CASE i = j
        BY <1>1, <1>3, <2>1 DEF JobOK, JobIs, Running
    <2>2. CASE i # j
        BY <1>1, <1>3, <2>2 DEF RegInv, JobOK, JobIs, Running
    <2> QED
        BY <2>1, <2>2
<1> QED
    BY <1>1, <1>2, <1>4, <1>5, QuietStep

LEMMA DiesReg ==
    ASSUME RegInv, NEW m \in Emails, TokenDies(m)
    PROVE  RegInv'
<1>1. UNCHANGED <<listed, tokens, job, dropped, outdated, restarts>>
    BY DEF TokenDies
<1>2. /\ mailbox' \in [Emails -> Mailbox]
      /\ \A n \in Emails : /\ mailbox'[n].known = mailbox[n].known
                           /\ mailbox'[n].token = mailbox[n].token
                           /\ mailbox'[n].auth \in {mailbox[n].auth, "AUTH_FAILED"}
    <2>1. mailbox' \in {mailbox, [mailbox EXCEPT ![m].auth = "AUTH_FAILED"]}
        BY DEF TokenDies
    <2> QED
        BY <2>1, Marked DEF RegInv
<1>3. RegTypeOK'
    BY <1>1, <1>2 DEF RegInv, RegTypeOK
<1>4. \A i \in Jobs : JobOK(i)' /\ (Running(i)' <=> Running(i))
    BY <1>1 DEF RegInv, JobOK, Running
<1> QED
    BY <1>1, <1>2, <1>3, <1>4, QuietStep

\* A run begins: nothing else runs, and nothing is found yet.
LEMMA RunReg ==
    ASSUME RegInv, NEW j \in Jobs, Run(j)
    PROVE  RegInv'
<1>1. UNCHANGED <<listed, tokens, mailbox, dropped, outdated, restarts>>
    BY DEF Run
<1>2. JobIs(j, "running", CollectRecords, {}, job[j].email)
    <2>1. job[j].records = {}
        BY DEF Run, RegInv, JobOK
    <2> QED
        BY <2>1, Collected, JobMoves DEF Run, RegInv, RegTypeOK, Stages
<1>3. \A i \in Jobs : ~Running(i)
    BY DEF Run, Locked
<1>4. RegTypeOK'
    BY <1>1, <1>2 DEF RegInv, RegTypeOK, JobIs
<1>5. ASSUME NEW i \in Jobs PROVE JobOK(i)'
    BY <1>1, <1>2 DEF RegInv, JobOK, JobIs
<1>6. \A i, k \in Jobs : Running(i)' /\ Running(k)' => i = k
    BY <1>2, <1>3 DEF JobIs, Running
<1>7. PendingHasNoToken'
    BY <1>1 DEF RegInv, PendingHasNoToken
<1>8. FoundAreKept'
    <2> SUFFICES ASSUME NEW m \in listed,
                        ~(mailbox[m].known /\ (m \in tokens => mailbox[m].token)),
                        m \notin dropped
                 PROVE  \E i \in Jobs : \E r \in job'[i].records :
                            r.email = m /\ r.token = (m \in tokens)
        BY <1>1 DEF FoundAreKept
    <2>1. PICK i \in Jobs : \E r \in job[i].records : r.email = m /\ r.token = (m \in tokens)
        BY <1>3 DEF RegInv, FoundAreKept
    <2>2. i # j
        BY <2>1 DEF Run, RegInv, JobOK
    <2> QED
        BY <1>2, <2>1, <2>2 DEF JobIs
<1> QED
    BY <1>1, <1>4, <1>5, <1>6, <1>7, <1>8 DEF RegInv

\* The child writes a mailbox down.
LEMMA SavesReg ==
    ASSUME RegInv, NEW j \in Jobs, ChildSaves(j)
    PROVE  RegInv'
<1>1. /\ UNCHANGED <<tokens, mailbox, job, dropped, outdated, restarts>>
      /\ Running(j) /\ Addresses(job[j].before) = listed
    BY DEF ChildSaves, Running
<1>2. PICK m \in Emails \ listed : listed' = listed \cup {m}
    BY DEF ChildSaves
<1>3. RegTypeOK'
    BY <1>1, <1>2 DEF RegInv, RegTypeOK
<1>4. \A i \in Jobs : JobOK(i)' /\ (Running(i)' <=> Running(i))
    BY <1>1, <1>2 DEF RegInv, JobOK, Running
<1>5. PendingHasNoToken'
    BY <1>1 DEF RegInv, PendingHasNoToken
<1>6. FoundAreKept'
    BY <1>1, <1>2, <1>4 DEF RegInv, FoundAreKept
<1> QED
    BY <1>1, <1>3, <1>4, <1>5, <1>6 DEF RegInv

\* A job is told what is in the files: all of it, or what its run found.
LEMMA ToldReg ==
    ASSUME RegInv, NEW j \in Jobs, ImportRecords(j) \/ Collect(j)
    PROVE  RegInv'
<1>1. /\ UNCHANGED <<listed, tokens, mailbox, dropped, outdated, restarts>>
      /\ job[j].records = {}
    BY DEF ImportRecords, Collect, RegInv, JobOK
<1>2. PICK records \in SUBSET CollectRecords :
          /\ JobIs(j, "answered", job[j].before, records, job[j].email)
          /\ \A m \in listed : Running(j) /\ m \notin Addresses(job[j].before) =>
                 \E r \in records : r.email = m /\ r.token = (m \in tokens)
    <2>1. CASE ImportRecords(j)
        <3>1. JobIs(j, "answered", job[j].before, CollectRecords, job[j].email)
            BY <2>1, Collected, JobMoves DEF ImportRecords, RegInv, RegTypeOK, Stages
        <3> QED
            BY <3>1, Collected DEF RegInv
    <2>2. CASE Collect(j)
        <3> DEFINE new == NewOrUpdated(job[j].before, CollectRecords)
        <3>1. new \subseteq CollectRecords
            BY DEF NewOrUpdated
        <3>2. job' = [job EXCEPT ![j].at = "answered", ![j].records = new]
            BY <2>2 DEF Collect
        <3>3. ASSUME NEW m \in listed, m \notin Addresses(job[j].before)
              PROVE  \E r \in new : r.email = m /\ r.token = (m \in tokens)
            BY <3>3, Collected DEF RegInv, NewOrUpdated
        <3> HIDE DEF new
        <3>4. JobIs(j, "answered", job[j].before, new, job[j].email)
            BY <3>1, <3>2, Collected, JobMoves DEF RegInv, RegTypeOK, Stages
        <3> QED
            BY <3>1, <3>3, <3>4
    <2> QED
        BY <2>1, <2>2
<1>3. RegTypeOK'
    BY <1>1, <1>2 DEF RegInv, RegTypeOK, JobIs
<1>4. ASSUME NEW i \in Jobs PROVE JobOK(i)'
    <2>1. CASE i = j
        BY <1>1, <1>2, <2>1, Collected DEF RegInv, JobOK, JobIs
    <2>2. CASE i # j
        BY <1>1, <1>2, <2>2 DEF RegInv, JobOK, JobIs
    <2> QED
        BY <2>1, <2>2
<1>5. \A i \in Jobs : Running(i)' <=> Running(i) /\ i # j
    BY <1>2 DEF JobIs, Running
<1>6. PendingHasNoToken'
    BY <1>1 DEF RegInv, PendingHasNoToken
<1>7. FoundAreKept'
    <2> SUFFICES ASSUME NEW m \in listed,
                        ~(mailbox[m].known /\ (m \in tokens => mailbox[m].token)),
                        m \notin dropped
                 PROVE  \/ \E i \in Jobs : Running(i)' /\ m \notin Addresses(job'[i].before)
                        \/ \E i \in Jobs : \E r \in job'[i].records :
                               r.email = m /\ r.token = (m \in tokens)
        BY <1>1 DEF FoundAreKept
    <2>1. CASE \E i \in Jobs : Running(i) /\ m \notin Addresses(job[i].before)
        <3>1. PICK i \in Jobs : Running(i) /\ m \notin Addresses(job[i].before)
            BY <2>1
        <3>2. CASE i = j
            BY <1>2, <3>1, <3>2 DEF JobIs
        <3>3. CASE i # j
            BY <1>2, <1>5, <3>1, <3>3 DEF JobIs
        <3> QED
            BY <3>2, <3>3
    <2>2. CASE \E i \in Jobs : \E r \in job[i].records : r.email = m /\ r.token = (m \in tokens)
        BY <1>1, <1>2, <2>2 DEF JobIs
    <2> QED
        BY <2>1, <2>2 DEF RegInv, FoundAreKept
<1> QED
    BY <1>1, <1>3, <1>4, <1>5, <1>6, <1>7 DEF RegInv

\* An OAuth writes its token down and tells its job.
LEMMA OAuthReg ==
    ASSUME RegInv, NEW j \in Jobs, OAuthSucceeds(j)
    PROVE  RegInv'
<1> DEFINE m == job[j].email
           told == [email |-> m, token |-> TRUE]
<1>1. /\ UNCHANGED <<listed, mailbox, dropped, outdated, restarts>>
      /\ tokens' = tokens \cup {m}
      /\ job[j].records = {} /\ m \in listed /\ m \in Emails /\ ~Running(j)
    BY DEF OAuthSucceeds, RegInv, RegTypeOK, JobOK, Running
<1>2. told \in Record /\ told.email = m /\ told.token = TRUE
    BY <1>1 DEF Record
<1>3. job' = [job EXCEPT ![j].at = "answered", ![j].records = {told}]
    BY DEF OAuthSucceeds
<1> HIDE DEF told
<1>4. JobIs(j, "answered", job[j].before, {told}, m)
    <2>1. {told} \in SUBSET Record
        BY <1>2
    <2> QED
        BY <1>3, <2>1, JobMoves DEF RegInv, RegTypeOK, Stages
<1> HIDE DEF m
<1>5. RegTypeOK'
    BY <1>1, <1>4 DEF RegInv, RegTypeOK, JobIs
<1>6. ASSUME NEW i \in Jobs PROVE JobOK(i)'
    <2>1. CASE i = j
        BY <1>1, <1>2, <1>4, <2>1 DEF JobOK, JobIs
    <2>2. CASE i # j
        BY <1>1, <1>4, <2>2 DEF RegInv, JobOK, JobIs
    <2> QED
        BY <2>1, <2>2
<1>7. \A i \in Jobs : Running(i)' <=> Running(i)
    BY <1>1, <1>4 DEF JobIs, Running
<1>8. PendingHasNoToken' /\ \A n \in Emails : mailbox'[n].token => n \in tokens'
    BY <1>1 DEF RegInv, PendingHasNoToken
<1>9. FoundAreKept'
    <2> SUFFICES ASSUME NEW n \in listed,
                        ~(mailbox[n].known /\ (n \in tokens' => mailbox[n].token)),
                        n \notin dropped
                 PROVE  \/ \E i \in Jobs : Running(i)' /\ n \notin Addresses(job'[i].before)
                        \/ \E i \in Jobs : \E r \in job'[i].records :
                               r.email = n /\ r.token = (n \in tokens')
        BY <1>1 DEF FoundAreKept
    <2>1. CASE n = m
        BY <1>1, <1>2, <1>4, <2>1 DEF JobIs
    <2>2. CASE n # m
        <3>1. n \in tokens' <=> n \in tokens
            BY <1>1, <2>2
        <3>2. CASE \E i \in Jobs : Running(i) /\ n \notin Addresses(job[i].before)
            BY <1>4, <1>7, <3>2 DEF JobIs
        <3>3. CASE \E i \in Jobs : \E r \in job[i].records :
                       r.email = n /\ r.token = (n \in tokens)
            BY <1>1, <1>4, <3>1, <3>3 DEF JobIs
        <3> QED
            BY <1>1, <3>1, <3>2, <3>3 DEF RegInv, FoundAreKept
    <2> QED
        BY <2>1, <2>2
<1> QED
    BY <1>5, <1>6, <1>7, <1>8, <1>9 DEF RegInv

\* A mailbox goes to the store.
LEMMA UpsertReg ==
    ASSUME RegInv, NEW j \in Jobs, Upsert(j)
    PROVE  RegInv'
<1>1. PICK r \in job[j].records :
          /\ mailbox' = [mailbox EXCEPT ![r.email] = Upserted(mailbox[r.email], r)]
          /\ job' = [job EXCEPT ![j].records = job[j].records \ {r}]
          /\ outdated' = IF r.email \in tokens /\ ~r.token THEN outdated \cup {r.email}
                                                            ELSE outdated
    BY DEF Upsert, RegInv, RegTypeOK
<1>2. UNCHANGED <<listed, tokens, dropped, restarts>> /\ job[j].at = "answered"
    BY DEF Upsert
<1>3. /\ job[j] \in Job /\ r \in Record /\ r.email \in listed /\ r.email \in Emails
      /\ r.token \in BOOLEAN /\ r.token => r.email \in tokens
      /\ mailbox[r.email] \in Mailbox
    BY <1>1 DEF RegInv, RegTypeOK, JobOK, Job, Record
<1>4. /\ mailbox'[r.email].known /\ mailbox'[r.email] \in Mailbox
      /\ mailbox'[r.email].token <=> r.token \/ mailbox[r.email].token
      /\ mailbox'[r.email].auth = IF r.token THEN "AUTHORIZED" ELSE "OAUTH_PENDING"
      /\ \A m \in Emails \ {r.email} : mailbox'[m] = mailbox[m]
      /\ mailbox' \in [Emails -> Mailbox]
    <2> DEFINE new == Upserted(mailbox[r.email], r)
    <2>1. /\ new.known /\ new \in Mailbox /\ new.token = (r.token \/ mailbox[r.email].token)
          /\ new.auth = IF r.token THEN "AUTHORIZED" ELSE "OAUTH_PENDING"
        BY <1>3 DEF Upserted, Mailbox, Auths
    <2>2. mailbox' = [mailbox EXCEPT ![r.email] = new]
        BY <1>1
    <2> HIDE DEF new
    <2> QED
        BY <1>3, <2>1, <2>2 DEF RegInv, RegTypeOK
<1>5. /\ job' \in [Jobs -> Job]
      /\ job'[j].at = job[j].at /\ job'[j].before = job[j].before
      /\ job'[j].records = job[j].records \ {r}
      /\ \A i \in Jobs \ {j} : job'[i] = job[i]
    <2>1. [job[j] EXCEPT !.records = job[j].records \ {r}] \in Job
        BY <1>3 DEF Job
    <2> QED
        BY <1>1, <1>3, <2>1 DEF RegInv, RegTypeOK, Job
<1>6. RegTypeOK'
    BY <1>1, <1>2, <1>3, <1>4, <1>5 DEF RegInv, RegTypeOK
<1>7. ASSUME NEW i \in Jobs PROVE JobOK(i)' /\ (Running(i)' <=> Running(i))
    <2>1. CASE i = j
        BY <1>2, <1>5, <2>1 DEF RegInv, JobOK, Running
    <2>2. CASE i # j
        BY <1>2, <1>5, <2>2 DEF RegInv, JobOK, Running
    <2> QED
        BY <2>1, <2>2
<1>8. \A m \in Emails : mailbox'[m].token => m \in tokens'
    BY <1>2, <1>3, <1>4 DEF RegInv
<1>9. PendingHasNoToken'
    <2> SUFFICES ASSUME NEW m \in Emails,
                        mailbox'[m].auth = "OAUTH_PENDING", mailbox'[m].token
                 PROVE  m \in outdated'
        BY DEF PendingHasNoToken
    <2>1. CASE m = r.email
        <3>1. ~r.token /\ m \in tokens
            BY <1>3, <1>4, <2>1 DEF RegInv
        <3> QED
            BY <1>1, <2>1, <3>1
    <2>2. CASE m # r.email
        BY <1>1, <1>4, <2>2 DEF RegInv, PendingHasNoToken
    <2> QED
        BY <2>1, <2>2
<1>10. FoundAreKept'
    <2> SUFFICES ASSUME NEW m \in listed, m \in Emails,
                        ~(mailbox'[m].known /\ (m \in tokens => mailbox'[m].token)),
                        m \notin dropped
                 PROVE  \/ \E i \in Jobs : Running(i)' /\ m \notin Addresses(job'[i].before)
                        \/ \E i \in Jobs : \E s \in job'[i].records :
                               s.email = m /\ s.token = (m \in tokens)
        BY <1>2 DEF RegInv, RegTypeOK, FoundAreKept
    <2>1. ~(mailbox[m].known /\ (m \in tokens => mailbox[m].token))
        BY <1>4
    <2>2. CASE \E i \in Jobs : Running(i) /\ m \notin Addresses(job[i].before)
        BY <1>5, <1>7, <2>2
    <2>3. CASE \E i \in Jobs : \E s \in job[i].records :
                   s.email = m /\ s.token = (m \in tokens)
        <3>1. PICK i \in Jobs : \E s \in job[i].records :
                  s.email = m /\ s.token = (m \in tokens)
            BY <2>3
        <3>2. PICK s \in job[i].records : s.email = m /\ s.token = (m \in tokens)
            BY <3>1
        <3>3. s # r
            BY <1>4, <3>2
        <3> QED
            BY <1>5, <3>2, <3>3
    <2> QED
        BY <2>1, <2>2, <2>3 DEF RegInv, FoundAreKept
<1> QED
    BY <1>6, <1>7, <1>8, <1>9, <1>10 DEF RegInv

\* A job fails, and what it was told is dropped.
LEMMA FailsReg ==
    ASSUME RegInv, NEW j \in Jobs, JobFails(j)
    PROVE  RegInv'
<1>1. /\ UNCHANGED <<listed, tokens, mailbox, outdated, restarts>>
      /\ dropped' = dropped \cup Addresses(job[j].records)
      /\ ~Running(j)
    BY DEF JobFails, Running
<1>2. JobIs(j, "done", job[j].before, {}, job[j].email)
    BY JobMoves DEF JobFails, RegInv, RegTypeOK, Stages
<1>3. Addresses(job[j].records) \subseteq Emails
    BY DEF RegInv, RegTypeOK, Addresses, Job, Record
<1>4. RegTypeOK'
    BY <1>1, <1>2, <1>3 DEF RegInv, RegTypeOK, JobIs
<1>5. ASSUME NEW i \in Jobs PROVE JobOK(i)'
    BY <1>1, <1>2 DEF RegInv, JobOK, JobIs
<1>6. \A i \in Jobs : Running(i)' <=> Running(i)
    BY <1>1, <1>2 DEF JobIs, Running
<1>7. PendingHasNoToken'
    BY <1>1 DEF RegInv, PendingHasNoToken
<1>8. FoundAreKept'
    <2> SUFFICES ASSUME NEW m \in listed,
                        ~(mailbox[m].known /\ (m \in tokens => mailbox[m].token)),
                        m \notin dropped, m \notin Addresses(job[j].records)
                 PROVE  \/ \E i \in Jobs : Running(i)' /\ m \notin Addresses(job'[i].before)
                        \/ \E i \in Jobs : \E r \in job'[i].records :
                               r.email = m /\ r.token = (m \in tokens)
        BY <1>1 DEF FoundAreKept
    <2>1. CASE \E i \in Jobs : Running(i) /\ m \notin Addresses(job[i].before)
        BY <1>2, <1>6, <2>1 DEF JobIs
    <2>2. CASE \E i \in Jobs : \E r \in job[i].records : r.email = m /\ r.token = (m \in tokens)
        BY <1>2, <2>2 DEF JobIs, Addresses
    <2> QED
        BY <2>1, <2>2 DEF RegInv, FoundAreKept
<1> QED
    BY <1>1, <1>4, <1>5, <1>6, <1>7, <1>8 DEF RegInv

\* The service restarts: what its run has found is dropped.
LEMMA RestartReg ==
    ASSUME RegInv, ServiceRestarts
    PROVE  RegInv'
<1> DEFINE lost == UNION {listed \ Addresses(job[j].before) : j \in {k \in Jobs : Running(k)}}
<1>1. /\ UNCHANGED <<listed, tokens, mailbox, outdated>>
      /\ dropped' = dropped \cup lost
    BY DEF ServiceRestarts
<1>2. ASSUME NEW i \in Jobs
      PROVE  /\ job'[i] \in Job
             /\ job'[i].records = job[i].records
             /\ job'[i].at = IF job[i].at \in {"called", "running", "ended", "oauth"}
                             THEN "done" ELSE job[i].at
    <2>1. job[i] \in Job
        BY DEF RegInv, RegTypeOK
    <2>2. /\ [job[i] EXCEPT !.at = "done"] \in Job
          /\ [job[i] EXCEPT !.at = "done"].at = "done"
          /\ [job[i] EXCEPT !.at = "done"].records = job[i].records
        BY <2>1 DEF Job, Stages
    <2>3. job'[i] = IF job[i].at \in {"called", "running", "ended", "oauth"}
                    THEN [job[i] EXCEPT !.at = "done"] ELSE job[i]
        BY DEF ServiceRestarts
    <2> QED
        BY <2>1, <2>2, <2>3
<1>3. restarts' \in 0..MaxRestarts
    BY RegistrationAssumption DEF ServiceRestarts, RegInv, RegTypeOK
<1>4. RegTypeOK'
    <2>1. job' \in [Jobs -> Job]
        BY <1>2 DEF ServiceRestarts
    <2>2. lost \subseteq Emails
        BY DEF RegInv, RegTypeOK
    <2> QED
        BY <1>1, <1>3, <2>1, <2>2 DEF RegInv, RegTypeOK
<1>5. \A i \in Jobs : JobOK(i)' /\ ~Running(i)'
    BY <1>1, <1>2 DEF RegInv, JobOK, Running
<1>6. PendingHasNoToken'
    BY <1>1 DEF RegInv, PendingHasNoToken
<1>7. FoundAreKept'
    <2> SUFFICES ASSUME NEW m \in listed,
                        ~(mailbox[m].known /\ (m \in tokens => mailbox[m].token)),
                        m \notin dropped, m \notin lost
                 PROVE  \E i \in Jobs : \E r \in job'[i].records :
                            r.email = m /\ r.token = (m \in tokens)
        BY <1>1 DEF FoundAreKept
    <2>1. ~ \E i \in Jobs : Running(i) /\ m \notin Addresses(job[i].before)
        OBVIOUS
    <2> HIDE DEF lost
    <2> QED
        BY <1>2, <2>1 DEF RegInv, FoundAreKept
<1> QED
    BY <1>1, <1>4, <1>5, <1>6, <1>7 DEF RegInv

LEMMA InitReg == Init => RegInv
<1> SUFFICES ASSUME Init PROVE RegInv
    OBVIOUS
<1>1. ASSUME NEW j \in Jobs
      PROVE  job[j] \in Job /\ job[j].at = "idle" /\ job[j].records = {}
    <2>1. PICK k \in {"register", "import", "oauth"} :
              job[j] = [kind |-> k, at |-> "idle", before |-> {}, records |-> {},
                        email |-> NoEmail, skip |-> FALSE]
        BY DEF Init
    <2> QED
        BY <2>1 DEF Job, Stages
<1>2. RegTypeOK
    <2>1. job \in [Jobs -> Job]
        BY <1>1 DEF Init
    <2>2. mailbox \in [Emails -> Mailbox] /\ \A m \in Emails : ~mailbox[m].known
        BY DEF Init, Mailbox, Auths
    <2> QED
        BY <2>1, <2>2, RegistrationAssumption DEF Init, RegTypeOK
<1>3. \A m \in Emails : ~mailbox[m].token
    BY DEF Init
<1> QED
    BY <1>1, <1>2, <1>3
       DEF Init, RegInv, JobOK, Running, PendingHasNoToken, FoundAreKept

LEMMA NextReg == RegInv /\ [Next]_vars => RegInv'
<1> SUFFICES ASSUME RegInv, [Next]_vars PROVE RegInv'
    OBVIOUS
<1>1. CASE UNCHANGED vars
    <2>1. /\ UNCHANGED <<listed, tokens, dropped, outdated>>
          /\ job' = job /\ mailbox' = mailbox /\ restarts' = restarts
        BY <1>1 DEF vars
    <2>2. RegTypeOK'
        BY <2>1 DEF RegInv, RegTypeOK
    <2>3. \A i \in Jobs : JobOK(i)' /\ (Running(i)' <=> Running(i))
        BY <2>1 DEF RegInv, JobOK, Running
    <2> QED
        BY <2>1, <2>2, <2>3, QuietStep
<1>2. CASE \E j \in Jobs : Call(j) \/ SelectAccount(j) \/ ChildSaves(j) \/ JobStep(j) \/ JobFails(j)
    BY <1>2, QuietReg, RunReg, SavesReg, ToldReg, OAuthReg, UpsertReg, FailsReg DEF JobStep
<1> QED
    BY <1>1, <1>2, DiesReg, RestartReg DEF Next

-----------------------------------------------------------------------------
(* Theorems                                                                *)

LEMMA OneRun == RegInv => RunsAreExclusive
<1> SUFFICES ASSUME RegInv PROVE RunsAreExclusive
    OBVIOUS
<1> DEFINE runs == {j \in Jobs : Running(j)}
<1>1. CASE runs = {}
    BY <1>1, FS_EmptySet DEF RunsAreExclusive, SingleRun, RegInv
<1>2. CASE runs # {}
    <2>1. PICK j \in runs : runs = {j}
        BY <1>2 DEF RegInv
    <2>2. Cardinality(runs) = 1
        <3> HIDE DEF runs
        <3> QED
            BY <2>1, FS_Singleton
    <2> QED
        BY <2>2 DEF RunsAreExclusive, SingleRun, RegInv
<1> QED
    BY <1>1, <1>2

LEMMA RegistrationIsSound == Spec => []RegInv
BY InitReg, NextReg, PTL DEF Spec

\* registration_lock lets one run of the service have the files at a time, for any
\* number of jobs that ask for one.
THEOREM RunsStayExclusive == Spec => []RunsAreExclusive
BY RegistrationIsSound, OneRun, PTL

\* Whatever is written to the files reaches the store, or a failure dropped it.
THEOREM FoundStayKept == Spec => []FoundAreKept
<1>1. RegInv => FoundAreKept
    BY DEF RegInv
<1> QED
    BY <1>1, RegistrationIsSound, PTL

\* No mailbox with a token waits for an OAuth that would skip it, but by a record older
\* than the files.
THEOREM PendingStaysWithoutToken == Spec => []PendingHasNoToken
<1>1. RegInv => PendingHasNoToken
    BY DEF RegInv
<1> QED
    BY <1>1, RegistrationIsSound, PTL
===============================================================================
