---------------------------- MODULE SmsActivations ----------------------------
(***************************************************************************)
(* The phone numbers rented for a change of phone: the SMS service with    *)
(* the row of its default provider, the activations at that provider, and  *)
(* the workflow that rents a number, changes the phone of an account to    *)
(* it, waits for the code and deactivates the old account.                 *)
(*                                                                         *)
(* An activation costs money until it is finished or cancelled.  Whoever   *)
(* holds one when something fails has to release it: at once, with one     *)
(* call, or by a goroutine that goes on trying.  The other operations of   *)
(* the SMS service (listing, balance, a further code) change nothing here. *)
(***************************************************************************)
EXTENDS Naturals, FiniteSets

CONSTANTS
    MaxFailures,    \* changePhoneMaxFailureCount
    MaxRetries,     \* changePhoneOTPRetryCount
    EnvKey,         \* whether HEROSMS_API_KEY is set
    MaxActivations, \* bound: numbers the provider has
    MaxDeaths       \* bound: activities that die or time out

ASSUME SmsAssumption ==
    /\ MaxFailures \in Nat \ {0}
    /\ MaxRetries \in Nat
    /\ EnvKey \in BOOLEAN
    /\ MaxActivations \in Nat
    /\ MaxDeaths \in Nat

VARIABLES
    config,         \* the row of the default provider, by who wrote it
    bootstrap,      \* the bootstrap of the row from the environment
    between,        \* history: an operator wrote since the bootstrap's read
    activations,    \* the activations of the provider
    wf,             \* the workflow: its activity, activation, counters
    cancels,        \* goroutines that try to cancel an activation
    unreleased,     \* history: activations nobody could release, by a failure
    deaths          \* activities that died

sms == <<config, bootstrap, between>>

smsVars == <<config, bootstrap, between, activations, wf, cancels, unreleased, deaths>>

Ids == 1..MaxActivations

Rows == {"none", "disabled", "env", "operator"}

ActivationStates == {"free", "waiting", "code", "finished", "cancelled"}

\* What the workflow runs; the last waits lead to a release.
ChangeSteps == {"check_phone", "change_start", "mark_sent", "wait_code", "change_retry",
                "change_complete", "change_status", "cancel"}

DeactivateSteps == {"deactivate_start", "deactivate_wait", "deactivate_complete"}

Steps == ChangeSteps \cup DeactivateSteps \cup {"get_number", "cancel_and_end", "finish", "ended"}

SmsTypeOK ==
    /\ config \in Rows
    /\ bootstrap \in {"pending", "read", "done"}
    /\ between \in BOOLEAN
    /\ activations \in [Ids -> ActivationStates]
    /\ wf \in [at: Steps, id: 0..MaxActivations, failures: 0..MaxFailures, attempt: 0..MaxRetries]
    /\ wf.at \in ChangeSteps \cup DeactivateSteps => activations[wf.id] # "free"
    /\ cancels \subseteq Ids
    /\ unreleased \subseteq Ids
    /\ deaths \in 0..MaxDeaths

SmsInit ==
    /\ config \in Rows
    /\ bootstrap = "pending"
    /\ between = FALSE
    /\ activations = [i \in Ids |-> "free"]
    /\ wf = [at |-> "get_number", id |-> 0, failures |-> 0, attempt |-> 0]
    /\ cancels = {}
    /\ unreleased = {}
    /\ deaths = 0

-----------------------------------------------------------------------------
(* The row of the provider.                                                 *)

UpsertProvider ==
    /\ config' \in {"operator", "disabled"}
    /\ between' = TRUE
    /\ UNCHANGED <<bootstrap, activations, wf, cancels, unreleased, deaths>>

DeleteProvider ==
    /\ config' = "none"
    /\ between' = TRUE
    /\ UNCHANGED <<bootstrap, activations, wf, cancels, unreleased, deaths>>

\* Mutant: the row is not looked for.
BootstrapReadsBlindly ==
    /\ bootstrap = "pending"
    /\ bootstrap' = IF EnvKey THEN "read" ELSE "done"
    /\ between' = FALSE
    /\ UNCHANGED <<config, activations, wf, cancels, unreleased, deaths>>

\* The first call that needs the row looks for it, once for each process.
BootstrapReads ==
    /\ bootstrap = "pending"
    /\ bootstrap' = IF EnvKey /\ config = "none" THEN "read" ELSE "done"
    /\ between' = FALSE
    /\ UNCHANGED <<config, activations, wf, cancels, unreleased, deaths>>

\* The lock keeps other bootstraps out, not the operators.
BootstrapWrites ==
    /\ bootstrap = "read"
    /\ bootstrap' = "done"
    /\ config' = "env"
    /\ UNCHANGED <<between, activations, wf, cancels, unreleased, deaths>>

SmsServiceRestarts ==
    /\ bootstrap' = "pending"
    /\ UNCHANGED <<config, between, activations, wf, cancels, unreleased, deaths>>

\* _load_provider_config
Configured == bootstrap = "done" /\ config \in {"env", "operator"}

-----------------------------------------------------------------------------
(* The provider.                                                            *)

Live(i) == activations[i] \in {"waiting", "code"}

CodeArrives(i) ==
    /\ activations[i] = "waiting"
    /\ activations' = [activations EXCEPT ![i] = "code"]
    /\ UNCHANGED <<sms, wf, cancels, unreleased, deaths>>

ProviderCancels(i) ==
    /\ activations[i] = "waiting"
    /\ activations' = [activations EXCEPT ![i] = "cancelled"]
    /\ UNCHANGED <<sms, wf, cancels, unreleased, deaths>>

\* finishSMSActivation: one call, whose failure is only logged.
FinishActivation(i) ==
    \/ /\ Configured /\ Live(i)
       /\ activations' = [activations EXCEPT ![i] = "finished"]
       /\ UNCHANGED unreleased
    \/ /\ unreleased' = unreleased \cup {i}
       /\ UNCHANGED activations

\* cancelSMSActivationAsync
CancelAsync(i) == cancels' = cancels \cup {i}

\* A denial that comes too early is tried again; the deadline and any other
\* failure end the goroutine.
CancelActivation(i) ==
    /\ i \in cancels
    /\ cancels' = cancels \ {i}
    /\ \/ /\ Configured /\ activations[i] = "waiting"
          /\ activations' = [activations EXCEPT ![i] = "cancelled"]
          /\ UNCHANGED unreleased
       \/ /\ activations[i] \in {"cancelled", "finished"}
          /\ UNCHANGED <<activations, unreleased>>
       \/ /\ unreleased' = unreleased \cup {i}
          /\ UNCHANGED activations
    /\ UNCHANGED <<sms, wf, deaths>>

-----------------------------------------------------------------------------
(* The workflow.                                                            *)

Goto(step) == wf' = [wf EXCEPT !.at = step]

\* recordChangePhoneFailure: another number, or the end.
RecordFailure ==
    wf' = IF wf.failures + 1 >= MaxFailures
          THEN [wf EXCEPT !.at = "ended", !.failures = @ + 1]
          ELSE [at |-> "get_number", id |-> 0, failures |-> wf.failures + 1, attempt |-> 0]

\* Mutant: a number whose answer was lost or cannot be read is not counted.
AcquireNumberUncounted ==
    /\ wf.at = "get_number"
    /\ \/ \E i \in Ids :
             /\ Configured /\ activations[i] = "free"
             /\ activations' = [activations EXCEPT ![i] = "waiting"]
             /\ \/ /\ wf' = [wf EXCEPT !.at = "check_phone", !.id = i]
                   /\ UNCHANGED unreleased
                \/ /\ UNCHANGED wf
                   /\ unreleased' = unreleased \cup {i}
       \/ /\ RecordFailure
          /\ UNCHANGED <<activations, unreleased>>
    /\ UNCHANGED <<sms, cancels, deaths>>

\* When there are no numbers the activity goes on asking.  The service answers with a
\* failure when the answer of the provider is lost or cannot be read: the activity
\* counts it and asks for another number, and nobody knows of the one rented.
AcquireNumber ==
    /\ wf.at = "get_number"
    /\ \/ \E i \in Ids :
             /\ Configured /\ activations[i] = "free"
             /\ activations' = [activations EXCEPT ![i] = "waiting"]
             /\ \/ /\ wf' = [wf EXCEPT !.at = "check_phone", !.id = i]
                   /\ UNCHANGED unreleased
                \/ /\ RecordFailure                \* the provider's answer is lost
                   /\ unreleased' = unreleased \cup {i}
                \/ /\ Goto("ended")                 \* the service's reply is lost
                   /\ unreleased' = unreleased \cup {i}
       \/ /\ RecordFailure                          \* refused, or not configured
          /\ UNCHANGED <<activations, unreleased>>
       \/ /\ Goto("ended")                          \* the call fails
          /\ UNCHANGED <<activations, unreleased>>
    /\ UNCHANGED <<sms, cancels, deaths>>

CheckPhone ==
    /\ wf.at = "check_phone"
    /\ \/ /\ Goto("change_start")
          /\ UNCHANGED cancels
       \/ /\ CancelAsync(wf.id)
          /\ RecordFailure
    /\ UNCHANGED <<sms, activations, unreleased, deaths>>

\* Mutant: a refused phone is left rented.
ChangePhoneStartKeeps ==
    /\ wf.at = "change_start"
    /\ \/ /\ Goto("mark_sent")
          /\ UNCHANGED cancels
       \/ /\ RecordFailure
          /\ UNCHANGED cancels
       \/ /\ CancelAsync(wf.id)
          /\ Goto("ended")
    /\ UNCHANGED <<sms, activations, unreleased, deaths>>

ChangePhoneStart ==
    /\ wf.at = "change_start"
    /\ \/ /\ Goto("mark_sent")
          /\ UNCHANGED cancels
       \/ /\ CancelAsync(wf.id)
          /\ RecordFailure                          \* registered or exhausted
       \/ /\ CancelAsync(wf.id)
          /\ Goto("ended")
    /\ UNCHANGED <<sms, activations, unreleased, deaths>>

MarkMessageSent ==
    /\ wf.at = "mark_sent"
    /\ \/ /\ Configured
          /\ Goto("wait_code")
          /\ UNCHANGED cancels
       \/ /\ CancelAsync(wf.id)
          /\ Goto("ended")
    /\ UNCHANGED <<sms, activations, unreleased, deaths>>

MissedCode(attempt) == IF attempt < MaxRetries THEN "change_retry" ELSE "cancel"

\* WaitCode answers with whatever code the activation has.
WaitCode ==
    /\ \/ /\ wf.at = "wait_code"
          /\ \/ Configured /\ activations[wf.id] = "code" /\ Goto("change_complete")
             \/ Goto(MissedCode(wf.attempt))
             \/ Goto("cancel_and_end")
       \/ /\ wf.at = "deactivate_wait"
          /\ \/ Configured /\ activations[wf.id] = "code" /\ Goto("deactivate_complete")
             \/ Goto("finish")
    /\ UNCHANGED <<sms, activations, cancels, unreleased, deaths>>

\* Mutant: the attempts are not counted.
ChangePhoneRetryUncounted ==
    /\ wf.at = "change_retry"
    /\ \/ Goto("wait_code")
       \/ Goto("cancel")
       \/ Goto("cancel_and_end")
    /\ UNCHANGED <<sms, activations, cancels, unreleased, deaths>>

ChangePhoneRetry ==
    /\ wf.at = "change_retry"
    /\ \/ wf' = [wf EXCEPT !.at = "wait_code", !.attempt = @ + 1]
       \/ Goto("cancel")
       \/ Goto("cancel_and_end")
    /\ UNCHANGED <<sms, activations, cancels, unreleased, deaths>>

CancelBeforeRotation ==
    /\ wf.at \in {"cancel", "cancel_and_end"}
    /\ CancelAsync(wf.id)
    /\ IF wf.at = "cancel" THEN RecordFailure ELSE Goto("ended")
    /\ UNCHANGED <<sms, activations, unreleased, deaths>>

ChangePhoneComplete ==
    /\ wf.at = "change_complete"
    /\ \/ /\ Goto("change_status")
          /\ UNCHANGED <<activations, unreleased>>
       \/ /\ FinishActivation(wf.id)
          /\ RecordFailure
       \/ /\ FinishActivation(wf.id)
          /\ Goto("ended")
    /\ UNCHANGED <<sms, cancels, deaths>>

\* The phone is changed; a failure of the status call drops the activation.
StatusAfterChange ==
    /\ wf.at = "change_status"
    /\ \/ /\ Goto("deactivate_start")
          /\ UNCHANGED unreleased
       \/ /\ Goto("ended")
          /\ unreleased' = unreleased \cup {wf.id}
    /\ UNCHANGED <<sms, activations, cancels, deaths>>

DeactivateStart ==
    /\ wf.at = "deactivate_start"
    /\ \/ /\ Goto("deactivate_wait")
          /\ UNCHANGED <<activations, unreleased>>
       \/ /\ FinishActivation(wf.id)
          /\ Goto("ended")
    /\ UNCHANGED <<sms, cancels, deaths>>

\* DeactivateComplete with any outcome, and the release when no code came.
DeactivateComplete ==
    /\ wf.at \in {"deactivate_complete", "finish"}
    /\ FinishActivation(wf.id)
    /\ Goto("ended")
    /\ UNCHANGED <<sms, cancels, deaths>>

\* The activity times out, or its worker dies and the goroutines with it.  Where
\* the workflow does not handle it, the workflow ends and releases nothing.
ActivityDies ==
    /\ wf.at # "ended"
    /\ deaths < MaxDeaths
    /\ deaths' = deaths + 1
    /\ \E lost \in {{}, cancels} :
          /\ cancels' = cancels \ lost
          /\ \/ /\ wf.at \in {"wait_code", "change_retry"}
                /\ Goto("cancel_and_end")
                /\ unreleased' = unreleased \cup lost
             \/ /\ wf.at = "deactivate_wait"
                /\ Goto("finish")
                /\ unreleased' = unreleased \cup lost
             \/ /\ wf.at \notin {"wait_code", "change_retry", "deactivate_wait"}
                /\ Goto("ended")
                /\ unreleased' = unreleased \cup lost \cup ({wf.id} \ {0})
    /\ UNCHANGED <<sms, activations>>

-----------------------------------------------------------------------------
WorkflowStep ==
    \/ AcquireNumber \/ CheckPhone \/ ChangePhoneStart \/ MarkMessageSent \/ WaitCode
    \/ ChangePhoneRetry \/ CancelBeforeRotation \/ ChangePhoneComplete \/ StatusAfterChange
    \/ DeactivateStart \/ DeactivateComplete

SmsNext ==
    \/ UpsertProvider \/ DeleteProvider \/ BootstrapReads \/ BootstrapWrites \/ SmsServiceRestarts
    \/ \E i \in Ids : CodeArrives(i) \/ ProviderCancels(i) \/ CancelActivation(i)
    \/ WorkflowStep \/ ActivityDies

SmsSpec == SmsInit /\ [][SmsNext]_smsVars

\* Every call has a deadline, the loops of the goroutines too.
SmsFairSpec ==
    /\ SmsSpec
    /\ WF_smsVars(WorkflowStep)
    /\ \A i \in Ids : WF_smsVars(CancelActivation(i))

-----------------------------------------------------------------------------
(* Properties                                                               *)

\* No rented number is forgotten: each is in the hands of the workflow or of a
\* goroutine, released, or one that a named failure kept from its release: a rental
\* whose answer was lost, a release that failed, an activity that died with it.
ActivationsAreReleased ==
    \A i \in Ids :
        Live(i) => \/ wf.id = i /\ wf.at # "ended"
                   \/ i \in cancels
                   \/ i \in unreleased

\* No goroutine cancels the number the workflow waits on: what was given up is not
\* used again.
NoCancelUnderUse == wf.at # "ended" => wf.id \notin cancels

\* One change of phone rents MaxFailures numbers at most, whatever fails: a number
\* whose answer the provider or the service lost counts for one, though it is rented
\* for nothing and the next is asked for.
SpendIsBounded == Cardinality({i \in Ids : activations[i] # "free"}) <= MaxFailures

\* The bootstrap replaces a row an operator wrote only when it was written while the
\* bootstrap ran.
OperatorsRowStands ==
    [][(config \in {"operator", "disabled"} /\ config' = "env") => between]_smsVars

\* The workflow ends, and then the goroutines.
RentalEnds == <>[](wf.at = "ended" /\ cancels = {})

\* The rented numbers: none is forgotten, none is cancelled while it is waited on.
ActivationsAreSound == SmsTypeOK /\ ActivationsAreReleased /\ NoCancelUnderUse
===============================================================================
