----------------------------- MODULE OtpWaitProofs -----------------------------
(* Proofs about OtpWait, for any number of users, attempts and rounds.       *)
EXTENDS OtpWait, SequenceTheorems, TLAPS

LEMMA InitTypes == Init => TypeOK
BY WaitAssumption DEF Init, TypeOK, Time, Params, Writer, ActivityPc, Workflow

LEMMA SetParamsTypes ==
    ASSUME TypeOK, NEW at \in Time, SetParams(at)
    PROVE  times' \in Seq(Time) /\ params' \in Params
BY DEF TypeOK, SetParams, Params

WfPc == {"idle", "requested", "select", "value", "at", "dropOtp", "dropAt",
         "useOtp", "useAt", "over"}

LEMMA UserMoves ==
    ASSUME TypeOK, NEW u \in Users, NEW pc \in {"idle", "store", "notify", "done"}
    PROVE  [user EXCEPT ![u].pc = pc] \in [Users -> Writer]
<1>1. user[u] \in Writer
    BY DEF TypeOK
<1>2. [user[u] EXCEPT !.pc = pc] \in Writer
    BY <1>1 DEF Writer
<1> QED
    BY <1>2 DEF TypeOK

LEMMA ActivityMoves ==
    ASSUME TypeOK, NEW r \in 1..MaxRounds, NEW pc \in ActivityPc
    PROVE  [activity EXCEPT ![r].pc = pc] \in [1..MaxRounds -> [pc: ActivityPc, at: Time]]
<1>1. activity[r] \in [pc: ActivityPc, at: Time]
    BY DEF TypeOK
<1>2. [activity[r] EXCEPT !.pc = pc] \in [pc: ActivityPc, at: Time]
    BY <1>1
<1> QED
    BY <1>2 DEF TypeOK

LEMMA ParamsMoves ==
    ASSUME TypeOK
    PROVE  /\ params \in Params
           /\ [params EXCEPT !.otp = 0] \in Params
           /\ [params EXCEPT !.at = 0] \in Params
<1>1. params \in Params /\ 0 \in Time
    BY WaitAssumption DEF TypeOK, Time
<1> QED
    BY <1>1 DEF Params

LEMMA WorkflowMoves ==
    ASSUME TypeOK
    PROVE  /\ \A pc \in WfPc : [wf EXCEPT !.pc = pc] \in Workflow
           /\ \A result \in {"found", "failed", "done"} :
                /\ [wf EXCEPT !.future = result] \in Workflow
                /\ \A pc \in WfPc : [wf EXCEPT !.pc = pc, !.future = result] \in Workflow
           /\ \A pc \in WfPc : \A n \in 1..MaxAttempts :
                [wf EXCEPT !.pc = pc, !.attempt = n] \in Workflow
           /\ \A pc \in WfPc : \A n \in Nat :
                [wf EXCEPT !.pc = pc, !.otp = n] \in Workflow
           /\ Found => wf' \in Workflow
<1>1. wf \in Workflow
    BY DEF TypeOK
<1>2. ASSUME NEW pc \in WfPc PROVE [wf EXCEPT !.pc = pc] \in Workflow
    BY <1>1 DEF WfPc, Workflow
<1>3. ASSUME NEW result \in {"found", "failed", "done"}
      PROVE  [wf EXCEPT !.future = result] \in Workflow
    BY <1>1 DEF Workflow
<1>4. ASSUME NEW result \in {"found", "failed", "done"}, NEW pc \in WfPc
      PROVE  [wf EXCEPT !.pc = pc, !.future = result] \in Workflow
    BY <1>1 DEF WfPc, Workflow
<1>5. ASSUME NEW pc \in WfPc, NEW n \in 1..MaxAttempts
      PROVE  [wf EXCEPT !.pc = pc, !.attempt = n] \in Workflow
    BY <1>1 DEF WfPc, Workflow
<1>6. ASSUME NEW pc \in WfPc, NEW n \in Nat
      PROVE  [wf EXCEPT !.pc = pc, !.otp = n] \in Workflow
    BY <1>1 DEF WfPc, Workflow
<1>7. Found => wf' \in Workflow
    BY <1>1 DEF Workflow, Found
<1> QED
    BY <1>2, <1>3, <1>4, <1>5, <1>6, <1>7

LEMMA NextTypes == TypeOK /\ [Next]_vars => TypeOK'
<1> SUFFICES ASSUME TypeOK, [Next]_vars PROVE TypeOK'
    OBVIOUS
<1> USE WaitAssumption DEF TypeOK, Time
<1>1. ASSUME NEW u \in Users, Submit(u) PROVE TypeOK'
    BY <1>1 DEF Submit, Writer
<1>2. ASSUME NEW u \in Users, SubmitStores(u) PROVE TypeOK'
    <2>1. user[u].at \in Time
        BY DEF Writer
    <2>2. times' \in Seq(Time) /\ params' \in Params
        BY <1>2, <2>1, SetParamsTypes DEF SubmitStores
    <2> QED
        BY <1>2, <2>2, UserMoves DEF SubmitStores
<1>3. ASSUME NEW u \in Users, SubmitSignals(u) \/ SubmitFails(u) PROVE TypeOK'
    <2>1. user' \in [Users -> Writer]
        BY <1>3, UserMoves DEF SubmitSignals, SubmitFails
    <2> QED
        BY <1>3, <2>1 DEF SubmitSignals, SubmitFails
<1>4. ASSUME NEW r \in 1..MaxRounds, ActivityFinds(r) PROVE TypeOK'
    BY <1>4 DEF ActivityFinds, ActivityPc
<1>5. ASSUME NEW r \in 1..MaxRounds, ActivityStores(r) PROVE TypeOK'
    <2>1. activity[r].at \in Time
        OBVIOUS
    <2>2. times' \in Seq(Time) /\ params' \in Params
        BY <1>5, <2>1, SetParamsTypes DEF ActivityStores
    <2> QED
        BY <1>5, <2>2, ActivityMoves DEF ActivityStores, ActivityPc
<1>6. ASSUME NEW r \in 1..MaxRounds, ActivityReturns(r) \/ ActivityFails(r) PROVE TypeOK'
    <2>1. wf' \in Workflow
        BY <1>6, WorkflowMoves DEF ActivityReturns, ActivityFails, Settle
    <2>2. activity' \in [1..MaxRounds -> [pc: ActivityPc, at: Time]]
        <3>1. activity' = [activity EXCEPT ![r].pc = "done"]
            BY <1>6 DEF ActivityReturns, ActivityFails
        <3> QED
            BY <3>1, ActivityMoves DEF ActivityPc
    <2> QED
        BY <1>6, <2>1, <2>2 DEF ActivityReturns, ActivityFails
<1>7. ASSUME NEW after \in {0, now}, Request(after) PROVE TypeOK'
    <2>1. after \in Time /\ wf.round + 1 \in 0..MaxRounds
        BY <1>7 DEF Request, Workflow
    <2>2. wf' \in Workflow
        BY <1>7, <2>1 DEF Request, Workflow
    <2> QED
        BY <1>7, <2>2 DEF Request
<1>8. CASE StartWait
    BY <1>8 DEF StartWait, Workflow, ActivityPc
<1>9. CASE TimerFires
    BY <1>9 DEF TimerFires, Workflow
<1>10. CASE Select
    <2>1. CASE FutureReady
        BY <2>1, WorkflowMoves DEF FutureReady
    <2>2. CASE SignalReady
        <3>1. wf' \in Workflow
            <4>1. wf' = [wf EXCEPT !.pc = "value", !.attempt = 1]
                BY <2>2 DEF SignalReady
            <4>2. "value" \in WfPc /\ 1 \in 1..MaxAttempts
                BY DEF WfPc
            <4> QED
                BY <4>1, <4>2, WorkflowMoves
        <3> QED
            BY <2>2, <3>1 DEF SignalReady
    <2>3. CASE TimedOut
        <3>1. wf' \in Workflow
            BY <2>3, WorkflowMoves DEF TimedOut, WfPc
        <3> QED
            BY <2>3, <3>1 DEF TimedOut
    <2> QED
        BY <1>10, <2>1, <2>2, <2>3 DEF Select
<1>11. CASE ReadValue \/ ReadTime
    <2>1. CASE ReadValue
        <3> DEFINE pc == IF params.otp = 0 THEN NothingStored ELSE "at"
        <3>1. pc \in WfPc /\ params.otp \in Nat
            BY DEF NothingStored, WfPc, Params
        <3>2. wf' = [wf EXCEPT !.pc = pc, !.otp = params.otp]
            BY <2>1 DEF ReadValue
        <3>3. wf' \in Workflow
            BY <3>1, <3>2, WorkflowMoves
        <3> QED
            BY <2>1, <3>3 DEF ReadValue
    <2>2. CASE ReadTime
        <3>1. wf' \in Workflow
            BY <2>2, WorkflowMoves DEF ReadTime, Goto, WfPc
        <3> QED
            BY <2>2, <3>1 DEF ReadTime
    <2> QED
        BY <1>11, <2>1, <2>2
<1>12. CASE DropOtp \/ DropTime
    <2>1. wf' \in Workflow
        <3>1. \E pc \in WfPc : wf' = [wf EXCEPT !.pc = pc]
            BY <1>12 DEF DropOtp, DropTime, NothingStored, Goto, WfPc
        <3> QED
            BY <3>1, WorkflowMoves
    <2>2. params' \in Params
        BY <1>12, ParamsMoves DEF DropOtp, DropTime
    <2> QED
        BY <1>12, <2>1, <2>2 DEF DropOtp, DropTime
<1>13. CASE UseOtp
    BY <1>13, WorkflowMoves, ParamsMoves DEF UseOtp, Goto, WfPc
<1>14. CASE UseTime
    <2>1. wf' \in Workflow
        BY <1>14, WorkflowMoves DEF UseTime, Goto, WfPc
    <2>2. params' \in Params
        BY <1>14, ParamsMoves DEF UseTime
    <2>3. used' \in Seq([otp: Nat, after: Time])
        BY <1>14 DEF UseTime, Workflow
    <2> QED
        BY <1>14, <2>1, <2>2, <2>3 DEF UseTime
<1>15. CASE ReadFails
    <2>1. wf.attempt < MaxAttempts => wf.attempt + 1 \in 1..MaxAttempts
        BY DEF Workflow
    <2>2. wf' \in Workflow
        BY <1>15, <2>1, WorkflowMoves DEF ReadFails, WfPc
    <2> QED
        BY <1>15, <2>2 DEF ReadFails
<1>16. CASE Tick
    BY <1>16 DEF Tick
<1>17. CASE UNCHANGED vars
    BY <1>17 DEF vars
<1> QED
    BY <1>1, <1>2, <1>3, <1>4, <1>5, <1>6, <1>7, <1>8, <1>9, <1>10, <1>11, <1>12,
       <1>13, <1>14, <1>15, <1>16, <1>17 DEF Next, ActivityStep, ReadStep

\* Every step of the wait keeps the types of the parameters, of the workflow
\* and of the activities, whatever is stored, read or deleted in between.
THEOREM TypeCorrect == Spec => []TypeOK
BY InitTypes, NextTypes, PTL DEF Spec

-----------------------------------------------------------------------------
(* No code is used twice.  UsedOnce is not inductive: a code is read long    *)
(* before it is used, and what is stored can change in between.              *)

\* Codes come from the history of what was stored.
CodesAreStored ==
    /\ params.otp <= Len(times)
    /\ wf.otp <= Len(times)
    /\ \A i \in DOMAIN used : used[i].otp <= Len(times)

Unused(otp) == \A i \in DOMAIN used : used[i].otp # otp

\* A code that may still be read was not used; one in hand was neither, and
\* once its row is deleted it cannot be read again.
RowIsUnused == params.otp # 0 => Unused(params.otp)

HandIsUnused ==
    wf.pc \in {"at", "useOtp", "useAt"} => wf.otp # 0 /\ Unused(wf.otp)

HandIsGone == wf.pc = "useAt" => params.otp # wf.otp

OnceInv ==
    /\ TypeOK
    /\ CodesAreStored /\ RowIsUnused /\ HandIsUnused /\ HandIsGone
    /\ UsedOnce

LEMMA InitOnce == Init => OnceInv
BY InitTypes DEF Init, OnceInv, CodesAreStored, RowIsUnused, HandIsUnused, HandIsGone,
                 Unused, UsedOnce

\* A new code is none of those in use.
LEMMA SetParamsOnce ==
    ASSUME OnceInv, NEW at \in Time, SetParams(at), UNCHANGED <<wf, used>>
    PROVE  CodesAreStored' /\ RowIsUnused' /\ HandIsUnused' /\ HandIsGone' /\ UsedOnce'
<1>1. Len(times') = Len(times) + 1 /\ params'.otp = Len(times) + 1 /\ Len(times) \in Nat
    BY DEF OnceInv, TypeOK, SetParams
<1>2. wf.otp \in Nat /\ params.otp \in Nat
    BY DEF OnceInv, TypeOK, Workflow, Params
<1>3. \A i \in DOMAIN used : used[i].otp \in Nat
    <2>1. used \in Seq([otp: Nat, after: Time])
        BY DEF OnceInv, TypeOK
    <2>2. DOMAIN used = 1..Len(used)
        BY <2>1
    <2>3. ASSUME NEW i \in 1..Len(used) PROVE used[i] \in [otp: Nat, after: Time]
        BY <2>1, ElementOfSeq
    <2> QED
        BY <2>2, <2>3
<1> QED
    BY <1>1, <1>2, <1>3 DEF OnceInv, CodesAreStored, RowIsUnused, HandIsUnused, HandIsGone,
                      Unused, UsedOnce

\* Nothing is disturbed by a step that stores nothing, keeps the code in hand,
\* picks none up, and comes to use one only after deleting its row.
LEMMA DropOnce ==
    ASSUME OnceInv, UNCHANGED <<times, used>>,
           params'.otp \in {params.otp, 0},
           wf'.otp = wf.otp,
           wf'.pc \in {"at", "useOtp", "useAt"} => wf.pc \in {"at", "useOtp"} \/ wf'.pc = wf.pc,
           wf'.pc = "useAt" => params'.otp = 0 \/ wf.pc = "useAt"
    PROVE  CodesAreStored' /\ RowIsUnused' /\ HandIsUnused' /\ HandIsGone' /\ UsedOnce'
<1>1. Len(times) \in Nat
    BY DEF OnceInv, TypeOK
<1> QED
    BY <1>1 DEF OnceInv, CodesAreStored, RowIsUnused, HandIsUnused, HandIsGone,
                Unused, UsedOnce

LEMMA ReadValueOnce ==
    ASSUME OnceInv, ReadValue
    PROVE  CodesAreStored' /\ RowIsUnused' /\ HandIsUnused' /\ HandIsGone' /\ UsedOnce'
<1> DEFINE pc == IF params.otp = 0 THEN NothingStored ELSE "at"
<1>1. wf'.pc = pc /\ wf'.otp = params.otp
    BY DEF ReadValue, OnceInv, TypeOK, Workflow
<1>2. wf'.pc # "useAt" /\ (wf'.pc \in {"at", "useOtp", "useAt"} => params.otp # 0)
    BY <1>1 DEF NothingStored
<1>3. UNCHANGED <<times, params, used>>
    BY DEF ReadValue
<1> QED
    BY <1>1, <1>2, <1>3 DEF OnceInv, CodesAreStored, RowIsUnused, HandIsUnused,
                            HandIsGone, Unused, UsedOnce

LEMMA UseTimeOnce ==
    ASSUME OnceInv, UseTime
    PROVE  CodesAreStored' /\ RowIsUnused' /\ HandIsUnused' /\ HandIsGone' /\ UsedOnce'
<1> DEFINE n == Len(used)
           u == [otp |-> wf.otp, after |-> wf.after]
<1>1. wf.pc = "useAt" /\ wf'.otp = wf.otp /\ wf'.pc \in {"idle", "over"}
      /\ params'.otp = params.otp /\ UNCHANGED times
    BY DEF UseTime, Goto, OnceInv, TypeOK, Workflow, Params
<1>2. /\ n \in Nat /\ DOMAIN used = 1..n /\ DOMAIN used' = 1..n + 1
      /\ \A i \in 1..n : used'[i] = used[i]
      /\ used'[n + 1].otp = wf.otp
    <2>1. used \in Seq([otp: Nat, after: Time]) /\ u \in [otp: Nat, after: Time]
        BY DEF OnceInv, TypeOK, Workflow
    <2>2. used' = Append(used, u)
        BY DEF UseTime
    <2> QED
        BY <2>1, <2>2
<1>3. Unused(wf.otp) /\ params.otp # wf.otp
    BY <1>1 DEF OnceInv, HandIsUnused, HandIsGone
<1>4. CodesAreStored'
    BY <1>1, <1>2 DEF OnceInv, CodesAreStored
<1>5. RowIsUnused'
    BY <1>1, <1>2, <1>3 DEF OnceInv, RowIsUnused, Unused
<1>6. HandIsUnused' /\ HandIsGone'
    BY <1>1 DEF HandIsUnused, HandIsGone
<1>7. UsedOnce'
    BY <1>1, <1>2, <1>3 DEF OnceInv, UsedOnce, Unused
<1> QED
    BY <1>4, <1>5, <1>6, <1>7

LEMMA NextOnce == OnceInv /\ [Next]_vars => OnceInv'
<1> SUFFICES ASSUME OnceInv, [Next]_vars PROVE OnceInv'
    OBVIOUS
<1> USE DEF Params, Workflow
<1>1. TypeOK /\ TypeOK'
    BY NextTypes DEF OnceInv
<1>2. wf \in Workflow /\ params \in Params
    BY <1>1 DEF TypeOK
<1>3. ASSUME NEW u \in Users, SubmitStores(u) PROVE OnceInv'
    <2>1. user[u].at \in Time
        BY <1>1 DEF TypeOK, Writer
    <2> QED
        BY <1>1, <1>3, <2>1, SetParamsOnce DEF SubmitStores, OnceInv
<1>4. ASSUME NEW r \in 1..MaxRounds, ActivityStores(r) PROVE OnceInv'
    <2>1. activity[r].at \in Time
        BY <1>1 DEF TypeOK
    <2> QED
        BY <1>1, <1>4, <2>1, SetParamsOnce DEF ActivityStores, OnceInv
<1>5. ASSUME NEW u \in Users, Submit(u) \/ SubmitSignals(u) \/ SubmitFails(u)
      PROVE  OnceInv'
    BY <1>1, <1>5, DropOnce DEF Submit, SubmitSignals, SubmitFails, OnceInv
<1>6. ASSUME NEW r \in 1..MaxRounds, ActivityFinds(r) \/ ActivityReturns(r) \/ ActivityFails(r)
      PROVE  OnceInv'
    <2>1. wf'.otp = wf.otp /\ wf'.pc = wf.pc
        BY <1>2, <1>6 DEF ActivityFinds, ActivityReturns, ActivityFails, Settle
    <2> QED
        BY <1>1, <1>6, <2>1, DropOnce DEF ActivityFinds, ActivityReturns, ActivityFails, OnceInv
<1>7. ASSUME NEW after \in {0, now}, Request(after) PROVE OnceInv'
    <2>1. wf'.otp = wf.otp /\ wf'.pc = "requested"
        BY <1>2, <1>7 DEF Request
    <2> QED
        BY <1>1, <1>7, <2>1, DropOnce DEF Request, OnceInv
<1>8. CASE StartWait \/ TimerFires \/ Tick
    <2>1. wf'.otp = wf.otp /\ (wf'.pc = "select" \/ wf'.pc = wf.pc)
        BY <1>2, <1>8 DEF StartWait, TimerFires, Tick
    <2> QED
        BY <1>1, <1>8, <2>1, DropOnce DEF StartWait, TimerFires, Tick, OnceInv
<1>9. CASE Select
    <2>1. wf'.otp = wf.otp /\ wf'.pc \notin {"at", "useOtp", "useAt"}
        BY <1>2, <1>9 DEF Select, FutureReady, SignalReady, TimedOut, Found
    <2> QED
        BY <1>1, <1>9, <2>1, DropOnce DEF Select, FutureReady, SignalReady, TimedOut, OnceInv
<1>10. CASE ReadValue
    BY <1>1, <1>10, ReadValueOnce DEF OnceInv
<1>11. CASE ReadTime
    <2>1. wf.pc = "at" /\ wf'.otp = wf.otp /\ wf'.pc # "useAt"
        BY <1>2, <1>11 DEF ReadTime, Found, Goto
    <2> QED
        BY <1>1, <1>11, <2>1, DropOnce DEF ReadTime, OnceInv
<1>12. CASE DropOtp \/ DropTime
    <2>1. wf'.otp = wf.otp /\ wf'.pc \notin {"at", "useOtp", "useAt"}
        BY <1>2, <1>12 DEF DropOtp, DropTime, NothingStored, Goto
    <2>2. params'.otp \in {params.otp, 0}
        BY <1>2, <1>12 DEF DropOtp, DropTime
    <2> QED
        BY <1>1, <1>12, <2>1, <2>2, DropOnce DEF DropOtp, DropTime, OnceInv
<1>13. CASE UseOtp
    <2>1. wf.pc = "useOtp" /\ wf'.otp = wf.otp /\ params'.otp = 0
        BY <1>2, <1>13 DEF UseOtp, Goto
    <2> QED
        BY <1>1, <1>13, <2>1, DropOnce DEF UseOtp, OnceInv
<1>14. CASE UseTime
    BY <1>1, <1>14, UseTimeOnce DEF OnceInv
<1>15. CASE ReadFails
    <2>1. wf'.otp = wf.otp /\ wf'.pc \notin {"at", "useOtp", "useAt"}
        BY <1>2, <1>15 DEF ReadFails
    <2> QED
        BY <1>1, <1>15, <2>1, DropOnce DEF ReadFails, OnceInv
<1>16. CASE UNCHANGED vars
    BY <1>1, <1>16, DropOnce DEF vars, OnceInv
<1> QED
    BY <1>3, <1>4, <1>5, <1>6, <1>7, <1>8, <1>9, <1>10, <1>11, <1>12, <1>13, <1>14,
       <1>15, <1>16 DEF Next, ActivityStep, ReadStep

\* consumeStoredOTP never returns a code twice, however submissions, late
\* activities, failed reads and retries fall between its calls.
THEOREM CodesAreUsedOnce == Spec => []UsedOnce
<1>1. OnceInv => UsedOnce
    BY DEF OnceInv
<1> QED
    BY <1>1, InitOnce, NextOnce, PTL DEF Spec

\* The codes consumeStoredOTP hands out, with everything of its type.
THEOREM CodesAreAlwaysSound == Spec => []CodesAreSound
BY TypeCorrect, CodesAreUsedOnce, PTL DEF CodesAreSound
-----------------------------------------------------------------------------
(* A wait ends with a fresh code only.  What the workflow is told of its     *)
(* activity is about a code that may have been replaced since, so the        *)
(* invariant speaks of the history of what was stored.                       *)

Stored(at) == \E n \in DOMAIN times : times[n] = at

FreshStored == \E n \in DOMAIN times : times[n] >= wf.after

\* The stored time is that of a code.
TimeIsStored == params.at # 0 => Stored(params.at)

\* The activity of a round starts after its request, and no later one has; it
\* found its code after the request and stored it before it returned.
ActivityIsFresh ==
    /\ \A r \in 1..MaxRounds :
         wf.round < r \/ (wf.round = r /\ wf.pc = "requested") => activity[r].pc = "none"
    /\ wf.round \in 1..MaxRounds =>
         /\ activity[wf.round].pc \in {"store", "return"} => activity[wf.round].at >= wf.after
         /\ activity[wf.round].pc = "return" => Stored(activity[wf.round].at)

\* What the workflow was told still holds.
FutureIsFresh ==
    /\ wf.after <= now
    /\ wf.pc \in {"useOtp", "useAt"} => wf.mode = "take"
    /\ wf.mode = "take" \/ wf.pc \in {"idle", "requested"} => wf.future = "done"
    /\ wf.future # "done" \/ wf.pc = "requested" => wf.round \in 1..MaxRounds
    /\ wf.future = "found" => FreshStored

FreshInv == OnceInv /\ TimeIsStored /\ ActivityIsFresh /\ FutureIsFresh /\ FoundIsFresh

FreshParts == TimeIsStored /\ ActivityIsFresh /\ FutureIsFresh /\ FoundIsFresh

LEMMA TimesAreNumbers ==
    ASSUME TypeOK
    PROVE  /\ DOMAIN times = 1..Len(times) /\ Len(times) \in Nat
           /\ \A n \in DOMAIN times : times[n] \in Nat
<1>1. times \in Seq(Time) /\ DOMAIN times = 1..Len(times)
    BY DEF TypeOK
<1>2. ASSUME NEW n \in 1..Len(times) PROVE times[n] \in Time
    BY <1>1, ElementOfSeq
<1> QED
    BY <1>1, <1>2 DEF Time

\* A code more takes nothing away.
LEMMA SetParamsFresh ==
    ASSUME FreshInv, NEW at \in Time, SetParams(at), UNCHANGED <<now, wf>>
    PROVE  /\ TimeIsStored' /\ FutureIsFresh' /\ FoundIsFresh'
           /\ \E n \in DOMAIN times' : times'[n] = at
           /\ \A t : Stored(t) => Stored(t)'
<1>1. /\ Len(times) \in Nat /\ DOMAIN times = 1..Len(times)
      /\ DOMAIN times' = 1..Len(times) + 1
      /\ \A n \in DOMAIN times : times'[n] = times[n]
      /\ times'[Len(times) + 1] = at
    BY DEF FreshInv, OnceInv, TypeOK, SetParams
<1>2. params'.at = at
    BY DEF SetParams
<1>3. \E n \in DOMAIN times' : times'[n] = at
    BY <1>1
<1>4. (FreshStored => FreshStored') /\ \A t : Stored(t) => Stored(t)'
    BY <1>1 DEF Stored, FreshStored
<1>5. TimeIsStored'
    BY <1>2, <1>3 DEF TimeIsStored, Stored
<1>6. FutureIsFresh' /\ FoundIsFresh'
    BY <1>4 DEF FreshInv, FutureIsFresh, FoundIsFresh, FreshStored
<1> QED
    BY <1>3, <1>4, <1>5, <1>6

\* Neither does a step of the workflow that starts nothing, or one that only
\* takes parameters away, unless it says that a code was found.
LEMMA QuietFresh ==
    ASSUME FreshInv, UNCHANGED <<times, activity>>,
           now' = now \/ (now' = now + 1 /\ UNCHANGED wf),
           params'.at \in {params.at, 0},
           wf'.round = wf.round, wf'.after = wf.after,
           wf'.pc # "requested" \/ wf.pc = "requested",
           wf'.pc \in {"useOtp", "useAt"} =>
             wf'.mode = "take" \/ (wf.pc \in {"useOtp", "useAt"} /\ wf'.mode = wf.mode),
           wf'.mode = wf.mode \/ (FreshStored /\ wf'.future = "done"),
           wf'.pc \in {"idle", "requested", "over"} \/ wf.pc \notin {"idle", "requested", "over"},
           wf'.future = wf.future \/ wf'.future = "done",
           wf'.pc = "idle" => wf.pc = "idle" \/ wf'.future = "done"
    PROVE  FreshParts'
<1>1. TimeIsStored'
    BY DEF FreshInv, TimeIsStored, Stored
<1>2. ActivityIsFresh'
    BY DEF FreshInv, ActivityIsFresh, Stored
<1>3. FutureIsFresh'
    <2>1. now \in Nat /\ wf.after \in Nat
        BY DEF FreshInv, OnceInv, TypeOK, Workflow, Time
    <2> QED
        BY <2>1 DEF FreshInv, FutureIsFresh, FreshStored
<1>4. FoundIsFresh'
    BY DEF FreshInv, FoundIsFresh, FreshStored
<1> QED
    BY <1>1, <1>2, <1>3, <1>4 DEF FreshParts

LEMMA ActivityFresh ==
    ASSUME FreshInv, NEW r \in 1..MaxRounds, ActivityStep(r)
    PROVE  FreshParts'
<1> USE DEF FreshParts
<1>1. /\ TypeOK /\ wf \in Workflow /\ now \in Nat /\ wf.after \in Nat
      /\ activity \in [1..MaxRounds -> [pc: ActivityPc, at: Time]]
      /\ wf.round \in Nat /\ MaxRounds \in Nat /\ r \in Nat
    BY WaitAssumption DEF FreshInv, OnceInv, TypeOK, Workflow, Time
<1>2. r <= wf.round /\ (r = wf.round => wf.pc # "requested")
    BY <1>1 DEF ActivityStep, ActivityFinds, ActivityStores, ActivityReturns, ActivityFails,
                FreshInv, ActivityIsFresh
<1>3. CASE ActivityFinds(r)
    <2>1. activity' = [activity EXCEPT ![r] = [pc |-> "store", at |-> now]]
          /\ UNCHANGED <<now, times, params, wf>>
        BY <1>3 DEF ActivityFinds
    <2>2. TimeIsStored' /\ FutureIsFresh' /\ FoundIsFresh'
        BY <2>1 DEF FreshInv, TimeIsStored, Stored, FutureIsFresh, FoundIsFresh, FreshStored
    <2>3. ActivityIsFresh'
        BY <1>1, <1>2, <2>1 DEF FreshInv, ActivityIsFresh, FutureIsFresh, Stored
    <2> QED
        BY <2>2, <2>3
<1>4. CASE ActivityStores(r)
    <2>1. /\ activity[r].pc = "store" /\ activity[r].at \in Time
          /\ SetParams(activity[r].at) /\ UNCHANGED <<now, wf>>
          /\ activity' = [activity EXCEPT ![r].pc = "return"]
        BY <1>1, <1>4 DEF ActivityStores
    <2>2. /\ TimeIsStored' /\ FutureIsFresh' /\ FoundIsFresh'
          /\ \E n \in DOMAIN times' : times'[n] = activity[r].at
          /\ \A t : Stored(t) => Stored(t)'
        BY <2>1, SetParamsFresh
    <2>3. ActivityIsFresh'
        <3>1. activity'[r].at = activity[r].at /\ activity[r].pc = "store"
            BY <1>1, <2>1
        <3>2. Stored(activity[r].at)'
            BY <2>2, <3>1 DEF Stored
        <3>3. \A q \in 1..MaxRounds : q # r => activity'[q] = activity[q]
            BY <1>1, <2>1
        <3> QED
            BY <1>1, <1>2, <2>1, <2>2, <3>1, <3>2, <3>3 DEF FreshInv, ActivityIsFresh
    <2> QED
        BY <2>2, <2>3
<1>5. CASE ActivityReturns(r) \/ ActivityFails(r)
    <2>1. UNCHANGED <<now, times, params>> /\ activity' = [activity EXCEPT ![r].pc = "done"]
        BY <1>5 DEF ActivityReturns, ActivityFails
    <2>2. /\ wf'.round = wf.round /\ wf'.after = wf.after /\ wf'.pc = wf.pc /\ wf'.mode = wf.mode
          /\ \/ wf'.future = wf.future
             \/ r = wf.round /\ wf.future = "pending" /\ wf'.future = "failed"
             \/ r = wf.round /\ wf.future = "pending" /\ wf'.future = "found"
                /\ activity[r].pc = "return"
        BY <1>1, <1>5 DEF ActivityReturns, ActivityFails, Settle, Workflow
    <2>3. TimeIsStored' /\ FoundIsFresh'
        BY <2>1, <2>2 DEF FreshInv, TimeIsStored, Stored, FoundIsFresh
    <2>4. ActivityIsFresh'
        <3>1. activity'[r].pc = "done"
            BY <1>1, <2>1
        <3>2. \A q \in 1..MaxRounds : q # r => activity'[q] = activity[q]
            BY <1>1, <2>1
        <3>3. \A t : Stored(t)' <=> Stored(t)
            BY <2>1 DEF Stored
        <3> QED
            BY <1>1, <1>2, <2>1, <2>2, <3>1, <3>2, <3>3 DEF FreshInv, ActivityIsFresh
    <2>5. FutureIsFresh'
        <3>1. activity[r].pc = "return" /\ r = wf.round => FreshStored
            BY <1>1 DEF FreshInv, ActivityIsFresh, Stored, FreshStored
        <3> QED
            BY <1>1, <2>1, <2>2, <3>1 DEF FreshInv, FutureIsFresh, FreshStored
    <2> QED
        BY <2>3, <2>4, <2>5
<1> QED
    BY <1>3, <1>4, <1>5 DEF ActivityStep

\* The clock of a request is that of every code found later.
LEMMA RequestFresh ==
    ASSUME FreshInv, NEW after \in {0, now}, Request(after)
    PROVE  FreshParts'
<1>1. /\ wf \in Workflow /\ now \in Nat /\ wf.round \in Nat /\ MaxRounds \in Nat
      /\ wf.pc = "idle" /\ UNCHANGED <<now, times, params, activity>>
    BY WaitAssumption DEF FreshInv, OnceInv, TypeOK, Workflow, Time, Request
<1>2. /\ wf'.pc = "requested" /\ wf'.round = wf.round + 1 /\ wf'.after = after
      /\ wf'.future = wf.future /\ wf.round < MaxRounds
    BY <1>1 DEF Request, Workflow
<1>3. TimeIsStored' /\ FoundIsFresh'
    BY <1>1, <1>2 DEF FreshInv, TimeIsStored, Stored, FoundIsFresh
<1>4. ActivityIsFresh'
    <2>1. wf'.round \in 1..MaxRounds /\ activity[wf'.round].pc = "none"
        BY <1>1, <1>2 DEF FreshInv, ActivityIsFresh
    <2> QED
        BY <1>1, <1>2, <2>1 DEF FreshInv, ActivityIsFresh
<1>5. FutureIsFresh'
    BY <1>1, <1>2 DEF FreshInv, FutureIsFresh
<1> QED
    BY <1>3, <1>4, <1>5 DEF FreshParts

LEMMA StartWaitFresh ==
    ASSUME FreshInv, StartWait
    PROVE  FreshParts'
<1>1. /\ wf \in Workflow /\ wf.round \in Nat /\ MaxRounds \in Nat
      /\ activity \in [1..MaxRounds -> [pc: ActivityPc, at: Time]]
      /\ wf.pc = "requested" /\ UNCHANGED <<now, times, params>>
    BY WaitAssumption DEF FreshInv, OnceInv, TypeOK, Workflow, Time, StartWait
<1>2. /\ wf'.pc = "select" /\ wf'.mode = "fetch" /\ wf'.future = "pending"
      /\ wf'.round = wf.round /\ wf'.after = wf.after
      /\ activity' = [activity EXCEPT ![wf.round].pc = "waiting"]
    BY <1>1 DEF StartWait, Workflow
<1>3. wf.round \in 1..MaxRounds
    BY <1>1 DEF FreshInv, FutureIsFresh
<1>4. TimeIsStored' /\ FoundIsFresh'
    BY <1>1, <1>2 DEF FreshInv, TimeIsStored, Stored, FoundIsFresh
<1>5. ActivityIsFresh'
    BY <1>1, <1>2, <1>3 DEF FreshInv, ActivityIsFresh, Stored
<1>6. FutureIsFresh'
    BY <1>1, <1>2, <1>3 DEF FreshInv, FutureIsFresh
<1> QED
    BY <1>4, <1>5, <1>6 DEF FreshParts

\* A stored code is fresh when the workflow finds it so.
LEMMA ReadTimeFresh ==
    ASSUME FreshInv, ReadTime
    PROVE  FreshParts'
<1>1. TypeOK /\ wf \in Workflow /\ wf.pc = "at" /\ UNCHANGED <<now, times, params, activity>>
    BY DEF FreshInv, OnceInv, TypeOK, ReadTime
<1>2. CASE Fresh(params.at) /\ wf.mode = "fetch" /\ Found
    <2>1. FreshStored
        <3>1. CASE wf.after = 0
            <4>1. wf.otp \in 1..Len(times)
                BY <1>1, TimesAreNumbers
                   DEF FreshInv, OnceInv, HandIsUnused, CodesAreStored, Workflow
            <4> QED
                BY <1>1, <3>1, <4>1, TimesAreNumbers DEF FreshStored
        <3>2. CASE wf.after # 0
            BY <1>2, <3>2 DEF Fresh, FreshInv, TimeIsStored, Stored, FreshStored
        <3> QED
            BY <3>1, <3>2
    <2>2. /\ wf'.round = wf.round /\ wf'.after = wf.after /\ wf'.pc = "value"
          /\ wf'.future = "done"
        BY <1>1, <1>2 DEF Found, Workflow
    <2> QED
        BY <1>1, <2>1, <2>2, QuietFresh
<1>3. CASE (wf.mode # "fetch" /\ Goto("useOtp")) \/ Goto("dropOtp")
    <2>1. /\ wf'.round = wf.round /\ wf'.after = wf.after /\ wf'.pc \in {"useOtp", "dropOtp"}
          /\ wf'.pc = "useOtp" => wf.mode = "take"
          /\ wf'.future = wf.future /\ wf'.mode = wf.mode
        BY <1>1, <1>3 DEF Goto, Workflow
    <2> QED
        BY <1>1, <2>1, QuietFresh
<1> QED
    BY <1>2, <1>3 DEF ReadTime

LEMMA NextFresh == FreshInv /\ [Next]_vars => FreshInv'
<1> SUFFICES ASSUME FreshInv, [Next]_vars PROVE FreshParts'
    BY NextOnce DEF FreshInv, FreshParts
<1>1. /\ TypeOK /\ wf \in Workflow /\ params \in Params
      /\ activity \in [1..MaxRounds -> [pc: ActivityPc, at: Time]]
    BY DEF FreshInv, OnceInv, TypeOK
<1>2. ASSUME NEW u \in Users, SubmitStores(u) PROVE FreshParts'
    <2>1. user[u].at \in Time /\ SetParams(user[u].at) /\ UNCHANGED <<now, activity, wf>>
        BY <1>1, <1>2 DEF SubmitStores, TypeOK, Writer
    <2>2. TimeIsStored' /\ FutureIsFresh' /\ FoundIsFresh' /\ \A t : Stored(t) => Stored(t)'
        BY <2>1, SetParamsFresh
    <2>3. ActivityIsFresh'
        BY <2>1, <2>2 DEF FreshInv, ActivityIsFresh
    <2> QED
        BY <2>2, <2>3 DEF FreshParts
<1>3. ASSUME NEW u \in Users, Submit(u) \/ SubmitSignals(u) \/ SubmitFails(u)
      PROVE  FreshParts'
    <2>1. UNCHANGED <<now, times, params, activity, wf>>
        BY <1>3 DEF Submit, SubmitSignals, SubmitFails
    <2> QED
        BY <2>1, QuietFresh
<1>4. ASSUME NEW r \in 1..MaxRounds, ActivityStep(r) PROVE FreshParts'
    BY <1>4, ActivityFresh
<1>5. ASSUME NEW after \in {0, now}, Request(after) PROVE FreshParts'
    BY <1>5, RequestFresh
<1>6. CASE StartWait
    BY <1>6, StartWaitFresh
<1>7. CASE TimerFires \/ Tick \/ UNCHANGED vars
    <2>1. /\ UNCHANGED <<times, params, activity>> /\ wf'.pc = wf.pc /\ wf'.mode = wf.mode
          /\ wf'.round = wf.round /\ wf'.after = wf.after /\ wf'.future = wf.future
          /\ now' = now \/ (now' = now + 1 /\ UNCHANGED wf)
        BY <1>1, <1>7 DEF TimerFires, Tick, vars, Workflow
    <2> QED
        BY <2>1, QuietFresh
<1>8. CASE Select
    <2>1. UNCHANGED <<now, times, params, activity>> /\ wf.pc = "select"
        BY <1>8 DEF Select, FutureReady, SignalReady, TimedOut
    <2>2. /\ wf'.round = wf.round /\ wf'.after = wf.after
          /\ wf'.pc \in {"select", "value", "idle", "over"}
          /\ wf'.future = wf.future \/ wf'.future = "done"
          /\ wf'.pc = "idle" => wf'.future = "done"
          /\ wf'.mode = wf.mode \/ (wf.future = "found" /\ wf'.future = "done")
        BY <1>1, <1>8 DEF Select, FutureReady, SignalReady, TimedOut, Found, Workflow
    <2>3. wf'.mode = wf.mode \/ (FreshStored /\ wf'.future = "done")
        BY <2>2 DEF FreshInv, FutureIsFresh
    <2> QED
        BY <2>1, <2>2, <2>3, QuietFresh
<1>9. CASE ReadTime
    BY <1>9, ReadTimeFresh
<1>10. CASE ReadValue \/ DropOtp \/ DropTime \/ UseOtp \/ ReadFails
    <2>1. UNCHANGED <<now, times, activity>> /\ params'.at \in {params.at, 0}
        BY <1>1, <1>10 DEF ReadValue, DropOtp, DropTime, UseOtp, ReadFails, Params
    <2>2. /\ wf.pc \in {"value", "at", "dropOtp", "dropAt", "useOtp", "useAt"}
          /\ wf'.round = wf.round /\ wf'.after = wf.after /\ wf'.mode = wf.mode
          /\ wf'.future = wf.future /\ wf'.pc \notin {"idle", "requested"}
          /\ wf'.pc = "useOtp" => wf.pc = "useOtp"
          /\ wf'.pc = "useAt" => wf.pc = "useOtp"
        BY <1>1, <1>10 DEF ReadValue, DropOtp, DropTime, UseOtp, ReadFails, Goto,
                           NothingStored, Workflow
    <2> QED
        BY <2>1, <2>2, QuietFresh
<1>11. CASE UseTime
    <2>1. UNCHANGED <<now, times, activity>> /\ params'.at \in {params.at, 0}
        BY <1>1, <1>11 DEF UseTime, Params
    <2>2. /\ wf.pc = "useAt" /\ wf'.pc \in {"idle", "over"}
          /\ wf'.round = wf.round /\ wf'.after = wf.after /\ wf'.mode = wf.mode
          /\ wf'.future = wf.future
        BY <1>1, <1>11 DEF UseTime, Goto, Workflow
    <2>3. wf.future = "done"
        BY <2>2 DEF FreshInv, FutureIsFresh
    <2> QED
        BY <2>1, <2>2, <2>3, QuietFresh
<1> QED
    BY <1>2, <1>3, <1>4, <1>5, <1>6, <1>7, <1>8, <1>9, <1>10, <1>11 DEF Next, ReadStep

LEMMA InitFresh == Init => FreshInv
BY InitOnce DEF Init, FreshInv, TimeIsStored, ActivityIsFresh, FutureIsFresh, FoundIsFresh

\* waitForOTP reports a code only when one was stored since its request (or at
\* all, when the request has no time), for any number of rounds: what activities
\* and signals of earlier rounds left behind does not end a wait.
THEOREM FoundIsAlwaysFresh == Spec => []FoundIsFresh
<1>1. FreshInv => FoundIsFresh
    BY DEF FreshInv
<1> QED
    BY <1>1, InitFresh, NextFresh, PTL DEF Spec
===============================================================================
