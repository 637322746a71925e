------------------------------- MODULE PhoneBot -------------------------------
(***************************************************************************)
(* checkphone-tgbot: the loop that fetches updates of the chat service,    *)
(* and the dialogues of the users with it, each of which collects a phone, *)
(* a PIN and a code and hands them to the orchestrator.                    *)
(*                                                                         *)
(* The bot is one thread.  It answers an update before it acknowledges it, *)
(* so one whose answer cannot be sent comes again.  Of a text the model    *)
(* keeps what its user meant it to be; the bot cannot tell and reads the   *)
(* digits of any text.  Phone checks outside a dialogue change nothing.    *)
(***************************************************************************)
EXTENDS Naturals, Sequences

CONSTANTS
    Users,          \* users of the bot, each with one chat
    Dialogues,      \* the dialogues they start, of those below
    MaxUpdates,     \* bound: updates
    MaxRestarts     \* bound: restarts of the bot

ASSUME BotAssumption ==
    /\ Dialogues \subseteq {"auth", "signup", "change", "create_pin", "set_wa"}
    /\ MaxUpdates \in Nat
    /\ MaxRestarts \in Nat

VARIABLES
    updates,    \* the updates of the chat service, in the order of their ids
    offset,     \* the first id the bot still asks for
    batch,      \* the batch it works on: next and last id; empty if next > last
    pending,    \* _pending_gopay_flows
    user,       \* each user: whether an answer is awaited, what the bot asked for
    code,       \* the code the orchestrator waits for
    tried,      \* history: updates that were handled at least once
    failed,     \* history: updates whose answer could not be sent
    misread,    \* history: updates whose text went into another field of a call
    restarts    \* restarts of the bot

botVars == <<updates, offset, batch, pending, user, code, tried, failed, misread, restarts>>

Fields == {"phone", "pin", "otp"}

Codes == {"none", "auth", "signup", "change", "create_pin"}

\* "signup" asks for a second code after the first, that of its PIN.
Pending == [flow: Dialogues \cup {"none", "signup_pin"}, wants: Fields \cup {"none"}]

Ids == 1..MaxUpdates

BotTypeOK ==
    /\ updates \in Seq([user: Users, text: Dialogues \cup Fields \cup {"junk", "clear"}])
    /\ Len(updates) <= MaxUpdates
    /\ offset \in 1..MaxUpdates + 1
    /\ batch \in [next: 1..MaxUpdates + 1, last: 0..MaxUpdates]
    /\ pending \in [Users -> Pending]
    /\ user \in [Users -> [waits: BOOLEAN, asked: Fields \cup {"none"}]]
    /\ code \in [Users -> Codes]
    /\ tried \subseteq Ids /\ failed \subseteq Ids /\ misread \subseteq Ids
    /\ restarts \in 0..MaxRestarts

NoFlow == [flow |-> "none", wants |-> "none"]

BotInit ==
    /\ updates = <<>>
    /\ offset = 1
    /\ batch = [next |-> 1, last |-> 0]
    /\ pending = [u \in Users |-> NoFlow]
    /\ user = [u \in Users |-> [waits |-> FALSE, asked |-> "none"]]
    /\ code = [u \in Users |-> "none"]
    /\ tried = {} /\ failed = {} /\ misread = {}
    /\ restarts = 0

-----------------------------------------------------------------------------
(* The users: who is asked for something sends that, or something unreadable, *)
(* or a command, and waits for the answer.                                  *)

SendUpdate(u) ==
    /\ Len(updates) < MaxUpdates
    /\ ~user[u].waits
    /\ \E text \in Dialogues \cup {"junk", "clear"} \cup ({user[u].asked} \ {"none"}) :
          updates' = Append(updates, [user |-> u, text |-> text])
    /\ user' = [user EXCEPT ![u] = [waits |-> TRUE, asked |-> "none"]]
    /\ UNCHANGED <<offset, batch, pending, code, tried, failed, misread, restarts>>

-----------------------------------------------------------------------------
(* One update: what it does to the dialogue p of its user and to the code c *)
(* the orchestrator waits for, with the field of a call that takes the text. *)

First(dialogue) ==
    [flow |-> dialogue, wants |-> IF dialogue = "create_pin" THEN "pin" ELSE "phone"]

Effect(p, c, field) == [pending |-> p, code |-> c, field |-> field]

PhoneStep(p, c) ==
    IF p.flow = "set_wa"
    THEN {Effect(NoFlow, c, "phone")}
    ELSE {Effect([p EXCEPT !.wants = "pin"], c, "phone")}

\* The four starts: a code is on its way, or the dialogue is over.
PinStep(p, c) ==
    {Effect([p EXCEPT !.wants = "otp"], p.flow, "pin"), Effect(NoFlow, c, "pin")}

\* The completions use the code up.  A signup goes on with the code of its PIN.
OtpStep(p, c) ==
    {Effect(NoFlow, "none", "otp")}
    \cup {Effect([flow |-> "signup_pin", wants |-> "otp"], "create_pin", "otp") :
             q \in {p} \cap {[flow |-> "signup", wants |-> "otp"]}}

\* Commands come first, whatever the dialogue is at.
HandleCommand(text, p, c) ==
    IF text = "clear"
    THEN {Effect(NoFlow, "none", "none"), Effect(NoFlow, c, "none")}
    ELSE {Effect(First(text), c, "none")}

HandlePending(text, p, c) ==
    CASE text = "junk" \/ p = NoFlow -> {Effect(p, c, "none")}
      [] text # "junk" /\ p.wants = "phone" -> PhoneStep(p, c)
      [] text # "junk" /\ p.wants = "pin" -> PinStep(p, c)
      [] text # "junk" /\ p.wants = "otp" -> OtpStep(p, c)

Effects(text, p, c) ==
    IF text \in Dialogues \cup {"clear"} THEN HandleCommand(text, p, c) ELSE HandlePending(text, p, c)

\* _call_orchestrator with an exception: the call may have got through; the
\* dialogue ends when its user could be told, and stays when not.
Raises(text, p, c) ==
    LET calls == {e \in Effects(text, p, c) :
                     /\ text \in Fields
                     /\ p.flow = "set_wa" \/ p.wants \in {"pin", "otp"}}
    IN  {Effect(NoFlow, c, e.field) : e \in calls} \cup {[e EXCEPT !.pending = NoFlow] : e \in calls}

Message == updates[batch.next]

\* What the user sees of an answer: the question it ends with, if any.
Asks(p) == [waits |-> FALSE, asked |-> p.wants]

Read(field) ==
    misread' = IF field \notin {"none", Message.text} THEN misread \cup {batch.next} ELSE misread

\* handle_update, when its answer could be sent.
Answer ==
    LET u == Message.user IN
    \E e \in Effects(Message.text, pending[u], code[u])
             \cup Raises(Message.text, pending[u], code[u]) :
        /\ pending' = [pending EXCEPT ![u] = e.pending]
        /\ code' = [code EXCEPT ![u] = e.code]
        /\ user' = [user EXCEPT ![u] = Asks(e.pending)]
        /\ Read(e.field)

\* handle_update, when it could not: what was done before stays done.
AnswerFails ==
    LET u == Message.user IN
    /\ \/ \E e \in Effects(Message.text, pending[u], code[u]) :
             /\ pending' = [pending EXCEPT ![u] = e.pending]
             /\ code' = [code EXCEPT ![u] = e.code]
             /\ Read(e.field)
       \/ \E e \in Raises(Message.text, pending[u], code[u]) :
             /\ code' = [code EXCEPT ![u] = e.code]
             /\ Read(e.field)
             /\ UNCHANGED pending
    /\ user' = [user EXCEPT ![u].waits = FALSE]

-----------------------------------------------------------------------------
(* The loop.                                                                *)

Working == batch.next <= batch.last

Poll ==
    /\ ~Working
    /\ offset <= Len(updates)
    /\ batch' = [next |-> offset, last |-> Len(updates)]
    /\ UNCHANGED <<updates, offset, pending, user, code, tried, failed, misread, restarts>>

\* Mutant: the rest of the batch waits for the update that failed.
HandleUpdateInOrder ==
    /\ Working
    /\ tried' = tried \cup {batch.next}
    /\ \/ /\ Answer
          /\ offset' = batch.next + 1
          /\ batch' = [batch EXCEPT !.next = @ + 1]
          /\ UNCHANGED failed
       \/ /\ AnswerFails
          /\ failed' = failed \cup {batch.next}
          /\ batch' = [batch EXCEPT !.next = batch.last + 1]
          /\ UNCHANGED offset
    /\ UNCHANGED <<updates, restarts>>

\* Mutant: the id of the update is acknowledged instead of the one after it.
HandleUpdateOffByOne ==
    /\ Working
    /\ tried' = tried \cup {batch.next}
    /\ batch' = [batch EXCEPT !.next = @ + 1]
    /\ \/ /\ Answer
          /\ offset' = batch.next
          /\ UNCHANGED failed
       \/ /\ AnswerFails
          /\ failed' = failed \cup {batch.next}
          /\ UNCHANGED offset
    /\ UNCHANGED <<updates, restarts>>

\* A failed update is fetched again, unless a later one of the batch goes well.
HandleUpdate ==
    /\ Working
    /\ tried' = tried \cup {batch.next}
    /\ batch' = [batch EXCEPT !.next = @ + 1]
    /\ \/ /\ Answer
          /\ offset' = batch.next + 1
          /\ UNCHANGED failed
       \/ /\ AnswerFails
          /\ failed' = failed \cup {batch.next}
          /\ UNCHANGED offset
    /\ UNCHANGED <<updates, restarts>>

\* PENDING_TTL_SECONDS are over.
ExpirePending(u) ==
    /\ pending[u] # NoFlow
    /\ pending' = [pending EXCEPT ![u] = NoFlow]
    /\ UNCHANGED <<updates, offset, batch, user, code, tried, failed, misread, restarts>>

\* The dialogues are lost, and what has not been handled is dropped.
Restart ==
    /\ restarts < MaxRestarts
    /\ restarts' = restarts + 1
    /\ pending' = [u \in Users |-> NoFlow]
    /\ offset' = Len(updates) + 1
    /\ batch' = [next |-> Len(updates) + 1, last |-> Len(updates)]
    /\ user' = [u \in Users |-> [user[u] EXCEPT !.waits = FALSE]]
    /\ UNCHANGED <<updates, code, tried, failed, misread>>

BotNext == Poll \/ HandleUpdate \/ Restart \/ \E u \in Users : SendUpdate(u) \/ ExpirePending(u)

\* The loop goes on as long as the process lives.
BotSpec == BotInit /\ [][BotNext]_botVars /\ WF_botVars(Poll) /\ WF_botVars(HandleUpdate)

-----------------------------------------------------------------------------
(* Properties                                                               *)

\* A PIN is never used as a code nor a phone as a PIN when the user sends what was
\* asked for, unless an answer to that user could not be sent: then the text comes
\* again and meets the next question of the dialogue.
TextsGoWhereAsked ==
    \A i \in misread : \E j \in failed : updates[j].user = updates[i].user

\* A dialogue that asks for a code follows a start that sent one, and no later call
\* of that user has used it up, unless an answer could not be sent.
CodeIsExpected ==
    \A u \in Users :
        \/ pending[u].wants # "otp"
        \/ code[u] = IF pending[u].flow = "signup_pin" THEN "create_pin" ELSE pending[u].flow
        \/ \E j \in failed : updates[j].user = u

\* What is acknowledged was tried, for as long as the process lives.
AcknowledgedIsTried ==
    restarts = 0 => \A i \in Ids : i < offset => i \in tried

\* No update is passed over for ever, even when answers to others keep failing.
UpdateIsTried ==
    \A i \in Ids : i \in DOMAIN updates ~> i \in tried \/ restarts > 0

\* What the bot does with a text is what it asked the user for, and it acknowledges
\* what it tried.
UpdatesAreSound == BotTypeOK /\ TextsGoWhereAsked /\ CodeIsExpected /\ AcknowledgedIsTried
===============================================================================
