----------------------------- MODULE GoPayProofs -----------------------------
(***************************************************************************)
(* Proofs about PhoneBot, for any users, dialogues and numbers of updates  *)
(* and restarts, and about GoPayAccount, for any clients, accounts and     *)
(* temporary phones.                                                       *)
(***************************************************************************)
EXTENDS GoPayAccount, PhoneBot, TLAPS

(***************************************************************************)
(* PhoneBot                                                                *)
(***************************************************************************)

-----------------------------------------------------------------------------
(* The invariant.                                                           *)

Texts == Dialogues \cup Fields \cup {"junk", "clear"}

Coded == {"auth", "signup", "change", "create_pin"}

\* What a dialogue can be at.
DialogueOK(p) ==
    \/ p = NoFlow
    \/ p.wants = "phone" /\ p.flow \in Dialogues
    \/ p.wants = "pin" /\ p.flow \in Coded
    \/ p.wants = "otp" /\ p.flow \in Coded \cup {"signup_pin"}

CodeFits(p, c) ==
    p.wants = "otp" => c = IF p.flow = "signup_pin" THEN "create_pin" ELSE p.flow

\* A text that a user sends for what was asked is good for dialogue p.
Takes(p, text) == p = NoFlow \/ p.wants = text

Unfailed(u) == \A j \in failed : updates[j].user # u

\* The updates of a user that the bot may still be given.
Outstanding(u) == {i \in DOMAIN updates : i >= offset /\ updates[i].user = u}

\* A user whose answers all arrived has one update on its way at most, and the
\* dialogue has not moved since the question the update answers.
UserOK(u) ==
    /\ CodeFits(pending[u], code[u])
    /\ \A i \in Outstanding(u) :
          /\ user[u].waits
          /\ updates[i].text \in Fields => Takes(pending[u], updates[i].text)
          /\ \A j \in Outstanding(u) : i = j
    /\ ~user[u].waits /\ user[u].asked # "none" => Takes(pending[u], user[u].asked)

\* What lies between the offset and the loop has failed; what lies behind the loop
\* was tried.
LoopOK ==
    /\ offset <= batch.next
    /\ batch.next <= batch.last + 1
    /\ batch.last <= Len(updates)
    /\ failed \cup misread \subseteq 1..Len(updates)
    /\ \A i \in Ids : offset <= i /\ i < batch.next => i \in failed
    /\ restarts = 0 => \A i \in Ids : i < batch.next => i \in tried

BotInv ==
    /\ BotTypeOK
    /\ LoopOK
    /\ \A u \in Users : DialogueOK(pending[u])
    /\ \A u \in Users : Unfailed(u) => UserOK(u)
    /\ \A i \in misread : ~Unfailed(updates[i].user)

LEMMA BotInvInputs == BotInv => BotTypeOK /\ TextsGoWhereAsked /\ CodeIsExpected
BY DEF BotInv, TextsGoWhereAsked, CodeIsExpected, UserOK, CodeFits, Unfailed

LEMMA BotInvTried == BotInv => AcknowledgedIsTried
<1> SUFFICES ASSUME BotInv, restarts = 0, NEW i \in Ids, i < offset PROVE i \in tried
    BY DEF AcknowledgedIsTried
<1>1. offset \in Nat /\ batch.next \in Nat /\ i \in Nat /\ offset <= batch.next
    BY BotAssumption DEF BotInv, BotTypeOK, LoopOK, Ids
<1>2. i < batch.next
    BY <1>1
<1> QED
    BY <1>2 DEF BotInv, LoopOK

LEMMA BotInitInv == BotInit => BotInv
<1> SUFFICES ASSUME BotInit PROVE BotInv
    OBVIOUS
<1>1. BotTypeOK
    <2>1. NoFlow \in Pending /\ "none" \in Codes
        BY DEF NoFlow, Pending, Codes
    <2>2. 1 \in 1..MaxUpdates + 1 /\ 0 \in 0..MaxUpdates /\ 0 \in 0..MaxRestarts
        BY BotAssumption
    <2> QED
        BY <2>1, <2>2, BotAssumption DEF BotInit, BotTypeOK
<1>2. LoopOK
    BY BotAssumption DEF BotInit, LoopOK, Ids
<1>3. \A u \in Users : DialogueOK(pending[u]) /\ UserOK(u)
    BY DEF BotInit, DialogueOK, UserOK, CodeFits, Outstanding, NoFlow
<1> QED
    BY <1>1, <1>2, <1>3 DEF BotInv, BotInit

-----------------------------------------------------------------------------
(* The effects of an update.                                                *)

\* What an effect e of a text does to a dialogue p with code c.
Sound(e, text, p, c) ==
    /\ e \in [pending: Pending, code: Codes, field: Fields \cup {"none"}]
    /\ DialogueOK(e.pending)
    /\ CodeFits(p, c) => CodeFits(e.pending, e.code)
    /\ e.field \in {"none", p.wants}
    /\ e.field # "none" => text \in Fields /\ p # NoFlow

LEMMA PendingSound ==
    ASSUME NEW text \in Fields, NEW p \in Pending, DialogueOK(p), NEW c \in Codes,
           NEW e \in HandlePending(text, p, c)
    PROVE  Sound(e, text, p, c)
<1> USE DEF Effect, NoFlow, Fields
<1>1. CASE p = NoFlow
    <2>1. e = Effect(p, c, "none")
        BY <1>1 DEF HandlePending
    <2> QED
        BY <1>1, <2>1 DEF Sound, DialogueOK
<1>2. CASE p # NoFlow /\ p.wants = "phone"
    <2>1. e \in PhoneStep(p, c)
        BY <1>2 DEF HandlePending
    <2>2. p.flow \in Dialogues
        BY <1>2 DEF DialogueOK
    <2>3. CASE p.flow = "set_wa"
        BY <1>2, <2>1, <2>3 DEF PhoneStep, Sound, DialogueOK, CodeFits, Pending
    <2>4. CASE p.flow # "set_wa"
        <3>1. e = Effect([p EXCEPT !.wants = "pin"], c, "phone")
            BY <2>1, <2>4 DEF PhoneStep
        <3>2. p.flow \in Coded
            BY <2>2, <2>4, BotAssumption DEF Coded
        <3> QED
            BY <1>2, <3>1, <3>2 DEF Sound, DialogueOK, CodeFits, Pending
    <2> QED
        BY <2>3, <2>4
<1>3. CASE p # NoFlow /\ p.wants = "pin"
    <2>1. e \in PinStep(p, c)
        BY <1>3 DEF HandlePending
    <2>2. p.flow \in Coded
        BY <1>3 DEF DialogueOK
    <2> QED
        BY <1>3, <2>1, <2>2 DEF PinStep, Sound, DialogueOK, CodeFits, Pending, Coded, Codes
<1>4. CASE p # NoFlow /\ p.wants = "otp"
    <2>1. e \in OtpStep(p, c)
        BY <1>4 DEF HandlePending
    <2> QED
        BY <1>4, <2>1 DEF OtpStep, Sound, DialogueOK, CodeFits, Pending, Coded, Codes
<1> QED
    BY <1>1, <1>2, <1>3, <1>4 DEF DialogueOK

LEMMA EffectsSound ==
    ASSUME NEW text \in Texts, NEW p \in Pending, DialogueOK(p), NEW c \in Codes,
           NEW e \in Effects(text, p, c)
    PROVE  Sound(e, text, p, c)
<1>1. CASE text \in Dialogues \cup {"clear"}
    <2>1. e \in HandleCommand(text, p, c)
        BY <1>1 DEF Effects
    <2> QED
        BY <1>1, <2>1, BotAssumption
           DEF HandleCommand, First, Effect, NoFlow, Sound, DialogueOK, CodeFits, Pending, Coded, Codes,
               Fields
<1>2. CASE text = "junk" /\ text \notin Dialogues \cup {"clear"}
    <2>1. e = Effect(p, c, "none")
        BY <1>2 DEF Effects, HandlePending
    <2> QED
        BY <2>1 DEF Effect, Sound
<1>3. CASE text \in Fields /\ text \notin Dialogues \cup {"clear"}
    BY <1>3, PendingSound DEF Effects
<1> QED
    BY <1>1, <1>2, <1>3 DEF Texts

LEMMA RaisesSound ==
    ASSUME NEW text \in Texts, NEW p \in Pending, DialogueOK(p), NEW c \in Codes,
           NEW e \in Raises(text, p, c)
    PROVE  Sound(e, text, p, c) /\ e.pending = NoFlow
<1>1. PICK d \in Effects(text, p, c) :
          e = Effect(NoFlow, c, d.field) \/ e = [d EXCEPT !.pending = NoFlow]
    BY DEF Raises
<1>2. Sound(d, text, p, c)
    BY EffectsSound
<1> QED
    BY <1>1, <1>2 DEF Sound, Effect, NoFlow, DialogueOK, CodeFits, Pending, Fields

-----------------------------------------------------------------------------
(* The steps.                                                               *)

\* The update the loop is at.
LEMMA AtMessage ==
    ASSUME BotInv, Working
    PROVE  /\ batch.next \in DOMAIN updates /\ batch.next \in Ids /\ batch.next \in Nat
           /\ offset \in Nat /\ batch.last \in Nat
           /\ Message.user \in Users /\ Message.text \in Texts
           /\ batch.next \in Outstanding(Message.user)
           /\ pending[Message.user] \in Pending /\ DialogueOK(pending[Message.user])
           /\ code[Message.user] \in Codes
<1>1. /\ batch.next \in Nat /\ batch.next >= 1 /\ batch.last \in Nat /\ Len(updates) \in Nat
      /\ offset \in Nat /\ batch.next \in Ids
    BY BotAssumption DEF BotInv, BotTypeOK, LoopOK, Working, Ids
<1>2. batch.next \in DOMAIN updates
    BY <1>1 DEF BotInv, BotTypeOK, LoopOK, Working
<1>3. updates[batch.next] \in [user: Users, text: Texts]
    <2>1. updates \in Seq([user: Users, text: Texts])
        BY DEF BotInv, BotTypeOK, Texts
    <2>2. ASSUME NEW S, NEW s \in Seq(S), NEW i \in DOMAIN s PROVE s[i] \in S
        OBVIOUS
    <2> QED
        BY <1>2, <2>1, <2>2
<1> QED
    BY <1>1, <1>2, <1>3 DEF BotInv, BotTypeOK, LoopOK, Working, Message, Outstanding

\* A text goes into another field only after an answer to its user got lost.
LEMMA ReadKeeps ==
    ASSUME BotInv, Working, NEW e,
           Sound(e, Message.text, pending[Message.user], code[Message.user]), Read(e.field)
    PROVE  /\ misread' \subseteq misread \cup {batch.next}
           /\ batch.next \in misread' \ misread => ~Unfailed(Message.user)
<1>1. misread' \subseteq misread \cup {batch.next}
    BY DEF Read
<1>2. ASSUME Unfailed(Message.user) PROVE e.field \in {"none", Message.text}
    <2>1. UserOK(Message.user) /\ batch.next \in Outstanding(Message.user)
        BY <1>2, AtMessage DEF BotInv
    <2>2. Message.text \in Fields => Takes(pending[Message.user], Message.text)
        BY <2>1 DEF UserOK, Message
    <2> QED
        BY <2>2 DEF Sound, Takes
<1>3. Unfailed(Message.user) => misread' = misread
    BY <1>2 DEF Read
<1> QED
    BY <1>1, <1>3

\* What handling the update does to its user: the effect of an answer that arrived,
\* or of one that did not.
LEMMA AnswerSound ==
    ASSUME BotInv, Working, Answer
    PROVE  \E e : /\ Sound(e, Message.text, pending[Message.user], code[Message.user])
                  /\ pending' = [pending EXCEPT ![Message.user] = e.pending]
                  /\ code' = [code EXCEPT ![Message.user] = e.code]
                  /\ user' = [user EXCEPT ![Message.user] = Asks(e.pending)]
                  /\ Read(e.field)
BY AtMessage, EffectsSound, RaisesSound DEF Answer

LEMMA AnswerFailsSound ==
    ASSUME BotInv, Working, AnswerFails
    PROVE  \E e, p : /\ Sound(e, Message.text, pending[Message.user], code[Message.user])
                     /\ p \in Pending /\ DialogueOK(p)
                     /\ pending' = [pending EXCEPT ![Message.user] = p]
                     /\ code' = [code EXCEPT ![Message.user] = e.code]
                     /\ user' = [user EXCEPT ![Message.user].waits = FALSE]
                     /\ Read(e.field)
<1>1. CASE \E e \in Effects(Message.text, pending[Message.user], code[Message.user]) :
               /\ pending' = [pending EXCEPT ![Message.user] = e.pending]
               /\ code' = [code EXCEPT ![Message.user] = e.code]
               /\ Read(e.field)
    <2>1. PICK e \in Effects(Message.text, pending[Message.user], code[Message.user]) :
               /\ pending' = [pending EXCEPT ![Message.user] = e.pending]
               /\ code' = [code EXCEPT ![Message.user] = e.code]
               /\ Read(e.field)
        BY <1>1
    <2>2. Sound(e, Message.text, pending[Message.user], code[Message.user])
        BY <2>1, AtMessage, EffectsSound
    <2>3. e.pending \in Pending /\ DialogueOK(e.pending)
        BY <2>2 DEF Sound
    <2> QED
        BY <2>1, <2>2, <2>3 DEF AnswerFails
<1>2. CASE \E e \in Raises(Message.text, pending[Message.user], code[Message.user]) :
               /\ code' = [code EXCEPT ![Message.user] = e.code]
               /\ Read(e.field)
               /\ UNCHANGED pending
    <2>1. PICK e \in Raises(Message.text, pending[Message.user], code[Message.user]) :
               /\ code' = [code EXCEPT ![Message.user] = e.code]
               /\ Read(e.field)
               /\ UNCHANGED pending
        BY <1>2
    <2>2. pending' = [pending EXCEPT ![Message.user] = pending[Message.user]]
        BY <2>1, AtMessage DEF BotInv, BotTypeOK
    <2>3. Sound(e, Message.text, pending[Message.user], code[Message.user])
        BY <2>1, AtMessage, RaisesSound
    <2> QED
        BY <2>1, <2>2, <2>3, AtMessage DEF AnswerFails
<1> QED
    BY <1>1, <1>2 DEF AnswerFails

\* Whichever it is, the users of other updates are left alone and types are kept.
LEMMA HandleTypes ==
    ASSUME BotInv, HandleUpdate
    PROVE  /\ BotTypeOK'
           /\ \A u \in Users : DialogueOK(pending[u])'
           /\ \A u \in Users \ {Message.user} :
                  pending'[u] = pending[u] /\ code'[u] = code[u] /\ user'[u] = user[u]
           /\ misread' \subseteq misread \cup {batch.next}
           /\ batch.next \in misread' \ misread => ~Unfailed(Message.user)
<1>1. Working /\ UNCHANGED <<updates, restarts>>
    BY DEF HandleUpdate
<1>2. PICK e, p, w :
          /\ Sound(e, Message.text, pending[Message.user], code[Message.user])
          /\ p \in Pending /\ DialogueOK(p)
          /\ w \in [waits: BOOLEAN, asked: Fields \cup {"none"}]
          /\ pending' = [pending EXCEPT ![Message.user] = p]
          /\ code' = [code EXCEPT ![Message.user] = e.code]
          /\ user' = [user EXCEPT ![Message.user] = w]
          /\ Read(e.field)
    <2>1. CASE Answer
        <3>1. PICK e : /\ Sound(e, Message.text, pending[Message.user], code[Message.user])
                       /\ pending' = [pending EXCEPT ![Message.user] = e.pending]
                       /\ code' = [code EXCEPT ![Message.user] = e.code]
                       /\ user' = [user EXCEPT ![Message.user] = Asks(e.pending)]
                       /\ Read(e.field)
            BY <1>1, <2>1, AnswerSound
        <3>2. /\ e.pending \in Pending /\ DialogueOK(e.pending)
              /\ Asks(e.pending) \in [waits: BOOLEAN, asked: Fields \cup {"none"}]
            BY <3>1 DEF Sound, Asks, Pending
        <3> QED
            BY <3>1, <3>2
    <2>2. CASE AnswerFails
        <3>1. PICK e, p : /\ Sound(e, Message.text, pending[Message.user], code[Message.user])
                          /\ p \in Pending /\ DialogueOK(p)
                          /\ pending' = [pending EXCEPT ![Message.user] = p]
                          /\ code' = [code EXCEPT ![Message.user] = e.code]
                          /\ user' = [user EXCEPT ![Message.user].waits = FALSE]
                          /\ Read(e.field)
            BY <1>1, <2>2, AnswerFailsSound
        <3>2. user[Message.user] \in [waits: BOOLEAN, asked: Fields \cup {"none"}]
            BY <1>1, AtMessage DEF BotInv, BotTypeOK
        <3>3. [user[Message.user] EXCEPT !.waits = FALSE]
                  \in [waits: BOOLEAN, asked: Fields \cup {"none"}]
            BY <3>2
        <3> QED
            BY <3>1, <3>3
    <2> QED
        BY <2>1, <2>2 DEF HandleUpdate
<1>3. /\ pending' \in [Users -> Pending] /\ code' \in [Users -> Codes]
      /\ user' \in [Users -> [waits: BOOLEAN, asked: Fields \cup {"none"}]]
    BY <1>1, <1>2, AtMessage DEF BotInv, BotTypeOK, Sound
<1>4. misread' \subseteq Ids /\ tried' \subseteq Ids /\ failed' \subseteq Ids
    BY <1>1, <1>2, AtMessage, ReadKeeps DEF BotInv, BotTypeOK, HandleUpdate
<1>5. offset' \in 1..MaxUpdates + 1 /\ batch' \in [next: 1..MaxUpdates + 1, last: 0..MaxUpdates]
    BY <1>1, AtMessage, BotAssumption DEF BotInv, BotTypeOK, HandleUpdate, Ids
<1>6. BotTypeOK'
    BY <1>1, <1>3, <1>4, <1>5 DEF BotInv, BotTypeOK
<1>7. \A u \in Users : DialogueOK(pending'[u])
    BY <1>2, <1>3 DEF BotInv, BotTypeOK
<1>8. \A u \in Users : DialogueOK(pending[u])'
    BY <1>7 DEF DialogueOK
<1>9. \A u \in Users \ {Message.user} :
          pending'[u] = pending[u] /\ code'[u] = code[u] /\ user'[u] = user[u]
    BY <1>2 DEF BotInv, BotTypeOK
<1> QED
    BY <1>1, <1>2, <1>6, <1>8, <1>9, ReadKeeps

\* The loop goes on by one; what it leaves behind was tried, or has failed.
LEMMA HandleLoop ==
    ASSUME BotInv, HandleUpdate
    PROVE  LoopOK'
<1>1. Working /\ UNCHANGED <<updates, restarts>>
    BY DEF HandleUpdate
<1>2. /\ batch'.next = batch.next + 1 /\ batch'.last = batch.last
      /\ tried' = tried \cup {batch.next}
    BY DEF HandleUpdate, BotInv, BotTypeOK
<1>3. failed' \cup misread' \subseteq 1..Len(updates)
    BY <1>1, AtMessage, HandleTypes DEF HandleUpdate, BotInv, LoopOK, BotTypeOK
<1>4. /\ offset' <= batch.next + 1
      /\ \A i \in Ids : offset' <= i /\ i < batch.next + 1 => i \in failed'
    BY <1>1, AtMessage DEF HandleUpdate, BotInv, LoopOK, Ids
<1>5. restarts = 0 => \A i \in Ids : i < batch.next + 1 => i \in tried'
    BY <1>1, <1>2, AtMessage DEF BotInv, LoopOK, Ids
<1> QED
    BY <1>1, <1>2, <1>3, <1>4, <1>5, AtMessage DEF BotInv, LoopOK, Working

\* What is still outstanding was so before; the update handled is acknowledged or
\* has failed.
LEMMA HandleOutstanding ==
    ASSUME BotInv, HandleUpdate, NEW u \in Users
    PROVE  /\ Outstanding(u)' \subseteq Outstanding(u)
           /\ \/ Answer /\ failed' = failed /\ batch.next \notin Outstanding(u)'
              \/ AnswerFails /\ failed' = failed \cup {batch.next}
<1>1. Working /\ UNCHANGED <<updates, restarts>>
    BY DEF HandleUpdate
<1>2. \/ Answer /\ failed' = failed /\ offset' = batch.next + 1
      \/ AnswerFails /\ failed' = failed \cup {batch.next} /\ offset' = offset
    BY DEF HandleUpdate
<1>3. DOMAIN updates = 1..Len(updates) /\ Len(updates) \in Nat
    BY DEF BotInv, BotTypeOK
<1>4. offset' >= offset
    BY <1>1, <1>2, AtMessage DEF BotInv, LoopOK
<1>5. Outstanding(u)' = {i \in DOMAIN updates : i >= offset' /\ updates[i].user = u}
    BY <1>1 DEF Outstanding
<1>6. Outstanding(u)' \subseteq Outstanding(u)
    <2>1. SUFFICES ASSUME NEW i \in 1..Len(updates), i >= offset' PROVE i >= offset
        BY <1>3, <1>5 DEF Outstanding
    <2>2. offset' \in Nat
        BY <1>1, <1>2, AtMessage
    <2> QED
        BY <1>1, <1>3, <1>4, <2>1, <2>2, AtMessage
<1>7. offset' = batch.next + 1 => batch.next \notin Outstanding(u)'
    BY <1>1, <1>5, AtMessage
<1> QED
    BY <1>2, <1>6, <1>7

\* A user none of whose answers failed is in step with the dialogue after each update.
LEMMA HandleUsers ==
    ASSUME BotInv, HandleUpdate, NEW u \in Users, Unfailed(u)'
    PROVE  UserOK(u)'
<1>1. Working /\ UNCHANGED <<updates, restarts>>
    BY DEF HandleUpdate
<1>2. Outstanding(u)' \subseteq Outstanding(u)
    BY HandleOutstanding
<1>3. Unfailed(u) /\ UserOK(u)
    <2>1. failed \subseteq failed'
        BY HandleOutstanding
    <2>2. Unfailed(u)
        BY <1>1, <2>1 DEF Unfailed
    <2> QED
        BY <2>2 DEF BotInv
<1>4. CASE u # Message.user
    <2>1. pending'[u] = pending[u] /\ code'[u] = code[u] /\ user'[u] = user[u]
        BY <1>4, HandleTypes
    <2> QED
        BY <1>1, <1>2, <1>3, <2>1 DEF UserOK, CodeFits, Takes
<1>5. CASE u = Message.user
    <2>1. Answer /\ failed' = failed /\ batch.next \notin Outstanding(u)'
        BY <1>1, <1>5, HandleOutstanding DEF Unfailed, Message
    <2>2. Outstanding(u)' = {}
        <3>1. batch.next \in Outstanding(u)
            BY <1>1, <1>5, AtMessage
        <3> QED
            BY <1>2, <1>3, <2>1, <3>1 DEF UserOK
    <2>3. PICK e : /\ Sound(e, Message.text, pending[u], code[u])
                   /\ pending' = [pending EXCEPT ![u] = e.pending]
                   /\ code' = [code EXCEPT ![u] = e.code]
                   /\ user' = [user EXCEPT ![u] = Asks(e.pending)]
        BY <1>1, <1>5, <2>1, AnswerSound
    <2>4. pending'[u] = e.pending /\ code'[u] = e.code /\ user'[u] = Asks(e.pending)
        BY <2>3 DEF BotInv, BotTypeOK
    <2>5. CodeFits(e.pending, e.code)
        BY <1>3, <2>3 DEF Sound, UserOK
    <2> QED
        BY <2>2, <2>4, <2>5 DEF UserOK, CodeFits, Takes, Asks
<1> QED
    BY <1>4, <1>5

LEMMA HandleInv ==
    ASSUME BotInv, HandleUpdate
    PROVE  BotInv'
<1>1. Working /\ UNCHANGED updates
    BY DEF HandleUpdate
<1>2. failed \subseteq failed' /\ (batch.next \in failed' \/ failed' = failed)
    BY DEF HandleUpdate
<1>3. \A i \in misread' : ~Unfailed(updates[i].user)'
    <2> SUFFICES ASSUME NEW i \in misread' PROVE \E j \in failed' : updates[j].user = updates[i].user
        BY <1>1 DEF Unfailed
    <2>1. ~Unfailed(updates[i].user)
        BY <1>1, HandleTypes DEF BotInv, Message
    <2> QED
        BY <1>2, <2>1 DEF Unfailed
<1> QED
    BY <1>3, HandleTypes, HandleLoop, HandleUsers DEF BotInv

LEMMA SendInv ==
    ASSUME BotInv, NEW u \in Users, SendUpdate(u)
    PROVE  BotInv'
<1>1. PICK text \in Dialogues \cup {"junk", "clear"} \cup ({user[u].asked} \ {"none"}) :
          updates' = Append(updates, [user |-> u, text |-> text])
    BY DEF SendUpdate
<1>2. UNCHANGED <<offset, batch, pending, code, tried, failed, misread, restarts>>
    BY DEF SendUpdate
<1>3. /\ Len(updates) \in Nat /\ DOMAIN updates = 1..Len(updates)
      /\ Len(updates') = Len(updates) + 1 /\ DOMAIN updates' = 1..Len(updates) + 1
      /\ \A i \in 1..Len(updates) : updates'[i] = updates[i]
      /\ updates'[Len(updates) + 1] = [user |-> u, text |-> text]
    BY <1>1 DEF BotInv, BotTypeOK
<1>4. user[u] \in [waits: BOOLEAN, asked: Fields \cup {"none"}]
    BY DEF BotInv, BotTypeOK
<1>5. BotTypeOK'
    <2>1. [user |-> u, text |-> text] \in [user: Users, text: Dialogues \cup Fields \cup {"junk", "clear"}]
        BY <1>1, <1>4
    <2>2. updates' \in Seq([user: Users, text: Dialogues \cup Fields \cup {"junk", "clear"}])
        BY <1>1, <2>1 DEF BotInv, BotTypeOK
    <2>3. user' \in [Users -> [waits: BOOLEAN, asked: Fields \cup {"none"}]]
        BY DEF SendUpdate, BotInv, BotTypeOK
    <2>4. Len(updates') <= MaxUpdates
        BY <1>3, BotAssumption DEF SendUpdate
    <2> QED
        BY <1>2, <2>2, <2>3, <2>4 DEF BotInv, BotTypeOK
<1>6. LoopOK'
    BY <1>2, <1>3, BotAssumption DEF BotInv, LoopOK, BotTypeOK
<1>7. \A v \in Users : Unfailed(v)' = Unfailed(v)
    BY <1>2, <1>3 DEF Unfailed, BotInv, LoopOK
<1>8. \A i \in misread' : ~Unfailed(updates[i].user)'
    BY <1>2, <1>3 DEF Unfailed, BotInv, LoopOK
<1>9. ASSUME NEW v \in Users, Unfailed(v)' PROVE UserOK(v)'
    <2>1. UserOK(v)
        BY <1>7, <1>9 DEF BotInv
    <2>2. CASE v # u
        <3>1. Outstanding(v)' \subseteq Outstanding(v)
            BY <1>2, <1>3, <2>2 DEF Outstanding
        <3>2. user'[v] = user[v] /\ \A i \in Outstanding(v) : updates'[i] = updates[i]
            BY <1>3, <2>2 DEF SendUpdate, BotInv, BotTypeOK, Outstanding
        <3> QED
            BY <1>2, <2>1, <3>1, <3>2 DEF UserOK, Takes, CodeFits
    <2>3. CASE v = u
        <3>1. ~user[u].waits
            BY DEF SendUpdate
        <3>2. Outstanding(u) = {}
            BY <2>1, <2>3, <3>1 DEF UserOK
        <3>3. Outstanding(u)' \subseteq {Len(updates) + 1}
            BY <1>2, <1>3, <3>2 DEF Outstanding
        <3>4. user'[u].waits
            BY DEF SendUpdate, BotInv, BotTypeOK
        <3>5. text \in Fields => Takes(pending[u], text)
            <4>1. text \in Fields => text = user[u].asked /\ user[u].asked # "none"
                BY <1>1, BotAssumption DEF Fields
            <4> QED
                BY <2>1, <2>3, <3>1, <4>1 DEF UserOK
        <3> QED
            BY <1>2, <1>3, <2>1, <2>3, <3>3, <3>4, <3>5 DEF UserOK, Takes, CodeFits
    <2> QED
        BY <2>2, <2>3
<1>10. \A v \in Users : DialogueOK(pending[v])'
    BY <1>2 DEF BotInv, DialogueOK
<1> QED
    BY <1>5, <1>6, <1>8, <1>9, <1>10 DEF BotInv

LEMMA PollInv ==
    ASSUME BotInv, Poll
    PROVE  BotInv'
<1>1. UNCHANGED <<updates, offset, pending, user, code, tried, failed, misread, restarts>>
    BY DEF Poll
<1>2. /\ batch' = [next |-> offset, last |-> Len(updates)] /\ offset <= Len(updates)
      /\ Len(updates) \in Nat /\ Len(updates) <= MaxUpdates /\ offset \in 1..MaxUpdates + 1
      /\ batch.next \in Nat /\ batch.last \in Nat /\ offset <= batch.next
    BY BotAssumption DEF Poll, BotInv, BotTypeOK, LoopOK
<1>3. BotTypeOK'
    BY <1>1, <1>2, BotAssumption DEF BotInv, BotTypeOK
<1>4. LoopOK'
    <2>1. /\ offset' <= batch'.next /\ batch'.next <= batch'.last + 1
          /\ batch'.last <= Len(updates')
          /\ \A i \in Ids : ~(offset' <= i /\ i < batch'.next)
        BY <1>1, <1>2, BotAssumption DEF Ids
    <2>2. \A i \in Ids : i < batch'.next => i < batch.next
        BY <1>2, BotAssumption DEF Ids
    <2> QED
        BY <1>1, <2>1, <2>2 DEF BotInv, LoopOK
<1>5. \A u \in Users : Unfailed(u)' = Unfailed(u) /\ UserOK(u)' = UserOK(u)
    BY <1>1 DEF Unfailed, UserOK, Outstanding, Takes, CodeFits
<1> QED
    BY <1>1, <1>3, <1>4, <1>5 DEF BotInv, DialogueOK, Unfailed

LEMMA RestartInv ==
    ASSUME BotInv, Restart
    PROVE  BotInv'
<1>1. UNCHANGED <<updates, code, tried, failed, misread>>
    BY DEF Restart
<1>2. /\ Len(updates) \in Nat /\ Len(updates) <= MaxUpdates /\ DOMAIN updates = 1..Len(updates)
      /\ offset' = Len(updates) + 1
      /\ batch' = [next |-> Len(updates) + 1, last |-> Len(updates)]
      /\ restarts' \in 0..MaxRestarts /\ restarts' # 0
    BY BotAssumption DEF Restart, BotInv, BotTypeOK
<1>3. BotTypeOK'
    <2>1. pending' \in [Users -> Pending]
        BY DEF Restart, NoFlow, Pending
    <2>2. user' \in [Users -> [waits: BOOLEAN, asked: Fields \cup {"none"}]]
        BY DEF Restart, BotInv, BotTypeOK
    <2> QED
        BY <1>1, <1>2, <2>1, <2>2, BotAssumption DEF BotInv, BotTypeOK
<1>4. LoopOK'
    BY <1>1, <1>2, BotAssumption DEF BotInv, LoopOK, Ids
<1>5. \A u \in Users : DialogueOK(pending[u])' /\ UserOK(u)'
    <2> SUFFICES ASSUME NEW u \in Users PROVE DialogueOK(pending[u])' /\ UserOK(u)'
        OBVIOUS
    <2>1. pending'[u] = NoFlow
        BY DEF Restart
    <2>2. Outstanding(u)' = {}
        BY <1>1, <1>2 DEF Outstanding
    <2> QED
        BY <2>1, <2>2 DEF DialogueOK, UserOK, Takes, CodeFits, NoFlow
<1>6. \A i \in misread' : ~Unfailed(updates[i].user)'
    BY <1>1 DEF BotInv, Unfailed
<1> QED
    BY <1>3, <1>4, <1>5, <1>6 DEF BotInv

LEMMA ExpirePendingInv ==
    ASSUME BotInv, NEW u \in Users, ExpirePending(u)
    PROVE  BotInv'
<1>1. UNCHANGED <<updates, offset, batch, user, code, tried, failed, misread, restarts>>
    BY DEF ExpirePending
<1>2. pending' = [pending EXCEPT ![u] = NoFlow]
    BY DEF ExpirePending
<1>3. BotTypeOK'
    <2>1. NoFlow \in Pending
        BY DEF NoFlow, Pending
    <2> QED
        BY <1>1, <1>2, <2>1 DEF BotInv, BotTypeOK
<1>4. LoopOK'
    BY <1>1 DEF BotInv, LoopOK
<1>5. \A v \in Users : pending'[v] = pending[v] \/ pending'[v] = NoFlow
    BY <1>2 DEF BotInv, BotTypeOK
<1>6. \A v \in Users : DialogueOK(pending[v])'
    BY <1>5 DEF BotInv, DialogueOK
<1>7. \A v \in Users : Unfailed(v)' = Unfailed(v) /\ (UserOK(v) => UserOK(v)')
    <2> SUFFICES ASSUME NEW v \in Users
                 PROVE  Unfailed(v)' = Unfailed(v) /\ (UserOK(v) => UserOK(v)')
        OBVIOUS
    <2>1. Unfailed(v)' = Unfailed(v) /\ Outstanding(v)' = Outstanding(v)
        BY <1>1 DEF Unfailed, Outstanding
    <2> QED
        BY <1>1, <1>5, <2>1 DEF UserOK, Takes, CodeFits, NoFlow
<1>8. \A i \in misread' : ~Unfailed(updates[i].user)'
    BY <1>1 DEF BotInv, Unfailed
<1> QED
    BY <1>3, <1>4, <1>6, <1>7, <1>8 DEF BotInv

LEMMA BotNextInv == BotInv /\ [BotNext]_botVars => BotInv'
<1> SUFFICES ASSUME BotInv, [BotNext]_botVars PROVE BotInv'
    OBVIOUS
<1>1. CASE UNCHANGED botVars
    <2>1. UNCHANGED <<updates, offset, batch, pending, user, code, tried, failed, misread, restarts>>
        BY <1>1 DEF botVars
    <2> QED
        BY <2>1 DEF BotInv, BotTypeOK, LoopOK, DialogueOK, Unfailed, UserOK, Outstanding, Takes, CodeFits
<1>2. CASE BotNext
    BY <1>2, PollInv, HandleInv, RestartInv, SendInv, ExpirePendingInv DEF BotNext
<1> QED
    BY <1>1, <1>2

LEMMA BotInvHolds == BotSpec => []BotInv
BY BotInitInv, BotNextInv, PTL DEF BotSpec

\* Whatever the users do and whichever answers get lost: a text goes into the field
\* it was sent for and a dialogue asks for a code that is on its way, but for users
\* to whom an answer could not be sent (handle_update, run); and the offset the bot
\* acknowledges never passes an update it has not tried (run).
THEOREM UpdatesStaySound == BotSpec => []UpdatesAreSound
<1>1. BotInv => UpdatesAreSound
    BY BotInvInputs, BotInvTried DEF UpdatesAreSound
<1> QED
    BY <1>1, BotInvHolds, PTL

(***************************************************************************)
(* GoPayAccount                                                            *)
(***************************************************************************)

-----------------------------------------------------------------------------
(* The invariant: sessions by themselves.                                   *)

\* What a session is, whatever the provider does.
Shape(s) ==
    /\ s \in Session
    /\ HasItsTokens(s)
    /\ s.changeTo # None => s.uses[s.changeTo] < MaxPhoneUses

\* How its tokens relate to the phones, in any session, however old.
Placed(s) ==
    /\ s.tmp # None => phone[s.tmp] \in Temps \cup {"gone"}
    /\ s.active # None => phone[s.active] # "unused"
    /\ s.stage = "login_otp_pending" /\ s.active # None /\ phone[s.active] = "main"
          => s.login = s.active

OneOnMain == \A a, b \in Accounts : phone[a] = "main" /\ phone[b] = "main" => a = b

-----------------------------------------------------------------------------
(* The clients.                                                             *)

\* A client that works on the row as it is.
Fresh(c) == client[c].busy /\ ~client[c].stale

ClientOK(c) ==
    /\ ~client[c].busy => client[c] = Idle
    /\ Fresh(c) /\ client[c].unsaved = 0 => State(c) = saved
    /\ Fresh(c) => \A t \in Temps : State(c).uses[t] >= saved.uses[t]

\* A temporary token two of them have is that of the row.
TmpOfRow ==
    \A c, d \in Clients :
        /\ Fresh(c) /\ Fresh(d) /\ c # d
        /\ State(c).tmp # None /\ State(c).tmp = State(d).tmp
        => State(c).tmp = saved.tmp

BaseInv ==
    /\ SessionTypeOK
    /\ Shape(saved) /\ Placed(saved)
    /\ \A c \in Clients : Shape(State(c)) /\ Placed(State(c)) /\ ClientOK(c)
    /\ OneOnMain
    /\ TmpOfRow

-----------------------------------------------------------------------------
(* Where the accounts are.                                                  *)

Unsaved(c) == client[c].unsaved > 0

\* The account on the phone of the user.
MainKept ==
    \A a \in Accounts : phone[a] = "main" =>
        /\ saved.active = a => \A c \in Clients : Fresh(c) => State(c).active = a
        /\ fault = "none" =>
              saved.active = a \/ \E c \in Clients : Unsaved(c) /\ State(c).active = a

\* An account that was moved.
TmpKept ==
    \A a \in Accounts : phone[a] \in Temps /\ fault = "none" =>
        /\ saved.tmp = a => \A c \in Clients : Fresh(c) => State(c).tmp = a
        /\ saved.tmp = a \/ \E c \in Clients : Unsaved(c) /\ State(c).tmp = a

KeptInv == BaseInv /\ MainKept /\ TmpKept

-----------------------------------------------------------------------------
(* What sessions know of the phones.                                        *)

\* What a session says of the phones is so.
Right(s) ==
    /\ s.active # None => phone[s.active] = "main"
    /\ s.tmp # None => phone[s.tmp] \in Temps
    /\ s.stage = "login_otp_pending" => phone[s.login] = "main"
    /\ \A t \in Temps : s.uses[t] = moves[t]

\* Work on an older row, which ends as a loss, whether it is saved or not.
Doomed == \E c \in Clients : client[c].stale /\ Unsaved(c)

\* A client has made a change at the provider the row does not know, and its session
\* shows it: the row will change when it saves.
Differs(c) ==
    /\ Fresh(c) /\ Unsaved(c)
    /\ \/ \E t \in Temps : State(c).uses[t] > saved.uses[t]
       \/ saved.tmp # None /\ phone[saved.tmp] = "gone" /\ State(c).tmp # saved.tmp

Known ==
    fault # "lost" /\ ~Doomed =>
        /\ Right(saved) \/ \E d \in Clients : Differs(d)
        /\ \A c \in Clients :
              Fresh(c) => Right(State(c)) \/ \E d \in Clients \ {c} : Differs(d)

KnownInv == BaseInv /\ Known

LEMMA KnownIsEnough == KnownInv => SessionIsSound
<1> SUFFICES ASSUME KnownInv PROVE SessionIsSound
    OBVIOUS
<1>1. SessionTypeOK /\ StageHasItsTokens
    BY DEF KnownInv, BaseInv, Shape, StageHasItsTokens
<1>2. SessionKnowsThePhones
    <2> SUFFICES ASSUME fault # "lost", \A c \in Clients : client[c].unsaved = 0
                 PROVE  /\ saved.active # None => phone[saved.active] = "main"
                        /\ saved.tmp # None => phone[saved.tmp] \in Temps
        BY DEF SessionKnowsThePhones
    <2>1. \A c \in Clients : ~Unsaved(c)
        <3>1. ~(0 > 0)
            OBVIOUS
        <3> QED
            BY <3>1, Zenon DEF Unsaved
    <2>2. ~Doomed /\ \A c \in Clients : ~Differs(c)
        BY <2>1 DEF Doomed, Differs
    <2> QED
        BY <2>2 DEF KnownInv, Known, Right
<1> QED
    BY <1>1, <1>2 DEF SessionIsSound

LEMMA KeptIsEnough == KeptInv => AccountsAreKept
<1> SUFFICES ASSUME KeptInv, fault = "none", NEW a \in Accounts, Live(a) PROVE Kept(a)
    BY DEF AccountsAreKept
<1>1. phone[a] = "main" \/ phone[a] \in Temps
    BY DEF Live, KeptInv, BaseInv, SessionTypeOK
<1>2. CASE phone[a] = "main"
    BY <1>2 DEF KeptInv, MainKept, Kept
<1>3. CASE phone[a] \in Temps
    BY <1>3 DEF KeptInv, TmpKept, Kept
<1> QED
    BY <1>1, <1>2, <1>3

-----------------------------------------------------------------------------
(* The initial state.                                                       *)

LEMMA EmptyShape == Shape(Empty)
<1>1. Empty \in Session
    BY GoPayAssumption DEF Empty, Session, Stages, MaybeAccount
<1> QED
    BY <1>1 DEF Shape, HasItsTokens, Empty

LEMMA GoPayInit == Init => KeptInv /\ KnownInv
<1> SUFFICES ASSUME Init PROVE KeptInv /\ KnownInv
    OBVIOUS
<1>1. \A c \in Clients : client[c] = Idle /\ State(c) = Empty /\ ~Fresh(c)
    <2>1. Idle.busy = FALSE /\ Idle.state = Empty
        BY DEF Idle
    <2>2. \A c \in Clients : client[c] = Idle
        BY Zenon DEF Init
    <2> QED
        BY <2>1, <2>2, Zenon DEF State, Fresh
<1>2. SessionTypeOK
    <2>1. Idle \in Client
        BY EmptyShape DEF Idle, Client, Shape
    <2> QED
        BY <2>1, EmptyShape DEF Init, SessionTypeOK, Shape, Fault
<1>3. Placed(Empty)
    BY DEF Placed, Empty
<1>4. BaseInv
    BY <1>1, <1>2, <1>3, EmptyShape DEF BaseInv, ClientOK, OneOnMain, TmpOfRow, Init
<1>5. MainKept
    BY DEF MainKept, Init
<1>6. TmpKept
    BY GoPayAssumption DEF TmpKept, Init
<1>7. Known
    BY <1>1 DEF Known, Right, Init, Empty
<1> QED
    BY <1>4, <1>5, <1>6, <1>7 DEF KeptInv, KnownInv

-----------------------------------------------------------------------------
(* What a call that leaves the phones alone makes of a session.             *)

\* An account that gets into a session is on the phone of the user, or has a token
\* for the login that was waiting.
Follows(s, t) ==
    /\ Shape(t)
    /\ t.tmp = s.tmp /\ t.uses = s.uses
    /\ \/ t.active = s.active
       \/ t.active # None /\ phone[t.active] = "main"
       \/ s.stage = "login_otp_pending" /\ t.active = s.login /\ Live(s.login)
    /\ t.stage = "login_otp_pending" =>
          \/ phone[t.login] = "main"
          \/ s.stage = "login_otp_pending" /\ t.login = s.login /\ t.active = s.active

LEMMA FollowsSame == ASSUME NEW s, Shape(s) PROVE Follows(s, s)
BY DEF Follows

LEMMA FollowsOn ==
    ASSUME NEW s, NEW t, NEW u, Follows(s, t), Follows(t, u)
    PROVE  Follows(s, u)
<1>1. Shape(u) /\ u.tmp = s.tmp /\ u.uses = s.uses
    BY DEF Follows
<1>2. t.stage = "login_otp_pending" => t.login # None
    BY DEF Follows, Shape, HasItsTokens
<1>3. \/ u.active = s.active
      \/ u.active # None /\ phone[u.active] = "main"
      \/ s.stage = "login_otp_pending" /\ u.active = s.login /\ Live(s.login)
    BY <1>2 DEF Follows
<1>4. u.stage = "login_otp_pending" =>
          \/ phone[u.login] = "main"
          \/ s.stage = "login_otp_pending" /\ u.login = s.login /\ u.active = s.active
    BY DEF Follows
<1> QED
    BY <1>1, <1>3, <1>4 DEF Follows

\* A session with another stage and other tokens of its login and signup.
With(s, stage, active, login, signup, pin) ==
    [s EXCEPT !.stage = stage, !.active = active, !.login = login, !.signup = signup,
              !.pin = pin]

\* The tokens stage needs.
StageFits(s, stage, active, login, signup, pin) ==
    /\ stage = "login_otp_pending" => login # None
    /\ stage = "signup_otp_pending" => signup
    /\ stage = "signup_pin_otp_pending" => pin # None /\ pin = active
    /\ stage = "change_phone_otp_pending" => s.change # None
    /\ stage \in {"phone_changed", "deactivate_otp_pending"} => s.tmp # None
    /\ stage \in {"ready", "consumed", "signup_pin_required"} => active # None

Is(t, s, stage, active, login) ==
    /\ Shape(t)
    /\ t.stage = stage /\ t.active = active /\ t.login = login
    /\ t.tmp = s.tmp /\ t.uses = s.uses

LEMMA WithShape ==
    ASSUME NEW s, Shape(s), NEW stage \in Stages, NEW active \in MaybeAccount,
           NEW login \in MaybeAccount, NEW signup \in BOOLEAN, NEW pin \in MaybeAccount,
           StageFits(s, stage, active, login, signup, pin)
    PROVE  Is(With(s, stage, active, login, signup, pin), s, stage, active, login)
<1> DEFINE t == With(s, stage, active, login, signup, pin)
<1>1. /\ t \in Session
      /\ t.stage = stage /\ t.active = active /\ t.login = login /\ t.signup = signup
      /\ t.pin = pin /\ t.tmp = s.tmp /\ t.uses = s.uses /\ t.change = s.change
      /\ t.changeTo = s.changeTo
    BY DEF With, Shape, Session
<1> HIDE DEF t
<1>2. HasItsTokens(t)
    BY <1>1 DEF HasItsTokens, StageFits, Shape
<1>3. Shape(t)
    BY <1>1, <1>2 DEF Shape
<1> QED
    BY <1>1, <1>3 DEF t, Is

LEMMA WithFollows ==
    ASSUME NEW s, Shape(s), NEW stage \in Stages, NEW active \in MaybeAccount,
           NEW login \in MaybeAccount, NEW signup \in BOOLEAN, NEW pin \in MaybeAccount,
           StageFits(s, stage, active, login, signup, pin),
           \/ active = s.active
           \/ active # None /\ phone[active] = "main"
           \/ s.stage = "login_otp_pending" /\ active = s.login /\ Live(s.login),
           stage = "login_otp_pending" =>
               \/ phone[login] = "main"
               \/ s.stage = "login_otp_pending" /\ login = s.login /\ active = s.active
    PROVE  Follows(s, With(s, stage, active, login, signup, pin))
<1> DEFINE t == With(s, stage, active, login, signup, pin)
<1>1. Is(t, s, stage, active, login)
    BY WithShape
<1> HIDE DEF t
<1>2. Follows(s, t)
    BY <1>1 DEF Follows, Is
<1> QED
    BY <1>2 DEF t

\* The fields of a session.
LEMMA SessionFields ==
    ASSUME NEW s, Shape(s)
    PROVE  /\ s.stage \in Stages /\ s.active \in MaybeAccount /\ s.tmp \in MaybeAccount
           /\ s.login \in MaybeAccount /\ s.signup \in BOOLEAN /\ s.pin \in MaybeAccount
           /\ StageFits(s, s.stage, s.active, s.login, s.signup, s.pin)
           /\ None \in MaybeAccount
BY DEF Shape, Session, HasItsTokens, StageFits, MaybeAccount

LEMMA ClearLoginFollows == ASSUME NEW s, Shape(s) PROVE Follows(s, ClearLogin(s))
<1> DEFINE stage == IF s.stage \in {"login", "login_otp_pending"}
                    THEN IF s.deactivated THEN "deactivated" ELSE "idle"
                    ELSE s.stage
<1>1. stage \in Stages \ {"login", "login_otp_pending"} /\ stage \in {s.stage, "deactivated", "idle"}
    BY SessionFields DEF Stages
<1>2. ClearLogin(s) = With(s, stage, s.active, None, s.signup, s.pin)
    BY DEF ClearLogin, With, Shape, Session
<1> HIDE DEF stage
<1>3. StageFits(s, stage, s.active, None, s.signup, s.pin)
    BY <1>1, SessionFields DEF StageFits
<1> QED
    BY <1>1, <1>2, <1>3, SessionFields, WithFollows

LEMMA ClearSignupFollows == ASSUME NEW s, Shape(s) PROVE Follows(s, ClearSignup(s))
<1> DEFINE stage == IF s.stage \in {"signup", "signup_otp_pending", "signup_pin_required",
                                    "signup_pin_otp_pending"}
                    THEN NoSignup(s) ELSE s.stage
<1>1. /\ stage \in Stages \ {"signup_otp_pending", "signup_pin_otp_pending"}
      /\ stage \in {s.stage, "deactivated", "idle"}
    BY SessionFields DEF Stages, NoSignup
<1>2. ClearSignup(s) = With(s, stage, s.active, s.login, FALSE, None)
    BY DEF ClearSignup, NoSignup, With, Shape, Session
<1> HIDE DEF stage
<1>3. StageFits(s, stage, s.active, s.login, FALSE, None)
    BY <1>1, SessionFields DEF StageFits
<1> QED
    BY <1>1, <1>2, <1>3, SessionFields, WithFollows

LEMMA ClearSignupOtpFollows == ASSUME NEW s, Shape(s) PROVE Follows(s, ClearSignupOtp(s))
<1> DEFINE stage == IF s.stage \in {"signup", "signup_otp_pending"} THEN NoSignup(s) ELSE s.stage
<1>1. stage \in Stages \ {"signup_otp_pending"} /\ stage \in {s.stage, "deactivated", "idle"}
    BY SessionFields DEF Stages, NoSignup
<1>2. ClearSignupOtp(s) = With(s, stage, s.active, s.login, FALSE, s.pin)
    BY DEF ClearSignupOtp, NoSignup, With, Shape, Session
<1> HIDE DEF stage
<1>3. StageFits(s, stage, s.active, s.login, FALSE, s.pin)
    BY <1>1, SessionFields DEF StageFits
<1> QED
    BY <1>1, <1>2, <1>3, SessionFields, WithFollows

LEMMA ClearSignupPinFollows == ASSUME NEW s, Shape(s) PROVE Follows(s, ClearSignupPin(s))
<1> DEFINE stage == IF s.stage # "signup_pin_otp_pending" THEN s.stage
                    ELSE IF s.active # None THEN "signup_pin_required" ELSE "idle"
<1>1. /\ stage \in Stages \ {"signup_pin_otp_pending"}
      /\ stage \in {s.stage, "idle"} \/ (stage = "signup_pin_required" /\ s.active # None)
    BY SessionFields DEF Stages
<1>2. ClearSignupPin(s) = With(s, stage, s.active, s.login, s.signup, None)
    BY DEF ClearSignupPin, With, Shape, Session
<1> HIDE DEF stage
<1>3. StageFits(s, stage, s.active, s.login, s.signup, None)
    BY <1>1, SessionFields DEF StageFits
<1> QED
    BY <1>1, <1>2, <1>3, SessionFields, WithFollows

\* What expired codes make of a session.
LEMMA ExpireLoginFollows ==
    ASSUME NEW s, Shape(s), NEW t \in ExpireLogin(s)
    PROVE  Follows(s, t)
BY FollowsSame, ClearLoginFollows DEF ExpireLogin

LEMMA ExpireSignupFollows ==
    ASSUME NEW s, Shape(s), NEW t \in ExpireSignup(s)
    PROVE  Follows(s, t)
BY FollowsSame, ClearSignupOtpFollows, ClearSignupPinFollows DEF ExpireSignup

LEMMA ExpireFollows ==
    ASSUME NEW s, Shape(s), NEW t \in Expire(s)
    PROVE  Follows(s, t)
<1>1. PICK u \in ExpireLogin(s) : t \in ExpireSignup(u)
    BY DEF Expire
<1>2. Follows(s, u)
    BY ExpireLoginFollows
<1>3. Follows(u, t)
    BY <1>1, <1>2, ExpireSignupFollows DEF Follows
<1> QED
    BY <1>2, <1>3, FollowsOn

LEMMA VerifiedFollows ==
    ASSUME NEW s, Shape(s), HasToken(s)
    PROVE  Follows(s, Verified(s))
<1>1. Verified(s) = With(s, "ready", s.active, s.login, s.signup, s.pin)
    BY DEF Verified, With, Shape, Session
<1>2. StageFits(s, "ready", s.active, s.login, s.signup, s.pin)
    BY DEF StageFits, HasToken, Live
<1> QED
    BY <1>1, <1>2, SessionFields, WithFollows DEF Stages

LEMMA CheckTokenFollows ==
    ASSUME NEW s, Shape(s), NEW t \in CheckToken(s)
    PROVE  Follows(s, t)
BY FollowsSame, VerifiedFollows DEF CheckToken

LEMMA LoginStartFollows == ASSUME NEW s, Shape(s) PROVE Follows(s, PersistLoginStart(s))
<1>1. PersistLoginStart(s) = With(s, "login", s.active, s.login, s.signup, s.pin)
    BY DEF PersistLoginStart, With, Shape, Session
<1>2. StageFits(s, "login", s.active, s.login, s.signup, s.pin)
    BY DEF StageFits
<1> QED
    BY <1>1, <1>2, SessionFields, WithFollows DEF Stages

LEMMA LoginOtpFollows ==
    ASSUME NEW s, Shape(s), NEW a \in OnPhone("main")
    PROVE  Follows(s, PersistLoginOtp(s, a))
<1>1. PersistLoginOtp(s, a) = With(s, "login_otp_pending", s.active, a, s.signup, s.pin)
    BY DEF PersistLoginOtp, With, Shape, Session
<1>2. a \in MaybeAccount /\ a # None /\ phone[a] = "main"
    BY GoPayAssumption DEF OnPhone, MaybeAccount
<1>3. StageFits(s, "login_otp_pending", s.active, a, s.signup, s.pin)
    BY <1>2 DEF StageFits
<1> QED
    BY <1>1, <1>2, <1>3, SessionFields, WithFollows DEF Stages

LEMMA LoginReadyFollows ==
    ASSUME NEW s, Shape(s), NEW a \in Accounts,
           \/ phone[a] = "main"
           \/ s.stage = "login_otp_pending" /\ a = s.login /\ Live(a)
    PROVE  Follows(s, PersistLoginReady(s, a))
<1>1. PersistLoginReady(s, a) = With(s, "ready", a, None, s.signup, s.pin)
    BY DEF PersistLoginReady, With, Shape, Session
<1>2. a \in MaybeAccount /\ a # None
    BY GoPayAssumption DEF MaybeAccount
<1>3. StageFits(s, "ready", a, None, s.signup, s.pin)
    BY <1>2 DEF StageFits
<1> QED
    BY <1>1, <1>2, <1>3, SessionFields, WithFollows DEF Stages

LEMMA StartLoginFollows ==
    ASSUME NEW s, Shape(s), NEW t \in StartLogin(s)
    PROVE  Follows(s, t)
<1> DEFINE begun == PersistLoginStart(s)
<1>1. Follows(s, begun)
    BY LoginStartFollows
<1>2. Shape(begun)
    BY <1>1 DEF Follows
<1>3. \A a \in OnPhone("main") :
          Follows(begun, PersistLoginOtp(begun, a)) /\ Follows(begun, PersistLoginReady(begun, a))
    BY <1>2, LoginOtpFollows, LoginReadyFollows DEF OnPhone
<1>4. \A a \in OnPhone("main") :
          Follows(s, PersistLoginOtp(begun, a)) /\ Follows(s, PersistLoginReady(begun, a))
    BY <1>1, <1>3, FollowsOn
<1>5. Follows(s, s)
    BY FollowsSame
<1> HIDE DEF begun
<1>6. t \in {s, begun} \cup UNION {{PersistLoginOtp(begun, a), PersistLoginReady(begun, a)} :
                                  a \in OnPhone("main") \cap pins}
    BY DEF StartLogin, begun
<1> QED
    BY <1>1, <1>4, <1>5, <1>6

LEMMA LoggedInFollows ==
    ASSUME NEW s, Shape(s), NEW t \in LoggedIn(s)
    PROVE  Follows(s, t)
<1>1. CASE t = s
    BY <1>1, FollowsSame
<1>2. CASE t = PersistLoginReady(s, s.login) /\ s.stage = "login_otp_pending" /\ Live(s.login)
    <2>1. s.login \in Accounts
        BY <1>2, SessionFields DEF Live, MaybeAccount
    <2> QED
        BY <1>2, <2>1, LoginReadyFollows
<1> QED
    BY <1>1, <1>2 DEF LoggedIn

LEMMA StageFollows ==
    ASSUME NEW s, Shape(s), NEW stage \in Stages \ {"login_otp_pending"},
           StageFits(s, stage, s.active, s.login, s.signup, s.pin)
    PROVE  Follows(s, [s EXCEPT !.stage = stage])
<1>1. [s EXCEPT !.stage = stage] = With(s, stage, s.active, s.login, s.signup, s.pin)
    BY DEF With, Shape, Session
<1> QED
    BY <1>1, SessionFields, WithFollows

LEMMA SignupStartFollows == ASSUME NEW s, Shape(s) PROVE Follows(s, PersistSignupStart(s))
<1> DEFINE u == ClearSignup(s)
           v == ClearLogin(u)
<1>1. Follows(s, u)
    BY ClearSignupFollows
<1>2. Shape(u)
    BY <1>1 DEF Follows
<1>3. Follows(u, v)
    BY <1>2, ClearLoginFollows
<1>4. Shape(v) /\ Follows(s, v)
    BY <1>1, <1>3, FollowsOn DEF Follows
<1>5. PersistSignupStart(s) = [v EXCEPT !.stage = "signup"]
    BY DEF PersistSignupStart
<1> HIDE DEF u, v
<1>6. Follows(v, [v EXCEPT !.stage = "signup"])
    BY <1>4, StageFollows DEF StageFits, Stages
<1> QED
    BY <1>4, <1>5, <1>6, FollowsOn

LEMMA SignupOtpFollows == ASSUME NEW s, Shape(s) PROVE Follows(s, PersistSignupOtp(s))
<1>1. PersistSignupOtp(s) = With(s, "signup_otp_pending", s.active, s.login, TRUE, s.pin)
    BY DEF PersistSignupOtp, With, Shape, Session
<1>2. StageFits(s, "signup_otp_pending", s.active, s.login, TRUE, s.pin)
    BY DEF StageFits
<1> QED
    BY <1>1, <1>2, SessionFields, WithFollows DEF Stages

LEMMA StartSignupFollows ==
    ASSUME NEW s, Shape(s), NEW t \in StartSignup(s)
    PROVE  Follows(s, t)
<1>1. Follows(s, s) /\ Follows(s, PersistSignupStart(s))
    BY FollowsSame, SignupStartFollows
<1>2. Shape(PersistSignupStart(s))
    BY <1>1 DEF Follows
<1>3. Follows(s, PersistSignupOtp(PersistSignupStart(s)))
    BY <1>1, <1>2, SignupOtpFollows, FollowsOn
<1> QED
    BY <1>1, <1>3 DEF StartSignup

LEMMA PinSettledFollows ==
    ASSUME NEW s, Shape(s), HasToken(s)
    PROVE  Follows(s, PinSettled(s))
<1>1. PinSettled(s) = With(s, "ready", s.active, s.login, FALSE, None)
    BY DEF PinSettled, With, Shape, Session
<1>2. StageFits(s, "ready", s.active, s.login, FALSE, None)
    BY DEF StageFits, HasToken, Live
<1> QED
    BY <1>1, <1>2, SessionFields, WithFollows DEF Stages

LEMMA StartSignupPinFollows ==
    ASSUME NEW s, Shape(s), NEW t \in StartSignupPin(s)
    PROVE  Follows(s, t)
<1>1. CASE t = s
    BY <1>1, FollowsSame
<1>2. CASE HasToken(s) /\ t = PinSettled(s)
    BY <1>2, PinSettledFollows
<1>3. CASE HasToken(s) /\ t = [s EXCEPT !.pin = s.active, !.stage = "signup_pin_otp_pending"]
    <2>1. t = With(s, "signup_pin_otp_pending", s.active, s.login, s.signup, s.active)
        BY <1>3 DEF With, Shape, Session
    <2>2. StageFits(s, "signup_pin_otp_pending", s.active, s.login, s.signup, s.active)
        BY <1>3 DEF StageFits, HasToken, Live
    <2> QED
        BY <2>1, <2>2, SessionFields, WithFollows DEF Stages
<1> QED
    BY <1>1, <1>2, <1>3, Zenon DEF StartSignupPin

LEMMA AuthenticateFollows ==
    ASSUME NEW s, Shape(s), NEW t \in Authenticate(s)
    PROVE  Follows(s, t)
<1>1. CASE s.stage \in {"signup_pin_required", "signup_pin_otp_pending"}
    <2>1. PICK u \in CheckToken(s) : t = [u EXCEPT !.stage = s.stage]
        BY <1>1 DEF Authenticate
    <2>2. u = s \/ u = Verified(s)
        BY <2>1 DEF CheckToken
    <2>3. t = [s EXCEPT !.stage = s.stage]
        BY <2>1, <2>2 DEF Verified, Shape, Session
    <2>4. s.stage \in Stages \ {"login_otp_pending"}
        BY <1>1, SessionFields
    <2> QED
        BY <2>3, <2>4, SessionFields, StageFollows
<1>2. CASE s.stage \notin {"signup_pin_required", "signup_pin_otp_pending"}
    <2>1. \/ t \in CheckToken(s) \/ t = s \/ t \in StartLogin(s)
          \/ t \in StartSignup([s EXCEPT !.stage = "login"])
        BY <1>2 DEF Authenticate
    <2>2. Follows(s, [s EXCEPT !.stage = "login"])
        BY LoginStartFollows DEF PersistLoginStart
    <2>3. Shape([s EXCEPT !.stage = "login"])
        BY <2>2 DEF Follows
    <2>4. CASE t \in StartSignup([s EXCEPT !.stage = "login"])
        BY <2>2, <2>3, <2>4, StartSignupFollows, FollowsOn
    <2> QED
        BY <2>1, <2>4, CheckTokenFollows, FollowsSame, StartLoginFollows
<1> QED
    BY <1>1, <1>2

-----------------------------------------------------------------------------
(* The kinds of calls.                                                      *)

\* A call that leaves the phones alone.
Answered(c) ==
    /\ \E t : Follows(State(c), t) /\ Return(c, t)
    /\ pins' \subseteq Accounts
    /\ UNCHANGED <<phone, moves, fault>>

\* A call that signs an account up.
SignsUp(c) ==
    /\ OnPhone("main") = {}
    /\ \E s : \E a \in OnPhone("unused") :
          /\ Follows(State(c), s)
          /\ phone' = [phone EXCEPT ![a] = "main"]
          /\ Return(c, PersistSignupComplete(s, a))
    /\ UNCHANGED <<pins, moves, fault>>

\* A call that signs an account up, and whose client does not hear of it.
SignsUpUnheard(c) ==
    /\ OnPhone("main") = {}
    /\ \E s : \E a \in OnPhone("unused") :
          /\ Follows(State(c), s)
          /\ phone' = [phone EXCEPT ![a] = "main"]
          /\ Return(c, s)
    /\ fault' = "lost"
    /\ UNCHANGED <<pins, moves>>

LEMMA AnswersFollow ==
    ASSUME BaseInv, NEW c, NEW S, \A t \in S : Follows(State(c), t), Answers(c, S)
    PROVE  Answered(c)
BY DEF Answers, Answered, BaseInv, SessionTypeOK

LEMMA SignedUpKind ==
    ASSUME BaseInv, NEW c, NEW s, Follows(State(c), s), SignedUp(c, s)
    PROVE  Answered(c) \/ SignsUp(c) \/ SignsUpUnheard(c)
<1>1. CASE Return(c, s) /\ UNCHANGED <<phone, pins, moves, fault>>
    BY <1>1 DEF Answered, BaseInv, SessionTypeOK
<1>2. ASSUME OnPhone("main") = {}, NEW a \in OnPhone("unused"),
             phone' = [phone EXCEPT ![a] = "main"],
             Return(c, PersistSignupComplete(s, a)), UNCHANGED fault, UNCHANGED <<pins, moves>>
      PROVE  SignsUp(c)
    BY <1>2 DEF SignsUp
<1>3. ASSUME OnPhone("main") = {}, NEW a \in OnPhone("unused"),
             phone' = [phone EXCEPT ![a] = "main"],
             Return(c, s), fault' = "lost", UNCHANGED <<pins, moves>>
      PROVE  SignsUpUnheard(c)
    BY <1>3 DEF SignsUpUnheard
<1> QED
    BY <1>1, <1>2, <1>3, Zenon DEF SignedUp

LEMMA PinCreatedKind ==
    ASSUME BaseInv, NEW c, NEW s, Follows(State(c), s), PinCreated(c, s)
    PROVE  Answered(c)
<1>1. CASE Return(c, s) /\ UNCHANGED <<phone, pins, moves, fault>>
    BY <1>1 DEF Answered, BaseInv, SessionTypeOK
<1>2. CASE /\ HasToken(s)
           /\ pins' = pins \cup {s.active}
           /\ Return(c, PinSettled(s))
           /\ UNCHANGED <<phone, moves, fault>>
    <2>1. Shape(s)
        BY DEF Follows
    <2>2. Follows(State(c), PinSettled(s))
        BY <1>2, <2>1, PinSettledFollows, FollowsOn
    <2>3. s.active \in Accounts
        BY <1>2, <2>1, SessionFields DEF HasToken, Live, MaybeAccount
    <2> QED
        BY <1>2, <2>2, <2>3 DEF Answered, BaseInv, SessionTypeOK
<1>3. CASE /\ HasToken(s)
           /\ pins' = pins \cup {s.active}
           /\ Return(c, s)
           /\ UNCHANGED <<phone, moves, fault>>
    <2>1. s.active \in Accounts
        BY <1>3, SessionFields DEF Follows, HasToken, Live, MaybeAccount
    <2> QED
        BY <1>3, <2>1 DEF Answered, BaseInv, SessionTypeOK
<1> QED
    BY <1>1, <1>2, <1>3 DEF PinCreated

\* The session of a client after the codes it waits for may have expired.
LEMMA AfterExpiry ==
    ASSUME BaseInv, NEW c \in Clients
    PROVE  /\ Shape(State(c))
           /\ \A s \in ExpireLogin(State(c)) \cup ExpireSignup(State(c)) \cup Expire(State(c)) :
                  Shape(s) /\ Follows(State(c), s)
BY ExpireLoginFollows, ExpireSignupFollows, ExpireFollows DEF BaseInv, Follows

\* A call that does F to the session after that.
LEMMA AnswersUnion ==
    ASSUME BaseInv, NEW c \in Clients, NEW S, NEW T,
           S \subseteq ExpireLogin(State(c)) \cup ExpireSignup(State(c)) \cup Expire(State(c)),
           \A t \in T : \E s \in S : Follows(s, t),
           Answers(c, T)
    PROVE  Answered(c)
<1>1. \A t \in T : Follows(State(c), t)
    BY AfterExpiry, FollowsOn
<1> QED
    BY <1>1, AnswersFollow

LEMMA LoginStartKind ==
    ASSUME BaseInv, NEW c \in Clients, LoginStart(c)
    PROVE  Answered(c)
<1> DEFINE F(s) == LET begin == IF s.stage = "login_otp_pending" /\ s.login # None
                                THEN {s} ELSE StartLogin(s)
                   IN  IF s.stage \in {"ready", "consumed"}
                       THEN begin \cup CheckToken(s)
                       ELSE begin
           T == UNION {F(s) : s \in ExpireLogin(State(c))}
<1>1. \A s \in ExpireLogin(State(c)) : \A t \in F(s) : Follows(s, t)
    <2> SUFFICES ASSUME NEW s \in ExpireLogin(State(c)), NEW t \in F(s) PROVE Follows(s, t)
        OBVIOUS
    <2>1. t = s \/ t \in StartLogin(s) \/ t \in CheckToken(s)
        OBVIOUS
    <2> QED
        BY <2>1, AfterExpiry, FollowsSame, StartLoginFollows, CheckTokenFollows
<1>2. Answers(c, T)
    BY Zenon DEF LoginStart
<1> HIDE DEF F
<1>3. \A t \in T : \E s \in ExpireLogin(State(c)) : Follows(s, t)
    BY <1>1
<1> HIDE DEF T
<1> QED
    BY <1>2, <1>3, AnswersUnion, Zenon

LEMMA LoginCompleteKind ==
    ASSUME BaseInv, NEW c \in Clients, LoginComplete(c)
    PROVE  Answered(c)
<1> DEFINE T == UNION {LoggedIn(s) : s \in ExpireLogin(State(c))}
<1>1. \A t \in T : \E s \in ExpireLogin(State(c)) : Follows(s, t)
    BY AfterExpiry, LoggedInFollows
<1>2. Answers(c, T)
    BY DEF LoginComplete
<1> HIDE DEF T
<1> QED
    BY <1>1, <1>2, AnswersUnion, Zenon

LEMMA SignupStartKind ==
    ASSUME BaseInv, NEW c \in Clients, SignupStart(c)
    PROVE  Answered(c)
<1> DEFINE T == UNION {StartSignup(s) : s \in Expire(State(c))}
<1>1. \A t \in T : \E s \in Expire(State(c)) : Follows(s, t)
    BY AfterExpiry, StartSignupFollows
<1>2. Answers(c, T)
    BY DEF SignupStart
<1> HIDE DEF T
<1> QED
    BY <1>1, <1>2, AnswersUnion, Zenon

LEMMA CreatePinStartKind ==
    ASSUME BaseInv, NEW c \in Clients, CreatePinStart(c)
    PROVE  Answered(c)
<1> DEFINE T == UNION {StartSignupPin(s) : s \in ExpireSignup(State(c))}
<1>1. \A t \in T : \E s \in ExpireSignup(State(c)) : Follows(s, t)
    BY AfterExpiry, StartSignupPinFollows
<1>2. Answers(c, T)
    BY DEF CreatePinStart
<1> HIDE DEF T
<1> QED
    BY <1>1, <1>2, AnswersUnion, Zenon

LEMMA AuthStartKind ==
    ASSUME BaseInv, NEW c \in Clients, AuthStart(c)
    PROVE  Answered(c)
<1> DEFINE T == UNION {Authenticate(s) : s \in Expire(State(c))}
<1>1. \A t \in T : \E s \in Expire(State(c)) : Follows(s, t)
    BY AfterExpiry, AuthenticateFollows
<1>2. Answers(c, T)
    BY DEF AuthStart
<1> HIDE DEF T
<1> QED
    BY <1>1, <1>2, AnswersUnion, Zenon

LEMMA AuthCompleteKind ==
    ASSUME BaseInv, NEW c \in Clients, AuthComplete(c)
    PROVE  Answered(c) \/ SignsUp(c) \/ SignsUpUnheard(c)
<1>1. PICK s \in Expire(State(c)) :
          \/ Answers(c, CheckToken(s)) \/ Answers(c, LoggedIn(s)) \/ Answers(c, {s})
          \/ SignedUp(c, s) \/ PinCreated(c, s)
    BY Zenon DEF AuthComplete
<1>2. Shape(s) /\ Follows(State(c), s)
    BY AfterExpiry
<1>3. CASE Answers(c, CheckToken(s))
    <2>1. \A t \in CheckToken(s) : Follows(State(c), t)
        BY <1>2, CheckTokenFollows, FollowsOn
    <2> QED
        BY <1>3, <2>1, AnswersFollow
<1>4. CASE Answers(c, LoggedIn(s))
    <2>1. \A t \in LoggedIn(s) : Follows(State(c), t)
        BY <1>2, LoggedInFollows, FollowsOn
    <2> QED
        BY <1>4, <2>1, AnswersFollow
<1>5. CASE Answers(c, {s})
    BY <1>2, <1>5, AnswersFollow
<1>6. CASE SignedUp(c, s) \/ PinCreated(c, s)
    BY <1>2, <1>6, SignedUpKind, PinCreatedKind
<1> QED
    BY <1>1, <1>3, <1>4, <1>5, <1>6

LEMMA ChangePhoneStartKind ==
    ASSUME BaseInv, NEW c \in Clients, ChangePhoneStart(c)
    PROVE  Answered(c)
<1> DEFINE s == State(c)
<1>1. PICK p \in Temps :
          /\ s.uses[p] < MaxPhoneUses /\ HasToken(s)
          /\ Answers(c, {[s EXCEPT !.change = s.active, !.changeTo = p,
                                   !.stage = "change_phone_otp_pending"]})
    BY Zenon DEF ChangePhoneStart
<1> DEFINE t == [s EXCEPT !.change = s.active, !.changeTo = p,
                          !.stage = "change_phone_otp_pending"]
<1>2. Shape(s) /\ s.active # None /\ s.active \in MaybeAccount /\ p # None
    BY <1>1, AfterExpiry, SessionFields, GoPayAssumption DEF HasToken, Live
<1>3. /\ t \in Session
      /\ t.stage = "change_phone_otp_pending" /\ t.active = s.active /\ t.tmp = s.tmp
      /\ t.uses = s.uses /\ t.change = s.active /\ t.changeTo = p
    BY <1>2 DEF Shape, Session, Stages
<1> HIDE DEF s, t
<1>4. Follows(s, t)
    BY <1>1, <1>2, <1>3 DEF Follows, Shape, HasItsTokens
<1>5. Answers(c, {t})
    BY <1>1 DEF t
<1> QED
    BY <1>4, <1>5, AnswersFollow DEF s

LEMMA StageKinds ==
    ASSUME BaseInv, NEW c \in Clients, Unlink(c) \/ ChangePhoneRetry(c) \/ DeactivateStart(c)
    PROVE  Answered(c)
<1> DEFINE s == State(c)
<1>1. PICK stage \in {"consumed", "change_phone_otp_pending", "deactivate_otp_pending"} :
          /\ Answers(c, {[s EXCEPT !.stage = stage]})
          /\ stage = "consumed" => s.active # None
          /\ stage = "change_phone_otp_pending" => s.change # None
          /\ stage = "deactivate_otp_pending" => s.tmp # None
    BY DEF Unlink, ChangePhoneRetry, DeactivateStart, HasToken, Live
<1>2. Follows(s, [s EXCEPT !.stage = stage])
    BY <1>1, AfterExpiry, StageFollows DEF StageFits, Stages
<1> QED
    BY <1>1, <1>2, AnswersFollow

LEMMA CallKinds ==
    ASSUME BaseInv, NEW c \in Clients, Call(c)
    PROVE  \/ Answered(c) \/ SignsUp(c) \/ SignsUpUnheard(c)
           \/ ChangePhoneComplete(c) \/ DeactivateComplete(c)
<1>1. CASE SignupComplete(c)
    BY <1>1, AfterExpiry, SignedUpKind DEF SignupComplete
<1>2. CASE CreatePinRetry(c)
    BY <1>2, AfterExpiry, AnswersFollow DEF CreatePinRetry
<1>3. CASE CreatePinComplete(c)
    BY <1>3, AfterExpiry, PinCreatedKind DEF CreatePinComplete
<1>4. CASE CheckTokenValid(c)
    BY <1>4, AfterExpiry, CheckTokenFollows, AnswersFollow DEF CheckTokenValid
<1>5. CASE Status(c)
    BY <1>5, AfterExpiry, AnswersFollow DEF Status
<1> QED
    BY <1>1, <1>2, <1>3, <1>4, <1>5, LoginStartKind, LoginCompleteKind, SignupStartKind,
       CreatePinStartKind, AuthStartKind, AuthCompleteKind, ChangePhoneStartKind, StageKinds, Zenon
       DEF Call

-----------------------------------------------------------------------------
(* What a call does to its client and to the others.                        *)

Returned(c, t) ==
    /\ saved' = saved
    /\ client' \in [Clients -> Client]
    /\ \A d \in Clients \ {c} : client'[d] = client[d]
    /\ client'[c].state = t
    /\ client'[c].busy = client[c].busy /\ client'[c].stale = client[c].stale
    /\ client'[c].unsaved >= client[c].unsaved
    /\ t # State(c) => client'[c].unsaved > 0

LEMMA ReturnIs ==
    ASSUME BaseInv, NEW c \in Clients, NEW t \in Session, Return(c, t)
    PROVE  Returned(c, t)
<1> DEFINE n == IF t = State(c) THEN client[c].unsaved ELSE client[c].unsaved + 1
           new == [client[c] EXCEPT !.state = t, !.unsaved = n]
<1>1. client[c] \in Client /\ client \in [Clients -> Client]
    BY DEF BaseInv, SessionTypeOK
<1>2. n \in Nat /\ n >= client[c].unsaved /\ (t # State(c) => n > 0)
    BY <1>1 DEF Client
<1>3. client' = [client EXCEPT ![c] = new]
    BY <1>1 DEF Return, Client
<1> HIDE DEF n
<1>4. /\ new \in Client
      /\ new.state = t /\ new.busy = client[c].busy /\ new.stale = client[c].stale
      /\ new.unsaved = n
    BY <1>1, <1>2 DEF Client
<1> HIDE DEF new
<1>5. client' \in [Clients -> Client] /\ client'[c] = new
      /\ \A d \in Clients \ {c} : client'[d] = client[d]
    BY <1>1, <1>3, <1>4
<1> QED
    BY <1>2, <1>4, <1>5 DEF Return, Returned

\* How the phone of an account may change.
PhonesMove ==
    \A a \in Accounts :
        \/ phone'[a] = phone[a]
        \/ phone[a] = "unused" /\ phone'[a] = "main"
        \/ phone[a] = "main" /\ phone'[a] \in Temps
        \/ phone[a] \in Temps /\ phone'[a] = "gone"

LEMMA PlacedStays ==
    ASSUME PhonesMove, NEW s, Shape(s), Placed(s)
    PROVE  Placed(s)'
<1>1. s.tmp \in Accounts \cup {None} /\ s.active \in Accounts \cup {None}
    BY SessionFields DEF MaybeAccount
<1>2. s.tmp # None => phone'[s.tmp] \in Temps \cup {"gone"}
    BY <1>1, GoPayAssumption DEF PhonesMove, Placed
<1>3. s.active # None => phone'[s.active] # "unused"
    BY <1>1, GoPayAssumption DEF PhonesMove, Placed
<1>4. s.active # None /\ phone'[s.active] = "main" => phone[s.active] = "main"
    BY <1>1, GoPayAssumption DEF PhonesMove, Placed
<1> QED
    BY <1>2, <1>3, <1>4 DEF Placed

LEMMA ReturnBase ==
    ASSUME BaseInv, NEW c \in Clients, client[c].busy, NEW t, Returned(c, t),
           Shape(t), Placed(t)', PhonesMove, OneOnMain', SessionTypeOK',
           \A p \in Temps : t.uses[p] >= State(c).uses[p],
           \/ t.tmp = State(c).tmp
           \/ t.tmp = None
           \/ \A d \in Clients : State(d).tmp # t.tmp
    PROVE  BaseInv'
<1>1. /\ saved' = saved /\ State(c)' = t
      /\ \A d \in Clients \ {c} : client'[d] = client[d] /\ State(d)' = State(d)
    BY DEF Returned, State
<1>2. Shape(saved)' /\ Placed(saved)'
    <2>1. Placed(saved)'
        BY <1>1, PlacedStays DEF BaseInv, Placed
    <2> QED
        BY <1>1, <2>1 DEF BaseInv, Shape, HasItsTokens
<1>3. \A d \in Clients : Shape(State(d))' /\ Placed(State(d))'
    <2> SUFFICES ASSUME NEW d \in Clients PROVE Shape(State(d))' /\ Placed(State(d))'
        OBVIOUS
    <2>1. CASE d = c
        BY <1>1, <2>1 DEF Shape, HasItsTokens, Placed
    <2>2. CASE d # c
        <3>1. Placed(State(d))'
            BY <1>1, <2>2, PlacedStays DEF BaseInv, Placed
        <3> QED
            BY <1>1, <2>2, <3>1 DEF BaseInv, Shape, HasItsTokens
    <2> QED
        BY <2>1, <2>2
<1>4. Fresh(c)' = Fresh(c) /\ \A d \in Clients \ {c} : Fresh(d)' = Fresh(d)
    BY <1>1 DEF Fresh, Returned
<1>5. \A d \in Clients : ClientOK(d)'
    <2> SUFFICES ASSUME NEW d \in Clients PROVE ClientOK(d)'
        OBVIOUS
    <2>0. ClientOK(d)
        BY DEF BaseInv
    <2>1. CASE d = c
        <3>1. client'[c].busy
            BY DEF Returned
        <3>2. client'[c].unsaved = 0 => client[c].unsaved = 0 /\ t = State(c)
            BY DEF Returned, BaseInv, SessionTypeOK, Client
        <3>3. Fresh(c) => \A p \in Temps : t.uses[p] >= saved.uses[p]
            <4>1. \A p \in Temps :
                      t.uses[p] \in Nat /\ State(c).uses[p] \in Nat /\ saved.uses[p] \in Nat
                BY GoPayAssumption DEF BaseInv, Shape, Session
            <4> QED
                BY <2>0, <2>1, <4>1 DEF ClientOK
        <3> QED
            BY <1>1, <1>4, <2>0, <2>1, <3>1, <3>2, <3>3 DEF ClientOK
    <2>2. CASE d # c
        BY <1>1, <1>4, <2>0, <2>2 DEF ClientOK, Idle, Empty
    <2> QED
        BY <2>1, <2>2
<1>6. TmpOfRow'
    <2> SUFFICES ASSUME NEW d \in Clients, NEW e \in Clients, Fresh(d)', Fresh(e)', d # e,
                        State(d)'.tmp # None, State(d)'.tmp = State(e)'.tmp
                 PROVE  State(d)'.tmp = saved.tmp
        BY <1>1 DEF TmpOfRow
    <2>1. Fresh(d) /\ Fresh(e)
        BY <1>4
    <2>2. State(d).tmp = State(e).tmp /\ State(d)'.tmp = State(d).tmp
        BY <1>1
    <2> QED
        BY <2>1, <2>2 DEF BaseInv, TmpOfRow
<1> QED
    BY <1>2, <1>3, <1>5, <1>6 DEF BaseInv

\* What the session of the client loses of the accounts was lost for the provider.
LEMMA ReturnKept ==
    ASSUME KeptInv, NEW c \in Clients, NEW t, Returned(c, t),
           fault' = "none" => fault = "none",
           \A a \in Accounts : phone'[a] = "main" =>
               \/ phone[a] = "main" /\ (State(c).active = a => t.active = a)
               \/ phone[a] = "unused" /\ t.active = a,
           \A a \in Accounts : phone'[a] \in Temps /\ fault' = "none" =>
               \/ phone[a] \in Temps /\ (State(c).tmp = a => t.tmp = a)
               \/ phone[a] = "main" /\ t.tmp = a
    PROVE  MainKept' /\ TmpKept'
<1>1. /\ saved' = saved /\ State(c)' = t
      /\ \A d \in Clients \ {c} : client'[d] = client[d] /\ State(d)' = State(d)
    BY DEF Returned, State
<1>2. Fresh(c)' = Fresh(c) /\ \A d \in Clients \ {c} : Fresh(d)' = Fresh(d)
    BY <1>1 DEF Fresh, Returned
<1>3. \A d \in Clients : Unsaved(d) => Unsaved(d)'
    BY <1>1 DEF Unsaved, Returned, KeptInv, BaseInv, SessionTypeOK, Client
<1>4. t # State(c) => Unsaved(c)'
    BY DEF Unsaved, Returned
<1>5. /\ \A a \in Accounts : phone[a] = "unused" => saved.active # a /\ State(c).active # a
      /\ \A a \in Accounts : phone[a] = "main" => saved.tmp # a /\ State(c).tmp # a
    BY GoPayAssumption DEF KeptInv, BaseInv, Placed
<1>6. MainKept'
    <2> SUFFICES ASSUME NEW a \in Accounts, phone'[a] = "main"
                 PROVE  /\ saved.active = a => \A d \in Clients : Fresh(d)' => State(d)'.active = a
                        /\ fault' = "none" =>
                              \/ saved.active = a
                              \/ \E d \in Clients : Unsaved(d)' /\ State(d)'.active = a
        BY <1>1 DEF MainKept
    <2>1. CASE phone[a] = "main" /\ (State(c).active = a => t.active = a)
        BY <1>1, <1>2, <1>3, <2>1 DEF KeptInv, MainKept
    <2>2. CASE phone[a] = "unused" /\ t.active = a
        BY <1>1, <1>4, <1>5, <2>2
    <2> QED
        BY <2>1, <2>2
<1>7. TmpKept'
    <2> SUFFICES ASSUME NEW a \in Accounts, phone'[a] \in Temps, fault' = "none"
                 PROVE  /\ saved.tmp = a => \A d \in Clients : Fresh(d)' => State(d)'.tmp = a
                        /\ \/ saved.tmp = a
                           \/ \E d \in Clients : Unsaved(d)' /\ State(d)'.tmp = a
        BY <1>1 DEF TmpKept
    <2>1. CASE phone[a] \in Temps /\ (State(c).tmp = a => t.tmp = a)
        BY <1>1, <1>2, <1>3, <2>1 DEF KeptInv, TmpKept
    <2>2. CASE phone[a] = "main" /\ t.tmp = a
        BY <1>1, <1>4, <1>5, <2>2
    <2> QED
        BY <2>1, <2>2
<1> QED
    BY <1>6, <1>7

\* What sessions know is so after the call, or the client shows that it is not.
LEMMA ReturnKnown ==
    ASSUME KnownInv, NEW c \in Clients, NEW t, Returned(c, t),
           fault' # "lost" => fault # "lost",
           PhonesMove,
           \A p \in Temps : t.uses[p] >= State(c).uses[p],
           \A p \in Temps : t.uses[p] \in Nat,
           \/ t.tmp \in {State(c).tmp, None}
           \/ phone[t.tmp] = "main",
           Right(State(c)) => Right(t)',
           \/ Doomed' \/ Differs(c)'
           \/ /\ Right(saved) => Right(saved)'
              /\ \A d \in Clients \ {c} :
                    Fresh(d) /\ Right(State(d)) => Right(State(d))'
    PROVE  Known'
<1> SUFFICES ASSUME fault' # "lost", ~Doomed'
             PROVE  /\ Right(saved)' \/ \E d \in Clients : Differs(d)'
                    /\ \A d \in Clients : Fresh(d)' =>
                          Right(State(d))' \/ \E e \in Clients \ {d} : Differs(e)'
    BY DEF Known
<1>1. /\ saved' = saved /\ State(c)' = t
      /\ \A d \in Clients \ {c} : client'[d] = client[d] /\ State(d)' = State(d)
    BY DEF Returned, State
<1>2. /\ Fresh(c)' = Fresh(c)
      /\ \A d \in Clients \ {c} : Fresh(d)' = Fresh(d) /\ Unsaved(d)' = Unsaved(d)
    BY <1>1 DEF Fresh, Unsaved, Returned
<1>3. \A d \in Clients : Unsaved(d) => Unsaved(d)'
    BY <1>1 DEF Unsaved, Returned, KnownInv, BaseInv, SessionTypeOK, Client
<1>4. ~Doomed
    BY <1>1, <1>3 DEF Doomed, Returned
<1>5. saved.tmp # None /\ phone[saved.tmp] = "gone" => phone'[saved.tmp] = "gone"
    BY SessionFields, GoPayAssumption DEF PhonesMove, KnownInv, BaseInv, MaybeAccount
<1>6. \A d \in Clients : Differs(d) => Differs(d)'
    <2> SUFFICES ASSUME NEW d \in Clients, Differs(d) PROVE Differs(d)'
        OBVIOUS
    <2>1. CASE d # c
        BY <1>1, <1>2, <1>3, <1>5, <2>1 DEF Differs
    <2>2. CASE d = c
        <3>1. Fresh(c)' /\ Unsaved(c)'
            BY <1>2, <1>3, <2>2 DEF Differs
        <3>2. CASE \E p \in Temps : State(c).uses[p] > saved.uses[p]
            <4>1. PICK p \in Temps : State(c).uses[p] > saved.uses[p]
                BY <3>2
            <4>2. State(c).uses[p] \in Nat /\ saved.uses[p] \in Nat
                BY GoPayAssumption DEF KnownInv, BaseInv, Shape, Session
            <4>3. t.uses[p] > saved.uses[p]
                BY <4>1, <4>2
            <4> QED
                BY <1>1, <2>2, <3>1, <4>3 DEF Differs
        <3>3. CASE saved.tmp # None /\ phone[saved.tmp] = "gone" /\ State(c).tmp # saved.tmp
            <4>1. t.tmp # saved.tmp
                BY <3>3
            <4> QED
                BY <1>1, <1>5, <2>2, <3>1, <3>3, <4>1 DEF Differs
        <3> QED
            BY <2>2, <3>2, <3>3 DEF Differs
    <2> QED
        BY <2>1, <2>2
<1>7. Right(saved)' \/ \E d \in Clients : Differs(d)'
    BY <1>4, <1>6 DEF KnownInv, Known
<1>8. ASSUME NEW d \in Clients, Fresh(d)'
      PROVE  Right(State(d))' \/ \E e \in Clients \ {d} : Differs(e)'
    <2>0. Fresh(d)
        BY <1>2, <1>8
    <2>1. Right(State(d)) \/ \E e \in Clients \ {d} : Differs(e)
        BY <1>4, <2>0 DEF KnownInv, Known
    <2>2. CASE d = c
        BY <1>1, <1>6, <2>1, <2>2 DEF Right
    <2>3. CASE d # c
        BY <1>6, <2>0, <2>1, <2>3
    <2> QED
        BY <2>2, <2>3
<1> QED
    BY <1>7, <1>8

-----------------------------------------------------------------------------
(* The calls.                                                               *)

\* Such a session knows no more of the phones than the one it follows.
LEMMA FollowsPlaced ==
    ASSUME BaseInv, NEW c \in Clients, NEW t, Follows(State(c), t)
    PROVE  /\ Placed(t)
           /\ \A a \in Accounts : phone[a] = "main" /\ State(c).active = a => t.active = a
<1>1. Shape(t) /\ Shape(State(c)) /\ Placed(State(c)) /\ OneOnMain /\ t.tmp = State(c).tmp
    BY DEF Follows, Shape, BaseInv
<1>2. \A a \in Accounts : phone[a] = "main" /\ State(c).active = a => t.active = a
    <2> SUFFICES ASSUME NEW a \in Accounts, phone[a] = "main", State(c).active = a
                 PROVE  t.active = a
        OBVIOUS
    <2>1. t.active \in MaybeAccount /\ a # None
        BY <1>1, SessionFields, GoPayAssumption
    <2> QED
        BY <1>1, <2>1 DEF Follows, OneOnMain, MaybeAccount, Placed
<1>3. t.stage = "login_otp_pending" => t.login \in Accounts
    BY <1>1, SessionFields DEF Shape, HasItsTokens, MaybeAccount
<1>4. t.active # None => phone[t.active] # "unused"
    BY <1>1 DEF Follows, Placed, Live
<1>5. ASSUME t.stage = "login_otp_pending", t.active # None, phone[t.active] = "main"
      PROVE  t.login = t.active
    <2>1. t.active \in Accounts
        BY <1>1, <1>5, SessionFields DEF MaybeAccount
    <2> QED
        BY <1>1, <1>3, <1>5, <2>1 DEF Follows, OneOnMain, Placed
<1>6. t.tmp # None => phone[t.tmp] \in Temps \cup {"gone"}
    BY <1>1 DEF Placed
<1> QED
    BY <1>2, <1>4, <1>5, <1>6 DEF Placed

LEMMA AnsweredStep ==
    ASSUME BaseInv, NEW c \in Clients, client[c].busy, Answered(c)
    PROVE  BaseInv' /\ (KeptInv => KeptInv') /\ (KnownInv => KnownInv')
<1>1. PICK t : Follows(State(c), t) /\ Return(c, t)
    BY DEF Answered
<1>2. UNCHANGED <<phone, moves, fault>> /\ pins' \subseteq Accounts
    BY DEF Answered
<1>3. Shape(t) /\ t \in Session /\ Shape(State(c)) /\ Placed(State(c)) /\ OneOnMain
    BY <1>1 DEF Follows, Shape, BaseInv
<1>4. Returned(c, t)
    BY <1>1, <1>3, ReturnIs
<1>5. t.tmp = State(c).tmp /\ t.uses = State(c).uses
    BY <1>1 DEF Follows
<1>6. /\ Placed(t)
      /\ \A a \in Accounts : phone[a] = "main" /\ State(c).active = a => t.active = a
    BY <1>1, FollowsPlaced
<1>7. \A s : Right(s)' = Right(s)
    BY <1>2 DEF Right
<1>8. Right(State(c)) => Right(t)
    BY <1>1, <1>5 DEF Follows, Right
<1>9. \A p \in Temps : t.uses[p] >= State(c).uses[p] /\ t.uses[p] \in Nat
    BY <1>3, <1>5, GoPayAssumption DEF Shape, Session
<1>10. PhonesMove /\ OneOnMain' /\ Placed(t)'
    BY <1>2, <1>3, <1>6 DEF PhonesMove, OneOnMain, Placed
<1>11. SessionTypeOK'
    BY <1>2, <1>4 DEF SessionTypeOK, BaseInv, Returned
<1>12. BaseInv'
    BY <1>3, <1>4, <1>5, <1>9, <1>10, <1>11, ReturnBase
<1>13. KeptInv => KeptInv'
    BY <1>2, <1>4, <1>5, <1>6, <1>12, ReturnKept DEF KeptInv
<1>14. KnownInv => KnownInv'
    <2> SUFFICES ASSUME KnownInv PROVE Known'
        BY <1>12 DEF KnownInv
    <2>1. Right(saved) => Right(saved)'
        BY <1>4, <1>2 DEF Right, Returned
    <2>2. \A d \in Clients \ {c} : Right(State(d)) => Right(State(d))'
        BY <1>4, <1>2 DEF Right, Returned, State
    <2>3. Right(State(c)) => Right(t)'
        BY <1>2, <1>8 DEF Right
    <2> QED
        BY <1>2, <1>4, <1>5, <1>9, <1>10, <2>1, <2>2, <2>3, ReturnKnown
<1> QED
    BY <1>12, <1>13, <1>14

\* A change at the provider its client does not hear of.
LEMMA UnheardStep ==
    ASSUME BaseInv, NEW c \in Clients, client[c].busy, NEW t,
           Follows(State(c), t), Return(c, t),
           phone' \in [Accounts -> Temps \cup {"unused", "main", "gone"}],
           PhonesMove, OneOnMain', fault' = "lost", UNCHANGED <<pins, moves>>
    PROVE  BaseInv' /\ (KeptInv => KeptInv') /\ (KnownInv => KnownInv')
<1>1. Shape(t) /\ t \in Session /\ Shape(saved) /\ Placed(saved)
    BY DEF Follows, Shape, BaseInv
<1>2. Returned(c, t)
    BY <1>1, ReturnIs
<1>3. t.tmp = State(c).tmp /\ t.uses = State(c).uses
    BY DEF Follows
<1>4. /\ Placed(t)'
      /\ \A a \in Accounts : phone[a] = "main" /\ State(c).active = a => t.active = a
    <2>1. /\ Placed(t)
          /\ \A a \in Accounts : phone[a] = "main" /\ State(c).active = a => t.active = a
        BY FollowsPlaced
    <2> QED
        BY <1>1, <2>1, PlacedStays
<1>5. \A p \in Temps : t.uses[p] >= State(c).uses[p]
    BY <1>1, <1>3, GoPayAssumption DEF Session
<1>6. SessionTypeOK'
    BY <1>2 DEF SessionTypeOK, BaseInv, Returned, Fault
<1>7. BaseInv'
    BY <1>1, <1>2, <1>3, <1>4, <1>5, <1>6, ReturnBase
<1>8. KeptInv => KeptInv'
    <2> SUFFICES ASSUME KeptInv PROVE MainKept' /\ TmpKept'
        BY <1>7 DEF KeptInv
    <2>1. /\ saved' = saved /\ State(c)' = t
          /\ \A d \in Clients \ {c} : client'[d] = client[d] /\ State(d)' = State(d)
        BY <1>2 DEF Returned, State
    <2>2. Fresh(c)' = Fresh(c) /\ \A d \in Clients \ {c} : Fresh(d)' = Fresh(d)
        BY <1>2, <2>1 DEF Fresh, Returned
    <2>3. ASSUME NEW a \in Accounts, phone'[a] = "main", saved.active = a
          PROVE  \A d \in Clients : Fresh(d)' => State(d)'.active = a
        <3>1. phone[a] = "main"
            BY <1>1, <2>3, GoPayAssumption DEF Placed, PhonesMove
        <3> QED
            BY <1>4, <2>1, <2>2, <2>3, <3>1 DEF KeptInv, MainKept
    <2>4. MainKept'
        BY <2>1, <2>3 DEF MainKept
    <2>5. TmpKept'
        BY DEF TmpKept
    <2> QED
        BY <2>4, <2>5
<1>9. KnownInv => KnownInv'
    BY <1>7 DEF KnownInv, Known
<1> QED
    BY <1>7, <1>8, <1>9

LEMMA SignsUpUnheardStep ==
    ASSUME BaseInv, NEW c \in Clients, client[c].busy, SignsUpUnheard(c)
    PROVE  BaseInv' /\ (KeptInv => KeptInv') /\ (KnownInv => KnownInv')
<1>1. PICK s : \E a \in OnPhone("unused") :
          /\ Follows(State(c), s)
          /\ phone' = [phone EXCEPT ![a] = "main"]
          /\ Return(c, s)
    BY DEF SignsUpUnheard
<1>2. PICK a \in OnPhone("unused") :
          /\ Follows(State(c), s)
          /\ phone' = [phone EXCEPT ![a] = "main"]
          /\ Return(c, s)
    BY <1>1
<1>3. OnPhone("main") = {} /\ fault' = "lost" /\ UNCHANGED <<pins, moves>>
    BY DEF SignsUpUnheard
<1>4. a \in Accounts /\ phone[a] = "unused"
    BY DEF OnPhone
<1>5. /\ phone'[a] = "main" /\ \A b \in Accounts \ {a} : phone'[b] = phone[b] /\ phone[b] # "main"
      /\ phone' \in [Accounts -> Temps \cup {"unused", "main", "gone"}]
    BY <1>2, <1>3, <1>4 DEF BaseInv, SessionTypeOK, OnPhone
<1>6. PhonesMove /\ OneOnMain'
    BY <1>4, <1>5 DEF PhonesMove, OneOnMain
<1> QED
    BY <1>2, <1>3, <1>5, <1>6, UnheardStep

LEMMA SignsUpStep ==
    ASSUME BaseInv, NEW c \in Clients, client[c].busy, SignsUp(c)
    PROVE  BaseInv' /\ (KeptInv => KeptInv') /\ (KnownInv => KnownInv')
<1>1. PICK s : \E a \in OnPhone("unused") :
          /\ Follows(State(c), s)
          /\ phone' = [phone EXCEPT ![a] = "main"]
          /\ Return(c, PersistSignupComplete(s, a))
    BY DEF SignsUp
<1>2. PICK a \in OnPhone("unused") :
          /\ Follows(State(c), s)
          /\ phone' = [phone EXCEPT ![a] = "main"]
          /\ Return(c, PersistSignupComplete(s, a))
    BY <1>1
<1> DEFINE t == PersistSignupComplete(s, a)
<1>3. OnPhone("main") = {} /\ UNCHANGED <<pins, moves, fault>>
    BY DEF SignsUp
<1>4. a \in Accounts /\ a # None /\ a \in MaybeAccount /\ phone[a] = "unused"
    BY GoPayAssumption DEF OnPhone, MaybeAccount
<1>5. /\ phone'[a] = "main" /\ \A b \in Accounts \ {a} : phone'[b] = phone[b] /\ phone[b] # "main"
      /\ phone' \in [Accounts -> Temps \cup {"unused", "main", "gone"}]
    BY <1>2, <1>3, <1>4 DEF BaseInv, SessionTypeOK, OnPhone
<1>6. /\ Shape(t) /\ t.active = a /\ t.tmp = State(c).tmp /\ t.uses = State(c).uses
      /\ t.stage = "signup_pin_required"
    <2>1. Shape(s) /\ s.tmp = State(c).tmp /\ s.uses = State(c).uses
        BY <1>2 DEF Follows
    <2>2. t = With(s, "signup_pin_required", a, s.login, FALSE, s.pin)
        BY <2>1 DEF PersistSignupComplete, With, Shape, Session
    <2>3. StageFits(s, "signup_pin_required", a, s.login, FALSE, s.pin)
        BY <1>4 DEF StageFits
    <2> HIDE DEF t
    <2>4. /\ "signup_pin_required" \in Stages
          /\ s.login \in MaybeAccount /\ s.pin \in MaybeAccount /\ FALSE \in BOOLEAN
        BY <2>1, SessionFields DEF Stages
    <2>5. Is(t, s, "signup_pin_required", a, s.login)
        BY <1>4, <2>1, <2>2, <2>3, <2>4, WithShape
    <2> QED
        BY <2>1, <2>5 DEF Is
<1> HIDE DEF t
<1>7. t \in Session /\ Shape(State(c)) /\ Placed(State(c))
    BY <1>6 DEF Shape, BaseInv
<1>8. Returned(c, t)
    BY <1>2, <1>7, ReturnIs DEF t
<1>9. PhonesMove
    BY <1>4, <1>5 DEF PhonesMove
<1>10. OneOnMain'
    BY <1>5 DEF OneOnMain
<1>11. Placed(t)'
    <2>2. t.tmp # None => phone'[t.tmp] \in Temps \cup {"gone"}
        BY <1>6, <1>7, <1>5, <1>4, SessionFields, GoPayAssumption DEF Placed, MaybeAccount
    <2> QED
        BY <1>5, <1>6, <2>2 DEF Placed
<1>12. \A p \in Temps : t.uses[p] >= State(c).uses[p] /\ t.uses[p] \in Nat
    BY <1>6, <1>7, GoPayAssumption DEF Shape, Session
<1>13. SessionTypeOK'
    BY <1>3, <1>5, <1>8 DEF SessionTypeOK, BaseInv, Returned
<1>14. BaseInv'
    BY <1>6, <1>8, <1>9, <1>10, <1>11, <1>12, <1>13, ReturnBase
<1>15. KeptInv => KeptInv'
    <2>1. \A b \in Accounts : phone'[b] = "main" => phone[b] = "unused" /\ t.active = b
        BY <1>4, <1>5, <1>6
    <2>2. \A b \in Accounts : phone'[b] \in Temps => phone[b] \in Temps
        BY <1>4, <1>5, GoPayAssumption
    <2>3. fault' = fault
        BY <1>3
    <2> QED
        BY <1>6, <1>8, <1>14, <2>1, <2>2, <2>3, ReturnKept DEF KeptInv
<1>16. KnownInv => KnownInv'
    <2> SUFFICES ASSUME KnownInv PROVE Known'
        BY <1>14 DEF KnownInv
    <2>1. ASSUME NEW r, Shape(r), Right(r) PROVE Right(r)' /\ r.active = None
        <3>1. r.active = None /\ r.stage # "login_otp_pending"
            BY <1>3, <2>1, SessionFields DEF Right, OnPhone, MaybeAccount, StageFits
        <3>2. r.tmp # None => r.tmp \in Accounts \ {a} /\ phone'[r.tmp] = phone[r.tmp]
            BY <1>4, <1>5, <2>1, SessionFields, GoPayAssumption DEF Right, MaybeAccount
        <3> QED
            BY <1>3, <2>1, <3>1, <3>2 DEF Right
    <2>2. Right(saved) => Right(saved)'
        <3>1. Shape(saved) /\ saved' = saved
            BY <1>8 DEF BaseInv, Returned
        <3> QED
            BY <2>1, <3>1 DEF Right
    <2>3. \A d \in Clients \ {c} : Right(State(d)) => Right(State(d))'
        <3>1. \A d \in Clients \ {c} : Shape(State(d)) /\ State(d)' = State(d)
            BY <1>8 DEF BaseInv, Returned, State
        <3> QED
            BY <2>1, <3>1 DEF Right
    <2>4. Right(State(c)) => Right(t)'
        <3> SUFFICES ASSUME Right(State(c)) PROVE Right(t)'
            OBVIOUS
        <3>1. /\ State(c).tmp # None => phone'[State(c).tmp] \in Temps
              /\ \A p \in Temps : State(c).uses[p] = moves[p]
            BY <1>4, <1>5, <1>7, SessionFields, GoPayAssumption DEF Right, MaybeAccount
        <3> QED
            BY <1>3, <1>5, <1>6, <3>1 DEF Right
    <2>5. fault' = fault
        BY <1>3
    <2> QED
        BY <1>6, <1>8, <1>9, <1>12, <2>2, <2>3, <2>4, <2>5, ReturnKnown
<1> QED
    BY <1>14, <1>15, <1>16

\* The facts about a change of phone, whether its session learns of it or not.
LEMMA ChangePhoneFacts ==
    ASSUME BaseInv, NEW c \in Clients, ChangePhoneComplete(c)
    PROVE  LET s == State(c)
               a == s.active
               p == s.changeTo
           IN  /\ a \in Accounts /\ p \in Temps /\ phone[a] = "main"
               /\ phone'[a] = p /\ \A b \in Accounts \ {a} : phone'[b] = phone[b] /\ phone[b] # "main"
               /\ phone' \in [Accounts -> Temps \cup {"unused", "main", "gone"}]
               /\ moves' \in [Temps -> Nat] /\ moves'[p] = moves[p] + 1
               /\ \A q \in Temps \ {p} : moves'[q] = moves[q]
               /\ pins' = pins /\ fault' \in Fault
               /\ PhonesMove /\ OneOnMain'
<1> DEFINE s == State(c)
           a == s.active
           p == s.changeTo
<1>1. s.change # None /\ s.change = s.active /\ phone[a] = "main" /\ pins' = pins
      /\ phone' = [phone EXCEPT ![a] = p] /\ moves' = [moves EXCEPT ![p] = @ + 1]
    BY DEF ChangePhoneComplete
<1>2. Shape(s)
    BY DEF BaseInv
<1>3. a \in Accounts /\ p \in Temps
    BY <1>1, <1>2 DEF Shape, HasItsTokens, Session, MaybeAccount
<1>4. fault' \in Fault
    BY DEF ChangePhoneComplete, Fault, BaseInv, SessionTypeOK
<1> HIDE DEF a, p, s
<1>5. /\ phone'[a] = p /\ \A b \in Accounts \ {a} : phone'[b] = phone[b] /\ phone[b] # "main"
      /\ phone' \in [Accounts -> Temps \cup {"unused", "main", "gone"}]
    BY <1>1, <1>3 DEF BaseInv, SessionTypeOK, OneOnMain
<1>6. moves' \in [Temps -> Nat] /\ moves'[p] = moves[p] + 1
      /\ \A q \in Temps \ {p} : moves'[q] = moves[q]
    BY <1>1, <1>3 DEF BaseInv, SessionTypeOK
<1>7. PhonesMove /\ OneOnMain'
    BY <1>1, <1>3, <1>5, GoPayAssumption DEF PhonesMove, OneOnMain
<1> QED
    BY <1>1, <1>3, <1>4, <1>5, <1>6, <1>7 DEF a, p, s

\* The session that learns of it.
Changed(s) ==
    [MigrateActiveTokens(s) EXCEPT !.uses[s.changeTo] = @ + 1, !.change = None,
                                   !.changeTo = None, !.stage = "phone_changed"]

LEMMA ChangedShape ==
    ASSUME NEW s, Shape(s), s.active # None, s.changeTo \in Temps
    PROVE  LET t == Changed(s)
           IN  /\ Shape(t) /\ t.active = None /\ t.tmp = s.active /\ t.stage = "phone_changed"
               /\ t.uses[s.changeTo] = s.uses[s.changeTo] + 1
               /\ \A q \in Temps \ {s.changeTo} : t.uses[q] = s.uses[q]
<1> DEFINE p == s.changeTo
           uses == [s.uses EXCEPT ![p] = @ + 1]
           t == Changed(s)
<1>1. s.uses \in [Temps -> 0..MaxPhoneUses] /\ s.uses[p] < MaxPhoneUses /\ p # None
    BY GoPayAssumption DEF Shape, Session
<1>2. uses \in [Temps -> 0..MaxPhoneUses] /\ uses[p] = s.uses[p] + 1
      /\ \A q \in Temps \ {p} : uses[q] = s.uses[q]
    BY <1>1, GoPayAssumption
<1>3. t = [s EXCEPT !.tmp = s.active, !.active = None, !.uses = uses, !.change = None,
                    !.changeTo = None, !.stage = "phone_changed"]
    BY DEF Changed, MigrateActiveTokens, Shape, Session
<1> HIDE DEF uses, t, p
<1>4. /\ t \in Session
      /\ t.tmp = s.active /\ t.active = None /\ t.uses = uses /\ t.change = None
      /\ t.changeTo = None /\ t.stage = "phone_changed"
    BY <1>2, <1>3 DEF Shape, Session, Stages, MaybeAccount
<1>5. Shape(t)
    BY <1>4 DEF Shape, HasItsTokens
<1> QED
    BY <1>2, <1>4, <1>5 DEF t, p

LEMMA ChangePhoneStep ==
    ASSUME BaseInv, NEW c \in Clients, client[c].busy, ChangePhoneComplete(c)
    PROVE  BaseInv' /\ (KeptInv => KeptInv') /\ (KnownInv => KnownInv')
<1>1. PICK s, a, p : s = State(c) /\ a = s.active /\ p = s.changeTo
    OBVIOUS
<1>2. /\ a \in Accounts /\ p \in Temps /\ phone[a] = "main"
      /\ phone'[a] = p /\ \A b \in Accounts \ {a} : phone'[b] = phone[b] /\ phone[b] # "main"
      /\ phone' \in [Accounts -> Temps \cup {"unused", "main", "gone"}]
      /\ moves' \in [Temps -> Nat] /\ moves'[p] = moves[p] + 1
      /\ \A q \in Temps \ {p} : moves'[q] = moves[q]
      /\ pins' = pins /\ fault' \in Fault
      /\ PhonesMove /\ OneOnMain'
    BY <1>1, ChangePhoneFacts
<1>3. Shape(s) /\ Placed(s) /\ s.active # None
    BY <1>1, <1>2, GoPayAssumption DEF BaseInv
<1>4. PICK t : /\ Return(c, t)
               /\ \/ t = s /\ fault' = "lost"
                  \/ /\ t = Changed(s)
                     /\ fault' = IF fault = "none" /\ Live(s.tmp) THEN "overwritten" ELSE fault
    BY <1>1 DEF ChangePhoneComplete, Changed
<1>5. t = Changed(s) =>
          /\ Shape(t) /\ t.active = None /\ t.tmp = a /\ t.stage = "phone_changed"
          /\ t.uses[p] = s.uses[p] + 1 /\ \A q \in Temps \ {p} : t.uses[q] = s.uses[q]
    BY <1>1, <1>2, <1>3, ChangedShape
<1>6. Shape(t) /\ t \in Session
    BY <1>3, <1>4, <1>5 DEF Shape
<1>7. Returned(c, t)
    BY <1>4, <1>6, ReturnIs
<1>8. \A q \in Temps : t.uses[q] >= s.uses[q] /\ t.uses[q] \in Nat /\ s.uses[q] \in Nat
    BY <1>3, <1>4, <1>5, <1>6, GoPayAssumption DEF Shape, Session
<1>9. Placed(t)'
    <2>1. CASE t = s
        BY <1>2, <1>3, <2>1, PlacedStays
    <2>2. CASE t = Changed(s)
        BY <1>2, <1>5, <2>2 DEF Placed
    <2> QED
        BY <1>4, <2>1, <2>2
<1>10. \/ t.tmp = State(c).tmp
       \/ t.tmp = a /\ \A d \in Clients : State(d).tmp # a
    <2>1. \A d \in Clients : State(d).tmp # a
        BY <1>2, GoPayAssumption DEF BaseInv, Placed
    <2> QED
        BY <1>1, <1>4, <1>5, <2>1
<1>11. SessionTypeOK'
    BY <1>2, <1>7 DEF SessionTypeOK, BaseInv, Returned
<1>12. BaseInv'
    BY <1>1, <1>2, <1>6, <1>7, <1>8, <1>9, <1>10, <1>11, ReturnBase
<1>13. KeptInv => KeptInv'
    <2>1. \A b \in Accounts : phone'[b] # "main"
        BY <1>2, GoPayAssumption
    <2>2. fault' = "none" => fault = "none" /\ ~Live(s.tmp) /\ t = Changed(s)
        BY <1>4
    <2>3. ASSUME NEW b \in Accounts, phone'[b] \in Temps, fault' = "none"
          PROVE  \/ phone[b] \in Temps /\ (State(c).tmp = b => t.tmp = b)
                 \/ phone[b] = "main" /\ t.tmp = b
        <3>1. CASE b = a
            BY <1>2, <1>5, <2>2, <2>3, <3>1
        <3>2. CASE b # a
            <4>1. phone[b] \in Temps /\ Live(b)
                BY <1>2, <2>3, <3>2, GoPayAssumption DEF Live
            <4> QED
                BY <1>1, <2>2, <2>3, <4>1
        <3> QED
            BY <3>1, <3>2
    <2> QED
        BY <1>7, <1>12, <2>1, <2>2, <2>3, ReturnKept DEF KeptInv
<1>14. KnownInv => KnownInv'
    <2> SUFFICES ASSUME KnownInv, fault' # "lost" PROVE Known'
        BY <1>12 DEF KnownInv, Known
    <2>1. t = Changed(s) /\ fault # "lost"
        BY <1>4
    <2>2. t # s
        <3>1. t.active = None
            BY <1>5, <2>1
        <3> QED
            BY <1>3, <3>1
    <2>3. Unsaved(c)' /\ client'[c].busy /\ client'[c].stale = client[c].stale
        BY <1>1, <1>7, <2>2 DEF Returned, Unsaved
    <2>4. Doomed' \/ Differs(c)'
        <3>1. CASE client[c].stale
            BY <2>3, <3>1 DEF Doomed
        <3>2. CASE ~client[c].stale
            <4>1. Fresh(c) /\ Fresh(c)'
                BY <2>3, <3>2 DEF Fresh
            <4>2. s.uses[p] >= saved.uses[p]
                BY <1>1, <1>2, <4>1 DEF BaseInv, ClientOK
            <4>3. saved.uses[p] \in Nat /\ s.uses[p] \in Nat
                BY <1>2, <1>8, GoPayAssumption DEF BaseInv, Shape, Session
            <4>4. t.uses[p] > saved.uses[p]
                BY <1>5, <2>1, <4>2, <4>3
            <4>5. State(c)' = t /\ saved' = saved
                BY <1>7 DEF Returned, State
            <4> QED
                BY <1>2, <2>3, <4>1, <4>4, <4>5 DEF Differs
        <3> QED
            BY <3>1, <3>2
    <2>5. Right(State(c)) => Right(t)'
        <3> SUFFICES ASSUME Right(s) PROVE Right(t)'
            BY <1>1
        <3>1. \A q \in Temps : t.uses[q] = moves'[q]
            <4>1. \A q \in Temps : s.uses[q] = moves[q]
                BY DEF Right
            <4> QED
                BY <1>2, <1>5, <2>1, <4>1
        <3>2. t.active = None /\ t.stage # "login_otp_pending" /\ phone'[t.tmp] \in Temps
            BY <1>2, <1>5, <2>1
        <3> QED
            BY <3>1, <3>2 DEF Right
    <2>6. phone[t.tmp] = "main"
        BY <1>2, <1>5, <2>1
    <2> QED
        BY <1>1, <1>2, <1>7, <1>8, <2>1, <2>4, <2>5, <2>6, ReturnKnown
<1> QED
    BY <1>12, <1>13, <1>14

LEMMA DeactivateHeard ==
    ASSUME BaseInv, NEW c \in Clients, client[c].busy, DeactivateComplete(c),
           NEW s, NEW t, s = State(c),
           t = [s EXCEPT !.tmp = None, !.deactivated = TRUE, !.stage = "deactivated"],
           Return(c, t), UNCHANGED fault
    PROVE  BaseInv' /\ (KeptInv => KeptInv') /\ (KnownInv => KnownInv')
<1>1. PICK a : a = s.tmp
    OBVIOUS
<1>2. /\ Live(a) /\ phone' = [phone EXCEPT ![a] = "gone"] /\ Return(c, t)
      /\ UNCHANGED <<pins, moves, fault>>
    BY <1>1 DEF DeactivateComplete
<1>3. Shape(s) /\ Placed(s)
    BY <1>1 DEF BaseInv
<1>4. a \in Accounts /\ a # None /\ phone[a] \in Temps
    BY <1>1, <1>2, <1>3, SessionFields DEF Live, Placed, MaybeAccount
<1>5. /\ phone'[a] = "gone" /\ \A b \in Accounts \ {a} : phone'[b] = phone[b]
      /\ phone' \in [Accounts -> Temps \cup {"unused", "main", "gone"}]
    BY <1>2, <1>4 DEF BaseInv, SessionTypeOK
<1>6. /\ t \in Session
      /\ t.tmp = None /\ t.stage = "deactivated" /\ t.active = s.active /\ t.uses = s.uses
      /\ t.change = s.change /\ t.changeTo = s.changeTo
    BY <1>1, <1>3 DEF Shape, Session, Stages, MaybeAccount
<1>7. Shape(t)
    BY <1>3, <1>6 DEF Shape, HasItsTokens
<1>8. Returned(c, t)
    BY <1>2, <1>6, ReturnIs
<1>9. PhonesMove /\ OneOnMain'
    BY <1>4, <1>5, GoPayAssumption DEF PhonesMove, OneOnMain, BaseInv
<1>10. Placed(t)'
    BY <1>3, <1>5, <1>6, <1>7, SessionFields DEF Placed, MaybeAccount
<1>11. \A q \in Temps : t.uses[q] >= State(c).uses[q] /\ t.uses[q] \in Nat
    <2>1. t.uses \in [Temps -> 0..MaxPhoneUses] /\ t.uses = State(c).uses
        BY <1>1, <1>6 DEF Session
    <2> QED
        BY <2>1, GoPayAssumption
<1>12. SessionTypeOK'
    BY <1>2, <1>5, <1>8 DEF SessionTypeOK, BaseInv, Returned
<1>13. BaseInv'
    BY <1>6, <1>7, <1>8, <1>9, <1>10, <1>11, <1>12, ReturnBase
<1>14. fault' = fault /\ moves' = moves
    BY <1>2
<1>15. KeptInv => KeptInv'
    <2>1. \A b \in Accounts : phone'[b] = "main" => phone[b] = "main"
        BY <1>5
    <2>2. \A b \in Accounts : phone'[b] \in Temps => phone[b] \in Temps /\ b # a
        BY <1>5, GoPayAssumption
    <2>3. \A b \in Accounts : phone'[b] \in Temps => State(c).tmp # b
        BY <1>1, <2>2
    <2>4. t.active = State(c).active
        BY <1>1, <1>6
    <2> QED
        BY <1>8, <1>13, <1>14, <2>1, <2>2, <2>3, <2>4, ReturnKept DEF KeptInv
<1>16. KnownInv => KnownInv'
    <2> SUFFICES ASSUME KnownInv PROVE Known'
        BY <1>13 DEF KnownInv
    <2>1. t # s
        BY <1>1, <1>4, <1>6
    <2>2. Unsaved(c)' /\ client'[c].busy /\ client'[c].stale = client[c].stale
        BY <1>1, <1>8, <2>1 DEF Returned, Unsaved
    <2>3. State(c)' = t /\ saved' = saved /\ \A d \in Clients \ {c} : State(d)' = State(d)
        BY <1>8 DEF Returned, State
    <2>4. ASSUME NEW r, Shape(r), Right(r), r.tmp # a PROVE Right(r)'
        <3>1. /\ r.active # None => r.active \in Accounts
              /\ r.tmp # None => r.tmp \in Accounts
              /\ r.stage = "login_otp_pending" => r.login \in Accounts
            BY <2>4, SessionFields DEF MaybeAccount, StageFits
        <3>2. phone[a] # "main"
            BY <1>4, GoPayAssumption
        <3>3. r.active # None => phone'[r.active] = "main"
            BY <1>5, <2>4, <3>1, <3>2 DEF Right
        <3>4. r.tmp # None => phone'[r.tmp] \in Temps
            BY <1>5, <2>4, <3>1 DEF Right
        <3>5. r.stage = "login_otp_pending" => phone'[r.login] = "main"
            BY <1>5, <2>4, <3>1, <3>2 DEF Right
        <3> QED
            BY <1>14, <2>4, <3>3, <3>4, <3>5 DEF Right
    <2>5. Right(State(c)) => Right(t)'
        <3> SUFFICES ASSUME Right(s) PROVE Right(t)'
            BY <1>1
        <3>1. s.active # None => s.active \in Accounts \ {a}
            BY <1>3, <1>4, SessionFields, GoPayAssumption DEF Right, MaybeAccount
        <3>2. s.active # None => phone'[s.active] = "main"
            BY <1>5, <3>1 DEF Right
        <3> QED
            BY <1>6, <1>14, <3>2 DEF Right
    <2>6. \/ Doomed' \/ Differs(c)'
          \/ /\ Right(saved) => Right(saved)'
             /\ \A d \in Clients \ {c} :
                   Fresh(d) /\ Right(State(d)) => Right(State(d))'
        <3>1. CASE client[c].stale
            BY <2>2, <3>1 DEF Doomed
        <3>2. CASE ~client[c].stale /\ saved.tmp = a
            <4>1. Fresh(c)'
                BY <2>2, <3>2 DEF Fresh
            <4> QED
                BY <1>4, <1>5, <1>6, <2>2, <2>3, <3>2, <4>1 DEF Differs
        <3>3. CASE ~client[c].stale /\ saved.tmp # a
            <4>1. Fresh(c)
                BY <3>3 DEF Fresh
            <4>2. \A d \in Clients \ {c} : Fresh(d) => State(d).tmp # a
                BY <1>1, <1>4, <3>3, <4>1 DEF BaseInv, TmpOfRow
            <4>3. Right(saved) => Right(saved)'
                <5>1. Right(saved) => \E r : r = saved /\ Right(r)'
                    BY <2>4, <3>3 DEF BaseInv
                <5> QED
                    BY <2>3, <5>1 DEF Right
            <4>4. ASSUME NEW d \in Clients \ {c}, Fresh(d), Right(State(d)) PROVE Right(State(d))'
                <5>1. \E r : r = State(d) /\ Right(r)'
                    BY <2>4, <4>2, <4>4 DEF BaseInv
                <5> QED
                    BY <2>3, <5>1 DEF Right
            <4> QED
                BY <4>3, <4>4
        <3> QED
            BY <3>1, <3>2, <3>3
    <2>7. t.tmp \in {State(c).tmp, None}
        BY <1>6
    <2> QED
        BY <1>8, <1>9, <1>11, <1>14, <2>5, <2>6, <2>7, ReturnKnown
<1> QED
    BY <1>13, <1>15, <1>16

LEMMA DeactivateStep ==
    ASSUME BaseInv, NEW c \in Clients, client[c].busy, DeactivateComplete(c)
    PROVE  BaseInv' /\ (KeptInv => KeptInv') /\ (KnownInv => KnownInv')
<1>1. PICK s, a, t : /\ s = State(c) /\ a = s.tmp
                     /\ t = [s EXCEPT !.tmp = None, !.deactivated = TRUE, !.stage = "deactivated"]
    BY Zenon
<1>2. /\ Live(a) /\ phone' = [phone EXCEPT ![a] = "gone"] /\ UNCHANGED <<pins, moves>>
      /\ \/ Return(c, t) /\ UNCHANGED fault
         \/ Return(c, s) /\ fault' = "lost"
    BY <1>1 DEF DeactivateComplete
<1>3. CASE Return(c, t) /\ UNCHANGED fault
    BY <1>1, <1>3, DeactivateHeard
<1>4. CASE Return(c, s) /\ fault' = "lost"
    <2>1. Shape(s) /\ Placed(s) /\ Follows(State(c), s)
        BY <1>1, FollowsSame DEF BaseInv
    <2>2. a \in Accounts /\ phone[a] \in Temps
        BY <1>1, <1>2, <2>1, SessionFields DEF Live, Placed, MaybeAccount
    <2>3. /\ phone'[a] = "gone" /\ \A b \in Accounts \ {a} : phone'[b] = phone[b]
          /\ phone' \in [Accounts -> Temps \cup {"unused", "main", "gone"}]
        BY <1>2, <2>2 DEF BaseInv, SessionTypeOK
    <2>4. PhonesMove /\ OneOnMain'
        BY <2>2, <2>3, GoPayAssumption DEF PhonesMove, OneOnMain, BaseInv
    <2> QED
        BY <1>2, <1>4, <2>1, <2>3, <2>4, UnheardStep
<1> QED
    BY <1>2, <1>3, <1>4

LEMMA CallStep ==
    ASSUME BaseInv, NEW c \in Clients, Call(c)
    PROVE  BaseInv' /\ (KeptInv => KeptInv') /\ (KnownInv => KnownInv')
<1>1. client[c].busy
    BY DEF Call
<1> QED
    BY <1>1, CallKinds, AnsweredStep, SignsUpStep, SignsUpUnheardStep, ChangePhoneStep,
       DeactivateStep

-----------------------------------------------------------------------------
(* The state store.                                                         *)

Stored(s, c) ==
    /\ saved' = s
    /\ client' \in [Clients -> Client]
    /\ client'[c].busy = client[c].busy /\ State(c)' = State(c)
    /\ client'[c].unsaved = 0 /\ client'[c].stale = FALSE
    /\ \A d \in Clients \ {c} :
          /\ client'[d].busy = client[d].busy /\ State(d)' = State(d)
          /\ client'[d].unsaved = client[d].unsaved
          /\ client'[d].stale = (client[d].busy /\ (client[d].stale \/ s # saved))

LEMMA StoreIs ==
    ASSUME BaseInv, NEW c \in Clients, NEW s, Store(s, c)
    PROVE  Stored(s, c)
<1> DEFINE mine == [client[c] EXCEPT !.unsaved = 0, !.stale = FALSE]
           other(d) == [client[d] EXCEPT !.stale = client[d].busy /\ (client[d].stale \/ s # saved)]
<1>1. \A d \in Clients : client[d] \in Client
    BY DEF BaseInv, SessionTypeOK
<1>2. client' = [d \in Clients |-> IF d = c THEN mine ELSE other(d)]
    BY <1>1, Zenon DEF Store, Client
<1>3. mine \in Client /\ mine.busy = client[c].busy /\ mine.state = client[c].state
      /\ mine.unsaved = 0 /\ mine.stale = FALSE
    BY <1>1 DEF Client
<1>4. ASSUME NEW d \in Clients
      PROVE  /\ other(d) \in Client /\ other(d).busy = client[d].busy
             /\ other(d).state = client[d].state /\ other(d).unsaved = client[d].unsaved
             /\ other(d).stale = (client[d].busy /\ (client[d].stale \/ s # saved))
    BY <1>1 DEF Client
<1> HIDE DEF mine, other
<1>5. /\ client' \in [Clients -> Client] /\ client'[c] = mine
      /\ \A d \in Clients \ {c} : client'[d] = other(d)
    BY <1>2, <1>3, <1>4
<1>6. saved' = s
    BY Zenon DEF Store
<1> QED
    BY <1>3, <1>4, <1>5, <1>6 DEF Stored, State

LEMMA StoreBase ==
    ASSUME BaseInv, NEW c \in Clients, NEW s, Stored(s, c), Shape(s), Placed(s),
           client[c].busy => s = State(c),
           UNCHANGED <<phone, pins, moves>>, fault' \in Fault
    PROVE  BaseInv'
<1>1. SessionTypeOK'
    BY DEF BaseInv, SessionTypeOK, Stored, Shape
<1>2. Shape(saved)' /\ Placed(saved)'
    BY DEF Stored, Shape, HasItsTokens, Placed
<1>3. \A d \in Clients : State(d)' = State(d)
    BY DEF Stored
<1>4. \A d \in Clients : Shape(State(d))' /\ Placed(State(d))'
    BY <1>3 DEF BaseInv, Shape, HasItsTokens, Placed
<1>5. \A d \in Clients \ {c} : Fresh(d)' => Fresh(d) /\ saved' = saved
    BY DEF Stored, Fresh
<1>6. Fresh(c)' => saved' = State(c)
    BY DEF Stored, Fresh
<1>7. \A d \in Clients : ClientOK(d)'
    <2> SUFFICES ASSUME NEW d \in Clients PROVE ClientOK(d)'
        OBVIOUS
    <2>0. ClientOK(d) /\ client'[d] \in Client /\ client[d] \in Client
        BY DEF BaseInv, Stored, SessionTypeOK
    <2>1. ~client'[d].busy => client'[d] = Idle
        <3> SUFFICES ASSUME ~client'[d].busy PROVE client'[d] = Idle
            OBVIOUS
        <3>1. client[d] = Idle
            BY <2>0 DEF Stored, ClientOK
        <3>2. /\ client[d].busy = FALSE /\ client[d].state = Empty
              /\ client[d].unsaved = 0 /\ client[d].stale = FALSE
            BY <3>1 DEF Idle
        <3>3. client'[d].busy = FALSE /\ client'[d].state = Empty
            BY <3>2 DEF Stored, State
        <3>4. client'[d].unsaved = 0 /\ client'[d].stale = FALSE
            <4>1. CASE d = c
                BY <4>1 DEF Stored
            <4>2. CASE d # c
                <5>1. /\ client'[d].unsaved = client[d].unsaved
                      /\ client'[d].stale = (client[d].busy /\ (client[d].stale \/ s # saved))
                    BY <4>2 DEF Stored
                <5> QED
                    BY <3>2, <5>1
            <4> QED
                BY <4>1, <4>2
        <3> QED
            BY <2>0, <3>3, <3>4 DEF Client, Idle
    <2>2. CASE d = c
        <3>1. \A t \in Temps : State(c).uses[t] \in Nat
            BY GoPayAssumption DEF BaseInv, Shape, Session
        <3> QED
            BY <1>3, <1>6, <2>1, <2>2, <3>1 DEF ClientOK
    <2>3. CASE d # c
        BY <1>3, <1>5, <2>0, <2>1, <2>3 DEF ClientOK, Stored
    <2> QED
        BY <2>2, <2>3
<1>8. TmpOfRow'
    <2> SUFFICES ASSUME NEW d \in Clients, NEW e \in Clients, Fresh(d)', Fresh(e)', d # e,
                        State(d)'.tmp # None, State(d)'.tmp = State(e)'.tmp
                 PROVE  State(d)'.tmp = saved'.tmp
        BY DEF TmpOfRow
    <2>1. CASE d # c /\ e # c
        BY <1>3, <1>5, <2>1 DEF BaseInv, TmpOfRow
    <2>2. CASE d = c \/ e = c
        BY <1>3, <1>6, <2>2
    <2> QED
        BY <2>1, <2>2
<1>9. OneOnMain'
    BY DEF BaseInv, OneOnMain
<1> QED
    BY <1>1, <1>2, <1>4, <1>7, <1>8, <1>9 DEF BaseInv

\* A row that is written again as it is.
LEMMA StoreSame ==
    ASSUME BaseInv, NEW c \in Clients, Stored(saved, c),
           ~client[c].stale,
           Unsaved(c) => State(c) = saved,
           UNCHANGED <<phone, moves, fault>>
    PROVE  (MainKept /\ TmpKept => MainKept' /\ TmpKept') /\ (Known => Known')
<1>1. saved' = saved /\ \A d \in Clients : State(d)' = State(d)
    BY DEF Stored
<1>2. \A d \in Clients : Fresh(d)' = Fresh(d)
    BY DEF Stored, Fresh, BaseInv, ClientOK, Idle
<1>3. \A d \in Clients \ {c} : Unsaved(d)' = Unsaved(d)
    BY DEF Stored, Unsaved
<1>4. ASSUME MainKept PROVE MainKept'
    BY <1>1, <1>2, <1>3, <1>4 DEF MainKept
<1>5. ASSUME TmpKept PROVE TmpKept'
    BY <1>1, <1>2, <1>3, <1>5 DEF TmpKept
<1>6. ~Differs(c)
    <2>1. \A t \in Temps : saved.uses[t] \in Nat
        BY GoPayAssumption DEF BaseInv, Shape, Session
    <2> QED
        BY <2>1 DEF Differs
<1>7. \A d \in Clients : Differs(d) => d # c /\ Differs(d)'
    <2>1. \A d \in Clients \ {c} : Differs(d)' = Differs(d)
        BY <1>1, <1>2, <1>3 DEF Differs
    <2> QED
        BY <1>6, <2>1
<1>8. Doomed => Doomed'
    <2> SUFFICES ASSUME NEW d \in Clients, client[d].stale, Unsaved(d) PROVE Doomed'
        BY DEF Doomed
    <2>1. d # c /\ client[d].busy
        BY DEF BaseInv, ClientOK, Idle
    <2> QED
        BY <1>3, <2>1 DEF Stored, Doomed
<1>9. Right(saved)' = Right(saved) /\ \A d \in Clients : Right(State(d))' = Right(State(d))
    BY <1>1 DEF Right
<1>10. ASSUME Known PROVE Known'
    BY <1>2, <1>7, <1>8, <1>9, <1>10 DEF Known
<1> QED
    BY <1>4, <1>5, <1>10

LEMMA UpsertStep ==
    ASSUME BaseInv, NEW c \in Clients, UpsertGoPayState(c)
    PROVE  BaseInv' /\ (KeptInv => KeptInv') /\ (KnownInv => KnownInv')
<1>1. PICK s : s = State(c)
    OBVIOUS
<1>2. Stored(s, c) /\ client[c].busy
    BY <1>1, StoreIs DEF UpsertGoPayState
<1>3. UNCHANGED <<phone, pins, moves>> /\ fault' = IF client[c].stale THEN "lost" ELSE fault
    BY DEF UpsertGoPayState
<1>4. Shape(s) /\ Placed(s) /\ fault' \in Fault
    BY <1>1, <1>3 DEF BaseInv, Fault, SessionTypeOK
<1>5. BaseInv'
    BY <1>1, <1>2, <1>3, <1>4, StoreBase
<1>6. CASE client[c].stale
    <2>1. fault' = "lost"
        BY <1>3, <1>6
    <2>2. ~(\E d \in Clients \ {c} : Fresh(d)') \/ s = saved
        BY <1>2 DEF Stored, Fresh
    <2>3. saved' = s /\ \A d \in Clients : State(d)' = State(d)
        BY <1>2 DEF Stored
    <2>4. \A d \in Clients \ {c} : Fresh(d)' => Fresh(d)
        BY <1>2 DEF Stored, Fresh
    <2>5. MainKept => MainKept'
        BY <1>1, <1>3, <2>1, <2>2, <2>3, <2>4 DEF MainKept
    <2>6. TmpKept' /\ Known'
        BY <2>1 DEF TmpKept, Known
    <2> QED
        BY <1>5, <2>5, <2>6 DEF KeptInv, KnownInv
<1>7. CASE ~client[c].stale /\ s = saved
    <2>1. Stored(saved, c) /\ UNCHANGED <<phone, moves, fault>>
        BY <1>2, <1>3, <1>7
    <2> QED
        BY <1>1, <1>5, <1>7, <2>1, StoreSame DEF KeptInv, KnownInv
<1>8. CASE ~client[c].stale /\ s # saved
    <2>1. fault' = fault /\ Fresh(c)
        BY <1>2, <1>3, <1>8 DEF Fresh
    <2>2. saved' = s /\ \A d \in Clients : State(d)' = State(d)
        BY <1>2 DEF Stored
    <2>3. \A d \in Clients \ {c} : ~Fresh(d)' /\ (Unsaved(d) => Unsaved(d)')
        BY <1>2, <1>8 DEF Stored, Fresh, Unsaved
    <2>4. KeptInv => MainKept'
        <3> SUFFICES ASSUME KeptInv, NEW a \in Accounts, phone[a] = "main"
                     PROVE  /\ s.active = a => \A d \in Clients : Fresh(d)' => State(d)'.active = a
                            /\ fault = "none" =>
                                  s.active = a \/ \E d \in Clients : Unsaved(d)' /\ State(d)'.active = a
            BY <1>3, <2>1, <2>2 DEF MainKept
        <3>1. s.active = a => \A d \in Clients : Fresh(d)' => State(d)'.active = a
            BY <1>1, <2>2, <2>3
        <3>2. fault = "none" => saved.active = a \/ \E d \in Clients : Unsaved(d) /\ State(d).active = a
            BY DEF KeptInv, MainKept
        <3>3. saved.active = a => s.active = a
            BY <1>1, <2>1 DEF KeptInv, MainKept
        <3> QED
            BY <1>1, <2>2, <2>3, <3>1, <3>2, <3>3
    <2>5. KeptInv => TmpKept'
        <3> SUFFICES ASSUME KeptInv, NEW a \in Accounts, phone[a] \in Temps, fault = "none"
                     PROVE  /\ s.tmp = a => \A d \in Clients : Fresh(d)' => State(d)'.tmp = a
                            /\ s.tmp = a \/ \E d \in Clients : Unsaved(d)' /\ State(d)'.tmp = a
            BY <1>3, <2>1, <2>2 DEF TmpKept
        <3>1. s.tmp = a => \A d \in Clients : Fresh(d)' => State(d)'.tmp = a
            BY <1>1, <2>2, <2>3
        <3>2. saved.tmp = a \/ \E d \in Clients : Unsaved(d) /\ State(d).tmp = a
            BY DEF KeptInv, TmpKept
        <3>3. saved.tmp = a => s.tmp = a
            BY <1>1, <2>1 DEF KeptInv, TmpKept
        <3> QED
            BY <1>1, <2>2, <2>3, <3>1, <3>2, <3>3
    <2>6. KnownInv => Known'
        <3> SUFFICES ASSUME KnownInv, fault # "lost", ~Doomed'
                     PROVE  /\ Right(saved)'
                            /\ \A d \in Clients : Fresh(d)' => Right(State(d))'
            BY <2>1 DEF Known
        <3>1. \A d \in Clients \ {c} : ~Unsaved(d)
            <4> SUFFICES ASSUME NEW d \in Clients \ {c}, Unsaved(d) PROVE FALSE
                OBVIOUS
            <4>1. client[d].busy
                BY DEF BaseInv, ClientOK, Idle, Unsaved
            <4>2. client'[d].stale
                BY <1>2, <1>8, <4>1 DEF Stored
            <4> QED
                BY <2>3, <4>2 DEF Doomed
        <3>2. ~Doomed /\ ~\E d \in Clients \ {c} : Differs(d)
            BY <1>8, <3>1 DEF Doomed, Differs
        <3>3. Right(State(c))
            BY <2>1, <3>2 DEF KnownInv, Known
        <3>4. Right(saved)' /\ Right(State(c))'
            BY <1>1, <1>3, <2>2, <3>3 DEF Right
        <3> QED
            BY <2>3, <3>4
    <2> QED
        BY <1>5, <2>4, <2>5, <2>6 DEF KeptInv, KnownInv
<1> QED
    BY <1>6, <1>7, <1>8

LEMMA DeleteStep ==
    ASSUME BaseInv, NEW c \in Clients, DeleteGoPayState(c)
    PROVE  BaseInv' /\ (KeptInv => KeptInv') /\ (KnownInv => KnownInv')
<1>1. ~client[c].busy /\ Stored(Empty, c) /\ UNCHANGED <<phone, pins, moves>>
    BY StoreIs DEF DeleteGoPayState
<1>2. fault' = IF saved = Empty THEN fault ELSE "lost"
    BY DEF DeleteGoPayState
<1>3. fault' \in Fault
    BY <1>2 DEF BaseInv, SessionTypeOK, Fault
<1>4. Empty.active = None /\ Empty.tmp = None /\ Empty.stage = "idle"
    BY DEF Empty
<1>5. Placed(Empty)
    BY <1>4 DEF Placed
<1>6. BaseInv'
    BY <1>1, <1>3, <1>5, EmptyShape, StoreBase
<1>7. CASE saved = Empty
    <2>1. client[c] = Idle
        BY <1>1 DEF BaseInv, ClientOK
    <2>2. ~client[c].stale /\ ~Unsaved(c)
        BY <2>1 DEF Idle, Unsaved
    <2>3. Stored(saved, c) /\ UNCHANGED <<phone, moves, fault>>
        BY <1>1, <1>2, <1>7
    <2> QED
        BY <1>6, <2>2, <2>3, StoreSame DEF KeptInv, KnownInv
<1>8. CASE saved # Empty
    <2>1. fault' = "lost" /\ saved' = Empty
        BY <1>1, <1>2, <1>8 DEF Stored
    <2>2. \A a \in Accounts : saved'.active # a
        BY <1>4, <2>1, GoPayAssumption
    <2>3. MainKept' /\ TmpKept' /\ Known'
        BY <2>1, <2>2 DEF MainKept, TmpKept, Known
    <2> QED
        BY <1>6, <2>3 DEF KeptInv, KnownInv
<1> QED
    BY <1>7, <1>8

-----------------------------------------------------------------------------
(* Clients come and go.                                                     *)

\* Client c has come or gone, and nothing else has changed.
Changes(c, new) ==
    /\ new \in Client
    /\ client' \in [Clients -> Client]
    /\ client'[c] = new
    /\ \A d \in Clients \ {c} :
          /\ client'[d] = client[d] /\ State(d)' = State(d)
          /\ Fresh(d)' = Fresh(d) /\ Unsaved(d)' = Unsaved(d)
    /\ State(c)' = new.state
    /\ Fresh(c)' = (new.busy /\ ~new.stale)
    /\ ~Unsaved(c)'
    /\ UNCHANGED <<saved, phone, pins, moves>>

LEMMA ChangesIs ==
    ASSUME BaseInv, NEW c \in Clients, NEW new \in Client, new.unsaved = 0,
           client' = [client EXCEPT ![c] = new],
           UNCHANGED <<saved, phone, pins, moves>>
    PROVE  Changes(c, new)
<1>1. client' \in [Clients -> Client] /\ client'[c] = new
      /\ \A d \in Clients \ {c} : client'[d] = client[d]
    BY DEF BaseInv, SessionTypeOK
<1> QED
    BY <1>1 DEF Changes, State, Fresh, Unsaved

LEMMA ChangesBase ==
    ASSUME BaseInv, NEW c \in Clients, NEW new, Changes(c, new), fault' \in Fault,
           new = Idle \/ (new.busy /\ new.state = saved)
    PROVE  BaseInv'
<1>1. Idle.busy = FALSE /\ Idle.state = Empty
    BY DEF Idle
<1>2. Placed(Empty)
    BY DEF Placed, Empty
<1>3. SessionTypeOK'
    BY DEF BaseInv, SessionTypeOK, Changes
<1>4. Shape(saved)' /\ Placed(saved)'
    BY DEF BaseInv, Changes, Shape, HasItsTokens, Placed
<1>5. \A s : Shape(s)' = Shape(s) /\ Placed(s)' = Placed(s)
    BY DEF Changes, Shape, HasItsTokens, Placed
<1>6. \A d \in Clients : Shape(State(d))' /\ Placed(State(d))'
    <2> SUFFICES ASSUME NEW d \in Clients PROVE Shape(State(d))' /\ Placed(State(d))'
        OBVIOUS
    <2>1. State(d)' \in {State(d), saved, Empty}
        BY <1>1 DEF Changes
    <2>2. PICK s : s = State(d)'
        OBVIOUS
    <2>3. Shape(s) /\ Placed(s)
        BY <1>2, <2>1, <2>2, EmptyShape DEF BaseInv
    <2> QED
        BY <2>2, <2>3 DEF Changes, Shape, HasItsTokens, Placed
<1>7. Fresh(c)' => State(c)' = saved
    BY <1>1 DEF Changes
<1>8. \A d \in Clients : ClientOK(d)'
    <2> SUFFICES ASSUME NEW d \in Clients PROVE ClientOK(d)'
        OBVIOUS
    <2>1. CASE d = c
        <3>1. \A t \in Temps : saved.uses[t] \in Nat
            BY GoPayAssumption DEF BaseInv, Shape, Session
        <3>2. ~client'[c].busy => client'[c] = Idle
            BY DEF Changes
        <3> QED
            BY <1>7, <2>1, <3>1, <3>2 DEF ClientOK, Changes
    <2>2. CASE d # c
        <3>1. ClientOK(d)
            BY DEF BaseInv
        <3> QED
            BY <2>2, <3>1 DEF ClientOK, Changes
    <2> QED
        BY <2>1, <2>2
<1>9. TmpOfRow'
    <2> SUFFICES ASSUME NEW d \in Clients, NEW e \in Clients, Fresh(d)', Fresh(e)', d # e,
                        State(d)'.tmp # None, State(d)'.tmp = State(e)'.tmp
                 PROVE  State(d)'.tmp = saved.tmp
        BY DEF TmpOfRow, Changes
    <2>1. CASE d # c /\ e # c
        BY <2>1 DEF BaseInv, TmpOfRow, Changes
    <2>2. CASE d = c \/ e = c
        BY <1>7, <2>2
    <2> QED
        BY <2>1, <2>2
<1>10. OneOnMain'
    BY DEF BaseInv, OneOnMain, Changes
<1> QED
    BY <1>3, <1>4, <1>6, <1>8, <1>9, <1>10 DEF BaseInv

LEMMA GetStep ==
    ASSUME BaseInv, NEW c \in Clients, GetGoPayState(c)
    PROVE  BaseInv' /\ (KeptInv => KeptInv') /\ (KnownInv => KnownInv')
<1>1. PICK new : new = [Idle EXCEPT !.busy = TRUE, !.state = saved]
    OBVIOUS
<1>2. /\ new \in Client /\ new.busy = TRUE /\ new.state = saved
      /\ new.unsaved = 0 /\ new.stale = FALSE
    BY <1>1, EmptyShape DEF Idle, Client, BaseInv, Shape
<1>3. Changes(c, new) /\ fault' = fault
    <2>1. client' = [client EXCEPT ![c] = new] /\ UNCHANGED <<saved, phone, pins, moves, fault>>
        BY <1>1 DEF GetGoPayState
    <2> QED
        BY <1>2, <2>1, ChangesIs
<1>4. BaseInv'
    BY <1>2, <1>3, ChangesBase DEF BaseInv, SessionTypeOK
<1>5. client[c] = Idle
    BY DEF BaseInv, ClientOK, GetGoPayState
<1>6. ~Fresh(c) /\ ~Unsaved(c) /\ ~client[c].stale
    BY <1>5 DEF Fresh, Unsaved, Idle
<1>7. State(c)' = saved /\ saved' = saved /\ phone' = phone /\ moves' = moves
    BY <1>2, <1>3 DEF Changes
<1>8. \A d \in Clients \ {c} : /\ State(d)' = State(d) /\ client'[d] = client[d]
                               /\ Fresh(d)' = Fresh(d) /\ Unsaved(d)' = Unsaved(d)
    BY <1>3 DEF Changes
<1>9. MainKept => MainKept'
    BY <1>3, <1>6, <1>7, <1>8 DEF MainKept
<1>10. TmpKept => TmpKept'
    BY <1>3, <1>6, <1>7, <1>8 DEF TmpKept
<1>11. Known => Known'
    <2> SUFFICES ASSUME Known, fault # "lost", ~Doomed'
                 PROVE  /\ Right(saved)' \/ \E d \in Clients : Differs(d)'
                        /\ \A d \in Clients : Fresh(d)' =>
                              Right(State(d))' \/ \E e \in Clients \ {d} : Differs(e)'
        BY <1>3 DEF Known
    <2>1. ~Doomed
        BY <1>6, <1>8 DEF Doomed
    <2>2. \A d \in Clients : Differs(d) => d # c /\ Differs(d)'
        BY <1>6, <1>7, <1>8 DEF Differs
    <2>3. Right(saved)' = Right(saved) /\ Right(State(c))' = Right(saved)
        BY <1>7 DEF Right
    <2>4. \A d \in Clients \ {c} : Right(State(d))' = Right(State(d))
        BY <1>7, <1>8 DEF Right
    <2> QED
        BY <1>8, <2>1, <2>2, <2>3, <2>4 DEF Known
<1> QED
    BY <1>4, <1>9, <1>10, <1>11 DEF KeptInv, KnownInv

LEMMA LeaveStep ==
    ASSUME BaseInv, NEW c \in Clients, Leave(c)
    PROVE  BaseInv' /\ (KeptInv => KeptInv') /\ (KnownInv => KnownInv')
<1>1. /\ Idle \in Client /\ Idle.busy = FALSE /\ Idle.state = Empty
      /\ Idle.unsaved = 0 /\ Idle.stale = FALSE
    BY EmptyShape DEF Idle, Client, Shape
<1>2. Changes(c, Idle)
    BY <1>1, ChangesIs DEF Leave
<1>3. fault' = IF Unsaved(c) THEN "lost" ELSE fault
    BY DEF Leave, Unsaved
<1>4. fault' \in Fault
    BY <1>3 DEF BaseInv, SessionTypeOK, Fault
<1>5. BaseInv'
    BY <1>2, <1>4, ChangesBase, Zenon
<1>6. ~Fresh(c)' /\ saved' = saved /\ phone' = phone /\ moves' = moves /\ ~Unsaved(c)'
      /\ client'[c] = Idle
    BY <1>1, <1>2 DEF Changes
<1>7. \A d \in Clients \ {c} : /\ State(d)' = State(d) /\ client'[d] = client[d]
                               /\ Fresh(d)' = Fresh(d) /\ Unsaved(d)' = Unsaved(d)
    BY <1>2 DEF Changes
<1>8. MainKept => MainKept'
    BY <1>3, <1>6, <1>7 DEF MainKept
<1>9. TmpKept => TmpKept'
    BY <1>3, <1>6, <1>7 DEF TmpKept
<1>10. Known => Known'
    <2> SUFFICES ASSUME Known, fault' # "lost", ~Doomed'
                 PROVE  /\ Right(saved)' \/ \E d \in Clients : Differs(d)'
                        /\ \A d \in Clients : Fresh(d)' =>
                              Right(State(d))' \/ \E e \in Clients \ {d} : Differs(e)'
        BY DEF Known
    <2>1. ~Unsaved(c) /\ fault # "lost"
        BY <1>3
    <2>2. ~Doomed
        BY <1>7, <2>1 DEF Doomed
    <2>3. \A d \in Clients : Differs(d) => d # c /\ Differs(d)'
        BY <1>6, <1>7, <2>1 DEF Differs
    <2>4. Right(saved)' = Right(saved)
        BY <1>6 DEF Right
    <2>5. \A d \in Clients \ {c} : Right(State(d))' = Right(State(d))
        BY <1>6, <1>7 DEF Right
    <2> QED
        BY <1>6, <1>7, <2>1, <2>2, <2>3, <2>4, <2>5 DEF Known
<1> QED
    BY <1>5, <1>8, <1>9, <1>10 DEF KeptInv, KnownInv

-----------------------------------------------------------------------------
(* Every step.                                                              *)

LEMMA GoPayNext ==
    ASSUME BaseInv, [Next]_vars
    PROVE  BaseInv' /\ (KeptInv => KeptInv') /\ (KnownInv => KnownInv')
<1>1. CASE UNCHANGED vars
    BY <1>1 DEF vars, BaseInv, SessionTypeOK, Shape, HasItsTokens, Placed, OneOnMain, TmpOfRow,
                ClientOK, Fresh, State, KeptInv, MainKept, TmpKept, Unsaved,
                KnownInv, Known, Right, Doomed, Differs
<1>2. CASE Next
    BY <1>2, CallStep, GetStep, UpsertStep, DeleteStep, LeaveStep DEF Next
<1> QED
    BY <1>1, <1>2

LEMMA KeptInvHolds == Spec => []KeptInv
<1>1. Init => KeptInv
    BY GoPayInit
<1>2. KeptInv /\ [Next]_vars => KeptInv'
    BY GoPayNext DEF KeptInv
<1> QED
    BY <1>1, <1>2, PTL DEF Spec

LEMMA KnownInvHolds == Spec => []KnownInv
<1>1. Init => KnownInv
    BY GoPayInit
<1>2. KnownInv /\ [Next]_vars => KnownInv'
    BY GoPayNext DEF KnownInv
<1> QED
    BY <1>1, <1>2, PTL DEF Spec

\* The session row and the sessions of all clients have the tokens their stage asks
\* for, and the row knows where the accounts are once nobody has work to save, unless
\* a session or an answer of the provider was lost.
THEOREM SessionsAreSound == Spec => []SessionIsSound
BY KnownInvHolds, KnownIsEnough, PTL

\* No account of the provider is out of reach while no session and no answer was lost,
\* that of the signup that made it included, and no token was overwritten.
THEOREM AccountsStayReachable == Spec => []AccountsAreKept
BY KeptInvHolds, KeptIsEnough, PTL

\* Every temporary phone takes at most MaxPhoneUses accounts as long as clients work
\* on the row one after the other.
THEOREM PhoneUseStaysBounded == Spec => []PhoneUseIsBounded
<1>1. KnownInv => PhoneUseIsBounded
    <2> SUFFICES ASSUME KnownInv, fault # "lost",
                        \A c \in Clients : client[c].unsaved > 0 => WorksAlone(c),
                        NEW p \in Temps
                 PROVE  moves[p] <= MaxPhoneUses
        BY DEF PhoneUseIsBounded
    <2>1. \E r : Shape(r) /\ Right(r)
        <3>1. \A c \in Clients : Unsaved(c) => ~client[c].stale
            BY DEF Unsaved, WorksAlone
        <3>2. ~Doomed
            BY <3>1 DEF Doomed
        <3>3. CASE Right(saved)
            BY <3>3 DEF KnownInv, BaseInv
        <3>4. CASE \E d \in Clients : Differs(d)
            <4>1. PICK d \in Clients : Differs(d)
                BY <3>4
            <4>2. Fresh(d) /\ Unsaved(d)
                BY <4>1 DEF Differs
            <4>3. \A e \in Clients \ {d} : ~Unsaved(e)
                <5>1. \A e \in Clients \ {d} : client[e].unsaved = 0
                    BY <4>2, Zenon DEF Unsaved, WorksAlone
                <5>2. ~(0 > 0)
                    OBVIOUS
                <5> QED
                    BY <5>1, <5>2, Zenon DEF Unsaved
            <4>4. Right(State(d))
                BY <3>2, <4>2, <4>3 DEF KnownInv, Known, Differs
            <4> QED
                BY <4>4 DEF KnownInv, BaseInv
        <3> QED
            BY <3>2, <3>3, <3>4 DEF KnownInv, Known
    <2>2. PICK r : Shape(r) /\ Right(r)
        BY <2>1
    <2>3. r.uses[p] \in 0..MaxPhoneUses /\ r.uses[p] = moves[p]
        BY <2>2 DEF Shape, Session, Right
    <2> QED
        BY <2>3, GoPayAssumption
<1> QED
    BY <1>1, KnownInvHolds, PTL

\* No step deactivates an account that is still on the phone of the user.
THEOREM DeactivatedHaveMoved == Spec => OnlyMovedAccountsAreDeactivated
<1> DEFINE Moved == \A a \in Accounts : phone[a] # "gone" /\ phone'[a] = "gone" => phone[a] \in Temps
<1>1. ASSUME KnownInv, [Next]_vars PROVE [Moved]_vars
    <2> SUFFICES ASSUME NEW a \in Accounts, phone[a] # "gone", phone'[a] = "gone"
                 PROVE  phone[a] \in Temps
        OBVIOUS
    <2>1. PICK c \in Clients : Call(c)
        BY <1>1 DEF Next, vars, GetGoPayState, UpsertGoPayState, DeleteGoPayState, Leave
    <2>2. client[c].busy /\ BaseInv
        BY <1>1, <2>1 DEF Call, KnownInv
    <2>3. \/ Answered(c) \/ SignsUp(c) \/ SignsUpUnheard(c)
          \/ ChangePhoneComplete(c) \/ DeactivateComplete(c)
        BY <2>1, <2>2, CallKinds
    <2>4. CASE Answered(c)
        BY <2>4 DEF Answered
    <2>5. CASE SignsUp(c) \/ SignsUpUnheard(c)
        BY <2>2, <2>5, GoPayAssumption DEF SignsUp, SignsUpUnheard, BaseInv, SessionTypeOK
    <2>6. CASE ChangePhoneComplete(c)
        <3>1. PhonesMove
            BY <2>2, <2>6, ChangePhoneFacts
        <3> QED
            BY <3>1, GoPayAssumption DEF PhonesMove
    <2>7. CASE DeactivateComplete(c)
        <3>1. PICK b : b = State(c).tmp
            OBVIOUS
        <3>2. Live(b) /\ phone' = [phone EXCEPT ![b] = "gone"] /\ Placed(State(c))
            BY <2>2, <2>7, <3>1 DEF DeactivateComplete, BaseInv
        <3>3. phone[b] \in Temps
            BY <3>1, <3>2 DEF Live, Placed
        <3> QED
            BY <2>2, <3>2, <3>3 DEF BaseInv, SessionTypeOK
    <2> QED
        BY <2>3, <2>4, <2>5, <2>6, <2>7
<1> QED
    BY <1>1, KnownInvHolds, PTL DEF Spec, OnlyMovedAccountsAreDeactivated
=============================================================================
