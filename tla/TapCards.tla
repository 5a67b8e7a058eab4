------------------------------ MODULE TapCards ------------------------------
(***************************************************************************)
(* The cards of one session and the answers to them.  A turn may attach one *)
(* card to its reply: a coverage question, a fact about the subject, a time  *)
(* anchor for the story being told, or the invitation to leave a message.    *)
(* The answer comes as a side-car of a later turn, which names no card: it   *)
(* is filed, before the turn itself runs and before its idempotency key is   *)
(* looked at, under whatever card Working Memory holds as pending.           *)
(*                                                                         *)
(* A request attaches at most one card, so a card is named by its request.   *)
(* Each Working Memory call and each transaction is one action.              *)
(***************************************************************************)
EXTENDS Naturals, FiniteSets

CONSTANTS Request, None,
          Field,              \* askable ground-truth fields
          Question,           \* the coverage bank, one for each dimension
          CoverageCap,        \* taps of one session
          GtCap,              \* GT_TAPS_PER_SESSION_CAP
          Cooldown,           \* GT_TAP_COOLDOWN_USER_TURNS and its like
          MinUserTurns,       \* MIN_USER_TURNS_BEFORE_GT_TAP
          MaxInFlight,        \* requests that overlap: 1 waits for replies
          MaxOverlapping,     \* bound: requests that ever overlap
          MaxFaults,          \* bound: crashes, failures and lost replies
          MaxOutside          \* bound: what extraction and the web write

ASSUME ConstantsAssumption ==
    /\ None \notin Request \cup Field \cup Question
    /\ Question \in SUBSET Nat    \* in the order of their dimensions
    /\ \A n \in {CoverageCap, GtCap, Cooldown, MinUserTurns, MaxOverlapping, MaxFaults, MaxOutside} : n \in Nat
    /\ MaxInFlight \in Nat \ {0}
    /\ CoverageCap <= 5         \* emitted_tap_question_ids keeps five

VARIABLES
    wm,         \* the fields of the session hash that cards use
    told,       \* persons.ground_truth: the fields known
    covered,    \* dimensions of coverage_state that are not zero
    message,    \* is there a tributes.message_text?
    keyed,      \* does the client use /turn with a key, or /turn/stream?
    body,       \* what each request carries
    pc, loc,    \* where each handler is, and its locals
    locked, replayable,  \* idempotency, by the first request of a key
    card,       \* the card each request recorded
    shown,      \* those the client has received
    screen,     \* the card on the screen that waits for its answer
    faults, outside,
    filed,      \* history: answers, the card they are to, the one filed under
    sent,       \* history: time anchors, by the request that sent the segment
    captured,   \* history: requests that wrote the message
    again,      \* history: <<card, request>>: the request had answered its fact
    blind,      \* history: requests whose read of the facts failed
    unsure,     \* history: requests whose push was taken, but seemed to fail
    overlapped  \* history: requests that ran beside another

disk    == <<told, covered, message>>
client  == <<shown, screen>>
control == <<keyed, body, pc, loc>>
bounds  == <<faults, outside>>
history == <<filed, sent, captured, again, blind, unsure>>
vars    == <<wm, disk, control, locked, replayable, card, client, bounds,
             history, overlapped>>

Card == {[kind |-> "coverage", of |-> q] : q \in Question} \cup
        {[kind |-> "ground_truth", of |-> f] : f \in Field} \cup
        {[kind |-> k, of |-> None] : k \in {"segment_anchor", "message"}}

NewLocal == [pending |-> None, declined |-> {}, snap |-> None, pick |-> None,
             emitted |-> {}, anchor |-> None]
NoBody   == [key |-> None, to |-> None, says |-> "blank"]

Idle    == {"idle", "done", "busy", "failed"}
Goto(r, step) == pc' = [pc EXCEPT ![r] = step]
Stop(r, step) == /\ Goto(r, step)
                 /\ loc' = [loc EXCEPT ![r] = NewLocal]
Fault   == /\ faults < MaxFaults
           /\ faults' = faults + 1
Retry(r) == body[r].key # r
OfFacts(c) == card[c].kind \in {"ground_truth", "segment_anchor"}

\* A session in which some turns may have passed, but no card.
Init ==
    /\ \E n \in 0 .. MinUserTurns :
          wm = [userTurns |-> n, sinceTap |-> Cooldown, taps |-> 0, gtTaps |-> 0,
                emitted |-> {}, pendingGt |-> None, declined |-> {}, anchor |-> None,
                pendingMessage |-> FALSE, typedCheck |-> FALSE, invited |-> FALSE]
    /\ told = {} /\ covered = {} /\ message = FALSE
    /\ keyed \in BOOLEAN
    /\ body = [r \in Request |-> NoBody]
    /\ pc = [r \in Request |-> "idle"]
    /\ loc = [r \in Request |-> NewLocal]
    /\ locked = {} /\ replayable = [r \in Request |-> None]
    /\ card = [r \in Request |-> None]
    /\ shown = {} /\ screen = None
    /\ faults = 0 /\ outside = 0
    /\ filed = {} /\ sent = {} /\ captured = {} /\ again = {}
    /\ blind = {} /\ unsure = {}
    /\ overlapped = {}

-----------------------------------------------------------------------------
(* Arrival.                                                                 *)

FirstStep(to) == IF to # None /\ OfFacts(to) THEN "sidecar" ELSE "invitation"

InFlight == {r \in Request : pc[r] \notin Idle}
Enters(r) ==
    /\ pc[r] = "idle"
    /\ Cardinality(InFlight) < MaxInFlight
    /\ overlapped' = IF InFlight = {} THEN overlapped
                     ELSE overlapped \cup InFlight \cup {r}
    /\ Cardinality(overlapped') <= MaxOverlapping
    /\ UNCHANGED <<wm, disk, keyed, loc, locked, replayable, card, shown, bounds, history>>

\* A turn, without an answer or with one to the card on the screen: a value, a
\* skip, or a text of which nothing is left when it is stripped, which skips an
\* invitation.
Send(r) ==
    /\ Enters(r)
    /\ \E to \in {None, screen}, says \in {"value", "skip", "blank"} :
          /\ to = None => says = "blank"
          /\ says = "skip" => OfFacts(to)
          /\ body' = [body EXCEPT ![r] = [key |-> r, to |-> to, says |-> says]]
          /\ screen' = IF to = None THEN screen ELSE None
          /\ Goto(r, FirstStep(to))

\* The client has no reply and sends the request again.
Resend(r) ==
    /\ Enters(r)
    /\ \E o \in Request :
          /\ pc[o] # "idle" /\ ~Retry(o) /\ o \notin shown
          /\ body' = [body EXCEPT ![r] = body[o]]
          /\ Goto(r, FirstStep(body[o].to))
    /\ UNCHANGED screen

-----------------------------------------------------------------------------
(* The side-cars.                                                           *)

AnswersFact(r) == body[r].to # None /\ OfFacts(body[r].to)

\* get_state: the pending card decides what the answer means.
ReadPending(r) ==
    /\ pc[r] = "sidecar"
    /\ IF wm.pendingGt # None
         THEN /\ loc' = [loc EXCEPT ![r].pending = wm.pendingGt]
              /\ Goto(r, IF body[r].says = "value" THEN "file"
                         ELSE IF body[r].says = "skip" /\ card[wm.pendingGt].kind = "ground_truth"
                              THEN "decline" ELSE "clear")
         ELSE /\ Goto(r, "invitation")
              /\ UNCHANGED loc
    /\ UNCHANGED <<wm, disk, keyed, body, locked, replayable, card, client, bounds, history, overlapped>>

\* add_gt_declined_field reads the list and writes it back.
ReadDeclined(r) ==
    /\ pc[r] = "decline"
    /\ loc' = [loc EXCEPT ![r].declined = wm.declined]
    /\ Goto(r, "declined")
    /\ UNCHANGED <<wm, disk, keyed, body, locked, replayable, card, client, bounds, history, overlapped>>

Filed(r) == filed' = filed \cup {[by |-> r, to |-> body[r].to, as |-> loc[r].pending,
                                  unseen |-> loc[r].pending \notin shown]}

AddDeclined(r) ==
    /\ pc[r] = "declined"
    /\ wm' = [wm EXCEPT !.declined = loc[r].declined \cup {card[loc[r].pending].of}]
    /\ Filed(r)
    /\ Goto(r, "clear")
    /\ UNCHANGED <<disk, keyed, body, loc, locked, replayable, card, client, bounds, sent, captured, again, blind, unsure, overlapped>>

\* A time anchor goes to the session hash, a fact to persons, in a transaction
\* that has the row locked.  No rank is above that of an answered card.
FileAnswer(r) ==
    /\ pc[r] = "file"
    /\ LET c == loc[r].pending
       IN  IF card[c].kind = "segment_anchor"
             THEN wm' = [wm EXCEPT !.anchor = c] /\ UNCHANGED told
             ELSE told' = told \cup {card[c].of} /\ UNCHANGED wm
    /\ Filed(r)
    /\ Goto(r, "clear")
    /\ UNCHANGED <<covered, message, keyed, body, loc, locked, replayable, card, client, bounds, sent, captured,
                   again, blind, unsure, overlapped>>

\* Whatever card is pending by now.
ClearPending(r) ==
    /\ pc[r] = "clear"
    /\ wm' = [wm EXCEPT !.pendingGt = None]
    /\ Goto(r, "invitation")
    /\ UNCHANGED <<disk, keyed, body, loc, locked, replayable, card, client, bounds, history, overlapped>>

TurnStep == IF keyed THEN "enter" ELSE "append"

AnswersInvitation(r) == body[r].to # None /\ ~OfFacts(body[r].to)

\* The state read of persist_message_answer or of maybe_capture_typed_message,
\* which looks only at the first turn after the invitation.
ReadInvitation(r) ==
    /\ pc[r] = "invitation"
    /\ Goto(r, IF AnswersInvitation(r)
               THEN IF ~wm.pendingMessage THEN TurnStep
                    ELSE IF body[r].says = "value" THEN "polish" ELSE "taken"
               ELSE IF wm.typedCheck /\ wm.pendingMessage THEN "typed" ELSE TurnStep)
    /\ UNCHANGED <<wm, disk, keyed, body, loc, locked, replayable, card, client, bounds, history, overlapped>>

\* The check is consumed before the reply is classified.
ConsumeCheck(r) ==
    /\ pc[r] = "typed"
    /\ wm' = [wm EXCEPT !.typedCheck = FALSE]
    /\ Goto(r, "polish") \/ Goto(r, TurnStep)
    /\ UNCHANGED <<disk, keyed, body, loc, locked, replayable, card, client, bounds, history, overlapped>>

\* Polished by an LLM, whose failure leaves it as it is, and written.
StoreMessage(r) ==
    /\ pc[r] = "polish"
    /\ message' = TRUE
    /\ captured' = captured \cup {r}
    /\ Goto(r, "taken")
    /\ UNCHANGED <<wm, told, covered, keyed, body, loc, locked, replayable, card, client, bounds, filed, sent,
                   again, blind, unsure, overlapped>>

ClearInvitation(r) ==
    /\ pc[r] = "taken"
    /\ wm' = [wm EXCEPT !.pendingMessage = FALSE]
    /\ Goto(r, TurnStep)
    /\ UNCHANGED <<disk, keyed, body, loc, locked, replayable, card, client, bounds, history, overlapped>>

-----------------------------------------------------------------------------
(* The turn.                                                                *)

Receives(c) == /\ shown' = shown \cup {c}
               /\ screen' = IF card[c] = None \/ card[c].kind = "coverage" THEN screen ELSE c

\* run_idempotent: the reply of an earlier run, 409 beside a run, or a run.
Enter(r) ==
    /\ pc[r] = "enter"
    /\ LET k == body[r].key
       IN  \/ /\ replayable[k] # None
              /\ Receives(replayable[k])
              /\ Stop(r, "done") /\ UNCHANGED locked
           \/ /\ replayable[k] = None /\ k \in locked
              /\ Stop(r, "busy") /\ UNCHANGED <<locked, client>>
           \/ /\ replayable[k] = None /\ k \notin locked
              /\ locked' = locked \cup {k}
              /\ Goto(r, "append") /\ UNCHANGED <<loc, client>>
    /\ UNCHANGED <<wm, disk, keyed, body, replayable, card, bounds, history, overlapped>>

AtMost(n, m) == IF n < m THEN n ELSE m

\* The transcript and the cooldown; what they count beyond matters to nobody.
AppendUserTurn(r) ==
    /\ pc[r] = "append"
    /\ wm' = [wm EXCEPT !.userTurns = AtMost(@ + 1, MinUserTurns),
                        !.sinceTap = AtMost(@ + 1, Cooldown)]
    /\ Goto(r, "classify")
    /\ UNCHANGED <<disk, keyed, body, loc, locked, replayable, card, client, bounds, history, overlapped>>

\* The one state read for the whole turn.
Classify(r) ==
    /\ pc[r] = "classify"
    /\ loc' = [loc EXCEPT ![r].snap = wm]
    /\ Goto(r, "coverage") \/ Goto(r, "facts")
    /\ UNCHANGED <<wm, disk, keyed, body, locked, replayable, card, client, bounds, history, overlapped>>

Rested(r) == loc[r].snap.sinceTap >= Cooldown

\* The question of the first dimension that is still zero, unless asked before.
CoverageCards(r) ==
    LET open == Question \ covered
        q    == CHOOSE p \in open : \A o \in open : p <= o
    IN  IF loc[r].snap.taps < CoverageCap /\ Rested(r) /\ open # {} /\ q \notin loc[r].snap.emitted
        THEN {[kind |-> "coverage", of |-> q]} ELSE {}

\* fetch_ground_truth never raises: when the read fails, nothing is known.  It
\* makes no difference where nothing is.
LoseFacts(r) ==
    /\ pc[r] = "facts" /\ r \notin blind /\ told # {}
    /\ Fault
    /\ blind' = blind \cup {r}
    /\ UNCHANGED <<wm, disk, control, locked, replayable, card, client, outside, filed, sent, captured, again,
                   unsure, overlapped>>

Facts(r) == IF r \in blind THEN {} ELSE told

\* Mutant: what was declined may be asked.
UnknownOrDeclined(r) == Field \ Facts(r)

\* The facts are read anew, what was declined is in the snapshot.
Unknown(r) == Field \ (Facts(r) \cup loc[r].snap.declined)

FactCards(r) ==
    IF /\ loc[r].snap.gtTaps < GtCap /\ Rested(r) /\ loc[r].snap.userTurns >= MinUserTurns
    THEN {[kind |-> "ground_truth", of |-> f] : f \in Unknown(r)} \cup
         {[kind |-> "segment_anchor", of |-> None] : x \in {0} \cap {IF loc[r].snap.anchor = None THEN 0 ELSE 1}}
    ELSE {}

\* Mutant: the invitation is repeated while there is no message.
InvitesWhileUnwritten(r) == Rested(r) /\ ~message

\* In a tribute of a campaign, warm, with the other slots filled, and once.
Invites(r) == Rested(r) /\ ~message /\ ~loc[r].snap.invited

\* Each selection may also pass, for its LLM or for what is not modelled.
Select(r) ==
    /\ pc[r] \in {"coverage", "facts"}
    /\ \E c \in {None} \cup
              IF pc[r] = "coverage" THEN CoverageCards(r)
              ELSE FactCards(r) \cup {[kind |-> "message", of |-> None] :
                                         x \in {1} \cap {IF Invites(r) THEN 1 ELSE 0}} :
          /\ loc' = [loc EXCEPT ![r].pick = c]
          /\ Goto(r, IF c = None THEN "respond" ELSE IF c.kind = "coverage" THEN "reread" ELSE "record")
    /\ UNCHANGED <<wm, disk, keyed, body, locked, replayable, card, client, bounds, history, overlapped>>

\* record_tap_emitted reads the list of questions it is to extend.
ReadEmitted(r) ==
    /\ pc[r] = "reread"
    /\ loc' = [loc EXCEPT ![r].emitted = wm.emitted]
    /\ Goto(r, "record")
    /\ UNCHANGED <<wm, disk, keyed, body, locked, replayable, card, client, bounds, history, overlapped>>

\* Mutant: a card that waits for its answer is not replaced.
RecordedUnlessPending(r) ==
    LET c == loc[r].pick
    IN  CASE c.kind = "coverage" ->
                [wm EXCEPT !.taps = @ + 1, !.emitted = loc[r].emitted \cup {c.of}, !.sinceTap = 0]
          [] c.kind = "message" ->
                [wm EXCEPT !.pendingMessage = TRUE, !.typedCheck = TRUE, !.invited = TRUE, !.sinceTap = 0]
          [] OTHER ->
                [wm EXCEPT !.gtTaps = @ + 1, !.pendingGt = IF @ = None THEN r ELSE @, !.sinceTap = 0]

\* What record_tap_emitted, record_gt_tap_emitted and
\* record_message_invitation_emitted write; a newer card replaces an older one.
Recorded(r) ==
    LET c == loc[r].pick
    IN  CASE c.kind = "coverage" ->
                [wm EXCEPT !.taps = @ + 1, !.emitted = loc[r].emitted \cup {c.of}, !.sinceTap = 0]
          [] c.kind = "message" ->
                [wm EXCEPT !.pendingMessage = TRUE, !.typedCheck = TRUE, !.invited = TRUE, !.sinceTap = 0]
          [] OTHER ->
                [wm EXCEPT !.gtTaps = @ + 1, !.pendingGt = r, !.sinceTap = 0]

Record(r) ==
    /\ pc[r] = "record"
    /\ wm' = Recorded(r)
    /\ card' = [card EXCEPT ![r] = loc[r].pick]
    /\ again' = again \cup {<<r, a>> : a \in {b \in Request :
                   pc[b] = "done" /\ AnswersFact(b) /\ card[body[b].to] = loc[r].pick}}
    /\ Goto(r, "respond")
    /\ UNCHANGED <<disk, keyed, body, loc, locked, replayable, client, bounds, filed, sent, captured, blind,
                   unsure, overlapped>>

\* The reply, which on a stream comes after the card, and the state read of the
\* segment detector: the segment goes on, has no anchor, or is pushed.
Respond(r) ==
    /\ pc[r] = "respond"
    /\ IF keyed THEN UNCHANGED client ELSE Receives(r)
    /\ loc' = [loc EXCEPT ![r].anchor = wm.anchor]
    /\ \/ wm.anchor # None /\ Goto(r, "push")
       \/ Goto(r, "reply")
    /\ UNCHANGED <<wm, disk, keyed, body, locked, replayable, card, bounds, history, overlapped>>

\* The segment goes to extraction with its time anchor.
PushSegment(r) ==
    /\ pc[r] = "push"
    /\ sent' = sent \cup {<<r, loc[r].anchor>>}
    /\ Goto(r, "unanchor")
    /\ UNCHANGED <<wm, disk, keyed, body, loc, locked, replayable, card, client, bounds, filed, captured, again,
                   blind, unsure, overlapped>>

\* The push fails, or its answer is lost when the queue has the segment: the step
\* is degraded, the turn goes on and the anchor stays.
PushFails(r) ==
    /\ pc[r] = "push"
    /\ Fault
    /\ \/ /\ sent' = sent \cup {<<r, loc[r].anchor>>}
          /\ unsure' = unsure \cup {r}
       \/ UNCHANGED <<sent, unsure>>
    /\ Goto(r, "reply")
    /\ UNCHANGED <<wm, disk, keyed, body, loc, locked, replayable, card, client, outside, filed, captured, again,
                   blind, overlapped>>

\* Mutant: the anchor stays for the next segment.
KeepAnchor(r) ==
    /\ pc[r] = "unanchor"
    /\ Goto(r, "reply")
    /\ UNCHANGED <<wm, disk, keyed, body, loc, locked, replayable, card, client, bounds, history, overlapped>>

ClearAnchor(r) ==
    /\ pc[r] = "unanchor"
    /\ wm' = [wm EXCEPT !.anchor = None]
    /\ Goto(r, "reply")
    /\ UNCHANGED <<disk, keyed, body, loc, locked, replayable, card, client, bounds, history, overlapped>>

\* The response is cached, the lock released, and the reply sent.
Reply(r) ==
    /\ pc[r] = "reply"
    /\ IF keyed
         THEN /\ replayable' = [replayable EXCEPT ![body[r].key] = r]
              /\ locked' = locked \ {body[r].key}
              /\ Receives(r)
         ELSE UNCHANGED <<replayable, locked, client>>
    /\ Stop(r, "done")
    /\ UNCHANGED <<wm, disk, keyed, body, card, bounds, history, overlapped>>

\* The reply does not arrive.
ReplyLost(r) ==
    /\ pc[r] = "reply" /\ keyed
    /\ Fault
    /\ replayable' = [replayable EXCEPT ![body[r].key] = r]
    /\ locked' = locked \ {body[r].key}
    /\ Stop(r, "done")
    /\ UNCHANGED <<wm, disk, keyed, body, card, client, outside, history, overlapped>>

Holds(r) == keyed
            /\ pc[r] \notin Idle \cup {"sidecar", "decline", "declined", "file", "clear",
                                      "invitation", "typed", "polish", "taken", "enter"}

\* A failure that propagates, which releases the lock, or a crash, which leaves
\* it to expire.
Fails(r) ==
    /\ r \in InFlight
    /\ Fault
    /\ locked' \in {locked, IF Holds(r) THEN locked \ {body[r].key} ELSE locked}
    /\ Stop(r, "failed")
    /\ UNCHANGED <<wm, disk, keyed, body, replayable, card, client, outside, history, overlapped>>

-----------------------------------------------------------------------------
(* What else writes: the extraction of segments, and the card of the tribute *)
(* outside the chat.                                                        *)

Outside ==
    /\ outside < MaxOutside
    /\ outside' = outside + 1
    /\ UNCHANGED <<wm, control, locked, replayable, card, client, faults, history, overlapped>>

\* Only what makes a difference: facts already known, and a message over another.
Observe == Outside /\ \E f \in Field \ told : told' = told \cup {f} /\ UNCHANGED <<covered, message>>
Cover   == Outside /\ \E q \in Question \ covered : covered' = covered \cup {q} /\ UNCHANGED <<told, message>>
SubmitMessage == Outside /\ ~message /\ message' = TRUE /\ UNCHANGED <<told, covered>>

Handle(r) ==
    \/ Send(r) \/ Resend(r)
    \/ ReadPending(r) \/ ReadDeclined(r) \/ AddDeclined(r) \/ FileAnswer(r) \/ ClearPending(r)
    \/ ReadInvitation(r) \/ ConsumeCheck(r) \/ StoreMessage(r) \/ ClearInvitation(r)
    \/ Enter(r) \/ AppendUserTurn(r) \/ Classify(r) \/ Select(r) \/ ReadEmitted(r)
    \/ Record(r) \/ Respond(r) \/ PushSegment(r) \/ PushFails(r) \/ ClearAnchor(r) \/ Reply(r) \/ ReplyLost(r) \/ Fails(r)

Next == (\E r \in Request : Handle(r) \/ LoseFacts(r)) \/ Observe \/ Cover \/ SubmitMessage

Spec == Init /\ [][Next]_vars

-----------------------------------------------------------------------------
(* Properties.                                                              *)

Undisturbed(R) == R \cap overlapped = {}
Retried(c)     == \E s \in Request \ {c} : body[s].key = body[c].key
FiledRight(r)  == \E x \in filed : x.by = r /\ x.as = x.to

\* An answer is filed under the card it was given to, unless turns overlapped,
\* the request is a retry, a card was recorded that never reached the client, or
\* the one it answers came with a replayed reply, after a newer one
\* (ground_truth_answer.py reads the field off the pending card); and a value in
\* a turn that went through is filed, unless turns overlapped or a retry of
\* another one has taken its card.
AnswersAreFiled ==
    /\ \A x \in filed : x.as # x.to =>
          \/ ~Undisturbed({x.by, x.to, x.as}) \/ Retry(x.by) \/ Retried(x.to) \/ x.unseen
    /\ \A r \in Request :
          (pc[r] = "done" /\ AnswersFact(r) /\ ~Retry(r) /\ body[r].says = "value")
          => \/ \E x \in filed : x.by = r
             \/ ~Undisturbed({r, body[r].to}) \/ \E s \in Request : pc[s] # "idle" /\ Retry(s)

\* A fact that was answered or declined in a turn that went through is not asked
\* again in the session, unless turns overlapped, nothing was filed under its
\* card, or the read of the facts failed, which leaves what is known unseen but
\* not what was declined (select_ground_truth_tap.py takes that off the hash).
NotAskedAgain ==
    \A x \in again : card[x[1]].kind = "ground_truth" =>
        \/ ~FiledRight(x[2]) \/ ~Undisturbed({x[1], x[2]})
        \/ x[1] \in blind /\ body[x[2]].says = "value"

\* How many turns may pass a cap at once.
Spare == IF overlapped = {} THEN 0 ELSE MaxInFlight - 1

\* No more cards than the caps allow while no turns have overlapped, and one more
\* for each rival when some have.
CardsWithinCaps ==
    /\ wm.taps <= CoverageCap + Spare
    /\ wm.gtTaps <= GtCap + Spare
    /\ Cardinality({c \in Request : card[c] # None /\ card[c].kind = "message"}) <= 1 + Spare

\* A message is taken from one turn, and a time anchor rides one segment, or one
\* more for a push that the queue took and the turn believed to have failed,
\* unless turns overlapped or one failed half-way.
TakenOnce ==
    (overlapped = {} /\ \A r \in Request : pc[r] # "failed")
        => /\ \A x, y \in sent : x[2] = y[2] => x = y \/ {x[1], y[1]} \cap unsure # {}
           /\ Cardinality(captured) <= 1
=============================================================================
