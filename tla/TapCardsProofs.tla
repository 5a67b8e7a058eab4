--------------------------- MODULE TapCardsProofs ---------------------------
(***************************************************************************)
(* Proofs about TapCards, for every number of requests, every cap and every  *)
(* bound.  The history variable overlapped makes them short: while a request *)
(* that is not in it is in flight, nothing but that request and what lies    *)
(* outside the chat takes a step.                                           *)
(***************************************************************************)
EXTENDS TapCards, FiniteSetTheorems, WellFoundedInduction, TLAPS

-----------------------------------------------------------------------------
(* Types.                                                                   *)

Maybe == Request \cup {None}

Memory == [userTurns : Nat, sinceTap : Nat, taps : Nat, gtTaps : Nat,
           emitted : SUBSET Question, pendingGt : Maybe, declined : SUBSET Field,
           anchor : Maybe, pendingMessage : BOOLEAN, typedCheck : BOOLEAN,
           invited : BOOLEAN]
Local  == [pending : Maybe, declined : SUBSET Field, snap : Memory \cup {None},
           pick : Card \cup {None}, emitted : SUBSET Question, anchor : Maybe]
Body   == [key : Maybe, to : Maybe, says : {"value", "skip", "blank"}]

Asking  == {"decline", "declined", "file"}
Sidecar == Asking \cup {"sidecar", "clear", "invitation", "typed", "polish", "taken"}
Opening == Sidecar \cup {"enter", "append", "classify"}
Choice  == {"coverage", "facts", "reread", "record"}
Closing == {"respond", "push", "unanchor", "reply"}
Steps   == Opening \cup Choice \cup Closing \cup Idle

TypeInv ==
    /\ wm \in Memory
    /\ told \in SUBSET Field
    /\ keyed \in BOOLEAN
    /\ body \in [Request -> Body]
    /\ pc \in [Request -> Steps]
    /\ loc \in [Request -> Local]
    /\ replayable \in [Request -> Maybe]
    /\ card \in [Request -> Card \cup {None}]
    /\ shown \in SUBSET Request
    /\ screen \in Maybe
    /\ filed \in SUBSET [by : Request, to : Maybe, as : Maybe, unseen : BOOLEAN]
    /\ sent \in SUBSET (Request \X Maybe)
    /\ captured \in SUBSET Request
    /\ again \in SUBSET (Request \X Request)
    /\ blind \in SUBSET Request /\ unsure \in SUBSET Request
    /\ overlapped \in SUBSET Request

\* Where a request has not recorded a card yet, nor sent a reply.
Early(r) == pc[r] \in {"idle"} \cup Opening \cup Choice

\* What a request has in hand at each step.
InHand(r) ==
    /\ pc[r] = "idle" => body[r] = NoBody
    /\ pc[r] # "idle" => /\ body[r].key \in Request
                         /\ body[r].to # None => card[body[r].to] # None
    /\ pc[r] = "sidecar" => AnswersFact(r)
    /\ pc[r] \in Asking => /\ AnswersFact(r)
                           /\ loc[r].pending # None /\ card[loc[r].pending] # None
                           /\ OfFacts(loc[r].pending)
    /\ pc[r] \in {"decline", "declined"} =>
                           body[r].says = "skip" /\ card[loc[r].pending].kind = "ground_truth"
    /\ pc[r] = "file" => body[r].says = "value"
    /\ pc[r] \in Choice => loc[r].snap \in Memory
    /\ pc[r] \in {"reread", "record"} => loc[r].pick # None /\ loc[r].pick \in Card
    /\ pc[r] = "reread" => loc[r].pick.kind = "coverage"

\* Cards that are pending, on the screen, in a reply or filed were recorded.
Records ==
    /\ wm.pendingGt # None => card[wm.pendingGt] # None /\ OfFacts(wm.pendingGt)
    /\ wm.anchor # None => card[wm.anchor] # None
    /\ screen # None => card[screen] # None
    /\ \A r \in Request : Early(r) => /\ card[r] = None /\ r \notin shown
                                      /\ \A k \in Request : replayable[k] # r
    /\ \A k \in Request : replayable[k] # None => body[replayable[k]].key = k
    /\ \A x \in filed : /\ pc[x.by] # "idle" /\ x.to = body[x.by].to
                        /\ x.to # None /\ card[x.to] # None

Shape == Records /\ \A r \in Request : InHand(r)

LEMMA NotNone == \A r \in Request : r # None
BY ConstantsAssumption

LEMMA Numbers == /\ CoverageCap \in Nat /\ GtCap \in Nat /\ Cooldown \in Nat
                 /\ MinUserTurns \in Nat /\ MaxInFlight \in Nat \ {0}
BY ConstantsAssumption

\* The kinds of cards.
LEMMA CardKinds ==
    ASSUME NEW c \in Card
    PROVE  /\ c.kind \in {"coverage", "ground_truth", "segment_anchor", "message"}
           /\ c.kind = "coverage" => c.of \in Question
           /\ c.kind = "ground_truth" => c.of \in Field
BY DEF Card

LEMMA NewLocalIsTyped == NewLocal \in Local
BY DEF NewLocal, Local, Maybe

\* Of the dimensions that are open there is a first one.
LEMMA FirstOpen ==
    ASSUME NEW S \in SUBSET Question, S # {}
    PROVE  (CHOOSE p \in S : \A o \in S : p <= o) \in S
<1> DEFINE R == {ss \in Nat \X Nat : ss[1] < ss[2]}
<1>0. IsWellFoundedOn(R, Nat)
  BY NatLessThanWellFounded DEF OpToRel
<1>1. S \subseteq Nat
  BY ConstantsAssumption
<1>2. PICK x \in S : \A y \in S : ~ (<<y, x>> \in R)
  <2> HIDE DEF R
  <2> QED BY <1>0, <1>1, WFMin
<1>3. \A y \in S : x \in Nat /\ y \in Nat /\ ~ (y < x)
  BY <1>1, <1>2
<1>4. \A y \in S : x <= y
  BY <1>3
<1> QED BY <1>4

LEMMA CoverageCardsTyped ==
    ASSUME NEW r \in Request, NEW c \in CoverageCards(r)
    PROVE  /\ c \in Card /\ c.kind = "coverage"
           /\ loc[r].snap.taps < CoverageCap
<1> DEFINE undone == Question \ covered
           q      == CHOOSE p \in undone : \A o \in undone : p <= o
<1>1. /\ loc[r].snap.taps < CoverageCap /\ undone # {}
      /\ c = [kind |-> "coverage", of |-> q]
  BY DEF CoverageCards
<1>2. q \in Question
  <2>1. undone \in SUBSET Question
    OBVIOUS
  <2> HIDE DEF undone
  <2> QED BY <1>1, <2>1, FirstOpen
<1>3. c \in Card
  BY <1>1, <1>2 DEF Card
<1> QED BY <1>1, <1>3

LEMMA FactCardsTyped ==
    ASSUME NEW r \in Request, NEW c \in FactCards(r)
    PROVE  /\ c \in Card /\ c.kind \in {"ground_truth", "segment_anchor"}
           /\ loc[r].snap.gtTaps < GtCap
           /\ c.kind = "ground_truth" => c.of \in Unknown(r)
<1>1. loc[r].snap.gtTaps < GtCap
  BY DEF FactCards
<1>2. \/ \E f \in Unknown(r) : c = [kind |-> "ground_truth", of |-> f]
      \/ c = [kind |-> "segment_anchor", of |-> None]
  BY DEF FactCards
<1>3. Unknown(r) \subseteq Field
  BY DEF Unknown
<1> QED BY <1>1, <1>2, <1>3 DEF Card

-----------------------------------------------------------------------------
(* The inductive invariants.                                                *)

\* Of two requests in flight both are overlapped.
Rivals ==
    /\ IsFiniteSet(InFlight) /\ Cardinality(InFlight) <= MaxInFlight
    /\ \A r, s \in InFlight : r # s => r \in overlapped /\ s \in overlapped

\* The card p waits for its answer when r brings that to card t.
Excused(r, t, p) == ~Undisturbed({r, t, p}) \/ Retry(r) \/ Retried(t)

\* A fact on its way to the client is the one that is pending.
OnItsWay ==
    \A t \in Request : (pc[t] \in Closing /\ t \notin overlapped /\ card[t] # None /\ OfFacts(t))
                       => wm.pendingGt = t

Misfiling ==
    /\ (wm.pendingGt \in shown /\ screen \notin {None, wm.pendingGt} /\ OfFacts(screen))
       => ~Undisturbed({wm.pendingGt, screen}) \/ Retried(screen)
    /\ \A r \in Request :
          (pc[r] = "sidecar" /\ wm.pendingGt \in shown \ {body[r].to})
          => Excused(r, body[r].to, wm.pendingGt)
    /\ \A r \in Request :
          (pc[r] \in Asking /\ loc[r].pending \in shown \ {body[r].to})
          => Excused(r, body[r].to, loc[r].pending)
    /\ \A x \in filed : (x.as # x.to /\ ~x.unseen) => Excused(x.by, x.to, x.as)

\* With no retries, the card on the screen is not the one that was cleared.
NoRetries == \A s \in Request : pc[s] # "idle" => ~Retry(s)
Answering(r) == pc[r] \in Asking \cup {"sidecar", "clear"}

Awaited ==
    NoRetries =>
        /\ (screen # None /\ OfFacts(screen) /\ screen \notin overlapped)
           => wm.pendingGt # None
        /\ \A r \in Request : (Answering(r) /\ screen # None /\ OfFacts(screen))
                              => screen \in overlapped
        /\ \A r \in Request : (pc[r] = "sidecar" /\ Undisturbed({r, body[r].to}))
                              => wm.pendingGt # None
        /\ \A r \in Request :
              (/\ pc[r] \notin Asking \cup {"idle", "sidecar", "failed"}
               /\ AnswersFact(r) /\ body[r].says = "value" /\ Undisturbed({r, body[r].to}))
              => \E x \in filed : x.by = r

FilingInv == TypeInv /\ Shape /\ Rivals /\ OnItsWay /\ Misfiling /\ Awaited

\* An answer to a fact that was filed right, by a request without rivals.
Right(x) == /\ x.as = x.to /\ x.by \notin overlapped
            /\ card[x.to].kind = "ground_truth"

\* It is aside by D: declined there, or told by its value.
Aside(x, D) == \/ card[x.to].of \in D
               \/ card[x.to].of \in told /\ body[x.by].says = "value"

\* Its fact is known or declined, wherever that is looked up, but where the facts
\* could not be read.
Known ==
    \A x \in filed : Right(x) =>
        /\ Aside(x, wm.declined)
        /\ \A s \in Request : pc[s] = "declined" => Aside(x, loc[s].declined)
        /\ \A s \in Request : pc[s] \in Choice => Aside(x, loc[s].snap.declined)
        /\ \A s \in Request :
              (pc[s] = "record" /\ s \notin overlapped /\ loc[s].pick.kind = "ground_truth")
              => loc[s].pick.of # card[x.to].of \/ (s \in blind /\ body[x.by].says = "value")

Repeats == /\ \A x \in again : pc[x[2]] = "done" /\ card[x[1]] # None
           /\ NotAskedAgain

AskingInv == TypeInv /\ Shape /\ Rivals /\ Known /\ Repeats

\* n cards where C are allowed, d above that at most, and the requests P that may
\* add one more.
Room(n, C, P, d) == n < C \/ n + Cardinality(P) <= C + d

Invited   == {c \in Request : card[c] # None /\ card[c].kind = "message"}
Tapping   == {r \in Request : pc[r] \in Choice /\ loc[r].snap.taps < CoverageCap}
Probing   == {r \in Request : pc[r] \in Choice /\ loc[r].snap.gtTaps < GtCap}
Inviting  == {r \in Request : pc[r] \in Choice /\ ~loc[r].snap.invited}

Rooms ==
    /\ Room(wm.taps, CoverageCap, Tapping, Spare)
    /\ Room(wm.gtTaps, GtCap, Probing, Spare)
    /\ IsFiniteSet(Invited) /\ Room(Cardinality(Invited), 1, Inviting, Spare)
    /\ ~wm.invited => Invited = {}
    /\ \A r \in Request : pc[r] \in {"reread", "record"} =>
          /\ loc[r].pick.kind = "coverage" => r \in Tapping
          /\ loc[r].pick.kind \in {"ground_truth", "segment_anchor"} => r \in Probing
          /\ loc[r].pick.kind = "message" => r \in Inviting

CapsInv == TypeInv /\ Shape /\ Rivals /\ Rooms

\* Turns that neither overlap nor fail.
Smooth == overlapped = {} /\ \A r \in Request : pc[r] # "failed"

At(step) == \E s \in Request : pc[s] = step

Anchors ==
    /\ \A r \in Request : pc[r] \in Asking => loc[r].pending = wm.pendingGt
    /\ \A r \in Request : pc[r] = "push" => loc[r].anchor = wm.anchor /\ wm.anchor # None
    /\ (wm.anchor # None /\ wm.anchor = wm.pendingGt) => At("clear")
    /\ \A x \in sent : x[1] \notin unsure =>
                       /\ x[2] # None /\ card[x[2]] # None /\ wm.pendingGt # x[2]
                       /\ wm.anchor = x[2] => At("unanchor")
    /\ \A x, y \in sent : x[2] = y[2] => x = y \/ x[1] \in unsure \/ y[1] \in unsure

Messages ==
    /\ \A r \in Request : pc[r] \in Choice => loc[r].snap.invited = wm.invited
    /\ \A r \in Request : (pc[r] = "record" /\ loc[r].pick.kind = "message") => ~wm.invited
    /\ \A r \in Request : pc[r] \in {"typed", "polish"} => wm.pendingMessage
    /\ wm.pendingMessage => wm.invited
    /\ captured # {} => wm.invited /\ (wm.pendingMessage => At("taken"))
    /\ captured = {} \/ \E r \in Request : captured = {r}

TakingInv == TypeInv /\ Shape /\ Rivals /\ (Smooth => Anchors /\ Messages)

-----------------------------------------------------------------------------
(* Types, step by step.                                                     *)

LEMMA TypesStart == Init => TypeInv
<1> SUFFICES ASSUME Init PROVE TypeInv
  OBVIOUS
<1>1. wm \in Memory
  BY ConstantsAssumption DEF Init, Memory, Maybe
<1>2. body \in [Request -> Body] /\ loc \in [Request -> Local]
  BY NewLocalIsTyped DEF Init, NoBody, Body, Maybe
<1>3. pc \in [Request -> Steps]
  BY DEF Init, Steps, Idle
<1> QED BY <1>1, <1>2, <1>3 DEF Init, TypeInv, Maybe

\* What a request that moves leaves alone.
LEMMA Moves ==
    ASSUME TypeInv, NEW r \in Request, Handle(r)
    PROVE  /\ pc' \in [Request -> Steps]
           /\ \A s \in Request \ {r} : pc'[s] = pc[s] /\ loc'[s] = loc[s]
           /\ pc[r] \notin {"done", "busy", "failed"} /\ pc'[r] # "idle"
           /\ overlapped \subseteq overlapped'
<1> USE DEF TypeInv, Steps, Opening, Choice, Closing, Sidecar, Asking, Idle, Goto, Stop,
            control, client, disk, history, bounds
<1>1. CASE Send(r) \/ Resend(r)
  BY <1>1 DEF Send, Resend, Enters, FirstStep
<1>2. CASE ReadPending(r)
  BY <1>2 DEF ReadPending
<1>3. CASE ReadDeclined(r) \/ AddDeclined(r) \/ FileAnswer(r) \/ ClearPending(r)
  BY <1>3 DEF ReadDeclined, AddDeclined, FileAnswer, ClearPending
<1>4. CASE ReadInvitation(r)
  BY <1>4 DEF ReadInvitation, TurnStep
<1>5. CASE ConsumeCheck(r) \/ StoreMessage(r) \/ ClearInvitation(r)
  BY <1>5 DEF ConsumeCheck, StoreMessage, ClearInvitation, TurnStep
<1>6. CASE Enter(r)
  BY <1>6 DEF Enter
<1>7. CASE AppendUserTurn(r) \/ Classify(r) \/ ReadEmitted(r) \/ Record(r)
  BY <1>7 DEF AppendUserTurn, Classify, ReadEmitted, Record
<1>8. CASE Select(r)
  BY <1>8 DEF Select
<1>9. CASE Respond(r) \/ PushSegment(r) \/ PushFails(r) \/ ClearAnchor(r)
  BY <1>9 DEF Respond, PushSegment, PushFails, ClearAnchor
<1>10. CASE Reply(r) \/ ReplyLost(r) \/ Fails(r)
  BY <1>10 DEF Reply, ReplyLost, Fails, InFlight
<1> QED BY <1>1, <1>2, <1>3, <1>4, <1>5, <1>6, <1>7, <1>8, <1>9, <1>10 DEF Handle

\* Working Memory, when a request moves.
LEMMA MemoryStep ==
    ASSUME TypeInv, Shape, NEW r \in Request, Handle(r)
    PROVE  wm' \in Memory
<1> USE DEF Memory
<1>0. wm \in Memory /\ loc[r] \in Local /\ InHand(r) /\ card \in [Request -> Card \cup {None}]
  BY DEF TypeInv, Shape
<1>1. CASE Send(r) \/ Resend(r)
  BY <1>1, <1>0 DEF Send, Resend, Enters
<1>2. CASE ReadPending(r) \/ ReadDeclined(r)
  BY <1>2, <1>0 DEF ReadPending, ReadDeclined
<1>3. CASE AddDeclined(r)
  <2>1. card[loc[r].pending] \in Card /\ card[loc[r].pending].kind = "ground_truth"
    BY <1>3, <1>0 DEF AddDeclined, InHand, Local, Maybe, Asking
  <2>2. card[loc[r].pending].of \in Field
    BY <2>1, CardKinds
  <2>3. loc[r].declined \subseteq Field
    BY <1>0 DEF Local
  <2> QED BY <2>2, <2>3, <1>3, <1>0 DEF AddDeclined
<1>4. CASE FileAnswer(r)
  <2>1. loc[r].pending \in Maybe
    BY <1>0 DEF Local
  <2>2. wm' = [wm EXCEPT !.anchor = loc[r].pending] \/ wm' = wm
    BY <1>4 DEF FileAnswer
  <2> QED BY <2>1, <2>2, <1>0
<1>5. CASE ClearPending(r) \/ ClearInvitation(r) \/ ClearAnchor(r) \/ ConsumeCheck(r)
  BY <1>5, <1>0 DEF ClearPending, ClearInvitation, ClearAnchor, ConsumeCheck, Maybe
<1>6. CASE ReadInvitation(r) \/ StoreMessage(r) \/ Enter(r) \/ Classify(r) \/ Select(r) \/ ReadEmitted(r)
  BY <1>6, <1>0 DEF ReadInvitation, StoreMessage, Enter, Classify, Select, ReadEmitted
<1>7. CASE AppendUserTurn(r)
  <2>1. wm' = [wm EXCEPT !.userTurns = AtMost(wm.userTurns + 1, MinUserTurns),
                         !.sinceTap = AtMost(wm.sinceTap + 1, Cooldown)]
    BY <1>7 DEF AppendUserTurn
  <2>2. /\ AtMost(wm.userTurns + 1, MinUserTurns) \in Nat
        /\ AtMost(wm.sinceTap + 1, Cooldown) \in Nat
    BY <1>0, Numbers DEF AtMost
  <2> QED BY <2>1, <2>2, <1>0
<1>8. CASE Record(r)
  <2>1. loc[r].pick \in Card /\ wm' = Recorded(r)
    BY <1>8, <1>0 DEF Record, InHand
  <2>2. loc[r].emitted \subseteq Question /\ r \in Maybe
    BY <1>0 DEF Local, Maybe
  <2>3. CASE loc[r].pick.kind = "coverage"
    <3>1. loc[r].pick.of \in Question
      BY <2>1, <2>3, CardKinds
    <3>2. wm' = [wm EXCEPT !.taps = @ + 1, !.emitted = loc[r].emitted \cup {loc[r].pick.of},
                           !.sinceTap = 0]
      BY <2>1, <2>3 DEF Recorded
    <3>3. wm.taps + 1 \in Nat /\ 0 \in Nat
      BY <1>0
    <3>4. loc[r].emitted \cup {loc[r].pick.of} \in SUBSET Question
      BY <3>1, <2>2
    <3> QED BY <3>2, <3>3, <3>4, <1>0
  <2>4. CASE loc[r].pick.kind = "message"
    <3>1. wm' = [wm EXCEPT !.pendingMessage = TRUE, !.typedCheck = TRUE, !.invited = TRUE,
                           !.sinceTap = 0]
      BY <2>1, <2>4 DEF Recorded
    <3> QED BY <3>1, <1>0
  <2>5. CASE loc[r].pick.kind \notin {"coverage", "message"}
    <3>1. wm' = [wm EXCEPT !.gtTaps = @ + 1, !.pendingGt = r, !.sinceTap = 0]
      BY <2>1, <2>5 DEF Recorded
    <3>2. wm.gtTaps + 1 \in Nat /\ 0 \in Nat
      BY <1>0
    <3> QED BY <3>1, <3>2, <2>2, <1>0
  <2> QED BY <2>3, <2>4, <2>5
<1>9. CASE Respond(r) \/ PushSegment(r) \/ PushFails(r) \/ Reply(r) \/ ReplyLost(r) \/ Fails(r)
  BY <1>9, <1>0 DEF Respond, PushSegment, PushFails, Reply, ReplyLost, Fails
<1> QED BY <1>1, <1>2, <1>3, <1>4, <1>5, <1>6, <1>7, <1>8, <1>9 DEF Handle

\* What is chosen at a card's step.
LEMMA Selected ==
    ASSUME TypeInv, NEW r \in Request, Select(r)
    PROVE  \E c \in Card \cup {None} :
              /\ loc' = [loc EXCEPT ![r].pick = c]
              /\ pc'[r] = IF c = None THEN "respond"
                          ELSE IF c.kind = "coverage" THEN "reread" ELSE "record"
              /\ c # None =>
                    \/ c.kind = "coverage" /\ loc[r].snap.taps < CoverageCap
                    \/ /\ c.kind = "ground_truth" /\ loc[r].snap.gtTaps < GtCap
                       /\ c.of \in Unknown(r)
                    \/ c.kind = "segment_anchor" /\ loc[r].snap.gtTaps < GtCap
                    \/ c.kind = "message" /\ ~loc[r].snap.invited
<1>0. pc \in [Request -> Steps]
  BY DEF TypeInv
<1>1. PICK c \in {None} \cup
              IF pc[r] = "coverage" THEN CoverageCards(r)
              ELSE FactCards(r) \cup {[kind |-> "message", of |-> None] :
                                         x \in {1} \cap {IF Invites(r) THEN 1 ELSE 0}} :
          /\ loc' = [loc EXCEPT ![r].pick = c]
          /\ Goto(r, IF c = None THEN "respond" ELSE IF c.kind = "coverage" THEN "reread" ELSE "record")
  BY DEF Select
<1>2. pc'[r] = IF c = None THEN "respond" ELSE IF c.kind = "coverage" THEN "reread" ELSE "record"
  BY <1>1, <1>0 DEF Goto
<1>3. CASE c = None
  BY <1>1, <1>2, <1>3
<1>4. CASE c \in CoverageCards(r)
  <2>1. c \in Card /\ c.kind = "coverage" /\ loc[r].snap.taps < CoverageCap
    BY <1>4, CoverageCardsTyped
  <2> QED BY <2>1, <1>1, <1>2
<1>5. CASE c \in FactCards(r)
  <2>1. /\ c \in Card /\ c.kind \in {"ground_truth", "segment_anchor"}
        /\ loc[r].snap.gtTaps < GtCap
        /\ c.kind = "ground_truth" => c.of \in Unknown(r)
    BY <1>5, FactCardsTyped
  <2> QED BY <2>1, <1>1, <1>2
<1>6. CASE c = [kind |-> "message", of |-> None] /\ Invites(r)
  <2>1. c \in Card /\ c.kind = "message"
    BY <1>6 DEF Card
  <2>2. ~loc[r].snap.invited
    BY <1>6 DEF Invites
  <2> QED BY <2>1, <2>2, <1>1, <1>2
<1>7. \/ c = None \/ c \in CoverageCards(r) \/ c \in FactCards(r)
      \/ c = [kind |-> "message", of |-> None] /\ Invites(r)
  BY <1>1
<1> QED BY <1>3, <1>4, <1>5, <1>6, <1>7

\* The locals of requests, when one moves.
LEMMA LocalsStep ==
    ASSUME TypeInv, NEW r \in Request, Handle(r)
    PROVE  loc' \in [Request -> Local]
<1>0. wm \in Memory /\ loc \in [Request -> Local]
  BY DEF TypeInv
<1>a. loc[r] \in Local
  BY <1>0
<1>b. /\ wm.pendingGt \in Maybe /\ wm.anchor \in Maybe
      /\ wm.declined \subseteq Field /\ wm.emitted \subseteq Question
  BY <1>0 DEF Memory
<1>1. CASE ReadPending(r)
  BY <1>1, <1>0, <1>a, <1>b DEF ReadPending, Local
<1>2. CASE ReadDeclined(r)
  BY <1>2, <1>0, <1>a, <1>b DEF ReadDeclined, Local
<1>3. CASE Classify(r)
  <2>1. loc' = [loc EXCEPT ![r].snap = wm]
    BY <1>3 DEF Classify
  <2> HIDE DEF Memory
  <2> QED BY <2>1, <1>0, <1>a DEF Local
<1>4. CASE Select(r)
  <2>1. PICK c \in Card \cup {None} : loc' = [loc EXCEPT ![r].pick = c]
    BY <1>4, Selected
  <2> QED BY <2>1, <1>0, <1>a DEF Local
<1>5. CASE ReadEmitted(r)
  BY <1>5, <1>0, <1>a, <1>b DEF ReadEmitted, Local
<1>6. CASE Respond(r)
  BY <1>6, <1>0, <1>a, <1>b DEF Respond, Local
<1>7. CASE Enter(r) \/ Reply(r) \/ ReplyLost(r) \/ Fails(r)
  <2>1. loc' = loc \/ loc' = [loc EXCEPT ![r] = NewLocal]
    BY <1>7 DEF Enter, Reply, ReplyLost, Fails, Stop
  <2> QED BY <2>1, <1>0, NewLocalIsTyped
<1>8. CASE Send(r) \/ Resend(r)
  BY <1>8, <1>0 DEF Send, Resend, Enters
<1>9. CASE AddDeclined(r) \/ FileAnswer(r) \/ ClearPending(r) \/ ReadInvitation(r) \/ ConsumeCheck(r)
           \/ StoreMessage(r) \/ ClearInvitation(r) \/ AppendUserTurn(r) \/ Record(r)
           \/ PushSegment(r) \/ PushFails(r) \/ ClearAnchor(r)
  BY <1>9, <1>0 DEF AddDeclined, FileAnswer, ClearPending, ReadInvitation, ConsumeCheck,
     StoreMessage, ClearInvitation, AppendUserTurn, Record, PushSegment, PushFails, ClearAnchor
<1> QED BY <1>1, <1>2, <1>3, <1>4, <1>5, <1>6, <1>7, <1>8, <1>9 DEF Handle

\* A step outside the chat, a read of the facts that fails, or none.
Apart == Observe \/ Cover \/ SubmitMessage \/ (\E r \in Request : LoseFacts(r)) \/ UNCHANGED vars

\* What is known of the subject may grow, and who did not see it.
LEMMA Elsewhere ==
    ASSUME Apart
    PROVE  /\ wm' = wm /\ keyed' = keyed /\ body' = body /\ pc' = pc /\ loc' = loc
           /\ replayable' = replayable /\ card' = card /\ shown' = shown
           /\ screen' = screen /\ filed' = filed /\ sent' = sent
           /\ captured' = captured /\ again' = again /\ overlapped' = overlapped
           /\ told \subseteq told' /\ told' \subseteq told \cup Field
           /\ blind \subseteq blind' /\ blind' \subseteq blind \cup Request /\ unsure' = unsure
<1> USE DEF Outside, vars, disk, control, client, bounds, history
<1>1. CASE Observe
  BY <1>1 DEF Observe
<1>2. CASE Cover \/ SubmitMessage
  BY <1>2 DEF Cover, SubmitMessage
<1>3. CASE UNCHANGED vars
  BY <1>3
<1>4. ASSUME NEW r \in Request, LoseFacts(r)
      PROVE  /\ wm' = wm /\ keyed' = keyed /\ body' = body /\ pc' = pc /\ loc' = loc
             /\ replayable' = replayable /\ card' = card /\ shown' = shown
             /\ screen' = screen /\ filed' = filed /\ sent' = sent
             /\ captured' = captured /\ again' = again /\ overlapped' = overlapped
             /\ told \subseteq told' /\ told' \subseteq told \cup Field
             /\ blind \subseteq blind' /\ blind' \subseteq blind \cup Request /\ unsure' = unsure
  BY <1>4 DEF LoseFacts
<1> QED BY <1>1, <1>2, <1>3, <1>4 DEF Apart

\* A step is one request's, or it is apart from them.
LEMMA Steppers ==
    ASSUME [Next]_vars
    PROVE  (\E r \in Request : Handle(r)) \/ Apart
BY DEF Next, Apart

\* What a request carries is set when it arrives.
LEMMA BodyStep ==
    ASSUME TypeInv, Shape, NEW r \in Request, Handle(r)
    PROVE  /\ body' \in [Request -> Body]
           /\ pc[r] # "idle" => body' = body
           /\ pc[r] = "idle" =>
                 /\ \A s \in Request \ {r} : body'[s] = body[s]
                 /\ Send(r) \/ Resend(r)
                 /\ body'[r].key \in Request
                 /\ body'[r].to # None => card[body'[r].to] # None
                 /\ pc'[r] = FirstStep(body'[r].to)
<1>0. /\ body \in [Request -> Body] /\ screen \in Maybe /\ pc \in [Request -> Steps]
      /\ Records /\ \A s \in Request : InHand(s)
  BY DEF TypeInv, Shape
<1>1. CASE Send(r)
  <2>1. PICK to \in {None, screen}, says \in {"value", "skip", "blank"} :
           /\ body' = [body EXCEPT ![r] = [key |-> r, to |-> to, says |-> says]]
           /\ Goto(r, FirstStep(to))
    BY <1>1 DEF Send
  <2>2. [key |-> r, to |-> to, says |-> says] \in Body
    BY <1>0 DEF Body, Maybe
  <2>3. to # None => card[to] # None
    BY <1>0 DEF Records
  <2>4. body' \in [Request -> Body] /\ \A s \in Request \ {r} : body'[s] = body[s]
    BY <2>1, <2>2, <1>0
  <2>5. body'[r] = [key |-> r, to |-> to, says |-> says] /\ pc'[r] = FirstStep(to)
    BY <2>1, <1>0 DEF Goto
  <2>6. pc[r] = "idle"
    BY <1>1 DEF Send, Enters
  <2> QED BY <2>3, <2>4, <2>5, <2>6, <1>1
<1>2. CASE Resend(r)
  <2>1. PICK o \in Request :
           /\ pc[o] # "idle"
           /\ body' = [body EXCEPT ![r] = body[o]]
           /\ Goto(r, FirstStep(body[o].to))
    BY <1>2 DEF Resend
  <2>2. /\ body[o] \in Body /\ body[o].key \in Request
        /\ body[o].to # None => card[body[o].to] # None
    BY <2>1, <1>0 DEF InHand
  <2>3. /\ body' \in [Request -> Body] /\ \A s \in Request \ {r} : body'[s] = body[s]
        /\ body'[r] = body[o] /\ pc'[r] = FirstStep(body[o].to)
    BY <2>1, <2>2, <1>0 DEF Goto
  <2>4. pc[r] = "idle"
    BY <1>2 DEF Resend, Enters
  <2> QED BY <2>2, <2>3, <2>4, <1>2
<1> USE DEF control, bounds, Idle, InFlight
<1>3. CASE \/ ReadPending(r) \/ ReadDeclined(r) \/ AddDeclined(r) \/ FileAnswer(r)
           \/ ClearPending(r) \/ ReadInvitation(r) \/ ConsumeCheck(r) \/ StoreMessage(r)
           \/ ClearInvitation(r)
  BY <1>3, <1>0 DEF ReadPending, ReadDeclined, AddDeclined, FileAnswer, ClearPending,
     ReadInvitation, ConsumeCheck, StoreMessage, ClearInvitation
<1>4. CASE \/ Enter(r) \/ AppendUserTurn(r) \/ Classify(r) \/ Select(r) \/ ReadEmitted(r)
           \/ Record(r)
  BY <1>4, <1>0 DEF Enter, AppendUserTurn, Classify, Select, ReadEmitted, Record
<1>5. CASE Respond(r) \/ PushSegment(r) \/ PushFails(r) \/ ClearAnchor(r) \/ Reply(r) \/ ReplyLost(r) \/ Fails(r)
  BY <1>5, <1>0 DEF Respond, PushSegment, PushFails, ClearAnchor, Reply, ReplyLost, Fails
<1> QED BY <1>1, <1>2, <1>3, <1>4, <1>5 DEF Handle

\* A card is recorded once, by the request that attaches it.
LEMMA CardStep ==
    ASSUME TypeInv, Shape, NEW r \in Request, Handle(r)
    PROVE  /\ card' \in [Request -> Card \cup {None}]
           /\ pc[r] = "record" =>
                 (\/ /\ Record(r) /\ pc'[r] = "respond" /\ loc' = loc
                     /\ card' = [card EXCEPT ![r] = loc[r].pick]
                  \/ Fails(r) /\ pc'[r] = "failed" /\ card' = card)
           /\ pc[r] # "record" => card' = card
           /\ \A s \in Request \ {r} : card'[s] = card[s]
           /\ \A c \in Maybe : (c # None /\ card[c] # None) => card'[c] = card[c]
<1>0. /\ card \in [Request -> Card \cup {None}] /\ pc \in [Request -> Steps]
      /\ InHand(r) /\ Records
  BY DEF TypeInv, Shape
<1>1. CASE Record(r)
  <2>1. loc[r].pick \in Card /\ pc[r] = "record" /\ card' = [card EXCEPT ![r] = loc[r].pick]
    BY <1>1, <1>0 DEF Record, InHand
  <2>2. pc'[r] = "respond" /\ loc' = loc
    BY <1>1, <1>0 DEF Record, Goto
  <2>3. card[r] = None
    BY <2>1, <1>0 DEF Records, Early, Choice
  <2> QED BY <2>1, <2>2, <2>3, <1>1, <1>0 DEF Maybe
<1>2. ASSUME ~Record(r)
      PROVE  card' = card /\ (pc[r] = "record" => Fails(r) /\ pc'[r] = "failed")
  <2>1. CASE Fails(r)
    BY <2>1, <1>0 DEF Fails, Stop, Goto
  <2>2. CASE \/ Send(r) \/ Resend(r)
             \/ ReadPending(r) \/ ReadDeclined(r) \/ AddDeclined(r) \/ FileAnswer(r)
             \/ ClearPending(r) \/ ReadInvitation(r) \/ ConsumeCheck(r) \/ StoreMessage(r)
             \/ ClearInvitation(r)
    BY <2>2 DEF Send, Resend, Enters, ReadPending, ReadDeclined, AddDeclined, FileAnswer,
       ClearPending, ReadInvitation, ConsumeCheck, StoreMessage, ClearInvitation
  <2>3. CASE \/ Enter(r) \/ AppendUserTurn(r) \/ Classify(r) \/ Select(r) \/ ReadEmitted(r)
             \/ Respond(r) \/ PushSegment(r) \/ PushFails(r) \/ ClearAnchor(r) \/ Reply(r) \/ ReplyLost(r)
    BY <2>3 DEF Enter, AppendUserTurn, Classify, Select, ReadEmitted, Respond, PushSegment, PushFails,
       ClearAnchor, Reply, ReplyLost
  <2> QED BY <2>1, <2>2, <2>3, <1>2 DEF Handle
<1> QED BY <1>0, <1>1, <1>2

\* What a request that moves changes at the client.
LEMMA ClientStep ==
    ASSUME TypeInv, Shape, NEW r \in Request, Handle(r)
    PROVE  \/ shown' = shown /\ screen' = screen
           \/ /\ shown' = shown /\ screen' = None
              /\ Send(r) /\ pc[r] = "idle" /\ body'[r].to = screen
           \/ \E c \in Request :
                 /\ shown' = shown \cup {c}
                 /\ screen' = IF card[c] = None \/ card[c].kind = "coverage" THEN screen ELSE c
                 /\ \/ pc[r] \in {"respond", "reply"} /\ c = r
                    \/ pc[r] = "enter" /\ c = replayable[body[r].key]
<1>0. /\ body \in [Request -> Body] /\ screen \in Maybe /\ pc \in [Request -> Steps]
      /\ replayable \in [Request -> Maybe] /\ InHand(r)
  BY DEF TypeInv, Shape
<1> USE DEF client
<1>1. CASE Send(r)
  <2>1. PICK to \in {None, screen}, says \in {"value", "skip", "blank"} :
           /\ body' = [body EXCEPT ![r] = [key |-> r, to |-> to, says |-> says]]
           /\ screen' = IF to = None THEN screen ELSE None
    BY <1>1 DEF Send
  <2>2. body'[r].to = to
    BY <2>1, <1>0
  <2>3. shown' = shown /\ pc[r] = "idle"
    BY <1>1 DEF Send, Enters
  <2> QED BY <2>1, <2>2, <2>3, <1>1
<1>2. CASE Enter(r)
  <2>1. CASE Receives(replayable[body[r].key]) /\ replayable[body[r].key] # None
    <3>1. replayable[body[r].key] \in Request
      <4>1. pc[r] = "enter"
        BY <1>2 DEF Enter
      <4>2. body[r].key \in Request
        BY <4>1, <1>0 DEF InHand
      <4> QED BY <4>2, <2>1, <1>0 DEF Maybe
    <3> QED BY <3>1, <2>1, <1>2 DEF Enter, Receives
  <2>2. CASE UNCHANGED client
    BY <2>2
  <2> QED BY <2>1, <2>2, <1>2 DEF Enter
<1>3. CASE Respond(r) \/ Reply(r)
  BY <1>3 DEF Respond, Reply, Receives
<1>4. CASE \/ Resend(r)
           \/ ReadPending(r) \/ ReadDeclined(r) \/ AddDeclined(r) \/ FileAnswer(r)
           \/ ClearPending(r) \/ ReadInvitation(r) \/ ConsumeCheck(r) \/ StoreMessage(r)
           \/ ClearInvitation(r)
  BY <1>4 DEF Resend, Enters, ReadPending, ReadDeclined, AddDeclined, FileAnswer,
     ClearPending, ReadInvitation, ConsumeCheck, StoreMessage, ClearInvitation
<1>5. CASE \/ AppendUserTurn(r) \/ Classify(r) \/ Select(r) \/ ReadEmitted(r)
           \/ Record(r) \/ PushSegment(r) \/ PushFails(r) \/ ClearAnchor(r) \/ ReplyLost(r) \/ Fails(r)
  BY <1>5 DEF AppendUserTurn, Classify, Select, ReadEmitted, Record, PushSegment, PushFails,
     ClearAnchor, ReplyLost, Fails
<1> QED BY <1>1, <1>2, <1>3, <1>4, <1>5 DEF Handle

\* The cached response of a key is that of a request that carries it.
LEMMA CacheStep ==
    ASSUME TypeInv, NEW r \in Request, Handle(r)
    PROVE  \/ replayable' = replayable
           \/ /\ pc[r] = "reply" /\ pc'[r] = "done"
              /\ replayable' = [replayable EXCEPT ![body[r].key] = r]
<1>0. pc \in [Request -> Steps]
  BY DEF TypeInv
<1>1. CASE Reply(r) \/ ReplyLost(r)
  BY <1>1, <1>0 DEF Reply, ReplyLost, Stop, Goto
<1>2. CASE \/ Send(r) \/ Resend(r)
           \/ ReadPending(r) \/ ReadDeclined(r) \/ AddDeclined(r) \/ FileAnswer(r)
           \/ ClearPending(r) \/ ReadInvitation(r) \/ ConsumeCheck(r) \/ StoreMessage(r)
           \/ ClearInvitation(r)
  BY <1>2 DEF Send, Resend, Enters, ReadPending, ReadDeclined, AddDeclined, FileAnswer,
     ClearPending, ReadInvitation, ConsumeCheck, StoreMessage, ClearInvitation
<1>3. CASE \/ Enter(r) \/ AppendUserTurn(r) \/ Classify(r) \/ Select(r) \/ ReadEmitted(r)
           \/ Record(r) \/ Respond(r) \/ PushSegment(r) \/ PushFails(r) \/ ClearAnchor(r) \/ Fails(r)
  BY <1>3 DEF Enter, AppendUserTurn, Classify, Select, ReadEmitted, Record, Respond,
     PushSegment, PushFails, ClearAnchor, Fails
<1> QED BY <1>1, <1>2, <1>3 DEF Handle

\* An answer is filed, and a fact with it, at two steps.
LEMMA FiledStep ==
    ASSUME TypeInv, NEW r \in Request, Handle(r)
    PROVE  \/ /\ filed' = filed /\ told' = told
              /\ ~ (pc[r] \in {"declined", "file"} /\ pc'[r] = "clear")
           \/ /\ filed' = filed \cup {[by |-> r, to |-> body[r].to, as |-> loc[r].pending,
                                       unseen |-> loc[r].pending \notin shown]}
              /\ shown' = shown /\ card' = card /\ overlapped' = overlapped
              /\ pc'[r] = "clear"
              /\ \/ AddDeclined(r) /\ pc[r] = "declined" /\ told' = told
                 \/ /\ FileAnswer(r) /\ pc[r] = "file"
                    /\ \/ card[loc[r].pending].kind = "segment_anchor" /\ told' = told
                       \/ /\ card[loc[r].pending].kind # "segment_anchor"
                          /\ told' = told \cup {card[loc[r].pending].of}
<1>0. pc \in [Request -> Steps]
  BY DEF TypeInv
<1> USE DEF history, disk, client
<1>1. CASE AddDeclined(r)
  BY <1>1, <1>0 DEF AddDeclined, Filed, Goto
<1>2. CASE FileAnswer(r)
  BY <1>2, <1>0 DEF FileAnswer, Filed, Goto
<1>3. CASE \/ Send(r) \/ Resend(r)
           \/ ReadPending(r) \/ ReadDeclined(r)
           \/ ClearPending(r) \/ ReadInvitation(r) \/ ConsumeCheck(r) \/ StoreMessage(r)
           \/ ClearInvitation(r)
  BY <1>3 DEF Send, Resend, Enters, ReadPending, ReadDeclined,
     ClearPending, ReadInvitation, ConsumeCheck, StoreMessage, ClearInvitation
<1>4. CASE \/ Enter(r) \/ AppendUserTurn(r) \/ Classify(r) \/ Select(r) \/ ReadEmitted(r)
           \/ Record(r) \/ Respond(r) \/ PushSegment(r) \/ PushFails(r) \/ ClearAnchor(r)
           \/ Reply(r) \/ ReplyLost(r)
  BY <1>4 DEF Enter, AppendUserTurn, Classify, Select, ReadEmitted, Record, Respond,
     PushSegment, PushFails, ClearAnchor, Reply, ReplyLost
<1>5. CASE Fails(r)
  BY <1>5, <1>0 DEF Fails, Stop, Goto
<1> QED BY <1>1, <1>2, <1>3, <1>4, <1>5 DEF Handle

\* The histories of cards, anchors and messages.
LEMMA HistoryStep ==
    ASSUME TypeInv, NEW r \in Request, Handle(r)
    PROVE  /\ \/ again' = again
              \/ /\ Record(r) /\ pc[r] = "record" /\ pc'[r] = "respond"
                 /\ again' = again \cup {<<r, a>> : a \in {b \in Request :
                       pc[b] = "done" /\ AnswersFact(b) /\ card[body[b].to] = loc[r].pick}}
           /\ \/ sent' = sent
              \/ /\ pc[r] = "push" /\ pc'[r] = "unanchor"
                 /\ sent' = sent \cup {<<r, loc[r].anchor>>} /\ wm' = wm
              \/ /\ pc[r] = "push" /\ pc'[r] = "reply" /\ unsure' = unsure \cup {r}
                 /\ sent' = sent \cup {<<r, loc[r].anchor>>} /\ wm' = wm
           /\ blind' = blind /\ unsure \subseteq unsure' /\ unsure' \subseteq unsure \cup {r}
           /\ \/ captured' = captured
              \/ /\ pc[r] = "polish" /\ pc'[r] = "taken"
                 /\ captured' = captured \cup {r} /\ wm' = wm
<1>0. pc \in [Request -> Steps]
  BY DEF TypeInv
<1> USE DEF history
<1>1. CASE Record(r)
  BY <1>1, <1>0 DEF Record, Goto
<1>2. CASE PushSegment(r)
  BY <1>2, <1>0 DEF PushSegment, Goto
<1>6. CASE PushFails(r)
  BY <1>6, <1>0 DEF PushFails, Goto
<1>3. CASE StoreMessage(r)
  BY <1>3, <1>0 DEF StoreMessage, Goto
<1>4. CASE \/ Send(r) \/ Resend(r)
           \/ ReadPending(r) \/ ReadDeclined(r) \/ AddDeclined(r) \/ FileAnswer(r)
           \/ ClearPending(r) \/ ReadInvitation(r) \/ ConsumeCheck(r)
           \/ ClearInvitation(r)
  BY <1>4 DEF Send, Resend, Enters, ReadPending, ReadDeclined, AddDeclined, FileAnswer,
     Filed, ClearPending, ReadInvitation, ConsumeCheck, ClearInvitation
<1>5. CASE \/ Enter(r) \/ AppendUserTurn(r) \/ Classify(r) \/ Select(r) \/ ReadEmitted(r)
           \/ Respond(r) \/ ClearAnchor(r) \/ Reply(r) \/ ReplyLost(r) \/ Fails(r)
  BY <1>5 DEF Enter, AppendUserTurn, Classify, Select, ReadEmitted, Respond,
     ClearAnchor, Reply, ReplyLost, Fails
<1> QED BY <1>1, <1>2, <1>3, <1>4, <1>5, <1>6 DEF Handle

\* The types of the rest.
LEMMA TypesStep == TypeInv /\ Shape /\ [Next]_vars => TypeInv'
<1> SUFFICES ASSUME TypeInv, Shape, [Next]_vars
             PROVE  TypeInv'
  OBVIOUS
<1>1. CASE Apart
  BY <1>1, Elsewhere DEF TypeInv
<1>2. ASSUME NEW r \in Request, Handle(r)
      PROVE  TypeInv'
  <2>0. /\ shown \subseteq Request /\ screen \in Maybe /\ told \subseteq Field
        /\ replayable \in [Request -> Maybe] /\ card \in [Request -> Card \cup {None}]
        /\ body \in [Request -> Body] /\ loc \in [Request -> Local] /\ InHand(r)
        /\ pc \in [Request -> Steps]
    BY DEF TypeInv, Shape
  <2>1. wm' \in Memory
    BY <1>2, MemoryStep
  <2>2. loc' \in [Request -> Local]
    BY <1>2, LocalsStep
  <2>3. pc' \in [Request -> Steps]
    BY <1>2, Moves
  <2>4. body' \in [Request -> Body]
    BY <1>2, BodyStep
  <2>5. card' \in [Request -> Card \cup {None}]
    BY <1>2, CardStep
  <2>6. shown' \subseteq Request /\ screen' \in Maybe
    <3>1. CASE shown' = shown /\ screen' \in {None, screen}
      BY <3>1, <2>0 DEF Maybe
    <3>2. ASSUME NEW c \in Request, shown' = shown \cup {c},
                 screen' = IF card[c] = None \/ card[c].kind = "coverage" THEN screen ELSE c
          PROVE  shown' \subseteq Request /\ screen' \in Maybe
      BY <3>2, <2>0 DEF Maybe
    <3> QED BY <3>1, <3>2, <1>2, ClientStep
  <2>7. replayable' \in [Request -> Maybe]
    BY <1>2, <2>0, CacheStep DEF Maybe
  <2>8. told' \in SUBSET Field
    <3>1. CASE told' = told
      BY <3>1, <2>0
    <3>2. CASE FileAnswer(r) /\ pc[r] = "file" /\ card[loc[r].pending].kind # "segment_anchor"
               /\ told' = told \cup {card[loc[r].pending].of}
      <4>1. loc[r].pending \in Request
        BY <3>2, <2>0 DEF InHand, Asking, Local, Maybe
      <4>2. card[loc[r].pending] \in Card /\ card[loc[r].pending].kind = "ground_truth"
        BY <4>1, <3>2, <2>0 DEF InHand, Asking, OfFacts
      <4> QED BY <4>2, <3>2, <2>0, CardKinds
    <3> QED BY <3>1, <3>2, <1>2, FiledStep
  <2>9. filed' \in SUBSET [by : Request, to : Maybe, as : Maybe, unseen : BOOLEAN]
    <3>1. [by |-> r, to |-> body[r].to, as |-> loc[r].pending,
           unseen |-> loc[r].pending \notin shown]
             \in [by : Request, to : Maybe, as : Maybe, unseen : BOOLEAN]
      <4>1. body[r].to \in Maybe /\ loc[r].pending \in Maybe
        BY <2>0 DEF Body, Local
      <4> QED BY <4>1
    <3>2. filed \subseteq [by : Request, to : Maybe, as : Maybe, unseen : BOOLEAN]
      BY DEF TypeInv
    <3>3. \/ filed' = filed
          \/ filed' = filed \cup {[by |-> r, to |-> body[r].to, as |-> loc[r].pending,
                                  unseen |-> loc[r].pending \notin shown]}
      BY <1>2, FiledStep
    <3> DEFINE new == [by |-> r, to |-> body[r].to, as |-> loc[r].pending,
                       unseen |-> loc[r].pending \notin shown]
    <3>4. filed' = filed \/ filed' = filed \cup {new}
      BY <3>3
    <3>5. new \in [by : Request, to : Maybe, as : Maybe, unseen : BOOLEAN]
      BY <3>1
    <3> HIDE DEF new
    <3> QED BY <3>2, <3>4, <3>5
  <2>10. /\ again' \in SUBSET (Request \X Request)
         /\ sent' \in SUBSET (Request \X Maybe)
         /\ captured' \in SUBSET Request
    <3>1. loc[r].anchor \in Maybe
      BY <2>0 DEF Local
    <3>2. again \subseteq Request \X Request /\ sent \subseteq Request \X Maybe /\ captured \subseteq Request
      BY DEF TypeInv
    <3>3. again' \subseteq Request \X Request
      BY <3>2, <1>2, HistoryStep
    <3>4. sent' \subseteq Request \X Maybe
      BY <3>1, <3>2, <1>2, HistoryStep
    <3>5. captured' \subseteq Request
      BY <3>2, <1>2, HistoryStep
    <3> QED BY <3>3, <3>4, <3>5
  <2>11. keyed' \in BOOLEAN /\ overlapped' \in SUBSET Request
    <3>1. keyed \in BOOLEAN /\ overlapped \in SUBSET Request
      BY DEF TypeInv
    <3> USE DEF control, Idle
    <3>2. CASE Send(r) \/ Resend(r)
      BY <3>1, <3>2 DEF Send, Resend, Enters, InFlight
    <3>3. CASE \/ ReadPending(r) \/ ReadDeclined(r) \/ AddDeclined(r) \/ FileAnswer(r)
               \/ ClearPending(r) \/ ReadInvitation(r) \/ ConsumeCheck(r) \/ StoreMessage(r)
               \/ ClearInvitation(r)
      BY <3>1, <3>3 DEF ReadPending, ReadDeclined, AddDeclined, FileAnswer,
         ClearPending, ReadInvitation, ConsumeCheck, StoreMessage, ClearInvitation
    <3>4. CASE \/ Enter(r) \/ AppendUserTurn(r) \/ Classify(r) \/ Select(r) \/ ReadEmitted(r)
               \/ Record(r)
      BY <3>1, <3>4 DEF Enter, AppendUserTurn, Classify, Select, ReadEmitted, Record
    <3>5. CASE \/ Respond(r) \/ PushSegment(r) \/ PushFails(r) \/ ClearAnchor(r) \/ Reply(r)
               \/ ReplyLost(r) \/ Fails(r)
      BY <3>1, <3>5 DEF Respond, PushSegment, PushFails, ClearAnchor, Reply, ReplyLost, Fails
    <3> QED BY <3>2, <3>3, <3>4, <3>5, <1>2 DEF Handle
  <2>12. blind' \in SUBSET Request /\ unsure' \in SUBSET Request
    <3>1. blind \subseteq Request /\ unsure \subseteq Request
      BY DEF TypeInv
    <3> QED BY <3>1, <1>2, HistoryStep
  <2> QED BY <2>1, <2>2, <2>3, <2>4, <2>5, <2>6, <2>7, <2>8, <2>9, <2>10, <2>11, <2>12 DEF TypeInv
<1> QED BY <1>1, <1>2, Steppers

-----------------------------------------------------------------------------
(* What happens to Working Memory and to the locals.                        *)

\* The fields of Working Memory that the invariants are about.
Fields(w) == <<w.pendingGt, w.anchor, w.declined, w.pendingMessage, w.invited, w.taps, w.gtTaps>>

\* The steps that write one of them.
Writes == {<<"clear", "invitation">>, <<"unanchor", "reply">>, <<"declined", "clear">>,
           <<"taken", "enter">>, <<"taken", "append">>, <<"record", "respond">>}

LEMMA MemoryCases ==
    ASSUME TypeInv, NEW r \in Request, Handle(r)
    PROVE  \/ Fields(wm') = Fields(wm) /\ <<pc[r], pc'[r]>> \notin Writes
           \/ /\ pc[r] = "clear" /\ pc'[r] = "invitation"
              /\ wm' = [wm EXCEPT !.pendingGt = None]
           \/ /\ pc[r] = "file" /\ pc'[r] = "clear" /\ card[loc[r].pending].kind = "segment_anchor"
              /\ wm' = [wm EXCEPT !.anchor = loc[r].pending]
           \/ /\ pc[r] = "unanchor" /\ pc'[r] = "reply"
              /\ wm' = [wm EXCEPT !.anchor = None]
           \/ /\ pc[r] = "declined" /\ pc'[r] = "clear"
              /\ wm' = [wm EXCEPT !.declined = loc[r].declined \cup {card[loc[r].pending].of}]
           \/ /\ pc[r] = "taken" /\ pc'[r] \in {"enter", "append"}
              /\ wm' = [wm EXCEPT !.pendingMessage = FALSE]
           \/ /\ pc[r] = "record" /\ pc'[r] = "respond"
              /\ wm' = Recorded(r)
<1>0. pc \in [Request -> Steps] /\ wm \in Memory
  BY DEF TypeInv
<1>1. CASE ClearPending(r)
  BY <1>1, <1>0 DEF ClearPending, Goto
<1>2. CASE FileAnswer(r)
  <2>1. pc[r] = "file" /\ pc'[r] = "clear"
    BY <1>2, <1>0 DEF FileAnswer, Goto
  <2>2. CASE card[loc[r].pending].kind = "segment_anchor"
    BY <2>1, <2>2, <1>2 DEF FileAnswer
  <2>3. CASE card[loc[r].pending].kind # "segment_anchor"
    BY <2>1, <2>3, <1>2 DEF FileAnswer, Writes
  <2> QED BY <2>2, <2>3
<1>3. CASE ClearAnchor(r)
  BY <1>3, <1>0 DEF ClearAnchor, Goto
<1>4. CASE AddDeclined(r)
  BY <1>4, <1>0 DEF AddDeclined, Goto
<1>5. CASE ClearInvitation(r)
  BY <1>5, <1>0 DEF ClearInvitation, Goto, TurnStep
<1>6. CASE Record(r)
  BY <1>6, <1>0 DEF Record, Goto
<1>7. CASE ConsumeCheck(r)
  <2>1. wm' = [wm EXCEPT !.typedCheck = FALSE]
    BY <1>7 DEF ConsumeCheck
  <2>2. Fields(wm') = Fields(wm)
    BY <2>1, <1>0 DEF Fields, Memory
  <2> QED BY <2>2, <1>7 DEF ConsumeCheck, Writes
<1>8. CASE AppendUserTurn(r)
  <2>1. wm' = [wm EXCEPT !.userTurns = AtMost(@ + 1, MinUserTurns),
                         !.sinceTap = AtMost(@ + 1, Cooldown)]
    BY <1>8 DEF AppendUserTurn
  <2>2. Fields(wm') = Fields(wm)
    BY <2>1, <1>0 DEF Fields, Memory
  <2> QED BY <2>2, <1>8 DEF AppendUserTurn, Writes
<1>9. ASSUME wm' = wm, <<pc[r], pc'[r]>> \notin Writes
      PROVE  Fields(wm') = Fields(wm) /\ <<pc[r], pc'[r]>> \notin Writes
  BY <1>9
<1> USE DEF Writes
<1>10. CASE Send(r) \/ Resend(r) \/ ReadPending(r) \/ ReadDeclined(r) \/ ReadInvitation(r)
            \/ StoreMessage(r)
  BY <1>10, <1>9 DEF Send, Resend, Enters, ReadPending, ReadDeclined, ReadInvitation, StoreMessage
<1>11. CASE Enter(r) \/ Classify(r) \/ Select(r) \/ ReadEmitted(r) \/ Respond(r) \/ PushSegment(r)
            \/ PushFails(r)
  BY <1>11, <1>9 DEF Enter, Classify, Select, ReadEmitted, Respond, PushSegment, PushFails
<1>12. CASE Reply(r) \/ ReplyLost(r)
  BY <1>12, <1>9 DEF Reply, ReplyLost
<1>13. CASE Fails(r)
  BY <1>13, <1>9, <1>0 DEF Fails, Stop, Goto
<1> QED BY <1>1, <1>2, <1>3, <1>4, <1>5, <1>6, <1>7, <1>8, <1>10, <1>11, <1>12, <1>13 DEF Handle

\* What each kind of card does to Working Memory.
LEMMA RecordedFields ==
    ASSUME TypeInv, NEW r \in Request, wm' = Recorded(r)
    PROVE  LET k == loc[r].pick.kind
           IN  /\ wm'.anchor = wm.anchor /\ wm'.declined = wm.declined
               /\ wm'.pendingGt = IF k \in {"coverage", "message"} THEN wm.pendingGt ELSE r
               /\ wm'.gtTaps = IF k \in {"coverage", "message"} THEN wm.gtTaps ELSE wm.gtTaps + 1
               /\ wm'.taps = IF k = "coverage" THEN wm.taps + 1 ELSE wm.taps
               /\ k # "message" => wm'.pendingMessage = wm.pendingMessage /\ wm'.invited = wm.invited
               /\ k = "message" => wm'.pendingMessage = TRUE /\ wm'.invited = TRUE
<1>0. wm \in Memory
  BY DEF TypeInv
<1>1. CASE loc[r].pick.kind = "coverage"
  <2>1. wm' = [wm EXCEPT !.taps = @ + 1, !.emitted = loc[r].emitted \cup {loc[r].pick.of},
                         !.sinceTap = 0]
    BY <1>1 DEF Recorded
  <2> QED BY <2>1, <1>0, <1>1 DEF Memory
<1>2. CASE loc[r].pick.kind = "message"
  <2>1. wm' = [wm EXCEPT !.pendingMessage = TRUE, !.typedCheck = TRUE, !.invited = TRUE,
                         !.sinceTap = 0]
    BY <1>2 DEF Recorded
  <2> QED BY <2>1, <1>0, <1>2 DEF Memory
<1>3. CASE loc[r].pick.kind \notin {"coverage", "message"}
  <2>1. wm' = [wm EXCEPT !.gtTaps = @ + 1, !.pendingGt = r, !.sinceTap = 0]
    BY <1>3 DEF Recorded
  <2> QED BY <2>1, <1>0, <1>3 DEF Memory
<1> QED BY <1>1, <1>2, <1>3

\* The steps of a request, and what they read.
Onward(r) ==
    \/ pc[r] = "idle" /\ pc'[r] \in {"sidecar", "invitation"} /\ loc' = loc
    \/ /\ pc[r] = "sidecar" /\ wm.pendingGt # None
       /\ loc' = [loc EXCEPT ![r].pending = wm.pendingGt]
       /\ \/ pc'[r] = "file" /\ body[r].says = "value"
          \/ pc'[r] = "decline" /\ body[r].says = "skip" /\ card[wm.pendingGt].kind = "ground_truth"
          \/ pc'[r] = "clear" /\ body[r].says # "value"
    \/ pc[r] = "sidecar" /\ pc'[r] = "invitation" /\ wm.pendingGt = None /\ loc' = loc
    \/ /\ pc[r] = "decline" /\ pc'[r] = "declined"
       /\ loc' = [loc EXCEPT ![r].declined = wm.declined]
    \/ pc[r] \in {"declined", "file"} /\ pc'[r] = "clear" /\ loc' = loc
    \/ pc[r] = "clear" /\ pc'[r] = "invitation" /\ loc' = loc
    \/ pc[r] = "invitation" /\ pc'[r] \in {"enter", "append"} /\ loc' = loc
    \/ /\ pc[r] = "invitation" /\ pc'[r] \in {"taken", "polish", "typed"} /\ loc' = loc
       /\ wm.pendingMessage
    \/ pc[r] = "typed" /\ pc'[r] \in {"polish", "enter", "append"} /\ loc' = loc
    \/ pc[r] = "polish" /\ pc'[r] = "taken" /\ loc' = loc
    \/ pc[r] = "taken" /\ pc'[r] \in {"enter", "append"} /\ loc' = loc
    \/ pc[r] = "enter" /\ pc'[r] = "append" /\ loc' = loc
    \/ pc[r] = "append" /\ pc'[r] = "classify" /\ loc' = loc
    \/ /\ pc[r] = "classify" /\ pc'[r] \in {"coverage", "facts"}
       /\ loc' = [loc EXCEPT ![r].snap = wm]
    \/ /\ pc[r] \in {"coverage", "facts"} /\ pc'[r] \in {"reread", "record", "respond"}
       /\ Select(r)
    \/ /\ pc[r] = "reread" /\ pc'[r] = "record"
       /\ loc' = [loc EXCEPT ![r].emitted = wm.emitted]
    \/ pc[r] = "record" /\ pc'[r] = "respond" /\ loc' = loc
    \/ /\ pc[r] = "respond" /\ pc'[r] \in {"push", "reply"}
       /\ loc' = [loc EXCEPT ![r].anchor = wm.anchor]
       /\ pc'[r] = "push" => wm.anchor # None
    \/ pc[r] = "push" /\ pc'[r] \in {"unanchor", "reply"} /\ loc' = loc
    \/ pc[r] = "unanchor" /\ pc'[r] = "reply" /\ loc' = loc

Ends(r) ==
    /\ loc' = [loc EXCEPT ![r] = NewLocal]
    /\ \/ pc'[r] = "failed" /\ pc[r] # "idle"
       \/ pc'[r] = "busy" /\ pc[r] = "enter"
       \/ pc'[r] = "done" /\ pc[r] = "reply"
       \/ pc'[r] = "done" /\ pc[r] = "enter" /\ replayable[body[r].key] # None

LEMMA Progress ==
    ASSUME TypeInv, NEW r \in Request, Handle(r)
    PROVE  Onward(r) \/ Ends(r)
<1>0. pc \in [Request -> Steps]
  BY DEF TypeInv
<1> USE DEF control, Goto, Stop
<1>1. CASE Send(r) \/ Resend(r)
  BY <1>0, <1>1 DEF Send, Resend, Enters, FirstStep, Onward
<1>2. CASE ReadPending(r)
  <2>1. CASE wm.pendingGt # None
    BY <1>0, <1>2, <2>1 DEF ReadPending, Onward
  <2>2. CASE wm.pendingGt = None
    BY <1>0, <1>2, <2>2 DEF ReadPending, Onward
  <2> QED BY <2>1, <2>2
<1>3. CASE ReadDeclined(r) \/ AddDeclined(r) \/ FileAnswer(r) \/ ClearPending(r)
  BY <1>0, <1>3 DEF ReadDeclined, AddDeclined, FileAnswer, ClearPending, Onward
<1>4. CASE ReadInvitation(r)
  <2>1. loc' = loc /\ pc[r] = "invitation"
    BY <1>4 DEF ReadInvitation
  <2>2. \/ pc'[r] \in {"enter", "append"}
        \/ pc'[r] \in {"taken", "polish", "typed"} /\ wm.pendingMessage
    BY <1>0, <1>4 DEF ReadInvitation, TurnStep
  <2> QED BY <2>1, <2>2 DEF Onward
<1>5. CASE ConsumeCheck(r) \/ StoreMessage(r) \/ ClearInvitation(r)
  BY <1>0, <1>5 DEF ConsumeCheck, StoreMessage, ClearInvitation, TurnStep, Onward
<1>6. CASE Enter(r)
  <2>1. \/ pc'[r] = "done" /\ loc' = [loc EXCEPT ![r] = NewLocal] /\ replayable[body[r].key] # None
        \/ pc'[r] = "busy" /\ loc' = [loc EXCEPT ![r] = NewLocal]
        \/ pc'[r] = "append" /\ loc' = loc
    BY <1>0, <1>6 DEF Enter
  <2>2. pc[r] = "enter"
    BY <1>6 DEF Enter
  <2> QED BY <2>1, <2>2 DEF Onward, Ends
<1>7. CASE AppendUserTurn(r) \/ Classify(r) \/ ReadEmitted(r) \/ Record(r)
  BY <1>0, <1>7 DEF AppendUserTurn, Classify, ReadEmitted, Record, Onward
<1>8. CASE Select(r)
  <2>1. pc[r] \in {"coverage", "facts"}
    BY <1>8 DEF Select
  <2>2. pc'[r] \in {"reread", "record", "respond"}
    BY <1>8, Selected
  <2> QED BY <2>1, <2>2, <1>8 DEF Onward
<1>9. CASE Respond(r) \/ PushSegment(r) \/ PushFails(r) \/ ClearAnchor(r)
  BY <1>0, <1>9 DEF Respond, PushSegment, PushFails, ClearAnchor, Onward
<1>10. CASE Reply(r) \/ ReplyLost(r)
  BY <1>0, <1>10 DEF Reply, ReplyLost, Ends
<1>11. CASE Fails(r)
  BY <1>0, <1>11 DEF Fails, InFlight, Idle, Ends
<1> QED BY <1>1, <1>2, <1>3, <1>4, <1>5, <1>6, <1>7, <1>8, <1>9, <1>10, <1>11 DEF Handle

\* What a choice is made from is read at one step.
LEMMA SnapStep ==
    ASSUME TypeInv, NEW r \in Request, Handle(r), pc'[r] \in Choice
    PROVE  \/ pc[r] = "classify" /\ loc'[r].snap = wm
           \/ pc[r] \in Choice \ {"record"} /\ loc'[r].snap = loc[r].snap
<1>0. loc \in [Request -> Local]
  BY DEF TypeInv
<1>1. Onward(r) \/ Ends(r)
  BY Progress
<1>2. CASE pc[r] = "classify"
  <2>1. loc' = [loc EXCEPT ![r].snap = wm]
    BY <1>2, <1>1 DEF Onward, Ends, Choice
  <2>2. loc'[r].snap = wm
    BY <2>1, <1>0 DEF Local
  <2> QED BY <2>2, <1>2
<1>3. CASE pc[r] \in Choice
  <2>1. /\ pc[r] # "record"
        /\ \/ Select(r)
           \/ loc' = [loc EXCEPT ![r].emitted = wm.emitted]
    BY <1>3, <1>1 DEF Onward, Ends, Choice
  <2>2. loc'[r].snap = loc[r].snap
    BY <2>1, <1>0, Selected DEF Local
  <2> QED BY <2>1, <2>2, <1>3
<1>4. pc[r] = "classify" \/ pc[r] \in Choice
  BY <1>1 DEF Onward, Ends, Choice
<1> QED BY <1>2, <1>3, <1>4

\* And the card to record is chosen from it at one step.
LEMMA PickStep ==
    ASSUME TypeInv, Shape, NEW r \in Request, Handle(r), pc'[r] \in {"reread", "record"}
    PROVE  \/ /\ pc[r] = "reread" /\ loc'[r].pick = loc[r].pick
              /\ loc[r].pick.kind = "coverage"
           \/ /\ pc[r] \in {"coverage", "facts"}
              /\ \/ loc'[r].pick.kind = "coverage" /\ loc[r].snap.taps < CoverageCap
                 \/ /\ loc'[r].pick.kind = "ground_truth" /\ loc[r].snap.gtTaps < GtCap
                    /\ loc'[r].pick.of \in Unknown(r)
                 \/ loc'[r].pick.kind = "segment_anchor" /\ loc[r].snap.gtTaps < GtCap
                 \/ loc'[r].pick.kind = "message" /\ ~loc[r].snap.invited
<1>0. loc \in [Request -> Local] /\ InHand(r)
  BY DEF TypeInv, Shape
<1>1. \/ pc[r] \in {"coverage", "facts"} /\ Select(r)
      \/ pc[r] = "reread" /\ loc' = [loc EXCEPT ![r].emitted = wm.emitted]
  BY Progress DEF Onward, Ends
<1>2. CASE pc[r] = "reread" /\ loc' = [loc EXCEPT ![r].emitted = wm.emitted]
  <2>1. loc'[r].pick = loc[r].pick
    BY <1>2, <1>0 DEF Local
  <2> QED BY <2>1, <1>0, <1>2 DEF InHand
<1>3. CASE pc[r] \in {"coverage", "facts"} /\ Select(r)
  <2>1. PICK c \in Card \cup {None} :
           /\ loc' = [loc EXCEPT ![r].pick = c]
           /\ pc'[r] = IF c = None THEN "respond"
                       ELSE IF c.kind = "coverage" THEN "reread" ELSE "record"
           /\ c # None =>
                 \/ c.kind = "coverage" /\ loc[r].snap.taps < CoverageCap
                 \/ /\ c.kind = "ground_truth" /\ loc[r].snap.gtTaps < GtCap
                    /\ c.of \in Unknown(r)
                 \/ c.kind = "segment_anchor" /\ loc[r].snap.gtTaps < GtCap
                 \/ c.kind = "message" /\ ~loc[r].snap.invited
    BY <1>3, Selected
  <2>2. loc'[r].pick = c
    BY <2>1, <1>0 DEF Local
  <2> QED BY <2>1, <2>2, <1>3
<1> QED BY <1>1, <1>2, <1>3

-----------------------------------------------------------------------------
(* What requests have in hand, and what was recorded.                       *)

LEMMA ShapeStart == Init => Shape
<1> SUFFICES ASSUME Init PROVE Shape
  OBVIOUS
<1>1. \A r \in Request : pc[r] = "idle" /\ body[r] = NoBody /\ card[r] = None
  BY DEF Init
<1>2. \A r \in Request : InHand(r)
  BY <1>1 DEF InHand, Asking, Choice
<1>3. Records
  BY <1>1, NotNone DEF Init, Records
<1> QED BY <1>2, <1>3 DEF Shape

\* A card that was recorded stays as it is.
LEMMA CardsStay ==
    ASSUME TypeInv, Shape, NEW r \in Request, Handle(r), NEW c \in Maybe, c # None, card[c] # None
    PROVE  card'[c] = card[c] /\ card'[c] # None /\ (OfFacts(c)' <=> OfFacts(c))
BY CardStep DEF OfFacts

\* So does what a request carries.
LEMMA BodiesStay ==
    ASSUME TypeInv, Shape, NEW r \in Request, Handle(r), NEW s \in Request, pc[s] # "idle"
    PROVE  /\ body'[s] = body[s] /\ pc'[s] # "idle"
           /\ AnswersFact(s)' <=> AnswersFact(s)
           /\ Retry(s)' <=> Retry(s)
<1>1. body'[s] = body[s]
  BY BodyStep
<1>2. pc'[s] # "idle"
  BY Moves
<1>3. body[s].to \in Maybe /\ (body[s].to # None => card[body[s].to] # None)
  BY DEF TypeInv, Shape, InHand, Body
<1>4. AnswersFact(s)' <=> AnswersFact(s)
  <2>1. body[s].to # None => card'[body[s].to] = card[body[s].to]
    BY <1>3, CardStep
  <2> QED BY <1>1, <2>1 DEF AnswersFact, OfFacts
<1> QED BY <1>1, <1>2, <1>4 DEF Retry

\* The other requests still have it in hand.
LEMMA OthersInHand ==
    ASSUME TypeInv, Shape, NEW r \in Request, Handle(r), NEW s \in Request, s # r
    PROVE  InHand(s)'
<1>0. InHand(s) /\ loc[s] \in Local /\ body[s] \in Body
  BY DEF Shape, TypeInv
<1>1. pc'[s] = pc[s] /\ loc'[s] = loc[s] /\ body'[s] = body[s]
  BY Moves, BodyStep
<1>2. CASE pc[s] = "idle"
  BY <1>0, <1>1, <1>2 DEF InHand, Asking, Choice
<1>3. CASE pc[s] # "idle"
  <2>1. body[s].to \in Maybe /\ loc[s].pending \in Maybe
    BY <1>0 DEF Body, Local
  <2>2. body[s].to # None => card[body[s].to] # None /\ card'[body[s].to] = card[body[s].to]
    BY <1>0, <1>3, <2>1, CardStep DEF InHand
  <2>3. AnswersFact(s)' <=> AnswersFact(s)
    BY <1>3, BodiesStay
  <2>4. pc[s] \in Asking => /\ loc[s].pending # None /\ card[loc[s].pending] # None
                            /\ card'[loc[s].pending] = card[loc[s].pending]
                            /\ OfFacts(loc[s].pending)
    BY <1>0, <2>1, CardStep DEF InHand
  <2>5. pc[s] \in Asking => /\ card'[loc'[s].pending] = card[loc[s].pending]
                            /\ card'[loc'[s].pending].kind \in {"ground_truth", "segment_anchor"}
    BY <1>1, <2>4 DEF OfFacts
  <2>6. /\ pc'[s] # "idle" => /\ body'[s].key \in Request
                              /\ body'[s].to # None => card'[body'[s].to] # None
        /\ pc'[s] = "sidecar" => AnswersFact(s)'
    BY <1>0, <1>1, <1>3, <2>2, <2>3 DEF InHand
  <2>7. pc'[s] \in Asking => /\ AnswersFact(s)'
                             /\ loc'[s].pending # None /\ card'[loc'[s].pending] # None
                             /\ card'[loc'[s].pending].kind \in {"ground_truth", "segment_anchor"}
    BY <1>0, <1>1, <2>3, <2>4, <2>5 DEF InHand
  <2>8. /\ pc'[s] \in {"decline", "declined"} =>
                  body'[s].says = "skip" /\ card'[loc'[s].pending].kind = "ground_truth"
        /\ pc'[s] = "file" => body'[s].says = "value"
    BY <1>0, <1>1, <2>4, <2>5 DEF InHand, Asking
  <2>9. /\ pc'[s] \in Choice => loc'[s].snap \in Memory
        /\ pc'[s] \in {"reread", "record"} => loc'[s].pick # None /\ loc'[s].pick \in Card
        /\ pc'[s] = "reread" => loc'[s].pick.kind = "coverage"
    BY <1>0, <1>1 DEF InHand
  <2>10. pc'[s] # "idle"
    BY <1>1, <1>3
  <2>11. Memory' = Memory /\ Card' = Card
    BY DEF Memory, Card, Maybe
  <2> QED BY <2>6, <2>7, <2>8, <2>9, <2>10 DEF InHand, OfFacts
<1> QED BY <1>2, <1>3

\* And the one that moves has what its next step needs.
LEMMA MoverInHand ==
    ASSUME TypeInv, Shape, NEW r \in Request, Handle(r)
    PROVE  InHand(r)'
<1>0. /\ InHand(r) /\ loc[r] \in Local /\ loc \in [Request -> Local] /\ body[r] \in Body
      /\ body'[r] \in Body /\ wm \in Memory /\ pc \in [Request -> Steps]
  BY BodyStep DEF Shape, TypeInv
<1>1. pc'[r] # "idle"
  BY Moves
<1>2. body'[r].key \in Request /\ (body'[r].to # None => card'[body'[r].to] # None)
  <2>1. body'[r].key \in Request /\ (body'[r].to # None => card[body'[r].to] # None)
    BY <1>0, BodyStep DEF InHand
  <2>2. body'[r].to \in Maybe
    BY <1>0 DEF Body
  <2> QED BY <2>1, <2>2, CardStep
<1>3. pc[r] # "idle" => /\ body'[r] = body[r] /\ (AnswersFact(r)' <=> AnswersFact(r))
  BY BodiesStay
<1>4. Onward(r) \/ Ends(r)
  BY Progress
<1>5. pc'[r] = "sidecar" => AnswersFact(r)'
  <2> SUFFICES ASSUME pc'[r] = "sidecar" PROVE AnswersFact(r)'
    OBVIOUS
  <2>1. pc[r] = "idle"
    BY <1>4, Selected DEF Onward, Ends
  <2>2. body'[r].to # None /\ OfFacts(body'[r].to)
    BY <2>1, BodyStep DEF FirstStep
  <2>3. body'[r].to \in Maybe /\ card[body'[r].to] # None
    BY <2>1, <2>2, <1>0, BodyStep DEF Body
  <2>4. card'[body'[r].to] = card[body'[r].to]
    BY <2>2, <2>3, CardStep
  <2> QED BY <2>2, <2>4 DEF AnswersFact, OfFacts
<1>6. pc'[r] \in Asking =>
         /\ AnswersFact(r)'
         /\ loc'[r].pending # None /\ card'[loc'[r].pending] # None
         /\ card'[loc'[r].pending].kind \in {"ground_truth", "segment_anchor"}
         /\ pc'[r] \in {"decline", "declined"} =>
                body'[r].says = "skip" /\ card'[loc'[r].pending].kind = "ground_truth"
         /\ pc'[r] = "file" => body'[r].says = "value"
  <2>1. CASE pc[r] = "sidecar" /\ pc'[r] \in Asking
    <3>1. /\ wm.pendingGt # None /\ loc' = [loc EXCEPT ![r].pending = wm.pendingGt]
          /\ \/ pc'[r] = "file" /\ body[r].says = "value"
             \/ pc'[r] = "decline" /\ body[r].says = "skip" /\ card[wm.pendingGt].kind = "ground_truth"
      BY <2>1, <1>4 DEF Onward, Ends, Asking
    <3>2. loc'[r].pending = wm.pendingGt
      BY <3>1, <1>0 DEF Local
    <3>3. wm.pendingGt \in Maybe /\ card[wm.pendingGt] # None /\ OfFacts(wm.pendingGt)
      BY <3>1, <1>0 DEF Memory, Shape, Records
    <3>4. card'[wm.pendingGt] = card[wm.pendingGt]
      BY <3>1, <3>3, CardStep
    <3>5. AnswersFact(r)' /\ body'[r] = body[r]
      BY <2>1, <1>0, <1>3 DEF InHand
    <3> QED BY <3>1, <3>2, <3>3, <3>4, <3>5 DEF OfFacts
  <2>2. CASE pc[r] = "decline" /\ pc'[r] \in Asking
    <3>1. pc'[r] = "declined" /\ loc' = [loc EXCEPT ![r].declined = wm.declined]
      BY <2>2, <1>4, Selected DEF Onward, Ends, Asking
    <3>2. loc'[r].pending = loc[r].pending /\ loc[r].pending \in Maybe
      BY <3>1, <1>0 DEF Local
    <3>3. loc[r].pending # None /\ card[loc[r].pending] # None /\ OfFacts(loc[r].pending)
          /\ AnswersFact(r) /\ body[r].says = "skip" /\ card[loc[r].pending].kind = "ground_truth"
      BY <2>2, <1>0 DEF InHand, Asking
    <3>4. card'[loc[r].pending] = card[loc[r].pending]
      BY <3>2, <3>3, CardStep
    <3> QED BY <3>1, <3>2, <3>3, <3>4, <1>3, <2>2 DEF OfFacts
  <2>3. pc'[r] \in Asking => pc[r] \in {"sidecar", "decline"}
    BY <1>4, Selected DEF Onward, Ends, Asking
  <2> QED BY <2>1, <2>2, <2>3
<1>7. /\ pc'[r] \in Choice => loc'[r].snap \in Memory
      /\ pc'[r] \in {"reread", "record"} => loc'[r].pick # None /\ loc'[r].pick \in Card
      /\ pc'[r] = "reread" => loc'[r].pick.kind = "coverage"
  <2>1. CASE pc[r] = "classify" /\ pc'[r] \in Choice
    <3>1. loc' = [loc EXCEPT ![r].snap = wm] /\ pc'[r] \in {"coverage", "facts"}
      BY <2>1, <1>4 DEF Onward, Ends, Choice
    <3>2. loc'[r].snap = wm
      BY <3>1, <1>0 DEF Local
    <3> QED BY <3>1, <3>2, <1>0
  <2>2. CASE pc[r] \in {"coverage", "facts"} /\ pc'[r] \in Choice
    <3>1. Select(r)
      BY <2>2, <1>4 DEF Onward, Ends, Choice
    <3>2. PICK c \in Card \cup {None} :
             /\ loc' = [loc EXCEPT ![r].pick = c]
             /\ pc'[r] = IF c = None THEN "respond"
                         ELSE IF c.kind = "coverage" THEN "reread" ELSE "record"
      BY <3>1, Selected
    <3>3. loc'[r].pick = c /\ loc'[r].snap = loc[r].snap
      BY <3>2, <1>0 DEF Local
    <3>4. loc[r].snap \in Memory
      BY <2>2, <1>0 DEF InHand, Choice
    <3>5. c # None
      BY <3>2, <2>2 DEF Choice
    <3> QED BY <3>2, <3>3, <3>4, <3>5
  <2>3. CASE pc[r] = "reread" /\ pc'[r] \in Choice
    <3>1. loc' = [loc EXCEPT ![r].emitted = wm.emitted] /\ pc'[r] = "record"
      BY <2>3, <1>4 DEF Onward, Ends, Choice
    <3>2. loc'[r].snap = loc[r].snap /\ loc'[r].pick = loc[r].pick
      BY <3>1, <1>0 DEF Local
    <3> QED BY <3>1, <3>2, <2>3, <1>0 DEF InHand, Choice
  <2>4. pc'[r] \in Choice => pc[r] \in {"classify", "coverage", "facts", "reread"}
    BY <1>4 DEF Onward, Ends, Choice
  <2>5. {"reread", "record"} \subseteq Choice
    BY DEF Choice
  <2> QED BY <2>1, <2>2, <2>3, <2>4, <2>5
<1> QED
  <2>1. pc'[r] \in {"decline", "declined", "file"} <=> pc'[r] \in Asking
    BY DEF Asking
  <2> QED BY <2>1, <1>1, <1>2, <1>5, <1>6, <1>7 DEF InHand, OfFacts

\* The pending card is cleared, or replaced by the card that is recorded.
LEMMA PendingStep ==
    ASSUME TypeInv, NEW r \in Request, Handle(r)
    PROVE  \/ /\ wm'.pendingGt = wm.pendingGt
              /\ ~ (pc[r] = "clear" /\ pc'[r] = "invitation")
              /\ ~ (/\ pc[r] = "record" /\ pc'[r] = "respond"
                    /\ loc[r].pick.kind \notin {"coverage", "message"})
           \/ pc[r] = "clear" /\ pc'[r] = "invitation" /\ wm'.pendingGt = None
           \/ /\ pc[r] = "record" /\ pc'[r] = "respond" /\ wm'.pendingGt = r
              /\ loc[r].pick.kind \notin {"coverage", "message"}
<1>0. wm \in Memory
  BY DEF TypeInv
<1>1. CASE Fields(wm') = Fields(wm) /\ <<pc[r], pc'[r]>> \notin Writes
  BY <1>1 DEF Fields, Writes
<1>2. CASE pc[r] = "record" /\ pc'[r] = "respond" /\ wm' = Recorded(r)
  BY <1>2, RecordedFields
<1>3. CASE pc[r] = "clear" /\ pc'[r] = "invitation" /\ wm' = [wm EXCEPT !.pendingGt = None]
  BY <1>3, <1>0 DEF Memory
<1>4. CASE pc[r] = "file" /\ wm' = [wm EXCEPT !.anchor = loc[r].pending]
  BY <1>4, <1>0 DEF Memory
<1>5. CASE pc[r] = "unanchor" /\ wm' = [wm EXCEPT !.anchor = None]
  BY <1>5, <1>0 DEF Memory
<1>6. CASE /\ pc[r] = "declined"
           /\ wm' = [wm EXCEPT !.declined = loc[r].declined \cup {card[loc[r].pending].of}]
  BY <1>6, <1>0 DEF Memory
<1>7. CASE pc[r] = "taken" /\ wm' = [wm EXCEPT !.pendingMessage = FALSE]
  BY <1>7, <1>0 DEF Memory
<1> QED BY <1>1, <1>2, <1>3, <1>4, <1>5, <1>6, <1>7, MemoryCases

\* The anchor is set by an answer and cleared with its segment.
LEMMA AnchorStep ==
    ASSUME TypeInv, NEW r \in Request, Handle(r)
    PROVE  \/ wm'.anchor = wm.anchor /\ ~ (pc[r] = "unanchor" /\ pc'[r] = "reply")
           \/ /\ pc[r] = "file" /\ pc'[r] = "clear" /\ wm'.anchor = loc[r].pending
              /\ wm'.pendingGt = wm.pendingGt
           \/ pc[r] = "unanchor" /\ pc'[r] = "reply" /\ wm'.anchor = None
<1>0. wm \in Memory
  BY DEF TypeInv
<1>1. CASE Fields(wm') = Fields(wm) /\ <<pc[r], pc'[r]>> \notin Writes
  BY <1>1 DEF Fields, Writes
<1>2. CASE pc[r] = "record" /\ pc'[r] = "respond" /\ wm' = Recorded(r)
  BY <1>2, RecordedFields
<1>3. CASE pc[r] = "clear" /\ wm' = [wm EXCEPT !.pendingGt = None]
  BY <1>3, <1>0 DEF Memory
<1>4. CASE pc[r] = "file" /\ pc'[r] = "clear" /\ wm' = [wm EXCEPT !.anchor = loc[r].pending]
  BY <1>4, <1>0 DEF Memory
<1>5. CASE pc[r] = "unanchor" /\ pc'[r] = "reply" /\ wm' = [wm EXCEPT !.anchor = None]
  BY <1>5, <1>0 DEF Memory
<1>6. CASE /\ pc[r] = "declined"
           /\ wm' = [wm EXCEPT !.declined = loc[r].declined \cup {card[loc[r].pending].of}]
  BY <1>6, <1>0 DEF Memory
<1>7. CASE pc[r] = "taken" /\ wm' = [wm EXCEPT !.pendingMessage = FALSE]
  BY <1>7, <1>0 DEF Memory
<1> QED BY <1>1, <1>2, <1>3, <1>4, <1>5, <1>6, <1>7, MemoryCases

LEMMA RecordsStep ==
    ASSUME TypeInv, Shape, NEW r \in Request, Handle(r)
    PROVE  Records'
<1>0. /\ Records /\ InHand(r) /\ wm \in Memory /\ wm' \in Memory
      /\ card \in [Request -> Card \cup {None}]
      /\ screen \in Maybe /\ body \in [Request -> Body] /\ loc[r] \in Local
      /\ replayable \in [Request -> Maybe]
  BY MemoryStep DEF Shape, TypeInv
<1>1. wm'.pendingGt # None => card'[wm'.pendingGt] # None /\ OfFacts(wm.pendingGt)'
  <2>1. CASE wm'.pendingGt = wm.pendingGt
    <3>1. wm.pendingGt \in Maybe
      BY <1>0 DEF Memory
    <3>2. wm.pendingGt # None => card'[wm.pendingGt] = card[wm.pendingGt]
      BY <3>1, <1>0, CardStep DEF Records
    <3> QED BY <3>2, <2>1, <1>0 DEF Records, OfFacts
  <2>2. CASE wm'.pendingGt = None
    BY <2>2
  <2>3. CASE /\ pc[r] = "record" /\ pc'[r] = "respond" /\ wm'.pendingGt = r
             /\ loc[r].pick.kind \notin {"coverage", "message"}
    <3>1. loc[r].pick \in Card /\ loc[r].pick # None
      BY <2>3, <1>0 DEF InHand
    <3>2. card' = [card EXCEPT ![r] = loc[r].pick]
      BY <2>3, CardStep
    <3>3. card'[r] = loc[r].pick
      BY <3>2, <1>0
    <3>4. loc[r].pick.kind \in {"ground_truth", "segment_anchor"}
      BY <3>1, <2>3, CardKinds
    <3> QED BY <3>1, <3>3, <3>4, <2>3 DEF OfFacts
  <2> QED BY <2>1, <2>2, <2>3, PendingStep
<1>2. wm'.anchor # None => card'[wm'.anchor] # None
  <2>1. CASE wm'.anchor = wm.anchor
    <3>1. wm.anchor \in Maybe
      BY <1>0 DEF Memory
    <3> QED BY <3>1, <2>1, <1>0, CardStep DEF Records
  <2>2. CASE pc[r] = "file" /\ wm'.anchor = loc[r].pending
    <3>1. loc[r].pending \in Maybe /\ loc[r].pending # None /\ card[loc[r].pending] # None
      BY <2>2, <1>0 DEF InHand, Asking, Local
    <3> QED BY <3>1, <2>2, CardStep
  <2>3. CASE wm'.anchor = None
    BY <2>3
  <2> QED BY <2>1, <2>2, <2>3, AnchorStep
<1>3. screen' # None => card'[screen'] # None
  <2>1. CASE screen' = screen
    BY <2>1, <1>0, CardStep DEF Records
  <2>2. CASE screen' = None
    BY <2>2
  <2>3. ASSUME NEW c \in Request, card[c] # None, screen' = c
        PROVE  screen' # None => card'[screen'] # None
    BY <2>3, CardStep DEF Maybe
  <2> QED BY <2>1, <2>2, <2>3, ClientStep
<1>4. ASSUME NEW s \in Request, Early(s)'
      PROVE  card'[s] = None /\ s \notin shown' /\ \A k \in Request : replayable'[k] # s
  <2>1. Early(s)
    <3>1. CASE s # r
      BY <3>1, <1>4, Moves DEF Early
    <3>2. CASE s = r
      <4>1. pc'[r] \in {"idle"} \cup Opening \cup Choice
        BY <3>2, <1>4 DEF Early
      <4>2. Onward(r) \/ Ends(r)
        BY Progress
      <4>3. CASE Onward(r)
        BY <3>2, <4>1, <4>3 DEF Onward, Opening, Choice, Sidecar, Asking, Early
      <4>4. CASE Ends(r)
        BY <3>2, <4>1, <4>4 DEF Ends, Opening, Choice, Sidecar, Asking
      <4> QED BY <4>2, <4>3, <4>4, <3>2
    <3> QED BY <3>1, <3>2
  <2>2. card[s] = None /\ s \notin shown /\ \A k \in Request : replayable[k] # s
    BY <2>1, <1>0 DEF Records
  <2>3. s = r => pc[r] \notin {"respond", "reply"} /\ pc'[r] # "respond"
    BY <2>1, <1>4 DEF Early, Opening, Choice, Sidecar, Asking
  <2>4. card'[s] = None
    BY <2>2, <2>3, CardStep
  <2>5. s \notin shown'
    <3>1. CASE shown' = shown
      BY <3>1, <2>2
    <3>2. ASSUME NEW c \in Request, shown' = shown \cup {c},
                 \/ pc[r] \in {"respond", "reply"} /\ c = r
                 \/ pc[r] = "enter" /\ c = replayable[body[r].key]
          PROVE  s \notin shown'
      <4>1. pc[r] = "enter" => body[r].key \in Request
        BY <1>0 DEF InHand
      <4> QED BY <4>1, <3>2, <2>2, <2>3
    <3> QED BY <3>1, <3>2, ClientStep
  <2>6. \A k \in Request : replayable'[k] # s
    BY <2>2, <2>3, <1>0, CacheStep
  <2> QED BY <2>4, <2>5, <2>6
<1>5. ASSUME NEW k \in Request, replayable'[k] # None
      PROVE  body'[replayable'[k]].key = k
  <2>1. CASE replayable'[k] = replayable[k]
    <3>1. PICK o \in Request : o = replayable[k] /\ body[o].key = k
      BY <2>1, <1>5, <1>0 DEF Records, Maybe
    <3>2. pc[o] # "idle"
      BY <3>1, <1>0 DEF Records, Early
    <3>3. body'[o] = body[o]
      BY <3>2, BodiesStay
    <3> QED BY <3>1, <3>3, <2>1
  <2>2. CASE pc[r] = "reply" /\ replayable' = [replayable EXCEPT ![body[r].key] = r]
    <3>1. body[r].key \in Request /\ body'[r] = body[r]
      BY <2>2, <1>0, BodiesStay DEF InHand
    <3>2. replayable'[k] = replayable[k] \/ (k = body[r].key /\ replayable'[k] = r)
      BY <2>2, <1>0
    <3> QED BY <3>1, <3>2, <2>1
  <2> QED BY <2>1, <2>2, CacheStep
<1>6. ASSUME NEW x \in filed'
      PROVE  /\ pc'[x.by] # "idle" /\ x.to = body'[x.by].to
             /\ x.to # None /\ card'[x.to] # None
  <2>1. CASE x \in filed
    <3>1. x.by \in Request /\ x.to \in Maybe
      BY <2>1 DEF TypeInv
    <3>2. /\ pc[x.by] # "idle" /\ x.to = body[x.by].to
          /\ x.to # None /\ card[x.to] # None
      BY <2>1, <1>0 DEF Records
    <3>3. pc'[x.by] # "idle" /\ body'[x.by] = body[x.by]
      BY <3>1, <3>2, BodiesStay
    <3>4. card'[x.to] = card[x.to]
      BY <3>1, <3>2, CardStep
    <3> QED BY <3>2, <3>3, <3>4
  <2>2. CASE /\ x.by = r /\ x.to = body[r].to /\ pc[r] \in {"declined", "file"}
    <3>1. body[r].to # None /\ body[r].to \in Maybe /\ card[body[r].to] # None
      BY <2>2, <1>0 DEF InHand, AnswersFact, Asking, Body
    <3>2. body'[r] = body[r] /\ pc'[r] # "idle"
      BY <2>2, BodiesStay
    <3>3. card'[body[r].to] = card[body[r].to]
      BY <3>1, CardStep
    <3> QED BY <2>2, <3>1, <3>2, <3>3
  <2>3. \/ filed' = filed
        \/ /\ pc[r] \in {"declined", "file"}
           /\ filed' = filed \cup {[by |-> r, to |-> body[r].to, as |-> loc[r].pending,
                                    unseen |-> loc[r].pending \notin shown]}
    BY FiledStep
  <2> QED BY <2>1, <2>2, <2>3, <1>6
<1> QED BY <1>1, <1>2, <1>3, <1>4, <1>5, <1>6 DEF Records

LEMMA ShapeStep == TypeInv /\ Shape /\ [Next]_vars => Shape'
<1> SUFFICES ASSUME TypeInv, Shape, [Next]_vars
             PROVE  Shape'
  OBVIOUS
<1>1. CASE Apart
  <2>1. Records'
    BY <1>1, Elsewhere DEF Shape, Records, OfFacts, Early
  <2>2. \A r \in Request : InHand(r)'
    BY <1>1, Elsewhere DEF Shape, InHand, AnswersFact, OfFacts
  <2> QED BY <2>1, <2>2 DEF Shape
<1>2. ASSUME NEW r \in Request, Handle(r)
      PROVE  Shape'
  <2>1. \A s \in Request : InHand(s)'
    BY <1>2, MoverInHand, OthersInHand
  <2>2. Records'
    BY <1>2, RecordsStep
  <2> QED BY <2>1, <2>2 DEF Shape
<1> QED BY <1>1, <1>2, Steppers

-----------------------------------------------------------------------------
(* Requests side by side.                                                   *)

\* Who overlaps is settled when a request arrives.
LEMMA OverlapStep ==
    ASSUME TypeInv, NEW r \in Request, Handle(r)
    PROVE  \/ pc[r] # "idle" /\ overlapped' = overlapped
           \/ pc[r] = "idle" /\ Enters(r) /\ pc'[r] \in {"sidecar", "invitation"}
<1>0. pc \in [Request -> Steps]
  BY DEF TypeInv
<1>1. CASE Send(r) \/ Resend(r)
  <2>1. Enters(r) /\ pc[r] = "idle"
    BY <1>1 DEF Send, Resend, Enters
  <2> QED BY <2>1, Progress DEF Onward, Ends
<1>2. CASE \/ ReadPending(r) \/ ReadDeclined(r) \/ AddDeclined(r) \/ FileAnswer(r)
           \/ ClearPending(r) \/ ReadInvitation(r) \/ ConsumeCheck(r) \/ StoreMessage(r)
           \/ ClearInvitation(r)
  BY <1>2 DEF ReadPending, ReadDeclined, AddDeclined, FileAnswer, ClearPending,
     ReadInvitation, ConsumeCheck, StoreMessage, ClearInvitation
<1>3. CASE \/ Enter(r) \/ AppendUserTurn(r) \/ Classify(r) \/ Select(r) \/ ReadEmitted(r)
           \/ Record(r)
  BY <1>3 DEF Enter, AppendUserTurn, Classify, Select, ReadEmitted, Record
<1>4. CASE Respond(r) \/ PushSegment(r) \/ PushFails(r) \/ ClearAnchor(r) \/ Reply(r) \/ ReplyLost(r) \/ Fails(r)
  BY <1>4, <1>0 DEF Respond, PushSegment, PushFails, ClearAnchor, Reply, ReplyLost, Fails, InFlight, Idle
<1> QED BY <1>1, <1>2, <1>3, <1>4 DEF Handle

LEMMA RivalsStart == Init => Rivals
<1> SUFFICES ASSUME Init PROVE Rivals
  OBVIOUS
<1>1. InFlight = {}
  BY DEF Init, InFlight, Idle
<1> QED BY <1>1, FS_EmptySet, Numbers DEF Rivals

LEMMA RivalsStep == TypeInv /\ Rivals /\ [Next]_vars => Rivals'
<1> SUFFICES ASSUME TypeInv, Rivals, [Next]_vars
             PROVE  Rivals'
  OBVIOUS
<1>1. CASE Apart
  BY <1>1, Elsewhere DEF Rivals, InFlight
<1>2. ASSUME NEW r \in Request, Handle(r)
      PROVE  Rivals'
  <2>0. /\ IsFiniteSet(InFlight) /\ Cardinality(InFlight) \in Nat
        /\ Cardinality(InFlight) <= MaxInFlight
        /\ \A q, s \in InFlight : q # s => q \in overlapped /\ s \in overlapped
    BY FS_CardinalityType DEF Rivals
  <2>1. \A s \in Request \ {r} : pc'[s] = pc[s]
    BY <1>2, Moves
  <2>2. CASE pc[r] # "idle" /\ overlapped' = overlapped
    <3>1. r \in InFlight
      BY <2>2, <1>2, Moves DEF InFlight, Idle
    <3>2. InFlight' = InFlight \/ InFlight' = InFlight \ {r}
      BY <2>1, <3>1 DEF InFlight
    <3>3. IsFiniteSet(InFlight') /\ Cardinality(InFlight') <= MaxInFlight
      <4>1. IsFiniteSet(InFlight \ {r}) /\ Cardinality(InFlight \ {r}) = Cardinality(InFlight) - 1
        BY <3>1, <2>0, FS_RemoveElement
      <4> QED BY <4>1, <3>2, <2>0, Numbers
    <3> QED BY <2>0, <2>2, <3>2, <3>3 DEF Rivals
  <2>3. CASE pc[r] = "idle" /\ Enters(r) /\ pc'[r] \in {"sidecar", "invitation"}
    <3>1. InFlight' = InFlight \cup {r} /\ r \notin InFlight
      BY <2>1, <2>3 DEF InFlight, Idle
    <3>2. Cardinality(InFlight) < MaxInFlight
          /\ overlapped' = IF InFlight = {} THEN overlapped ELSE overlapped \cup InFlight \cup {r}
      BY <2>3 DEF Enters
    <3>3. IsFiniteSet(InFlight') /\ Cardinality(InFlight') = Cardinality(InFlight) + 1
      BY <3>1, <2>0, FS_AddElement
    <3>4. Cardinality(InFlight') <= MaxInFlight
      BY <3>2, <3>3, <2>0, Numbers
    <3>5. \A q, s \in InFlight' : q # s => q \in overlapped' /\ s \in overlapped'
      BY <3>1, <3>2, <2>0
    <3> QED BY <3>3, <3>4, <3>5 DEF Rivals
  <2> QED BY <2>2, <2>3, <1>2, OverlapStep
<1> QED BY <1>1, <1>2, Steppers

\* While a request is in flight, one that moves beside it overlaps with it.
LEMMA Alone ==
    ASSUME TypeInv, Rivals, NEW r \in Request, Handle(r), NEW s \in InFlight, s # r
    PROVE  s \in overlapped' /\ r \in overlapped'
<1>1. CASE pc[r] # "idle" /\ overlapped' = overlapped
  <2>1. r \in InFlight
    BY <1>1, Moves DEF InFlight, Idle
  <2> QED BY <2>1, <1>1 DEF Rivals
<1>2. CASE pc[r] = "idle" /\ Enters(r)
  BY <1>2 DEF Enters
<1> QED BY <1>1, <1>2, OverlapStep

\* The steps at which a request is in flight.
LEMMA Flying ==
    ASSUME NEW r \in Request, pc[r] \in Sidecar \cup {"enter", "append", "classify"} \cup Choice \cup Closing
    PROVE  r \in InFlight
BY DEF InFlight, Idle, Sidecar, Asking, Choice, Closing

-----------------------------------------------------------------------------
(* What was answered is not asked again.                                    *)

LEMMA DeclinedStep ==
    ASSUME TypeInv, NEW r \in Request, Handle(r)
    PROVE  \/ /\ wm'.declined = wm.declined
              /\ ~ (pc[r] = "declined" /\ pc'[r] = "clear")
           \/ /\ pc[r] = "declined" /\ pc'[r] = "clear"
              /\ wm'.declined = loc[r].declined \cup {card[loc[r].pending].of}
<1>0. wm \in Memory
  BY DEF TypeInv
<1>1. CASE Fields(wm') = Fields(wm) /\ <<pc[r], pc'[r]>> \notin Writes
  BY <1>1 DEF Fields, Writes
<1>2. CASE pc[r] = "record" /\ wm' = Recorded(r)
  BY <1>2, RecordedFields
<1>3. CASE pc[r] = "clear" /\ wm' = [wm EXCEPT !.pendingGt = None]
  BY <1>3, <1>0 DEF Memory
<1>4. CASE pc[r] = "file" /\ wm' = [wm EXCEPT !.anchor = loc[r].pending]
  BY <1>4, <1>0 DEF Memory
<1>5. CASE pc[r] = "unanchor" /\ wm' = [wm EXCEPT !.anchor = None]
  BY <1>5, <1>0 DEF Memory
<1>6. CASE /\ pc[r] = "declined" /\ pc'[r] = "clear"
           /\ wm' = [wm EXCEPT !.declined = loc[r].declined \cup {card[loc[r].pending].of}]
  BY <1>6, <1>0 DEF Memory
<1>7. CASE pc[r] = "taken" /\ wm' = [wm EXCEPT !.pendingMessage = FALSE]
  BY <1>7, <1>0 DEF Memory
<1> QED BY <1>1, <1>2, <1>3, <1>4, <1>5, <1>6, <1>7, MemoryCases

\* What an answer that was filed stands for stays so.
LEMMA RightBefore ==
    ASSUME TypeInv, Shape, NEW r \in Request, Handle(r), NEW x \in filed
    PROVE  /\ card'[x.to] = card[x.to] /\ body'[x.by] = body[x.by]
           /\ Right(x)' => Right(x)
<1>1. x.to \in Maybe /\ x.to # None /\ card[x.to] # None /\ x.by \in Request /\ pc[x.by] # "idle"
  BY DEF TypeInv, Shape, Records
<1>2. card'[x.to] = card[x.to] /\ overlapped \subseteq overlapped'
  BY <1>1, CardStep, Moves
<1>3. body'[x.by] = body[x.by]
  BY <1>1, BodiesStay
<1> QED BY <1>2, <1>3 DEF Right

LEMMA KnownStep ==
    ASSUME TypeInv, Shape, Rivals, Known, NEW r \in Request, Handle(r)
    PROVE  Known'
<1>0. /\ loc \in [Request -> Local] /\ wm \in Memory /\ pc \in [Request -> Steps] /\ InHand(r)
      /\ overlapped \subseteq overlapped'
  BY Moves DEF TypeInv, Shape
<1>1. SUFFICES ASSUME NEW x \in filed', Right(x)'
      PROVE  /\ Aside(x, wm.declined)'
             /\ \A s \in Request : pc'[s] = "declined" => Aside(x, loc[s].declined)'
             /\ \A s \in Request : pc'[s] \in Choice => Aside(x, loc[s].snap.declined)'
             /\ \A s \in Request :
                   (pc'[s] = "record" /\ s \notin overlapped' /\ loc'[s].pick.kind = "ground_truth")
                   => \/ loc'[s].pick.of # card'[x.to].of
                      \/ s \in blind' /\ body'[x.by].says = "value"
  BY DEF Known
<1>2. told \subseteq told' /\ blind' = blind
  BY FiledStep, HistoryStep
<1>3. \A s \in Request \ {r} : pc'[s] = pc[s] /\ loc'[s] = loc[s]
  BY Moves
<1>4. Onward(r) \/ Ends(r)
  BY Progress
<1>5. CASE x \in filed
  <2>1. PICK f : f = card[x.to].of
    OBVIOUS
  <2>a. PICK v \in BOOLEAN : v = (body[x.by].says = "value")
    OBVIOUS
  <2>2. f = card'[x.to].of /\ v = (body'[x.by].says = "value") /\ Right(x)
    BY <1>1, <1>5, <2>1, <2>a, RightBefore
  <2>3. /\ f \in wm.declined \/ (f \in told /\ v)
        /\ \A s \in Request : pc[s] = "declined" => f \in loc[s].declined \/ (f \in told /\ v)
        /\ \A s \in Request : pc[s] \in Choice => f \in loc[s].snap.declined \/ (f \in told /\ v)
        /\ \A s \in Request :
              (pc[s] = "record" /\ s \notin overlapped /\ loc[s].pick.kind = "ground_truth")
              => loc[s].pick.of # f \/ (s \in blind /\ v)
    BY <1>5, <2>1, <2>a, <2>2 DEF Known, Aside
  <2>4. f \in wm'.declined \/ (f \in told' /\ v)
    BY <1>2, <2>3, DeclinedStep
  <2>5. pc'[r] = "declined" => f \in loc'[r].declined \/ (f \in told' /\ v)
    <3> SUFFICES ASSUME pc'[r] = "declined" PROVE f \in loc'[r].declined \/ (f \in told' /\ v)
      OBVIOUS
    <3>1. loc' = [loc EXCEPT ![r].declined = wm.declined]
      BY <1>4 DEF Onward, Ends
    <3>2. loc'[r].declined = wm.declined
      BY <3>1, <1>0 DEF Local
    <3> QED BY <3>2, <2>3, <1>2
  <2>6. pc'[r] \in Choice => f \in loc'[r].snap.declined \/ (f \in told' /\ v)
    BY <1>2, <2>3, SnapStep
  <2>7. pc'[r] = "record" /\ loc'[r].pick.kind = "ground_truth" =>
           loc'[r].pick.of # f \/ (r \in blind' /\ v)
    <3> SUFFICES ASSUME pc'[r] = "record", loc'[r].pick.kind = "ground_truth", loc'[r].pick.of = f
                 PROVE  r \in blind' /\ v
      OBVIOUS
    <3>1. pc[r] \in {"coverage", "facts"} /\ loc'[r].pick.of \in Unknown(r)
      BY PickStep
    <3>2. f \in loc[r].snap.declined \/ (f \in told /\ v)
      BY <3>1, <2>3 DEF Choice
    <3>3. f \notin Facts(r) /\ f \notin loc[r].snap.declined
      BY <3>1 DEF Unknown
    <3> QED BY <3>2, <3>3, <1>2 DEF Facts
  <2>8. \A s \in Request \ {r} :
           /\ pc'[s] = "declined" => f \in loc'[s].declined \/ (f \in told' /\ v)
           /\ pc'[s] \in Choice => f \in loc'[s].snap.declined \/ (f \in told' /\ v)
           /\ (pc'[s] = "record" /\ s \notin overlapped' /\ loc'[s].pick.kind = "ground_truth")
              => loc'[s].pick.of # f \/ (s \in blind' /\ v)
    BY <1>0, <1>2, <1>3, <2>3
  <2> QED BY <2>2, <2>4, <2>5, <2>6, <2>7, <2>8 DEF Aside
<1>6. CASE x \notin filed
  <2>1. /\ x.by = r /\ x.to = body[r].to /\ x.as = loc[r].pending
        /\ card' = card /\ overlapped' = overlapped /\ pc'[r] = "clear"
        /\ \/ pc[r] = "declined" /\ told' = told
           \/ /\ pc[r] = "file"
              /\ \/ card[loc[r].pending].kind = "segment_anchor"
                 \/ told' = told \cup {card[loc[r].pending].of}
    BY <1>1, <1>6, FiledStep
  <2>2. Aside(x, wm.declined)'
    <3>1. x.to = loc[r].pending /\ card[x.to].kind = "ground_truth"
      BY <1>1, <2>1 DEF Right
    <3>2. body' = body
      BY <2>1, BodyStep
    <3>3. CASE pc[r] = "declined"
      <4>1. card'[x.to].of \in wm'.declined
        BY <2>1, <3>1, <3>3, DeclinedStep
      <4> QED BY <4>1 DEF Aside
    <3>4. CASE pc[r] = "file" /\ told' = told \cup {card[loc[r].pending].of}
      <4>1. body'[x.by].says = "value"
        BY <1>0, <2>1, <3>2, <3>4 DEF InHand
      <4>2. card'[x.to].of \in told'
        BY <2>1, <3>1, <3>4
      <4> QED BY <4>1, <4>2 DEF Aside
    <3> QED BY <2>1, <3>1, <3>3, <3>4
  <2>3. r \notin overlapped'
    BY <1>1, <2>1 DEF Right
  <2>4. \A s \in Request \ {r} : s \notin InFlight
    BY <2>3, Alone
  <2>5. \A s \in Request : pc'[s] # "declined" /\ pc'[s] \notin Choice /\ pc'[s] # "record"
    <3>1. \A s \in Request \ {r} : pc[s] \in Idle
      BY <2>4 DEF InFlight
    <3> QED BY <3>1, <2>1, <1>3 DEF Choice, Idle
  <2> QED BY <2>2, <2>5
<1> QED BY <1>5, <1>6

LEMMA RepeatsStep ==
    ASSUME TypeInv, Shape, Rivals, Known, Repeats, NEW r \in Request, Handle(r)
    PROVE  Repeats'
<1>0. /\ again \subseteq Request \X Request /\ pc \in [Request -> Steps] /\ InHand(r)
      /\ card \in [Request -> Card \cup {None}]
  BY DEF TypeInv, Shape
<1>1. SUFFICES ASSUME NEW x \in again'
      PROVE  /\ pc'[x[2]] = "done" /\ card'[x[1]] # None
             /\ card'[x[1]].kind = "ground_truth" =>
                   \/ ~FiledRight(x[2])' \/ ~Undisturbed({x[1], x[2]})'
                   \/ x[1] \in blind' /\ body'[x[2]].says = "value"
  BY DEF Repeats, NotAskedAgain
<1>2. overlapped \subseteq overlapped' /\ blind' = blind
  BY Moves, HistoryStep
<1>3. CASE x \in again
  <2>1. x[1] \in Request /\ x[2] \in Request
    BY <1>0, <1>3
  <2>2. /\ pc[x[2]] = "done" /\ card[x[1]] # None
        /\ card[x[1]].kind = "ground_truth" =>
              \/ ~FiledRight(x[2]) \/ ~Undisturbed({x[1], x[2]})
              \/ x[1] \in blind /\ body[x[2]].says = "value"
    BY <1>3 DEF Repeats, NotAskedAgain
  <2>3. x[2] # r
    BY <2>2, Moves
  <2>4. pc'[x[2]] = "done"
    BY <2>1, <2>2, <2>3, Moves
  <2>5. card'[x[1]] = card[x[1]]
    BY <2>1, <2>2, CardStep, NotNone DEF Maybe
  <2>6. \A y \in filed' : y.by = x[2] => y \in filed
    BY <2>3, FiledStep
  <2>7. FiledRight(x[2])' => FiledRight(x[2])
    BY <2>6 DEF FiledRight
  <2>8. Undisturbed({x[1], x[2]})' => Undisturbed({x[1], x[2]})
    BY <1>2 DEF Undisturbed
  <2>9. body'[x[2]] = body[x[2]]
    BY <2>1, <2>2, BodiesStay
  <2> QED BY <1>2, <2>2, <2>4, <2>5, <2>7, <2>8, <2>9
<1>4. CASE x \notin again
  <2>1. Record(r) /\ pc[r] = "record" /\ pc'[r] = "respond"
    BY <1>1, <1>4, HistoryStep
  <2>2. PICK b \in Request : /\ x = <<r, b>> /\ pc[b] = "done" /\ AnswersFact(b)
                             /\ card[body[b].to] = loc[r].pick
    BY <1>1, <1>4, HistoryStep
  <2>3. /\ card' = [card EXCEPT ![r] = loc[r].pick] /\ loc[r].pick # None
        /\ card'[r] = loc[r].pick
    BY <2>1, <1>0, CardStep DEF InHand
  <2>4. b # r /\ pc'[b] = "done"
    BY <2>1, <2>2, Moves
  <2>5. filed' = filed
    BY <2>1, FiledStep
  <2>6. ASSUME loc[r].pick.kind = "ground_truth", FiledRight(b)', Undisturbed({r, b})'
        PROVE  r \in blind' /\ body'[b].says = "value"
    <3>1. PICK y \in filed : y.by = b /\ y.as = y.to
      BY <2>5, <2>6 DEF FiledRight
    <3>2. b \notin overlapped /\ r \notin overlapped
      BY <1>2, <2>6 DEF Undisturbed
    <3>3. y.to = body[b].to
      BY <3>1 DEF Shape, Records
    <3>4. Right(y)
      BY <3>1, <3>2, <3>3, <2>2, <2>6 DEF Right
    <3>5. r \in blind /\ body[b].says = "value"
      BY <3>1, <3>2, <3>3, <3>4, <2>1, <2>2, <2>6 DEF Known
    <3>6. body'[b] = body[b]
      BY <2>2, BodiesStay
    <3> QED BY <3>5, <3>6, <1>2
  <2>7. x[1] = r /\ x[2] = b
    BY <2>2
  <2> QED BY <2>3, <2>4, <2>6, <2>7
<1> QED BY <1>3, <1>4

-----------------------------------------------------------------------------
(* The caps.                                                                *)

LEMMA SpareIsANumber == Spare \in Nat
BY Numbers DEF Spare

\* Fewer requests leave no less room, nor do more rivals.
LEMMA RoomKept ==
    ASSUME NEW n \in Nat, NEW C \in Nat, NEW P, IsFiniteSet(P), NEW Q \in SUBSET P,
           NEW d \in Nat, NEW e \in Nat, d <= e, Room(n, C, P, d)
    PROVE  Room(n, C, Q, e)
<1>1. Cardinality(Q) \in Nat /\ Cardinality(P) \in Nat /\ Cardinality(Q) <= Cardinality(P)
  BY FS_Subset, FS_CardinalityType
<1> QED BY <1>1 DEF Room

\* A request that has a place takes it, and leaves.
LEMMA RoomTaken ==
    ASSUME NEW n \in Nat, NEW C \in Nat, NEW P, IsFiniteSet(P),
           NEW d \in Nat, Cardinality(P) <= d + 1,
           NEW r \in P, NEW Q \in SUBSET (P \ {r}), Room(n, C, P, d)
    PROVE  Room(n + 1, C, Q, d)
<1>1. /\ IsFiniteSet(P \ {r}) /\ Cardinality(P \ {r}) = Cardinality(P) - 1
      /\ Cardinality(P) \in Nat
  BY FS_RemoveElement, FS_CardinalityType
<1>2. IsFiniteSet(Q) /\ Cardinality(Q) \in Nat /\ Cardinality(Q) <= Cardinality(P) - 1
  BY <1>1, FS_Subset, FS_CardinalityType
<1>3. n + 1 < C \/ n + 1 + Cardinality(Q) <= C + d
  <2>1. CASE n < C
    BY <2>1, <1>1, <1>2
  <2>2. CASE n + Cardinality(P) <= C + d
    BY <2>2, <1>1, <1>2
  <2> QED BY <2>1, <2>2 DEF Room
<1> QED BY <1>3 DEF Room

\* So at most d are above the cap.
LEMMA RoomBounds ==
    ASSUME NEW n \in Nat, NEW C \in Nat, NEW P, IsFiniteSet(P), NEW d \in Nat, Room(n, C, P, d)
    PROVE  n <= C + d
<1>1. Cardinality(P) \in Nat
  BY FS_CardinalityType
<1> QED BY <1>1 DEF Room

\* Those that may record a card are in flight, one and its rivals.
LEMMA FewChoose ==
    ASSUME Rivals, NEW P \in SUBSET Request, \A r \in P : pc[r] \in Choice
    PROVE  IsFiniteSet(P) /\ Cardinality(P) <= Spare + 1
<1>1. P \subseteq InFlight
  BY DEF InFlight, Idle, Choice
<1>2. IsFiniteSet(P) /\ Cardinality(P) <= Cardinality(InFlight)
  BY <1>1, FS_Subset DEF Rivals
<1>3. Cardinality(P) \in Nat /\ Cardinality(InFlight) \in Nat
  BY <1>2, FS_CardinalityType DEF Rivals
<1>4. CASE overlapped # {}
  BY <1>2, <1>3, <1>4, Numbers DEF Rivals, Spare
<1>5. CASE overlapped = {}
  <2>1. \A q, s \in P : q = s
    BY <1>1, <1>5 DEF Rivals
  <2>2. P = {} \/ \E q \in P : P = {q}
    BY <2>1
  <2>3. Cardinality(P) <= 1
    <3>1. CASE P = {}
      BY <3>1, FS_EmptySet
    <3>2. ASSUME NEW q \in P, P = {q} PROVE Cardinality(P) <= 1
      <4>1. Cardinality({q}) = 1
        BY FS_Singleton
      <4> QED BY <4>1, <3>2
    <3> QED BY <2>2, <3>1, <3>2
  <2> QED BY <1>2, <1>3, <1>5, <2>3 DEF Spare
<1> QED BY <1>4, <1>5

\* What is counted.
LEMMA CountStep ==
    ASSUME TypeInv, NEW r \in Request, Handle(r)
    PROVE  \/ /\ wm'.taps = wm.taps /\ wm'.gtTaps = wm.gtTaps /\ wm'.invited = wm.invited
              /\ ~ (pc[r] = "record" /\ pc'[r] = "respond")
           \/ pc[r] = "record" /\ pc'[r] = "respond" /\ wm' = Recorded(r)
<1>0. wm \in Memory
  BY DEF TypeInv
<1>1. CASE Fields(wm') = Fields(wm) /\ <<pc[r], pc'[r]>> \notin Writes
  BY <1>1 DEF Fields, Writes
<1>2. CASE pc[r] = "record" /\ pc'[r] = "respond" /\ wm' = Recorded(r)
  BY <1>2
<1>3. CASE pc[r] = "clear" /\ wm' = [wm EXCEPT !.pendingGt = None]
  BY <1>3, <1>0 DEF Memory
<1>4. CASE pc[r] = "file" /\ wm' = [wm EXCEPT !.anchor = loc[r].pending]
  BY <1>4, <1>0 DEF Memory
<1>5. CASE pc[r] = "unanchor" /\ wm' = [wm EXCEPT !.anchor = None]
  BY <1>5, <1>0 DEF Memory
<1>6. CASE /\ pc[r] = "declined"
           /\ wm' = [wm EXCEPT !.declined = loc[r].declined \cup {card[loc[r].pending].of}]
  BY <1>6, <1>0 DEF Memory
<1>7. CASE pc[r] = "taken" /\ wm' = [wm EXCEPT !.pendingMessage = FALSE]
  BY <1>7, <1>0 DEF Memory
<1> QED BY <1>1, <1>2, <1>3, <1>4, <1>5, <1>6, <1>7, MemoryCases

LEMMA RoomsStart == Init => Rooms
<1> SUFFICES ASSUME Init PROVE Rooms
  OBVIOUS
<1>1. Tapping = {} /\ Probing = {} /\ Inviting = {} /\ Invited = {}
  BY DEF Init, Tapping, Probing, Inviting, Invited, Choice
<1>2. Cardinality({}) = 0 /\ IsFiniteSet({})
  BY FS_EmptySet
<1>3. wm.taps = 0 /\ wm.gtTaps = 0 /\ \A r \in Request : pc[r] = "idle"
  BY DEF Init
<1> QED BY <1>1, <1>2, <1>3, Numbers, SpareIsANumber DEF Rooms, Room

\* The requests that may add a card, when one moves: it leaves by recording, and
\* joins when what it reads is under the cap.
LEMMA ChoosersStep ==
    ASSUME TypeInv, Shape, NEW r \in Request, Handle(r)
    PROVE  /\ Tapping' \subseteq Tapping \/ (Tapping' \subseteq Tapping \cup {r} /\ wm.taps < CoverageCap)
           /\ Probing' \subseteq Probing \/ (Probing' \subseteq Probing \cup {r} /\ wm.gtTaps < GtCap)
           /\ Inviting' \subseteq Inviting \/ (Inviting' \subseteq Inviting \cup {r} /\ ~wm.invited)
           /\ pc[r] = "record" => /\ Tapping' \subseteq Tapping \ {r}
                                  /\ Probing' \subseteq Probing \ {r}
                                  /\ Inviting' \subseteq Inviting \ {r}
<1>1. \A s \in Request \ {r} : pc'[s] = pc[s] /\ loc'[s] = loc[s]
  BY Moves
<1>2. CASE pc'[r] \notin Choice
  <2>1. Tapping' \subseteq Tapping \ {r}
    BY <1>1, <1>2 DEF Tapping
  <2>2. Probing' \subseteq Probing \ {r}
    BY <1>1, <1>2 DEF Probing
  <2>3. Inviting' \subseteq Inviting \ {r}
    BY <1>1, <1>2 DEF Inviting
  <2> QED BY <2>1, <2>2, <2>3
<1>3. CASE pc[r] = "classify" /\ loc'[r].snap = wm
  <2>1. Tapping' \subseteq Tapping \/ (Tapping' \subseteq Tapping \cup {r} /\ wm.taps < CoverageCap)
    BY <1>1, <1>3 DEF Tapping
  <2>2. Probing' \subseteq Probing \/ (Probing' \subseteq Probing \cup {r} /\ wm.gtTaps < GtCap)
    BY <1>1, <1>3 DEF Probing
  <2>3. Inviting' \subseteq Inviting \/ (Inviting' \subseteq Inviting \cup {r} /\ ~wm.invited)
    BY <1>1, <1>3 DEF Inviting
  <2> QED BY <2>1, <2>2, <2>3, <1>3
<1>4. CASE pc[r] \in Choice \ {"record"} /\ loc'[r].snap = loc[r].snap
  <2>1. Tapping' \subseteq Tapping
    BY <1>1, <1>4 DEF Tapping
  <2>2. Probing' \subseteq Probing
    BY <1>1, <1>4 DEF Probing
  <2>3. Inviting' \subseteq Inviting
    BY <1>1, <1>4 DEF Inviting
  <2> QED BY <2>1, <2>2, <2>3, <1>4
<1> QED BY <1>2, <1>3, <1>4, SnapStep

\* A count that stays, with the requests that may add to it.
LEMMA RoomStays ==
    ASSUME NEW n \in Nat, NEW C \in Nat, NEW P, IsFiniteSet(P), NEW Q, NEW r,
           Q \subseteq P \/ (Q \subseteq P \cup {r} /\ n < C),
           NEW d \in Nat, NEW e \in Nat, d <= e, Room(n, C, P, d)
    PROVE  Room(n, C, Q, e)
<1>1. CASE Q \subseteq P
  BY <1>1, RoomKept
<1>2. CASE n < C
  BY <1>2 DEF Room
<1> QED BY <1>1, <1>2

LEMMA RoomsStep ==
    ASSUME TypeInv, Shape, Rivals, Rooms, NEW r \in Request, Handle(r)
    PROVE  Rooms'
<1>0. /\ wm.taps \in Nat /\ wm.gtTaps \in Nat /\ InHand(r) /\ wm.invited \in BOOLEAN
      /\ card \in [Request -> Card \cup {None}] /\ Records
  BY DEF TypeInv, Shape, Memory
<1>1. /\ IsFiniteSet(Tapping) /\ Cardinality(Tapping) <= Spare + 1
      /\ IsFiniteSet(Probing) /\ Cardinality(Probing) <= Spare + 1
      /\ IsFiniteSet(Inviting) /\ Cardinality(Inviting) <= Spare + 1
  <2>1. /\ Tapping \subseteq Request /\ \A s \in Tapping : pc[s] \in Choice
        /\ Probing \subseteq Request /\ \A s \in Probing : pc[s] \in Choice
        /\ Inviting \subseteq Request /\ \A s \in Inviting : pc[s] \in Choice
    BY DEF Tapping, Probing, Inviting
  <2> HIDE DEF Tapping, Probing, Inviting
  <2> QED BY <2>1, FewChoose
<1>2. /\ Tapping' \subseteq Tapping \/ (Tapping' \subseteq Tapping \cup {r} /\ wm.taps < CoverageCap)
      /\ Probing' \subseteq Probing \/ (Probing' \subseteq Probing \cup {r} /\ wm.gtTaps < GtCap)
      /\ Inviting' \subseteq Inviting \/ (Inviting' \subseteq Inviting \cup {r} /\ ~wm.invited)
  BY ChoosersStep
<1>3. /\ Room(wm.taps, CoverageCap, Tapping, Spare) /\ Room(wm.gtTaps, GtCap, Probing, Spare)
      /\ IsFiniteSet(Invited) /\ Room(Cardinality(Invited), 1, Inviting, Spare)
      /\ ~wm.invited => Invited = {}
  BY DEF Rooms
<1>4. Cardinality(Invited) \in Nat /\ (~wm.invited => Cardinality(Invited) = 0)
  BY <1>3, FS_CardinalityType, FS_EmptySet
<1>a. Spare \in Nat /\ Spare' \in Nat /\ Spare <= Spare'
  <2>1. overlapped \subseteq overlapped'
    BY Moves
  <2> QED BY <2>1, Numbers DEF Spare
<1>5. \A s \in Request : pc'[s] \in {"reread", "record"} =>
          /\ loc'[s].pick.kind = "coverage" => s \in Tapping'
          /\ loc'[s].pick.kind \in {"ground_truth", "segment_anchor"} => s \in Probing'
          /\ loc'[s].pick.kind = "message" => s \in Inviting'
  <2>1. ASSUME NEW s \in Request \ {r}, pc'[s] \in {"reread", "record"}
        PROVE  /\ loc'[s].pick.kind = "coverage" => s \in Tapping'
               /\ loc'[s].pick.kind \in {"ground_truth", "segment_anchor"} => s \in Probing'
               /\ loc'[s].pick.kind = "message" => s \in Inviting'
    <3>1. pc'[s] = pc[s] /\ loc'[s] = loc[s]
      BY Moves
    <3>2. /\ loc[s].pick.kind = "coverage" => s \in Tapping
          /\ loc[s].pick.kind \in {"ground_truth", "segment_anchor"} => s \in Probing
          /\ loc[s].pick.kind = "message" => s \in Inviting
      BY <2>1, <3>1 DEF Rooms
    <3> QED BY <3>1, <3>2 DEF Tapping, Probing, Inviting
  <2>2. ASSUME pc'[r] \in {"reread", "record"}
        PROVE  /\ loc'[r].pick.kind = "coverage" => r \in Tapping'
               /\ loc'[r].pick.kind \in {"ground_truth", "segment_anchor"} => r \in Probing'
               /\ loc'[r].pick.kind = "message" => r \in Inviting'
    <3>1. pc'[r] \in Choice
      BY <2>2 DEF Choice
    <3>2. CASE pc[r] = "reread" /\ loc'[r].pick = loc[r].pick /\ loc[r].pick.kind = "coverage"
      <4>1. r \in Tapping
        BY <3>2 DEF Rooms
      <4>2. loc'[r].snap = loc[r].snap
        BY <3>1, <3>2, SnapStep
      <4> QED BY <3>1, <3>2, <4>1, <4>2 DEF Tapping
    <3>3. CASE pc[r] \in {"coverage", "facts"}
      <4>1. loc'[r].snap = loc[r].snap
        BY <3>1, <3>3, SnapStep
      <4>2. /\ loc'[r].pick.kind = "coverage" => loc[r].snap.taps < CoverageCap
            /\ loc'[r].pick.kind \in {"ground_truth", "segment_anchor"} => loc[r].snap.gtTaps < GtCap
            /\ loc'[r].pick.kind = "message" => ~loc[r].snap.invited
        BY <2>2, <3>3, PickStep
      <4> QED BY <3>1, <4>1, <4>2 DEF Tapping, Probing, Inviting
    <3> QED BY <2>2, <3>2, <3>3, PickStep
  <2> QED BY <2>1, <2>2
<1>6. CASE /\ wm'.taps = wm.taps /\ wm'.gtTaps = wm.gtTaps /\ wm'.invited = wm.invited
           /\ ~ (pc[r] = "record" /\ pc'[r] = "respond")
  <2>1. card' = card /\ Invited' = Invited
    BY <1>6, CardStep DEF Invited
  <2>2. Room(wm.taps, CoverageCap, Tapping', Spare')
    BY <1>0, <1>1, <1>2, <1>3, <1>a, Numbers, RoomStays
  <2>3. Room(wm.gtTaps, GtCap, Probing', Spare')
    BY <1>0, <1>1, <1>2, <1>3, <1>a, Numbers, RoomStays
  <2>4. Room(Cardinality(Invited), 1, Inviting', Spare')
    <3>1. Inviting' \subseteq Inviting
          \/ (Inviting' \subseteq Inviting \cup {r} /\ Cardinality(Invited) < 1)
      BY <1>2, <1>4
    <3> QED BY <3>1, <1>1, <1>3, <1>4, <1>a, RoomStays
  <2>5. Room(wm'.taps, CoverageCap, Tapping', Spare') /\ Room(wm'.gtTaps, GtCap, Probing', Spare')
    BY <1>6, <2>2, <2>3
  <2>6. IsFiniteSet(Invited') /\ Room(Cardinality(Invited'), 1, Inviting', Spare')
    BY <1>3, <2>1, <2>4
  <2>7. ~wm'.invited => Invited' = {}
    BY <1>3, <1>6, <2>1
  <2> QED BY <1>5, <2>5, <2>6, <2>7 DEF Rooms, Room
<1>7. CASE pc[r] = "record" /\ pc'[r] = "respond" /\ wm' = Recorded(r)
  <2>1. /\ Tapping' \subseteq Tapping \ {r}
        /\ Probing' \subseteq Probing \ {r}
        /\ Inviting' \subseteq Inviting \ {r}
    BY <1>7, ChoosersStep
  <2>a. Spare' = Spare
    <3>1. overlapped' = overlapped
      BY <1>7, OverlapStep
    <3> QED BY <3>1 DEF Spare
  <2>2. loc[r].pick \in Card /\ loc[r].pick # None
        /\ card' = [card EXCEPT ![r] = loc[r].pick] /\ card[r] = None
    BY <1>7, <1>0, CardStep DEF InHand, Records, Early, Choice
  <2>3. loc[r].pick.kind \in {"coverage", "ground_truth", "segment_anchor", "message"}
    BY <2>2, CardKinds
  <2>4. /\ loc[r].pick.kind = "coverage" => r \in Tapping
        /\ loc[r].pick.kind \in {"ground_truth", "segment_anchor"} => r \in Probing
        /\ loc[r].pick.kind = "message" => r \in Inviting
    BY <1>7 DEF Rooms
  <2>5. Room(wm'.taps, CoverageCap, Tapping', Spare')
    <3>1. CASE loc[r].pick.kind = "coverage"
      <4>1. wm'.taps = wm.taps + 1
        BY <1>7, <3>1, RecordedFields
      <4>2. Room(wm.taps + 1, CoverageCap, Tapping', Spare)
        BY <1>0, <1>1, <1>3, <1>a, <2>1, <2>4, <3>1, Numbers, RoomTaken
      <4> QED BY <4>1, <4>2, <2>a
    <3>2. CASE loc[r].pick.kind # "coverage"
      <4>1. wm'.taps = wm.taps
        BY <1>7, <3>2, RecordedFields
      <4>2. Room(wm.taps, CoverageCap, Tapping', Spare)
        BY <1>0, <1>1, <1>3, <1>a, <2>1, Numbers, RoomKept
      <4> QED BY <4>1, <4>2, <2>a
    <3> QED BY <3>1, <3>2
  <2>6. Room(wm'.gtTaps, GtCap, Probing', Spare')
    <3>1. CASE loc[r].pick.kind \notin {"coverage", "message"}
      <4>1. wm'.gtTaps = wm.gtTaps + 1 /\ r \in Probing
        BY <1>7, <2>3, <2>4, <3>1, RecordedFields
      <4>2. Room(wm.gtTaps + 1, GtCap, Probing', Spare)
        BY <1>0, <1>1, <1>3, <1>a, <2>1, <4>1, Numbers, RoomTaken
      <4> QED BY <4>1, <4>2, <2>a
    <3>2. CASE loc[r].pick.kind \in {"coverage", "message"}
      <4>1. wm'.gtTaps = wm.gtTaps
        BY <1>7, <3>2, RecordedFields
      <4>2. Room(wm.gtTaps, GtCap, Probing', Spare)
        BY <1>0, <1>1, <1>3, <1>a, <2>1, Numbers, RoomKept
      <4> QED BY <4>1, <4>2, <2>a
    <3> QED BY <3>1, <3>2
  <2>7. /\ IsFiniteSet(Invited') /\ Room(Cardinality(Invited'), 1, Inviting', Spare')
        /\ ~wm'.invited => Invited' = {}
    <3>1. CASE loc[r].pick.kind = "message"
      <4>1. Invited' = Invited \cup {r} /\ r \notin Invited
        BY <1>0, <2>2, <3>1 DEF Invited
      <4>2. IsFiniteSet(Invited') /\ Cardinality(Invited') = Cardinality(Invited) + 1
        BY <1>3, <4>1, FS_AddElement
      <4>3. Room(Cardinality(Invited) + 1, 1, Inviting', Spare)
        BY <1>1, <1>3, <1>4, <1>a, <2>1, <2>4, <3>1, RoomTaken
      <4>4. wm'.invited
        BY <1>7, <3>1, RecordedFields
      <4> QED BY <4>2, <4>3, <4>4, <2>a
    <3>2. CASE loc[r].pick.kind # "message"
      <4>1. Invited' = Invited
        BY <1>0, <2>2, <3>2 DEF Invited
      <4>2. Room(Cardinality(Invited), 1, Inviting', Spare)
        BY <1>1, <1>3, <1>4, <1>a, <2>1, RoomKept
      <4>3. wm'.invited = wm.invited
        BY <1>7, <3>2, RecordedFields
      <4> QED BY <4>1, <4>2, <4>3, <1>3, <2>a
    <3> QED BY <3>1, <3>2
  <2> QED BY <1>5, <2>5, <2>6, <2>7 DEF Rooms, Room
<1> QED BY <1>6, <1>7, CountStep

LEMMA RoomsBound ==
    ASSUME TypeInv, Rivals, Rooms
    PROVE  CardsWithinCaps
<1>1. wm.taps \in Nat /\ wm.gtTaps \in Nat
  BY DEF TypeInv, Memory
<1>2. IsFiniteSet(Tapping) /\ IsFiniteSet(Probing) /\ IsFiniteSet(Inviting)
  <2>1. /\ Tapping \subseteq Request /\ \A s \in Tapping : pc[s] \in Choice
        /\ Probing \subseteq Request /\ \A s \in Probing : pc[s] \in Choice
        /\ Inviting \subseteq Request /\ \A s \in Inviting : pc[s] \in Choice
    BY DEF Tapping, Probing, Inviting
  <2> HIDE DEF Tapping, Probing, Inviting
  <2> QED BY <2>1, FewChoose
<1>3. /\ Room(wm.taps, CoverageCap, Tapping, Spare) /\ Room(wm.gtTaps, GtCap, Probing, Spare)
      /\ IsFiniteSet(Invited) /\ Room(Cardinality(Invited), 1, Inviting, Spare)
  BY DEF Rooms
<1>4. wm.taps <= CoverageCap + Spare /\ wm.gtTaps <= GtCap + Spare
  BY <1>1, <1>2, <1>3, Numbers, SpareIsANumber, RoomBounds
<1>5. Cardinality(Invited) <= 1 + Spare
  <2>1. Cardinality(Invited) \in Nat
    BY <1>3, FS_CardinalityType
  <2> QED BY <2>1, <1>2, <1>3, SpareIsANumber, RoomBounds
<1> QED BY <1>4, <1>5 DEF CardsWithinCaps, Invited

-----------------------------------------------------------------------------
(* Answers are filed.                                                       *)

\* What a turn that is sent does to the screen, and a retry to nothing.
LEMMA Arrives ==
    ASSUME TypeInv, Shape, NEW r \in Request, Handle(r), pc[r] = "idle"
    PROVE  /\ wm' = wm /\ shown' = shown /\ card' = card
           /\ \/ Retry(r)'
              \/ body'[r].to = None
              \/ body'[r].to = screen /\ screen' = None
<1>0. body \in [Request -> Body] /\ pc \in [Request -> Steps]
  BY DEF TypeInv
<1>1. Send(r) \/ Resend(r)
  BY BodyStep
<1>2. wm' = wm /\ shown' = shown /\ card' = card
  BY <1>1 DEF Send, Resend, Enters
<1>3. CASE Send(r)
  <2>1. PICK to \in {None, screen}, says \in {"value", "skip", "blank"} :
           /\ body' = [body EXCEPT ![r] = [key |-> r, to |-> to, says |-> says]]
           /\ screen' = IF to = None THEN screen ELSE None
    BY <1>3 DEF Send
  <2>2. body'[r].to = to
    BY <2>1, <1>0
  <2> QED BY <1>2, <2>1, <2>2
<1>4. CASE Resend(r)
  <2>1. PICK o \in Request : pc[o] # "idle" /\ ~Retry(o) /\ body' = [body EXCEPT ![r] = body[o]]
    BY <1>4 DEF Resend
  <2>2. body'[r].key = o /\ o # r
    BY <2>1, <1>0 DEF Retry
  <2> QED BY <1>2, <2>2 DEF Retry
<1> QED BY <1>1, <1>3, <1>4

\* A card was recorded by a request that has arrived.
LEMMA CardsArrived ==
    ASSUME Shape, NEW t \in Request, card[t] # None
    PROVE  pc[t] # "idle"
BY DEF Shape, Records, Early

\* An excuse stays one.
LEMMA RetriedStays ==
    ASSUME TypeInv, Shape, NEW r \in Request, Handle(r), NEW t \in Request, pc[t] # "idle", Retried(t)
    PROVE  Retried(t)'
<1>1. PICK s \in Request \ {t} : body[s].key = body[t].key
  BY DEF Retried
<1>2. body[t].key \in Request
  BY DEF Shape, InHand
<1>3. pc[s] # "idle"
  BY <1>1, <1>2, NotNone DEF Shape, InHand, NoBody
<1>4. body'[s] = body[s] /\ body'[t] = body[t]
  BY <1>3, BodiesStay
<1> QED BY <1>1, <1>4 DEF Retried

LEMMA ExcusedStays ==
    ASSUME TypeInv, Shape, NEW r \in Request, Handle(r),
           NEW q \in Request, pc[q] # "idle", NEW t \in Request, pc[t] # "idle",
           NEW p, Excused(q, t, p)
    PROVE  Excused(q, t, p)'
<1>1. overlapped \subseteq overlapped'
  BY Moves
<1>2. CASE ~Undisturbed({q, t, p})
  BY <1>1, <1>2 DEF Undisturbed, Excused
<1>3. CASE Retry(q)
  BY <1>3, BodiesStay DEF Excused
<1>4. CASE Retried(t)
  BY <1>4, RetriedStays DEF Excused
<1> QED BY <1>2, <1>3, <1>4 DEF Excused

LEMMA OnItsWayStep ==
    ASSUME TypeInv, Shape, Rivals, OnItsWay, NEW r \in Request, Handle(r)
    PROVE  OnItsWay'
<1>0. /\ card \in [Request -> Card \cup {None}] /\ InHand(r) /\ Records
      /\ overlapped \subseteq overlapped'
  BY Moves DEF TypeInv, Shape
<1>1. SUFFICES ASSUME NEW t \in Request, pc'[t] \in Closing, t \notin overlapped',
                      card'[t] # None, OfFacts(t)'
               PROVE  wm'.pendingGt = t
  BY DEF OnItsWay
<1>2. t = r
  <2> SUFFICES ASSUME t # r PROVE FALSE
    OBVIOUS
  <2>1. pc[t] \in Closing
    BY <1>1, Moves
  <2>2. t \in InFlight
    BY <2>1, Flying
  <2> QED BY <2>2, <1>1, Alone
<1>3. CASE pc[r] \in {"coverage", "facts"}
  <2>1. card[r] = None /\ card' = card
    BY <1>3, <1>0, CardStep DEF Records, Early, Choice
  <2> QED BY <2>1, <1>1, <1>2
<1>4. CASE pc[r] = "record"
  <2>1. pc'[r] = "respond"
    BY <1>1, <1>2, <1>4, CardStep DEF Closing
  <2>2. card' = [card EXCEPT ![r] = loc[r].pick]
    BY <1>4, <2>1, CardStep
  <2>3. card'[r] = loc[r].pick
    BY <2>2, <1>0
  <2>4. loc[r].pick.kind \notin {"coverage", "message"}
    BY <1>1, <1>2, <2>3 DEF OfFacts
  <2> QED BY <1>2, <1>4, <2>1, <2>4, PendingStep
<1>5. CASE pc[r] \in Closing
  <2>1. card' = card /\ wm'.pendingGt = wm.pendingGt
    BY <1>5, CardStep, PendingStep DEF Closing
  <2>2. card[t] # None /\ OfFacts(t) /\ t \notin overlapped
    BY <2>1, <1>0, <1>1 DEF OfFacts
  <2>3. wm.pendingGt = t
    BY <2>2, <1>2, <1>5 DEF OnItsWay
  <2> QED BY <2>1, <2>3
<1>6. pc[r] \in {"coverage", "facts", "record"} \cup Closing
  <2>1. pc'[r] \in Closing
    BY <1>1, <1>2
  <2> QED BY <2>1, Progress DEF Onward, Ends, Closing
<1> QED BY <1>3, <1>4, <1>5, <1>6

\* A card beside the pending one comes to the screen by a rival or a replay.
LEMMA ScreenStep ==
    ASSUME TypeInv, Shape, Rivals, OnItsWay, Misfiling, NEW r \in Request, Handle(r),
           NEW p \in Request, NEW t \in Request, t # p,
           wm'.pendingGt = p, screen' = t, p \in shown', OfFacts(t)'
    PROVE  ~Undisturbed({p, t})' \/ Retried(t)'
<1>0. /\ card \in [Request -> Card \cup {None}] /\ InHand(r) /\ Records
      /\ overlapped \subseteq overlapped' /\ screen \in Maybe /\ wm.pendingGt \in Maybe
      /\ \A c \in Maybe : (c # None /\ card[c] # None) => card'[c] = card[c]
  BY Moves, CardStep DEF TypeInv, Shape, Memory
<1>1. ASSUME screen = t, p \in shown, wm.pendingGt = p
      PROVE  ~Undisturbed({p, t})' \/ Retried(t)'
  <2>1. card[t] # None /\ card'[t] = card[t]
    BY <1>0, <1>1, NotNone DEF Records
  <2>2. OfFacts(t)
    BY <2>1 DEF OfFacts
  <2>3. ~Undisturbed({p, t}) \/ Retried(t)
    BY <1>1, <2>2, NotNone DEF Misfiling
  <2>4. Retried(t) => Retried(t)'
    BY <2>1, CardsArrived, RetriedStays
  <2> QED BY <1>0, <2>3, <2>4 DEF Undisturbed
<1>2. CASE shown' = shown /\ screen' = screen
  <2>1. pc[r] = "record" => r \notin shown
    BY <1>0 DEF Records, Early, Choice
  <2>2. wm.pendingGt = p
    BY <1>2, <2>1, PendingStep, NotNone
  <2> QED BY <1>1, <1>2, <2>2
<1>3. CASE screen' = None
  BY <1>3, NotNone
<1>4. ASSUME NEW c \in Request, shown' = shown \cup {c},
             screen' = IF card[c] = None \/ card[c].kind = "coverage" THEN screen ELSE c,
             \/ pc[r] \in {"respond", "reply"} /\ c = r
             \/ pc[r] = "enter" /\ c = replayable[body[r].key]
      PROVE  ~Undisturbed({p, t})' \/ Retried(t)'
  <2>1. wm.pendingGt = p
    BY <1>4, PendingStep, NotNone
  <2>2. CASE screen' = screen /\ (card[c] = None \/ card[c].kind = "coverage")
    <3>1. card[p] # None /\ OfFacts(p)
      BY <1>0, <2>1, NotNone DEF Records
    <3>2. c # p
      BY <2>2, <3>1 DEF OfFacts
    <3> QED BY <1>1, <1>4, <2>1, <2>2, <3>2
  <2>3. CASE screen' = c /\ card[c] # None
    <3>1. c = t /\ OfFacts(t)
      BY <1>0, <2>3, NotNone DEF OfFacts, Maybe
    <3>2. CASE pc[r] \in {"respond", "reply"} /\ c = r
      <4>1. r \in overlapped
        BY <2>1, <2>3, <3>1, <3>2 DEF OnItsWay, Closing
      <4> QED BY <1>0, <3>1, <3>2, <4>1 DEF Undisturbed
    <3>3. CASE pc[r] = "enter" /\ c = replayable[body[r].key]
      <4>1. body[r].key \in Request
        BY <1>0, <3>3 DEF InHand
      <4>2. body[c].key = body[r].key
        BY <1>0, <3>3, <4>1, NotNone DEF Records
      <4>3. c # r
        BY <1>0, <3>3, <4>1 DEF Records, Early, Opening
      <4>4. Retried(t)
        BY <3>1, <4>2, <4>3 DEF Retried
      <4> QED BY <2>3, <3>1, <4>4, CardsArrived, RetriedStays
    <3> QED BY <1>4, <3>2, <3>3
  <2> QED BY <1>4, <2>2, <2>3
<1> QED BY <1>2, <1>3, <1>4, ClientStep

LEMMA MisfilingStep ==
    ASSUME TypeInv, Shape, Rivals, OnItsWay, Misfiling, TypeInv', NEW r \in Request, Handle(r)
    PROVE  Misfiling'
<1>0. /\ loc \in [Request -> Local] /\ body \in [Request -> Body] /\ InHand(r) /\ Records
      /\ overlapped \subseteq overlapped' /\ screen \in Maybe /\ wm.pendingGt \in Maybe
      /\ shown \subseteq Request /\ shown' \subseteq Request /\ screen' \in Maybe
      /\ pc \in [Request -> Steps]
  BY Moves DEF TypeInv, Shape, Memory
<1>1. (wm.pendingGt \in shown /\ screen \notin {None, wm.pendingGt} /\ OfFacts(screen))'
       => ~Undisturbed({wm.pendingGt, screen})' \/ Retried(screen)'
  <2> SUFFICES ASSUME (wm.pendingGt \in shown /\ screen \notin {None, wm.pendingGt} /\ OfFacts(screen))'
               PROVE  ~Undisturbed({wm.pendingGt, screen})' \/ Retried(screen)'
    OBVIOUS
  <2>1. PICK p \in Request : p = wm'.pendingGt
    BY <1>0
  <2>2. PICK t \in Request : t = screen'
    BY <1>0 DEF Maybe
  <2>3. t # p /\ p \in shown' /\ OfFacts(t)'
    BY <2>1, <2>2 DEF OfFacts
  <2>4. ~Undisturbed({p, t})' \/ Retried(t)'
    BY <2>1, <2>2, <2>3, ScreenStep
  <2> QED BY <2>1, <2>2, <2>4 DEF Undisturbed, Retried
<1>2. ASSUME NEW q \in Request, q # r, pc'[q] \in Asking \cup {"sidecar"}
      PROVE  q \in overlapped'
  <2>1. pc[q] \in Asking \cup {"sidecar"}
    BY <1>2, Moves
  <2>2. q \in InFlight
    BY <2>1, Flying DEF Sidecar
  <2> QED BY <1>2, <2>2, Alone
<1>3. ASSUME pc'[r] = "sidecar", wm'.pendingGt \in shown' \ {body'[r].to}
      PROVE  Excused(r, body[r].to, wm.pendingGt)'
  <2>1. pc[r] = "idle"
    BY <1>3, Progress DEF Onward, Ends
  <2>2. wm' = wm /\ shown' = shown /\ card' = card
    BY <2>1, Arrives
  <2>3. body'[r].to # None /\ OfFacts(body'[r].to)
    BY <1>3, <2>1, BodyStep DEF FirstStep
  <2>4. Retry(r)' \/ body'[r].to = screen
    BY <2>1, <2>3, Arrives
  <2>5. CASE body'[r].to = screen
    <3>1. PICK p \in Request : p = wm.pendingGt
      BY <1>0, <1>3, <2>2
    <3>2. PICK t \in Request : t = screen
      BY <1>0, <2>3, <2>5 DEF Maybe
    <3>3. ~Undisturbed({p, t}) \/ Retried(t)
      BY <1>3, <2>2, <2>3, <2>5, <3>1, <3>2, NotNone DEF Misfiling
    <3>4. Retried(t) => Retried(t)'
      <4>1. card[t] # None
        BY <3>2, <1>0, NotNone DEF Records
      <4> QED BY <4>1, CardsArrived, RetriedStays
    <3>5. ~Undisturbed({p, t})' \/ Retried(t)'
      BY <1>0, <3>3, <3>4 DEF Undisturbed
    <3>6. body'[r].to = t /\ wm'.pendingGt = p
      BY <2>2, <2>5, <3>1, <3>2
    <3> QED BY <3>5, <3>6 DEF Excused, Undisturbed, Retried
  <2> QED BY <2>4, <2>5 DEF Excused
<1>4. ASSUME pc'[r] \in Asking, loc'[r].pending \in shown' \ {body'[r].to}
      PROVE  Excused(r, body[r].to, loc[r].pending)'
  <2>1. pc[r] \in {"sidecar", "decline"}
    BY <1>4, Progress DEF Onward, Ends, Asking
  <2>2. shown' = shown /\ body' = body /\ AnswersFact(r)
    BY <2>1, <1>0, ClientStep, BodyStep DEF InHand, Asking
  <2>3. PICK t \in Request : t = body[r].to /\ card[t] # None
    BY <2>1, <2>2, <1>0 DEF AnswersFact, InHand, Body, Maybe
  <2>4. PICK p \in Request : p = loc'[r].pending
    BY <1>0, <1>4
  <2>5. Excused(r, t, p)
    <3>1. CASE pc[r] = "sidecar"
      <4>1. loc' = [loc EXCEPT ![r].pending = wm.pendingGt]
        BY <1>4, <3>1, Progress DEF Onward, Ends, Asking
      <4>2. p = wm.pendingGt
        BY <4>1, <2>4, <1>0 DEF Local
      <4> QED BY <1>4, <2>2, <2>3, <2>4, <3>1, <4>2 DEF Misfiling
    <3>2. CASE pc[r] = "decline"
      <4>1. loc' = [loc EXCEPT ![r].declined = wm.declined]
        BY <1>4, <3>2, Progress DEF Onward, Ends, Asking
      <4>2. p = loc[r].pending
        BY <4>1, <2>4, <1>0 DEF Local
      <4> QED BY <1>4, <2>2, <2>3, <2>4, <3>2, <4>2 DEF Misfiling, Asking
    <3> QED BY <2>1, <3>1, <3>2
  <2>6. Excused(r, t, p)'
    BY <2>1, <2>3, <2>5, CardsArrived, ExcusedStays
  <2>7. body'[r].to = t /\ loc'[r].pending = p
    BY <2>2, <2>3, <2>4
  <2> QED BY <2>6, <2>7 DEF Excused, Undisturbed, Retried
<1>5. ASSUME NEW x \in filed', x.as # x.to, ~x.unseen
      PROVE  Excused(x.by, x.to, x.as)'
  <2>1. CASE x \in filed
    <3>1. x.by \in Request /\ x.to \in Request /\ pc[x.by] # "idle" /\ card[x.to] # None
      BY <2>1 DEF TypeInv, Shape, Records, Maybe
    <3>2. Excused(x.by, x.to, x.as)
      BY <2>1, <1>5 DEF Misfiling
    <3> QED BY <3>1, <3>2, CardsArrived, ExcusedStays
  <2>2. CASE x \notin filed
    <3>1. /\ x.by = r /\ x.to = body[r].to /\ x.as = loc[r].pending
          /\ x.unseen = (loc[r].pending \notin shown) /\ pc[r] \in {"declined", "file"}
      BY <2>2, <1>5, FiledStep
    <3>2. loc[r].pending \in shown \ {body[r].to}
      BY <3>1, <1>5
    <3>3. Excused(r, body[r].to, loc[r].pending)
      BY <3>1, <3>2 DEF Misfiling, Asking
    <3>4. body[r].to \in Request /\ card[body[r].to] # None
      BY <3>1, <1>0 DEF InHand, Asking, AnswersFact, Body, Maybe
    <3>5. Excused(x.by, x.to, x.as)
      BY <3>1, <3>3
    <3>6. x.by \in Request /\ x.to \in Request /\ pc[x.by] # "idle" /\ card[x.to] # None
      BY <3>1, <3>4
    <3> QED BY <3>5, <3>6, CardsArrived, ExcusedStays
  <2> QED BY <2>1, <2>2
<1>6. \A q \in Request :
         (pc'[q] = "sidecar" /\ wm'.pendingGt \in shown' \ {body'[q].to})
         => Excused(q, body[q].to, wm.pendingGt)'
  BY <1>2, <1>3 DEF Excused, Undisturbed
<1>7. \A q \in Request :
         (pc'[q] \in Asking /\ loc'[q].pending \in shown' \ {body'[q].to})
         => Excused(q, body[q].to, loc[q].pending)'
  BY <1>2, <1>4 DEF Excused, Undisturbed
<1> QED BY <1>1, <1>5, <1>6, <1>7 DEF Misfiling

\* Without retries no reply is replayed.
LEMMA NothingReplayed ==
    ASSUME TypeInv, Shape, NoRetries, NEW r \in Request, pc[r] = "enter"
    PROVE  replayable[body[r].key] = None
<1>1. body[r].key = r
  BY DEF NoRetries, Retry
<1> SUFFICES ASSUME replayable[r] # None PROVE FALSE
  BY <1>1
<1>2. PICK c \in Request : c = replayable[r]
  BY DEF TypeInv, Maybe
<1>3. c # r /\ pc[c] # "idle"
  BY <1>2 DEF Shape, Records, Early, Opening
<1>4. body[c].key = r
  BY <1>2 DEF Shape, Records
<1> QED BY <1>3, <1>4 DEF NoRetries, Retry

\* The card that comes to the screen is that of the request that moves.
LEMMA ScreenMoves ==
    ASSUME TypeInv, Shape, NoRetries, NEW r \in Request, Handle(r), screen' # None, OfFacts(screen)'
    PROVE  \/ screen' = screen /\ card'[screen] = card[screen] /\ card[screen] # None
           \/ /\ pc[r] \in {"respond", "reply"} /\ screen' = r
              /\ card[r] # None /\ OfFacts(r)
<1>1. screen # None => card[screen] # None /\ card'[screen] = card[screen]
  <2>1. screen \in Maybe /\ (screen # None => card[screen] # None)
    BY DEF TypeInv, Shape, Records
  <2> QED BY <2>1, CardStep
<1>2. CASE screen' = screen
  BY <1>1, <1>2
<1>3. ASSUME NEW c \in Request, screen' = c, card[c] # None,
             \/ pc[r] \in {"respond", "reply"} /\ c = r
             \/ pc[r] = "enter" /\ c = replayable[body[r].key]
      PROVE  /\ pc[r] \in {"respond", "reply"} /\ screen' = r
             /\ card[r] # None /\ OfFacts(r)
  <2>1. pc[r] \in {"respond", "reply"} /\ c = r
    BY <1>3, NothingReplayed, NotNone
  <2>2. card'[r] = card[r]
    BY <2>1, CardStep
  <2> QED BY <1>3, <2>1, <2>2 DEF OfFacts
<1>4. \/ screen' = screen \/ screen' = None
      \/ \E c \in Request :
            /\ screen' = c /\ card[c] # None
            /\ \/ pc[r] \in {"respond", "reply"} /\ c = r
               \/ pc[r] = "enter" /\ c = replayable[body[r].key]
  BY ClientStep
<1> QED BY <1>2, <1>3, <1>4

LEMMA AwaitedStep ==
    ASSUME TypeInv, Shape, Rivals, OnItsWay, Awaited, NEW r \in Request, Handle(r)
    PROVE  Awaited'
<1>0. /\ body \in [Request -> Body] /\ InHand(r) /\ Records
      /\ overlapped \subseteq overlapped' /\ pc \in [Request -> Steps]
  BY Moves DEF TypeInv, Shape
<1> SUFFICES ASSUME NoRetries' PROVE Awaited'
  BY DEF Awaited
<1>1. NoRetries
  BY BodiesStay DEF NoRetries
<1>2. ASSUME NEW q \in Request, q # r, pc'[q] \in Asking \cup {"sidecar", "clear"}
      PROVE  q \in InFlight /\ q \in overlapped' /\ r \in overlapped' /\ Answering(q)
  <2>1. pc[q] \in Asking \cup {"sidecar", "clear"}
    BY <1>2, Moves
  <2>2. q \in InFlight
    BY <2>1, Flying DEF Sidecar
  <2> QED BY <1>2, <2>1, <2>2, Alone DEF Answering
<1>3. (screen' # None /\ OfFacts(screen)' /\ screen' \notin overlapped') => wm'.pendingGt # None
  <2> SUFFICES ASSUME screen' # None, OfFacts(screen)', screen' \notin overlapped'
               PROVE  wm'.pendingGt # None
    OBVIOUS
  <2>1. CASE screen' = screen /\ card'[screen] = card[screen]
    <3>1. screen # None /\ OfFacts(screen) /\ screen \notin overlapped
      BY <2>1, <1>0 DEF OfFacts
    <3>2. wm.pendingGt # None
      BY <3>1, <1>1 DEF Awaited
    <3>3. pc[r] # "clear"
      BY <3>1, <1>1 DEF Awaited, Answering
    <3> QED BY <3>2, <3>3, PendingStep, NotNone
  <2>2. CASE pc[r] \in {"respond", "reply"} /\ screen' = r /\ card[r] # None /\ OfFacts(r)
    <3>1. wm.pendingGt = r
      BY <2>2, <1>0 DEF OnItsWay, Closing
    <3> QED BY <2>2, <3>1, PendingStep, NotNone
  <2> QED BY <2>1, <2>2, <1>1, ScreenMoves
<1>4. ASSUME NEW q \in Request, pc'[q] \in Asking \cup {"sidecar", "clear"},
             screen' # None, OfFacts(screen)'
      PROVE  screen' \in overlapped'
  <2>1. CASE screen' = screen /\ card'[screen] = card[screen]
    <3>1. screen # None /\ OfFacts(screen)
      BY <2>1, <1>4 DEF OfFacts
    <3>2. Answering(q)
      <4>1. CASE q # r
        BY <1>2, <1>4, <4>1
      <4>2. CASE q = r
        <5>1. pc[r] # "idle"
          <6> SUFFICES ASSUME pc[r] = "idle" PROVE FALSE
            OBVIOUS
          <6>1. pc'[r] = "sidecar"
            BY <1>4, <4>2, Progress DEF Onward, Ends, Asking
          <6>2. body'[r].to # None
            BY <6>1, BodyStep DEF FirstStep
          <6>3. ~Retry(r)'
            BY <6>1 DEF NoRetries
          <6> QED BY <6>2, <6>3, <1>4, Arrives
        <5> QED BY <1>4, <4>2, <5>1, Progress DEF Onward, Ends, Answering, Asking
      <4> QED BY <4>1, <4>2
    <3>3. screen \in overlapped
      BY <3>1, <3>2, <1>1 DEF Awaited
    <3> QED BY <3>3, <2>1, <1>0
  <2>2. CASE pc[r] \in {"respond", "reply"} /\ screen' = r
    <3>1. q # r
      BY <2>2, <1>4, Progress DEF Onward, Ends, Asking
    <3> QED BY <3>1, <2>2, <1>2, <1>4
  <2> QED BY <2>1, <2>2, <1>1, <1>4, ScreenMoves
<1>5. ASSUME NEW q \in Request, pc'[q] = "sidecar", Undisturbed({q, body[q].to})'
      PROVE  wm'.pendingGt # None
  <2>1. q = r
    BY <1>2, <1>5 DEF Undisturbed
  <2>2. pc[r] = "idle"
    BY <1>5, <2>1, Progress DEF Onward, Ends
  <2>3. body'[r].to # None /\ OfFacts(body'[r].to)
    BY <1>5, <2>1, <2>2, BodyStep DEF FirstStep
  <2>4. ~Retry(r)'
    BY <1>5, <2>1 DEF NoRetries
  <2>5. body'[r].to = screen /\ wm' = wm
    BY <2>2, <2>3, <2>4, Arrives
  <2>6. screen \notin overlapped
    BY <1>0, <1>5, <2>1, <2>5 DEF Undisturbed
  <2> QED BY <1>1, <2>3, <2>5, <2>6 DEF Awaited
<1>6. ASSUME NEW q \in Request, pc'[q] \notin Asking \cup {"idle", "sidecar", "failed"},
             AnswersFact(q)', body'[q].says = "value", Undisturbed({q, body[q].to})'
      PROVE  \E x \in filed' : x.by = q
  <2>1. ASSUME pc[q] \notin Asking \cup {"idle", "sidecar", "failed"}
        PROVE  \E x \in filed' : x.by = q
    <3>1. AnswersFact(q) /\ body'[q] = body[q]
      BY <1>6, <2>1, BodiesStay
    <3>2. Undisturbed({q, body[q].to})
      BY <1>0, <1>6, <3>1 DEF Undisturbed
    <3>3. \E x \in filed : x.by = q
      BY <1>1, <1>6, <2>1, <3>1, <3>2 DEF Awaited
    <3> QED BY <3>3, FiledStep
  <2>2. CASE q # r
    <3>1. pc'[q] = pc[q]
      BY <2>2, Moves
    <3> QED BY <1>6, <2>1, <3>1
  <2>3. CASE q = r
    <3>1. CASE pc[r] = "idle"
      <4>1. pc'[r] = "invitation"
        BY <1>6, <2>3, <3>1, Progress DEF Onward, Ends
      <4>2. body'[r].to # None /\ OfFacts(body[r].to)'
        BY <1>6, <2>3 DEF AnswersFact
      <4>3. card' = card
        BY <3>1, CardStep
      <4> QED BY <4>1, <4>2, <4>3, <3>1, BodyStep DEF FirstStep, OfFacts
    <3>2. CASE pc[r] = "sidecar"
      <4>1. body'[r] = body[r] /\ Undisturbed({r, body[r].to})
        <5>1. body'[r] = body[r]
          BY <3>2, BodyStep
        <5> QED BY <5>1, <1>0, <1>6, <2>3 DEF Undisturbed
      <4>2. wm.pendingGt # None
        BY <1>1, <3>2, <4>1 DEF Awaited
      <4> QED BY <1>6, <2>3, <3>2, <4>1, <4>2, Progress DEF Onward, Ends, Asking
    <3>3. CASE pc[r] \in Asking
      <4>1. body'[r] = body[r]
        BY <3>3, BodyStep DEF Asking
      <4>2. pc[r] = "file"
        BY <1>0, <1>6, <2>3, <3>3, <4>1 DEF InHand, Asking
      <4>3. pc'[r] = "clear"
        BY <1>6, <2>3, <4>2, Progress DEF Onward, Ends
      <4>4. \E x \in filed' : x.by = r
        <5> DEFINE new == [by |-> r, to |-> body[r].to, as |-> loc[r].pending,
                           unseen |-> loc[r].pending \notin shown]
        <5>1. pc[r] \in {"declined", "file"} /\ pc'[r] = "clear"
          BY <4>2, <4>3
        <5>2. filed' = filed \cup {new}
          BY <5>1, FiledStep
        <5>3. new.by = r
          OBVIOUS
        <5> HIDE DEF new
        <5> QED BY <5>2, <5>3
      <4> QED BY <4>4, <2>3
    <3>4. pc[r] # "failed"
      BY Moves
    <3> QED BY <2>1, <2>3, <3>1, <3>2, <3>3, <3>4
  <2> QED BY <2>2, <2>3
<1> QED BY <1>3, <1>4, <1>5, <1>6 DEF Awaited, Answering

LEMMA FilingImplies ==
    ASSUME TypeInv, Shape, Misfiling, Awaited
    PROVE  AnswersAreFiled
<1>1. \A x \in filed : x.as # x.to =>
          \/ ~Undisturbed({x.by, x.to, x.as}) \/ Retry(x.by) \/ Retried(x.to) \/ x.unseen
  BY DEF Misfiling, Excused
<1>2. ASSUME NEW r \in Request,
             pc[r] = "done" /\ AnswersFact(r) /\ ~Retry(r) /\ body[r].says = "value"
      PROVE  \/ \E x \in filed : x.by = r
             \/ ~Undisturbed({r, body[r].to}) \/ \E s \in Request : pc[s] # "idle" /\ Retry(s)
  BY <1>2 DEF Awaited, NoRetries, Asking
<1> QED BY <1>1, <1>2 DEF AnswersAreFiled

-----------------------------------------------------------------------------
(* Anchors and messages.                                                    *)

LEMMA MessageStep ==
    ASSUME TypeInv, NEW r \in Request, Handle(r)
    PROVE  \/ /\ wm'.pendingMessage = wm.pendingMessage /\ wm'.invited = wm.invited
              /\ ~ (pc[r] = "taken" /\ pc'[r] \in {"enter", "append"})
           \/ /\ pc[r] = "taken" /\ wm'.pendingMessage = FALSE /\ wm'.invited = wm.invited
           \/ /\ pc[r] = "record" /\ loc[r].pick.kind = "message"
              /\ wm'.pendingMessage = TRUE /\ wm'.invited = TRUE
<1>0. wm \in Memory
  BY DEF TypeInv
<1>1. CASE Fields(wm') = Fields(wm) /\ <<pc[r], pc'[r]>> \notin Writes
  BY <1>1 DEF Fields, Writes
<1>2. CASE pc[r] = "record" /\ pc'[r] = "respond" /\ wm' = Recorded(r)
  BY <1>2, RecordedFields
<1>3. CASE pc[r] = "clear" /\ wm' = [wm EXCEPT !.pendingGt = None]
  BY <1>3, <1>0 DEF Memory
<1>4. CASE pc[r] = "file" /\ wm' = [wm EXCEPT !.anchor = loc[r].pending]
  BY <1>4, <1>0 DEF Memory
<1>5. CASE pc[r] = "unanchor" /\ wm' = [wm EXCEPT !.anchor = None]
  BY <1>5, <1>0 DEF Memory
<1>6. CASE /\ pc[r] = "declined"
           /\ wm' = [wm EXCEPT !.declined = loc[r].declined \cup {card[loc[r].pending].of}]
  BY <1>6, <1>0 DEF Memory
<1>7. CASE pc[r] = "taken" /\ wm' = [wm EXCEPT !.pendingMessage = FALSE]
  BY <1>7, <1>0 DEF Memory
<1> QED BY <1>1, <1>2, <1>3, <1>4, <1>5, <1>6, <1>7, MemoryCases

\* In a session without overlaps or failures, who moves is alone in flight.
LEMMA OneAtATime ==
    ASSUME TypeInv, Rivals, NEW r \in Request, Handle(r), Smooth'
    PROVE  /\ Smooth /\ pc'[r] # "failed"
           /\ \A s \in Request \ {r} : pc[s] \in Idle /\ pc'[s] \in Idle
<1>1. overlapped = {}
  BY Moves DEF Smooth
<1>2. \A s \in Request \ {r} : pc'[s] = pc[s]
  BY Moves
<1>3. \A s \in Request \ {r} : s \notin InFlight
  BY Alone DEF Smooth
<1>4. pc[r] # "failed"
  BY Moves
<1> QED BY <1>1, <1>2, <1>3, <1>4 DEF Smooth, InFlight

LEMMA AnchorsStep ==
    ASSUME TypeInv, Shape, Rivals, Anchors, NEW r \in Request, Handle(r), Smooth'
    PROVE  Anchors'
<1>0. /\ wm \in Memory /\ loc \in [Request -> Local] /\ InHand(r) /\ Records
      /\ pc \in [Request -> Steps] /\ sent \subseteq Request \X Maybe
  BY DEF TypeInv, Shape
<1>1. /\ pc'[r] # "failed"
      /\ \A s \in Request \ {r} : pc[s] \in Idle /\ pc'[s] \in Idle
  BY OneAtATime
<1>2. Onward(r) \/ Ends(r)
  BY Progress
<1>3. ASSUME NEW q \in Request, pc'[q] \in Asking
      PROVE  loc'[q].pending = wm'.pendingGt
  <2>1. q = r
    BY <1>1, <1>3 DEF Asking, Idle
  <2>2. CASE pc[r] = "sidecar"
    <3>1. loc' = [loc EXCEPT ![r].pending = wm.pendingGt]
      BY <1>2, <1>3, <2>1, <2>2 DEF Onward, Ends, Asking
    <3>2. loc'[r].pending = wm.pendingGt
      BY <3>1, <1>0 DEF Local
    <3> QED BY <2>1, <2>2, <3>2, PendingStep
  <2>3. CASE pc[r] = "decline"
    <3>1. loc' = [loc EXCEPT ![r].declined = wm.declined]
      BY <1>2, <1>3, <2>1, <2>3 DEF Onward, Ends, Asking
    <3>2. loc'[r].pending = loc[r].pending
      BY <3>1, <1>0 DEF Local
    <3>3. loc[r].pending = wm.pendingGt
      BY <2>3 DEF Anchors, Asking
    <3> QED BY <2>1, <2>3, <3>2, <3>3, PendingStep
  <2>4. pc[r] \in {"sidecar", "decline"}
    BY <1>2, <1>3, <2>1 DEF Onward, Ends, Asking
  <2> QED BY <2>2, <2>3, <2>4
<1>4. ASSUME NEW q \in Request, pc'[q] = "push"
      PROVE  loc'[q].anchor = wm'.anchor /\ wm'.anchor # None
  <2>1. q = r
    BY <1>1, <1>4 DEF Idle
  <2>2. pc[r] = "respond" /\ loc' = [loc EXCEPT ![r].anchor = wm.anchor] /\ wm.anchor # None
    BY <1>2, <1>4, <2>1 DEF Onward, Ends
  <2>3. loc'[r].anchor = wm.anchor
    BY <2>2, <1>0 DEF Local
  <2>4. wm'.anchor = wm.anchor
    BY <2>2, AnchorStep
  <2> QED BY <2>1, <2>2, <2>3, <2>4
<1>5. \A c \in Maybe : (c # None /\ card[c] # None) =>
         /\ card'[c] = card[c]
         /\ pc[r] = "record" => c # r
  BY <1>0, CardStep DEF Records, Early, Choice
<1>6. ASSUME wm'.anchor # None, wm'.anchor = wm'.pendingGt
      PROVE  At("clear")'
  <2>1. CASE wm'.anchor = wm.anchor
    <3>1. wm.anchor \in Maybe /\ wm.anchor # None /\ card[wm.anchor] # None
      BY <1>0, <1>6, <2>1 DEF Memory, Records
    <3>2. ~ (pc[r] = "record" /\ wm'.pendingGt = r)
      BY <1>5, <1>6, <2>1, <3>1
    <3>3. wm'.pendingGt = wm.pendingGt /\ ~ (pc[r] = "clear" /\ pc'[r] = "invitation")
      BY <1>6, <3>2, PendingStep
    <3>4. PICK s \in Request : pc[s] = "clear"
      BY <1>6, <2>1, <3>1, <3>3 DEF Anchors, At
    <3>5. s = r
      BY <1>1, <3>4 DEF Idle
    <3> QED BY <1>1, <1>2, <3>3, <3>4, <3>5 DEF Onward, Ends
  <2>2. CASE pc'[r] = "clear"
    BY <2>2 DEF At
  <2> QED BY <1>6, <2>1, <2>2, AnchorStep
<1>a. unsure \subseteq unsure'
  BY HistoryStep
<1>7. ASSUME NEW x \in sent, x[1] \notin unsure'
      PROVE  /\ x[2] # None /\ card'[x[2]] # None /\ wm'.pendingGt # x[2]
             /\ wm'.anchor = x[2] => At("unanchor")'
  <2>1. /\ x[2] # None /\ card[x[2]] # None /\ wm.pendingGt # x[2]
        /\ wm.anchor = x[2] => At("unanchor")
    BY <1>7, <1>a DEF Anchors
  <2>2. x[2] \in Maybe
    BY <1>0, <1>7
  <2>3. card'[x[2]] # None /\ (pc[r] = "record" => x[2] # r)
    BY <1>5, <2>1, <2>2
  <2>4. wm'.pendingGt # x[2]
    BY <2>1, <2>3, PendingStep
  <2>5. ASSUME wm'.anchor = x[2]
        PROVE  At("unanchor")'
    <3>1. CASE wm'.anchor = wm.anchor /\ ~ (pc[r] = "unanchor" /\ pc'[r] = "reply")
      <4>1. PICK s \in Request : pc[s] = "unanchor"
        BY <2>1, <2>5, <3>1 DEF At
      <4>2. s = r
        BY <1>1, <4>1 DEF Idle
      <4> QED BY <1>1, <1>2, <3>1, <4>1, <4>2 DEF Onward, Ends
    <3>2. CASE pc[r] = "file" /\ wm'.anchor = loc[r].pending
      <4>1. loc[r].pending = wm.pendingGt
        BY <3>2 DEF Anchors, Asking
      <4> QED BY <2>1, <2>5, <3>2, <4>1
    <3>3. CASE wm'.anchor = None
      BY <2>1, <2>5, <3>3
    <3> QED BY <3>1, <3>2, <3>3, AnchorStep
  <2> QED BY <2>1, <2>3, <2>4, <2>5
<1>8. CASE sent' = sent
  <2>1. \A x, y \in sent' : x[2] = y[2] => x = y \/ x[1] \in unsure' \/ y[1] \in unsure'
    BY <1>8, <1>a DEF Anchors
  <2>2. \A x \in sent' : x[1] \notin unsure' =>
                         /\ x[2] # None /\ card'[x[2]] # None /\ wm'.pendingGt # x[2]
                         /\ wm'.anchor = x[2] => At("unanchor")'
    BY <1>7, <1>8
  <2>3. (wm'.anchor # None /\ wm'.anchor = wm'.pendingGt) => At("clear")'
    BY <1>6
  <2> QED BY <1>3, <1>4, <2>1, <2>2, <2>3 DEF Anchors
<1>9. CASE /\ pc[r] = "push" /\ pc'[r] = "unanchor" /\ wm' = wm
           /\ sent' = sent \cup {<<r, loc[r].anchor>>}
  <2>1. loc[r].anchor = wm.anchor /\ wm.anchor # None
    BY <1>9 DEF Anchors
  <2>2. card[wm.anchor] # None /\ wm.anchor \in Maybe
    BY <1>0, <2>1 DEF Records, Memory
  <2>3. \A s \in Request : pc[s] # "clear" /\ pc[s] # "unanchor"
    BY <1>1, <1>9 DEF Idle
  <2>4. wm.pendingGt # wm.anchor
    BY <2>1, <2>3 DEF Anchors, At
  <2>5. At("unanchor")'
    BY <1>9 DEF At
  <2>6. \A y \in sent : y[1] \notin unsure => y[2] # wm.anchor
    BY <2>3 DEF Anchors, At
  <2>7. card'[wm.anchor] # None
    BY <1>5, <2>1, <2>2
  <2>8. PICK a : a = wm.anchor
    OBVIOUS
  <2>9. sent' = sent \cup {<<r, a>>}
    BY <1>9, <2>1, <2>8
  <2>10. \A x, y \in sent' : x[2] = y[2] => x = y \/ x[1] \in unsure' \/ y[1] \in unsure'
    <3>1. \A x, y \in sent : x[2] = y[2] => x = y \/ x[1] \in unsure' \/ y[1] \in unsure'
      BY <1>a DEF Anchors
    <3>2. \A y \in sent : y[2] = a => y[1] \in unsure'
      BY <2>6, <2>8, <1>a
    <3> QED BY <2>9, <3>1, <3>2
  <2>11. ASSUME NEW x \in sent', x[1] \notin unsure'
         PROVE  /\ x[2] # None /\ card'[x[2]] # None /\ wm'.pendingGt # x[2]
                /\ wm'.anchor = x[2] => At("unanchor")'
    <3>1. CASE x \in sent
      BY <3>1, <1>7, <2>11
    <3>2. CASE x = <<r, wm.anchor>>
      BY <3>2, <1>9, <2>1, <2>4, <2>5, <2>7
    <3> QED BY <3>1, <3>2, <2>8, <2>9, <2>11
  <2>12. (wm'.anchor # None /\ wm'.anchor = wm'.pendingGt) => At("clear")'
    BY <1>6
  <2> QED BY <1>3, <1>4, <2>10, <2>11, <2>12 DEF Anchors
<1>10. CASE /\ unsure' = unsure \cup {r}
            /\ sent' = sent \cup {<<r, loc[r].anchor>>}
  <2>1. PICK a : a = loc[r].anchor
    OBVIOUS
  <2>2. sent' = sent \cup {<<r, a>>} /\ r \in unsure'
    BY <1>10, <2>1
  <2>3. \A x \in sent' : x \in sent \/ x[1] \in unsure'
    BY <2>2
  <2>4. \A x, y \in sent : x[2] = y[2] => x = y \/ x[1] \in unsure' \/ y[1] \in unsure'
    BY <1>a DEF Anchors
  <2>5. \A x, y \in sent' : x[2] = y[2] => x = y \/ x[1] \in unsure' \/ y[1] \in unsure'
    BY <2>3, <2>4
  <2>6. \A x \in sent' : x[1] \notin unsure' =>
                         /\ x[2] # None /\ card'[x[2]] # None /\ wm'.pendingGt # x[2]
                         /\ wm'.anchor = x[2] => At("unanchor")'
    BY <1>7, <2>3
  <2>7. (wm'.anchor # None /\ wm'.anchor = wm'.pendingGt) => At("clear")'
    BY <1>6
  <2> QED BY <1>3, <1>4, <2>5, <2>6, <2>7 DEF Anchors
<1> QED BY <1>8, <1>9, <1>10, HistoryStep

LEMMA MessagesStep ==
    ASSUME TypeInv, Shape, Rivals, Messages, NEW r \in Request, Handle(r), Smooth'
    PROVE  Messages'
<1>0. pc \in [Request -> Steps] /\ wm.invited \in BOOLEAN /\ wm.pendingMessage \in BOOLEAN
  BY DEF TypeInv, Memory
<1>1. /\ pc'[r] # "failed"
      /\ \A s \in Request \ {r} : pc[s] \in Idle /\ pc'[s] \in Idle
  BY OneAtATime
<1>2. Onward(r) \/ Ends(r)
  BY Progress
<1>3. ASSUME NEW q \in Request, pc'[q] \in Choice
      PROVE  loc'[q].snap.invited = wm'.invited
  <2>1. q = r
    BY <1>1, <1>3 DEF Choice, Idle
  <2>2. /\ pc[r] # "record"
        /\ \/ loc'[r].snap = wm
           \/ loc'[r].snap = loc[r].snap /\ pc[r] \in Choice
    BY <1>3, <2>1, SnapStep
  <2>3. loc'[r].snap.invited = wm.invited
    BY <2>2 DEF Messages
  <2>4. wm'.invited = wm.invited
    BY <2>2, CountStep
  <2> QED BY <2>1, <2>3, <2>4
<1>4. ASSUME NEW q \in Request, pc'[q] = "record", loc'[q].pick.kind = "message"
      PROVE  ~wm'.invited
  <2>1. q = r
    BY <1>1, <1>4 DEF Idle
  <2>2. pc[r] \in {"coverage", "facts"} /\ ~loc[r].snap.invited
    BY <1>4, <2>1, PickStep
  <2>3. ~wm.invited
    BY <2>2 DEF Messages, Choice
  <2>4. wm'.invited = wm.invited
    BY <2>2, CountStep
  <2> QED BY <2>3, <2>4
<1>5. ASSUME NEW q \in Request, pc'[q] \in {"typed", "polish"}
      PROVE  wm'.pendingMessage
  <2>1. q = r
    BY <1>1, <1>5 DEF Idle
  <2>2. pc[r] \in {"invitation", "typed"} /\ (pc[r] = "invitation" => wm.pendingMessage)
    BY <1>2, <1>5, <2>1 DEF Onward, Ends
  <2>3. wm.pendingMessage
    BY <2>2 DEF Messages
  <2> QED BY <2>2, <2>3, MessageStep
<1>6. wm'.pendingMessage => wm'.invited
  BY MessageStep DEF Messages
<1>7. wm.invited => wm'.invited
  BY MessageStep
<1>8. CASE captured' = captured
  <2>1. ASSUME captured # {}, wm'.pendingMessage
        PROVE  At("taken")'
    <3>1. wm.invited /\ (wm.pendingMessage => At("taken"))
      BY <2>1 DEF Messages
    <3>2. ~ (pc[r] = "record" /\ loc[r].pick.kind = "message")
      BY <3>1 DEF Messages
    <3>3. wm.pendingMessage /\ ~ (pc[r] = "taken" /\ pc'[r] \in {"enter", "append"})
      BY <2>1, <3>2, MessageStep
    <3>4. PICK s \in Request : pc[s] = "taken"
      BY <3>1, <3>3 DEF At
    <3>5. s = r
      BY <1>1, <3>4 DEF Idle
    <3> QED BY <1>1, <1>2, <3>3, <3>4, <3>5 DEF Onward, Ends
  <2>2. captured' # {} => wm'.invited /\ (wm'.pendingMessage => At("taken")')
    BY <1>7, <1>8, <2>1 DEF Messages
  <2>3. captured' = {} \/ \E q \in Request : captured' = {q}
    BY <1>8 DEF Messages
  <2> QED BY <1>3, <1>4, <1>5, <1>6, <2>2, <2>3 DEF Messages
<1>9. CASE pc[r] = "polish" /\ pc'[r] = "taken" /\ captured' = captured \cup {r} /\ wm' = wm
  <2>1. wm.pendingMessage /\ wm.invited
    BY <1>9 DEF Messages
  <2>2. \A s \in Request : pc[s] # "taken"
    BY <1>1, <1>9 DEF Idle
  <2>3. captured = {}
    BY <2>1, <2>2 DEF Messages, At
  <2>4. captured' = {r}
    BY <1>9, <2>3
  <2>5. At("taken")' /\ wm'.invited
    BY <1>9, <2>1 DEF At
  <2> QED BY <1>3, <1>4, <1>5, <1>6, <2>4, <2>5 DEF Messages
<1> QED BY <1>8, <1>9, HistoryStep

LEMMA TakingImplies ==
    ASSUME Smooth => Anchors /\ Messages
    PROVE  TakenOnce
<1> SUFFICES ASSUME Smooth
             PROVE  /\ \A x, y \in sent : x[2] = y[2] => x = y \/ {x[1], y[1]} \cap unsure # {}
                    /\ Cardinality(captured) <= 1
  BY DEF TakenOnce, Smooth
<1>1. \A x, y \in sent : x[2] = y[2] => x = y \/ {x[1], y[1]} \cap unsure # {}
  BY DEF Anchors
<1>2. Cardinality(captured) <= 1
  <2>1. captured = {} \/ \E r \in Request : captured = {r}
    BY DEF Messages
  <2>2. CASE captured = {}
    <3>1. Cardinality(captured) = 0
      BY <2>2, FS_EmptySet
    <3> QED BY <3>1
  <2>3. ASSUME NEW r \in Request, captured = {r}
        PROVE  Cardinality(captured) <= 1
    <3>1. Cardinality({r}) = 1
      BY FS_Singleton
    <3> QED BY <2>3, <3>1
  <2> QED BY <2>1, <2>2, <2>3
<1> QED BY <1>1, <1>2

-----------------------------------------------------------------------------
(* The theorems.                                                            *)

\* What every invariant stands on.
BaseInv == TypeInv /\ Shape /\ Rivals

LEMMA BaseStart == Init => BaseInv
BY TypesStart, ShapeStart, RivalsStart DEF BaseInv

LEMMA BaseStep == BaseInv /\ [Next]_vars => BaseInv'
BY TypesStep, ShapeStep, RivalsStep DEF BaseInv

\* Every variable has its type, what is pending, on the screen or filed is a
\* card that was recorded, and of two requests in flight both are overlapped,
\* in every state of a session's cards.
THEOREM TypesHold == Spec => []BaseInv
BY BaseStart, BaseStep, PTL DEF Spec

LEMMA AskingStart == Init => AskingInv
<1> SUFFICES ASSUME Init PROVE AskingInv
  OBVIOUS
<1>1. Known /\ Repeats
  BY DEF Init, Known, Repeats, NotAskedAgain
<1> QED BY <1>1, BaseStart DEF AskingInv, BaseInv

LEMMA AskingStep == AskingInv /\ [Next]_vars => AskingInv'
<1> SUFFICES ASSUME AskingInv, [Next]_vars
             PROVE  AskingInv'
  OBVIOUS
<1>0. BaseInv /\ Known /\ Repeats /\ BaseInv'
  BY BaseStep DEF AskingInv, BaseInv
<1>1. CASE Apart
  <2>1. Known'
    BY <1>0, <1>1, Elsewhere DEF Known, Right, Aside
  <2>2. Repeats'
    BY <1>0, <1>1, Elsewhere DEF Repeats, NotAskedAgain, FiledRight, Undisturbed
  <2> QED BY <1>0, <2>1, <2>2 DEF AskingInv, BaseInv
<1>2. ASSUME NEW r \in Request, Handle(r)
      PROVE  AskingInv'
  BY <1>0, <1>2, KnownStep, RepeatsStep DEF AskingInv, BaseInv
<1> QED BY <1>1, <1>2, Steppers

\* A fact that was answered or declined in a turn that went through is not asked
\* again, unless turns overlapped or nothing was filed under its card: the
\* selection reads persons and the declined list after the answer was written to
\* one.  Where the read of persons failed, what was told may be asked again, and
\* what was declined still may not.
THEOREM NeverAskedAgain == Spec => []NotAskedAgain
<1>1. AskingInv => NotAskedAgain
  BY DEF AskingInv, Repeats
<1> QED BY <1>1, AskingStart, AskingStep, PTL DEF Spec

LEMMA CapsStart == Init => CapsInv
BY BaseStart, RoomsStart DEF CapsInv, BaseInv

LEMMA CapsStep == CapsInv /\ [Next]_vars => CapsInv'
<1> SUFFICES ASSUME CapsInv, [Next]_vars
             PROVE  CapsInv'
  OBVIOUS
<1>0. BaseInv /\ Rooms /\ BaseInv'
  BY BaseStep DEF CapsInv, BaseInv
<1>1. CASE Apart
  <2>1. wm' = wm /\ Tapping' = Tapping /\ Probing' = Probing /\ Inviting' = Inviting
        /\ Invited' = Invited /\ pc' = pc /\ loc' = loc /\ Spare' = Spare
    BY <1>1, Elsewhere DEF Tapping, Probing, Inviting, Invited, Spare
  <2>2. Rooms'
    BY <1>0, <2>1 DEF Rooms, Room
  <2> QED BY <1>0, <2>2 DEF CapsInv, BaseInv
<1>2. ASSUME NEW r \in Request, Handle(r)
      PROVE  CapsInv'
  BY <1>0, <1>2, RoomsStep DEF CapsInv, BaseInv
<1> QED BY <1>1, <1>2, Steppers

\* The caps are checked on a snapshot and counted later.  While no two turns have
\* overlapped they hold; turns that overlap may pass them, by one card for each
\* rival and no more.
THEOREM CapsHold == Spec => []CardsWithinCaps
<1>1. CapsInv => CardsWithinCaps
  BY RoomsBound DEF CapsInv
<1> QED BY <1>1, CapsStart, CapsStep, PTL DEF Spec

LEMMA FilingStart == Init => FilingInv
<1> SUFFICES ASSUME Init PROVE FilingInv
  OBVIOUS
<1>1. /\ \A r \in Request : pc[r] = "idle"
      /\ screen = None /\ filed = {} /\ shown = {}
  BY DEF Init
<1>2. OnItsWay /\ Misfiling /\ Awaited
  BY <1>1 DEF OnItsWay, Misfiling, Awaited, Answering, Asking, Closing
<1> QED BY <1>2, BaseStart DEF FilingInv, BaseInv

LEMMA FilingStep == FilingInv /\ [Next]_vars => FilingInv'
<1> SUFFICES ASSUME FilingInv, [Next]_vars
             PROVE  FilingInv'
  OBVIOUS
<1>0. BaseInv /\ OnItsWay /\ Misfiling /\ Awaited /\ BaseInv'
  BY BaseStep DEF FilingInv, BaseInv
<1>1. CASE Apart
  <2>1. OnItsWay'
    BY <1>0, <1>1, Elsewhere DEF OnItsWay, OfFacts
  <2>2. Misfiling'
    BY <1>0, <1>1, Elsewhere DEF Misfiling, Excused, OfFacts, Undisturbed, Retry, Retried
  <2>3. Awaited'
    BY <1>0, <1>1, Elsewhere
       DEF Awaited, NoRetries, Retry, OfFacts, Answering, Undisturbed, AnswersFact
  <2> QED BY <1>0, <2>1, <2>2, <2>3 DEF FilingInv, BaseInv
<1>2. ASSUME NEW r \in Request, Handle(r)
      PROVE  FilingInv'
  <2>1. OnItsWay'
    BY <1>0, <1>2, OnItsWayStep DEF BaseInv
  <2>2. Misfiling'
    BY <1>0, <1>2, MisfilingStep DEF BaseInv
  <2>3. Awaited'
    BY <1>0, <1>2, AwaitedStep DEF BaseInv
  <2> QED BY <1>0, <2>1, <2>2, <2>3 DEF FilingInv, BaseInv
<1> QED BY <1>1, <1>2, Steppers

\* The answer names no card and is filed under the pending one.  It is the card
\* it was given to unless turns overlapped, the request or the card's was sent
\* again, or the pending card never reached the client; and no answer of a turn
\* that went through is dropped but for an overlap or a retry.
THEOREM AnswersFiled == Spec => []AnswersAreFiled
<1>1. FilingInv => AnswersAreFiled
  BY FilingImplies DEF FilingInv
<1> QED BY <1>1, FilingStart, FilingStep, PTL DEF Spec

LEMMA TakingStart == Init => TakingInv
<1> SUFFICES ASSUME Init PROVE TakingInv
  OBVIOUS
<1>1. Anchors
  BY DEF Init, Anchors, Asking
<1>2. Messages
  BY DEF Init, Messages, Choice
<1> QED BY <1>1, <1>2, BaseStart DEF TakingInv, BaseInv

LEMMA TakingStep == TakingInv /\ [Next]_vars => TakingInv'
<1> SUFFICES ASSUME TakingInv, [Next]_vars
             PROVE  TakingInv'
  OBVIOUS
<1>0. BaseInv /\ (Smooth => Anchors /\ Messages) /\ BaseInv'
  BY BaseStep DEF TakingInv, BaseInv
<1>1. CASE Apart
  <2>1. Smooth' => Smooth
    BY <1>1, Elsewhere DEF Smooth
  <2>2. Anchors => Anchors'
    BY <1>1, Elsewhere DEF Anchors, At
  <2>3. Messages => Messages'
    BY <1>1, Elsewhere DEF Messages, At
  <2> QED BY <1>0, <2>1, <2>2, <2>3 DEF TakingInv, BaseInv
<1>2. ASSUME NEW r \in Request, Handle(r), Smooth'
      PROVE  Anchors' /\ Messages'
  <2>1. Smooth
    BY <1>0, <1>2, OneAtATime DEF BaseInv
  <2> QED BY <1>0, <1>2, <2>1, AnchorsStep, MessagesStep DEF BaseInv
<1> QED BY <1>0, <1>1, <1>2, Steppers DEF TakingInv, BaseInv

\* A time anchor rides one segment and a message is taken from one turn, unless
\* turns overlapped or one failed half-way: each is cleared by the turn that
\* used it, before the next begins.  An anchor is not cleared after a push that
\* seemed to fail, so that it may ride one segment for each of those besides.
THEOREM OnceTaken == Spec => []TakenOnce
<1>1. TakingInv => TakenOnce
  BY TakingImplies DEF TakingInv
<1> QED BY <1>1, TakingStart, TakingStep, PTL DEF Spec
=============================================================================
