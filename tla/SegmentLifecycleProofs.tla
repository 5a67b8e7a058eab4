---------------------- MODULE SegmentLifecycleProofs ----------------------
(***************************************************************************)
(* Proofs about SegmentLifecycle for any number of requests, any cadence    *)
(* and minimum, any number of faults and any overlap of the handlers.       *)
(***************************************************************************)
EXTENDS SegmentLifecycle, SequenceTheorems, FiniteSetTheorems, TLAPS

Steps == {"idle"} \cup InFlight \cup Settled

\* A capture is a set of turns that left the buffer: the turns of a payload,
\* or those a handler read and may still push.
Captures == {queue[i].turns : i \in DOMAIN queue} \cup {loc[r].snap : r \in Req}

\* What a handler or a payload holds was said before.
CapturesPast == /\ \A C \in Captures : C \subseteq Pos
                /\ \A r \in Req : loc[r].prior \subseteq Pos

\* A capture is what the open buffer starts with, until someone resets it;
\* from then on everything in the buffer was said later.
Precedes(A, B) == \A i \in A, j \in B : i < j
CapturesMatchOpen == \A C \in Captures : Precedes(C, segment) \/ StartOf(C, segment)

CapturesNest == \A C, D \in Captures : Nested(C, D)

\* The inductive invariant.  SegmentsNest speaks of the queue only: it needs
\* the snapshots still in the handlers, and how both relate to the buffer the
\* next snapshot will read.
IInv == TypeOK /\ CapturesPast /\ CapturesMatchOpen /\ CapturesNest

-----------------------------------------------------------------------------
(* The shape of each variable, for the steps that change it.               *)

LEMMA StepType ==
    ASSUME TypeOK, NEW r \in Req, NEW s \in Steps
    PROVE  [pc EXCEPT ![r] = s] \in [Req -> Steps]
BY DEF TypeOK, Steps

LEMMA AppendQueue ==
    ASSUME TypeOK, NEW r \in Req
    PROVE  /\ SegmentPayload(r) \in Payload
           /\ SegmentPayload(r).turns = loc[r].snap
           /\ Append(queue, SegmentPayload(r)) \in Seq(Payload)
<1>1. loc[r] \in Local /\ queue \in Seq(Payload)
  BY DEF TypeOK
<1>2. /\ loc[r].snap \in SUBSET Nat /\ loc[r].prior \in SUBSET Nat
      /\ loc[r].seed \in Author \cup {None}
  BY <1>1 DEF Local
<1>3. \A i \in Pos : said[i].by \in Author
  <2>1. said \in Seq(Turn)
    BY DEF TypeOK
  <2>2. \A i \in Pos : said[i] \in Turn
    BY <2>1 DEF Pos
  <2> QED BY <2>2 DEF Turn
<1>4. AnsweredQuestionCandidates(loc[r].snap) \subseteq Author
  BY <1>3 DEF AnsweredQuestionCandidates
<1>5. AnsweredBy(r) \in SUBSET Author
  BY <1>2, <1>4 DEF AnsweredBy
<1>6. SegmentPayload(r) \in Payload
  BY <1>2, <1>5 DEF SegmentPayload, Payload
<1> QED BY <1>1, <1>6 DEF SegmentPayload

LEMMA InitIInv == Init => IInv
<1> SUFFICES ASSUME Init PROVE IInv
  OBVIOUS
<1>1. /\ Len(said) = 1 /\ Pos = {1} /\ queue = <<>>
      /\ \A r \in Req : loc[r] = NewLocal("turn")
  BY DEF Init, Pos
<1>2. NewLocal("turn") \in Local /\ NewLocal("turn").snap = {}
         /\ NewLocal("turn").prior = {}
  BY DEF NewLocal, Local
<1>3. TypeOK
  <2>1. said \in Seq(Turn)
    BY DEF Init, Turn, Author
  <2>2. loc \in [Req -> Local]
    BY <1>2 DEF Init
  <2>3. faults \in 0..MaxFaults
    BY ConstantsAssumption DEF Init
  <2>4. pc \in [Req -> {"idle"} \cup InFlight \cup Settled]
    BY DEF Init
  <2>5. queue \in Seq(Payload)
    BY <1>1
  <2> QED BY <1>1, <2>1, <2>2, <2>3, <2>4, <2>5 DEF Init, TypeOK, Author
<1>4. \A C \in Captures : C = {}
  BY <1>1, <1>2 DEF Captures
<1>5. CapturesPast
  BY <1>1, <1>2, <1>4 DEF CapturesPast
<1>6. CapturesMatchOpen /\ CapturesNest
  BY <1>4 DEF CapturesMatchOpen, CapturesNest, Nested, Disjoint, Precedes
<1> QED BY <1>3, <1>5, <1>6 DEF IInv

-----------------------------------------------------------------------------
(* Three ways a step may touch the turns.                                  *)

\* It leaves them alone or resets the buffer, and captures nothing new.
LEMMA NoNewCapture ==
    ASSUME IInv, TypeOK',
           said' = said,
           segment' \in {segment, {}},
           Captures' \subseteq Captures \cup {{}},
           \A r \in Req : loc'[r].prior \subseteq Pos
    PROVE  IInv'
<1> USE DEF IInv
<1>1. Pos' = Pos
  BY DEF Pos
<1>2. CapturesPast'
  BY <1>1 DEF CapturesPast
<1>3. CapturesMatchOpen'
  BY DEF CapturesMatchOpen, Precedes, StartOf
<1>4. CapturesNest'
  BY DEF CapturesNest, Nested, Disjoint, StartOf
<1> QED BY <1>2, <1>3, <1>4

\* It appends a turn to the buffer.
LEMMA OneMoreTurn ==
    ASSUME IInv, TypeOK',
           Len(said') = Len(said) + 1,
           segment' = segment \cup {Len(said) + 1},
           UNCHANGED <<queue, loc>>
    PROVE  IInv'
<1> USE DEF IInv
<1>1. Len(said) \in Nat
  BY DEF TypeOK
<1>2. /\ Pos \subseteq Pos' /\ \A i \in Pos : i \in Nat /\ i < Len(said) + 1
      /\ Len(said) + 1 \notin Pos
  BY <1>1 DEF Pos
<1>3. Captures' = Captures
  BY DEF Captures
<1>4. CapturesPast'
  BY <1>2, <1>3 DEF CapturesPast
<1>5. CapturesMatchOpen'
  <2> SUFFICES ASSUME NEW C \in Captures
               PROVE  Precedes(C, segment') \/ StartOf(C, segment')
    BY <1>3 DEF CapturesMatchOpen
  <2>1. C \subseteq Pos
    BY DEF CapturesPast
  <2>2. CASE Precedes(C, segment)
    BY <1>2, <2>1, <2>2 DEF Precedes
  <2>3. CASE StartOf(C, segment)
    <3>1. C \subseteq segment'
      BY <2>3 DEF StartOf
    <3>2. ASSUME NEW i \in C, NEW j \in segment', j < i PROVE j \in C
      <4>1. i < Len(said) + 1 /\ i \in Nat
        BY <1>2, <2>1
      <4>2. j # Len(said) + 1
        BY <1>1, <3>2, <4>1
      <4> QED BY <2>3, <3>2, <4>2 DEF StartOf
    <3> QED BY <3>1, <3>2 DEF StartOf
  <2> QED BY <2>2, <2>3 DEF CapturesMatchOpen
<1>6. CapturesNest'
  BY <1>3 DEF CapturesNest
<1> QED BY <1>4, <1>5, <1>6

\* It captures the whole buffer.
LEMMA WholeBuffer ==
    ASSUME IInv, TypeOK',
           said' = said, segment' = segment,
           Captures' \subseteq Captures \cup {segment},
           \A r \in Req : loc'[r].prior \subseteq Pos
    PROVE  IInv'
<1> USE DEF IInv
<1>1. Pos' = Pos /\ segment \subseteq Pos
  BY DEF Pos, TypeOK
<1>2. CapturesPast'
  BY <1>1 DEF CapturesPast
<1>3. StartOf(segment, segment)
  BY DEF StartOf
<1>4. CapturesMatchOpen'
  BY <1>3 DEF CapturesMatchOpen
<1>5. CapturesNest'
  <2>1. \A i \in segment : i \in Nat
    BY <1>1 DEF Pos
  <2>2. \A C \in Captures : Precedes(C, segment) => Disjoint(C, segment)
    BY <2>1 DEF Precedes, Disjoint
  <2>3. \A C \in Captures : Nested(C, segment) /\ Nested(segment, C)
    BY <2>2 DEF CapturesMatchOpen, Nested, Disjoint
  <2> QED BY <1>3, <2>3 DEF CapturesNest, Nested
<1> QED BY <1>2, <1>4, <1>5

-----------------------------------------------------------------------------
(* Steps of one handler that leave Working Memory and the queue alone.     *)

LEMMA HandlerOnly ==
    ASSUME IInv, NEW r \in Req, NEW s \in Steps, NEW l \in Local,
           pc' = [pc EXCEPT ![r] = s],
           loc' = [loc EXCEPT ![r] = l],
           l.snap \in {loc[r].snap, {}},
           l.prior \subseteq Pos,
           post' \subseteq Req \X PostQueues,
           faults' \in 0..MaxFaults,
           UNCHANGED <<wm, said, queue>>
    PROVE  IInv'
<1> USE DEF IInv
<1>1. pc' \in [Req -> Steps]
  BY StepType
<1>2. loc \in [Req -> Local] /\ loc' \in [Req -> Local]
  BY DEF TypeOK
<1>3. TypeOK'
  BY <1>1, <1>2 DEF TypeOK, Steps, wm, Pos
<1>4. \A q \in Req : loc'[q] = IF q = r THEN l ELSE loc[q]
  BY <1>2
<1>5. Captures' \subseteq Captures \cup {{}}
  BY <1>4 DEF Captures
<1>6. \A q \in Req : loc'[q].prior \subseteq Pos
  BY <1>4 DEF CapturesPast
<1> QED BY <1>3, <1>5, <1>6, NoNewCapture DEF wm

LEMMA FaultType == ASSUME TypeOK, Fault PROVE faults' \in 0..MaxFaults
BY ConstantsAssumption DEF TypeOK, Fault

LEMMA LocalType ==
    ASSUME TypeOK, NEW r \in Req
    PROVE  /\ loc[r] \in Local
           /\ loc = [loc EXCEPT ![r] = loc[r]]
           /\ \A S \in SUBSET Nat, n \in Nat :
                 [loc[r] EXCEPT !.snap = S, !.since = n] \in Local
           /\ \A n \in Nat : [loc[r] EXCEPT !.until = n] \in Local
           /\ \A S \in SUBSET Nat : [loc[r] EXCEPT !.recap = S] \in Local
           /\ \A S \in SUBSET Nat, q \in Author \cup {None} :
                 [loc[r] EXCEPT !.prior = S, !.seed = q] \in Local
           /\ \A d \in {"llm", "push"} : [loc[r] EXCEPT !.degraded = d] \in Local
<1>1. loc[r] \in Local /\ loc = [loc EXCEPT ![r] = loc[r]]
  BY DEF TypeOK
<1> QED BY <1>1 DEF Local

LEMMA ArriveIInv ==
    ASSUME IInv, NEW r \in Req, Arrive(r)
    PROVE  IInv'
<1>1. PICK kind \in {"turn", "wrap"} :
        /\ loc' = [loc EXCEPT ![r] = NewLocal(kind)]
        /\ Goto(r, IF hash = "absent" THEN "rejected"
                   ELSE IF kind = "turn" THEN "append" ELSE "load")
  BY DEF Arrive
<1>2. /\ NewLocal(kind) \in Local
      /\ NewLocal(kind).snap = {} /\ NewLocal(kind).prior = {}
  BY DEF NewLocal, Local
<1>3. UNCHANGED <<wm, said, queue, post, faults>>
  BY DEF Arrive
<1>4. PICK s \in Steps : pc' = [pc EXCEPT ![r] = s]
  BY <1>1 DEF Goto, Steps, InFlight, TurnSteps, WrapSteps, Settled
<1>5. post' \subseteq Req \X PostQueues /\ faults' \in 0..MaxFaults
  BY <1>3 DEF IInv, TypeOK
<1> QED BY <1>1, <1>2, <1>3, <1>4, <1>5, HandlerOnly

\* Steps that do not touch the locals either.
LEMMA MoveIInv ==
    ASSUME IInv, NEW r \in Req,
           \/ StateReadFails(r) \/ DetectForced(r) \/ PushPostSession(r)
           \/ RereadState(r) \/ ClearFails(r) \/ Crash(r) \/ ClassifyFails(r)
           \/ Respond(r)
    PROVE  IInv'
<1> USE DEF IInv
<1>1. PICK s \in Steps : pc' = [pc EXCEPT ![r] = s]
  BY DEF StateReadFails, DetectForced, PushPostSession, RereadState, ClearFails, Crash,
         ClassifyFails, Respond, Goto, Steps, InFlight, TurnSteps, CloseSteps, WrapSteps, Settled
<1>2. UNCHANGED <<wm, said, queue, loc>>
  BY DEF StateReadFails, DetectForced, PushPostSession, RereadState, ClearFails, Crash,
         ClassifyFails, Respond
<1>3. post' \subseteq Req \X PostQueues
  BY DEF StateReadFails, DetectForced, PushPostSession, RereadState, ClearFails, Crash,
         ClassifyFails, Respond,
         TypeOK
<1>4. faults' = faults \/ Fault
  BY DEF StateReadFails, DetectForced, PushPostSession, RereadState, ClearFails, Crash,
         ClassifyFails, Respond
<1>5. faults' \in 0..MaxFaults
  BY <1>4, FaultType DEF TypeOK
<1>6. loc' = [loc EXCEPT ![r] = loc[r]] /\ loc[r] \in Local
  BY <1>2, LocalType
<1>7. loc[r].prior \subseteq Pos
  BY DEF CapturesPast
<1> QED BY <1>1, <1>2, <1>3, <1>5, <1>6, <1>7, HandlerOnly

\* Steps that write to the handler's locals, its snapshot excepted.
LEMMA NotedIInv ==
    ASSUME IInv, NEW r \in Req,
           \/ Classify(r) \/ Select(r) \/ RespondFails(r) \/ Gate(r) \/ DetectFails(r)
           \/ LoadState(r) \/ GenerateSummary(r)
    PROVE  IInv'
<1> USE DEF IInv
<1>1. PICK s \in Steps : pc' = [pc EXCEPT ![r] = s]
  BY DEF Classify, Select, RespondFails, Gate, DetectFails, LoadState, GenerateSummary,
         AfterClose, Goto, Steps, InFlight, TurnSteps, CloseSteps, WrapSteps,
         Settled
<1>2. UNCHANGED <<wm, said, queue, post>>
  BY DEF Classify, Select, RespondFails, Gate, DetectFails, LoadState, GenerateSummary
<1>3. post' \subseteq Req \X PostQueues
  BY <1>2 DEF TypeOK
<1>4. faults' = faults \/ Fault
  BY DEF Classify, Select, RespondFails, Gate, DetectFails, LoadState, GenerateSummary
<1>5. faults' \in 0..MaxFaults
  BY <1>4, FaultType DEF TypeOK
<1>6. /\ loc \in [Req -> Local] /\ loc[r] \in Local
      /\ summary \in SUBSET Pos /\ summary \in SUBSET Nat
      /\ seeded \in Author \cup {None}
      /\ loc[r].prior \subseteq Pos
  BY DEF TypeOK, CapturesPast, Pos
<1>7. \E l \in Local : /\ loc' = [loc EXCEPT ![r] = l]
                       /\ l.snap = loc[r].snap
                       /\ l.prior \subseteq Pos
  <2>1. CASE Classify(r)
    <3>1. PICK switch \in BOOLEAN : loc' = [loc EXCEPT ![r].switch = switch]
      BY <2>1 DEF Classify
    <3>2. [loc[r] EXCEPT !.switch = switch] \in Local
      BY <1>6 DEF Local
    <3> QED BY <1>6, <3>1, <3>2 DEF Local
  <2>2. CASE Select(r)
    <3>1. PICK asks \in AskKinds : loc' = [loc EXCEPT ![r].asks = asks]
      BY <2>2 DEF Select
    <3>2. [loc[r] EXCEPT !.asks = asks] \in Local
      BY <1>6, ConstantsAssumption DEF Local
    <3> QED BY <1>6, <3>1, <3>2 DEF Local
  <2>3. CASE RespondFails(r)
    <3>1. CASE UNCHANGED loc
      BY <1>6, <3>1
    <3>2. CASE loc' = [loc EXCEPT ![r].partial = TRUE]
      <4>1. [loc[r] EXCEPT !.partial = TRUE] \in Local
        BY <1>6 DEF Local
      <4> QED BY <1>6, <3>2, <4>1 DEF Local
    <3> QED BY <2>3, <3>1, <3>2 DEF RespondFails
  <2>4. CASE Gate(r) \/ LoadState(r)
    <3>1. loc' = [loc EXCEPT ![r].prior = summary, ![r].seed = seeded]
      BY <2>4 DEF Gate, LoadState
    <3>2. [loc[r] EXCEPT !.prior = summary, !.seed = seeded] \in Local
      BY <1>6, LocalType
    <3> QED BY <1>6, <3>1, <3>2 DEF Local
  <2>5. CASE DetectFails(r)
    <3>1. loc' = [loc EXCEPT ![r].degraded = "llm"]
      BY <2>5 DEF DetectFails
    <3>2. [loc[r] EXCEPT !.degraded = "llm"] \in Local
      BY LocalType
    <3> QED BY <1>6, <3>1, <3>2 DEF Local
  <2>6. CASE GenerateSummary(r)
    <3>1. CASE UNCHANGED loc
      BY <1>6, <3>1
    <3>2. CASE loc' = [loc EXCEPT ![r].recap = summary]
      <4>1. [loc[r] EXCEPT !.recap = summary] \in Local
        BY <1>6, LocalType
      <4> QED BY <1>6, <3>2, <4>1 DEF Local
    <3> QED BY <2>6, <3>1, <3>2 DEF GenerateSummary
  <2> QED BY <2>1, <2>2, <2>3, <2>4, <2>5, <2>6
<1> QED BY <1>1, <1>2, <1>3, <1>5, <1>7, HandlerOnly

-----------------------------------------------------------------------------
(* Steps that write Working Memory.                                        *)

LEMMA MemoryStepIInv ==
    ASSUME IInv, NEW r \in Req,
           \/ CountUserTurn(r) \/ UpdateSignals(r) \/ RecordTapEmitted(r)
           \/ SetSeededQuestion(r) \/ Detect(r)
           \/ UpdateRollingSummary(r) \/ ResetSegment(r)
           \/ ClearSeededQuestion(r) \/ IncrementSegmentsPushed(r) \/ ClearWM(r)
    PROVE  IInv'
<1> USE DEF IInv
<1> USE DEF CountUserTurn, UpdateSignals, RecordTapEmitted, SetSeededQuestion, Detect, UpdateRollingSummary,
            ResetSegment, ClearSeededQuestion, IncrementSegmentsPushed, ClearWM
<1>1. PICK s \in Steps : pc' = [pc EXCEPT ![r] = s]
  BY DEF AfterReply, AfterClose, Goto, Steps, InFlight, TurnSteps, CloseSteps,
         WrapSteps, Settled
<1>2. pc' \in [Req -> Steps]
  BY <1>1, StepType
<1>3. UNCHANGED <<said, queue, post, faults>> /\ segment' \in {segment, {}}
  OBVIOUS
<1>11. /\ loc' \in [Req -> Local]
       /\ \A q \in Req : loc'[q].snap = loc[q].snap /\ loc'[q].prior = loc[q].prior
  <2>1. /\ TypeOK /\ loc \in [Req -> Local] /\ said \in Seq(Turn)
        /\ Len(said) \in Nat
    BY DEF TypeOK
  <2>2. CASE UNCHANGED loc
    BY <2>1, <2>2
  <2>3. CASE loc' = [loc EXCEPT ![r].until = Len(said)]
    <3>1. [loc[r] EXCEPT !.until = Len(said)] \in Local
      BY <2>1, LocalType
    <3>2. \A q \in Req : loc'[q] = IF q = r THEN [loc[r] EXCEPT !.until = Len(said)]
                                            ELSE loc[q]
      BY <2>1, <2>3
    <3>3. loc' \in [Req -> Local]
      BY <2>1, <2>3, <3>1
    <3>4. /\ [loc[r] EXCEPT !.until = Len(said)].snap = loc[r].snap
          /\ [loc[r] EXCEPT !.until = Len(said)].prior = loc[r].prior
      BY <2>1 DEF Local
    <3> QED BY <3>2, <3>3, <3>4
  <2> QED BY <2>2, <2>3
<1>4. Pos' = Pos /\ segment' \subseteq Pos'
  BY <1>3 DEF Pos, TypeOK
<1>5. hash' \in {"full", "absent", "partial"}
  BY DEF Touched, TypeOK
<1>6. sinceCheck' \in Nat /\ pushed' \in Nat
  BY DEF TypeOK
<1>7. seeded' \in Author \cup {None}
  BY DEF TypeOK, Author
<1>8. summary' \subseteq Pos
  <2>1. CASE UpdateRollingSummary(r)
    <3>1. loc[r].snap \in Captures
      BY DEF Captures
    <3>2. loc[r].prior \subseteq Pos /\ loc[r].snap \subseteq Pos
      BY <3>1 DEF CapturesPast
    <3> QED BY <2>1, <3>2
  <2>2. CASE ~ UpdateRollingSummary(r)
    <3>1. summary' \in {summary, {}}
      BY <2>2
    <3> QED BY <3>1 DEF TypeOK
  <2> QED BY <2>1, <2>2
<1>9. TypeOK'
  BY <1>2, <1>3, <1>4, <1>5, <1>6, <1>7, <1>8, <1>11 DEF TypeOK, Steps
<1>10. Captures' = Captures
  BY <1>3, <1>11 DEF Captures
<1>12. \A q \in Req : loc'[q].prior \subseteq Pos
  BY <1>11 DEF CapturesPast
<1> QED BY <1>3, <1>9, <1>10, <1>12, NoNewCapture

LEMMA AppendIInv ==
    ASSUME IInv, NEW r \in Req, AppendUserTurn(r) \/ AppendAssistant(r)
    PROVE  IInv'
<1> USE DEF IInv
<1>1. PICK s \in Steps : pc' = [pc EXCEPT ![r] = s]
  BY DEF AppendUserTurn, AppendAssistant, AfterReply, Goto, Steps, InFlight,
         TurnSteps, Settled
<1>2. PICK role \in {"user", "assistant"}, asks \in BOOLEAN :
        Append_turn(r, role, asks)
  BY DEF AppendUserTurn, AppendAssistant
<1>3. UNCHANGED <<hash, sinceCheck, summary, seeded, pushed, queue, post, loc,
                  faults>>
  BY DEF AppendUserTurn, AppendAssistant
<1> DEFINE turn == [by |-> r, role |-> role, asks |-> asks]
<1>4. said \in Seq(Turn) /\ turn \in Turn
  BY DEF TypeOK, Turn, Author
<1>5. /\ said' = Append(said, turn)
      /\ segment' = segment \cup {Len(said) + 1}
  BY <1>2 DEF Append_turn
<1> HIDE DEF turn
<1>6. said' \in Seq(Turn) /\ Len(said') = Len(said) + 1 /\ Len(said) \in Nat
  BY <1>4, <1>5
<1>7. Pos \subseteq Pos' /\ Len(said) + 1 \in Pos'
  BY <1>6 DEF Pos
<1>8. pc' \in [Req -> Steps]
  BY <1>1, StepType
<1>9. TypeOK'
  BY <1>3, <1>5, <1>6, <1>7, <1>8 DEF TypeOK, Steps
<1> QED BY <1>3, <1>5, <1>6, <1>9, OneMoreTurn

LEMMA PushIInv ==
    ASSUME IInv, NEW r \in Req, Push(r) \/ PushFails(r)
    PROVE  IInv'
<1> USE DEF IInv
<1> DEFINE payload == SegmentPayload(r)
<1>1. PICK s \in Steps : pc' = [pc EXCEPT ![r] = s]
  BY DEF Push, PushFails, AfterClose, Goto, Steps, InFlight, CloseSteps,
         WrapSteps, Settled
<1>2. UNCHANGED <<wm, said, post>>
  BY DEF Push, PushFails
<1>3. queue' \in {queue, Append(queue, payload)}
  BY DEF Push, PushFails
<1>4. faults' \in 0..MaxFaults
  BY FaultType DEF Push, PushFails, TypeOK
<1>5. /\ payload \in Payload /\ payload.turns = loc[r].snap
      /\ queue \in Seq(Payload)
  BY AppendQueue DEF TypeOK
<1>6. /\ loc' \in [Req -> Local]
      /\ \A q \in Req : loc'[q].snap = loc[q].snap /\ loc'[q].prior = loc[q].prior
  <2>1. CASE UNCHANGED loc
    BY <2>1 DEF TypeOK
  <2>2. CASE loc' = [loc EXCEPT ![r].degraded = "push"]
    <3>1. loc \in [Req -> Local] /\ [loc[r] EXCEPT !.degraded = "push"] \in Local
      BY LocalType DEF TypeOK
    <3> QED BY <2>2, <3>1 DEF Local
  <2> QED BY <2>1, <2>2 DEF Push, PushFails
<1> HIDE DEF payload
<1>7. \A i \in DOMAIN queue' :
        \/ queue'[i] = payload
        \/ i \in DOMAIN queue /\ queue'[i] = queue[i]
  BY <1>3, <1>5, AppendProperties
<1>8. queue' \in Seq(Payload)
  BY <1>3, <1>5
<1>9. Captures' \subseteq Captures
  BY <1>5, <1>6, <1>7 DEF Captures
<1>10. pc' \in [Req -> Steps]
  BY <1>1, StepType
<1>11. TypeOK'
  BY <1>2, <1>4, <1>6, <1>8, <1>10 DEF TypeOK, Steps, wm, Pos
<1>12. \A q \in Req : loc'[q].prior \subseteq Pos
  BY <1>6 DEF CapturesPast
<1> QED BY <1>2, <1>9, <1>11, <1>12, NoNewCapture DEF wm

LEMMA SnapshotIInv ==
    ASSUME IInv, NEW r \in Req, Snapshot(r)
    PROVE  IInv'
<1> USE DEF IInv
<1>1. PICK s \in Steps : pc' = [pc EXCEPT ![r] = s]
  BY DEF Snapshot, Goto, Steps, InFlight, CloseSteps, WrapSteps, Settled
<1>2. /\ loc' = [loc EXCEPT ![r].snap = segment, ![r].since = Len(said)]
      /\ UNCHANGED <<wm, said, queue, post, faults>>
  BY DEF Snapshot
<1>3. loc \in [Req -> Local] /\ segment \in SUBSET Nat /\ Len(said) \in Nat
  BY DEF TypeOK, Pos
<1>4. [loc[r] EXCEPT !.snap = segment, !.since = Len(said)] \in Local
  BY <1>3, LocalType
<1>5. /\ loc' \in [Req -> Local]
      /\ \A q \in Req : /\ loc'[q].snap \in {loc[q].snap, segment}
                        /\ loc'[q].prior = loc[q].prior
  BY <1>2, <1>3, <1>4 DEF Local
<1>6. Captures' \subseteq Captures \cup {segment}
  BY <1>2, <1>5 DEF Captures
<1>7. pc' \in [Req -> Steps]
  BY <1>1, StepType
<1>8. TypeOK'
  BY <1>2, <1>5, <1>7 DEF TypeOK, Steps, wm, Pos
<1>9. \A q \in Req : loc'[q].prior \subseteq Pos
  BY <1>5 DEF CapturesPast
<1> QED BY <1>2, <1>6, <1>8, <1>9, WholeBuffer DEF wm

LEMMA StutterIInv == IInv /\ UNCHANGED vars => IInv'
<1> SUFFICES ASSUME IInv, UNCHANGED vars PROVE IInv'
  OBVIOUS
<1>1. TypeOK'
  BY DEF IInv, TypeOK, vars, Pos
<1>2. Captures' = Captures
  BY DEF vars, Captures
<1> QED BY <1>1, <1>2, NoNewCapture DEF IInv, vars, CapturesPast

LEMMA NextIInv == IInv /\ [Next]_vars => IInv'
<1> SUFFICES ASSUME IInv, [Next]_vars PROVE IInv'
  OBVIOUS
<1>1. ASSUME NEW r \in Req, Arrive(r) \/ Crash(r) PROVE IInv'
  BY <1>1, ArriveIInv, MoveIInv
<1>2. ASSUME NEW r \in Req, TurnStep(r) PROVE IInv'
  BY <1>2, AppendIInv, MemoryStepIInv, NotedIInv, MoveIInv DEF TurnStep
<1>3. ASSUME NEW r \in Req, CloseStep(r) PROVE IInv'
  BY <1>3, SnapshotIInv, MemoryStepIInv, NotedIInv, MoveIInv, PushIInv
     DEF CloseStep
<1>4. ASSUME NEW r \in Req, WrapStep(r) PROVE IInv'
  BY <1>4, NotedIInv, MoveIInv, MemoryStepIInv DEF WrapStep
<1>5. CASE UNCHANGED vars
  BY <1>5, StutterIInv
<1> QED BY <1>1, <1>2, <1>3, <1>4, <1>5 DEF Next

-----------------------------------------------------------------------------
(* The theorems.                                                           *)

LEMMA Inductive == Spec => []IInv
<1>1. Init => IInv
  BY InitIInv
<1>2. IInv /\ [Next]_vars => IInv'
  BY NextIInv
<1> QED BY <1>1, <1>2, PTL DEF Spec

\* The handlers keep every variable in its shape.
THEOREM TypeCorrect == Spec => []TypeOK
<1>1. IInv => TypeOK
  BY DEF IInv
<1> QED BY Inductive, <1>1, PTL

\* However many turns and wraps of a session overlap, and whatever fails, two
\* payloads that detect_segment or force_close_segment pushed share no turn, or
\* one starts the other.
THEOREM PayloadsNest == Spec => []SegmentsNest
<1>1. IInv => SegmentsNest
  BY DEF IInv, CapturesNest, Captures, SegmentsNest
<1> QED BY Inductive, <1>1, PTL

-----------------------------------------------------------------------------
(* Handlers that overlap: whose reset a lost turn fell to.                 *)

HandlerStep(r) ==
    Arrive(r) \/ TurnStep(r) \/ CloseStep(r) \/ WrapStep(r) \/ Crash(r)

\* A handler between its snapshot and its reset.
Held == {"detect", "push", "promote", "reset"}

\* From the snapshot to the end of the handler, its settled states excepted;
\* the steps at which a pushed snapshot is known to be on the queue; those of a
\* wrap after its force-close.
Sent       == {"promote", "reset", "unseed", "tally"}
AfterForce == {"summarize", "fanout", "reread", "clear"}
Tracked    == Held \cup Sent \cup AfterForce

\* What is open is in the snapshot or was said after it, the handler's own
\* turns were not, and past the push the snapshot is on the queue: for a wrap,
\* unless its force-close degraded.
HolderFits(r) ==
    pc[r] \in Tracked =>
        /\ \A i \in segment : i \in loc[r].snap \/ loc[r].since < i
        /\ \A i \in Pos : said[i].by = r => i <= loc[r].since
        /\ pc[r] \in Sent => loc[r].snap \subseteq Handed
        /\ pc[r] \in AfterForce => /\ loc[r].kind = "wrap"
                                   /\ \/ loc[r].snap \subseteq Handed
                                      \/ loc[r].degraded # "no"

\* A window opens where the history then ends and closes after the reset.
WindowFits(r) ==
    /\ loc[r].since <= Len(said)
    /\ pc[r] \in {"idle"} \cup TurnSteps \cup {"load", "snapshot"} \cup Held
          => loc[r].until = 0

\* The inductive invariant behind LossNeedsARival: what a deletion is about to
\* take is compared with the snapshot that was pushed and with its moment.
RivalInv == /\ IInv /\ LossNeedsARival
            /\ \A r \in Req : HolderFits(r) /\ WindowFits(r)

\* A step of one handler leaves the program counter and the locals of the
\* others alone.
LEMMA OthersWait ==
    ASSUME TypeOK, NEW r \in Req, HandlerStep(r), NEW q \in Req, q # r
    PROVE  pc'[q] = pc[q] /\ loc'[q] = loc[q]
<1>1. pc \in [Req -> Steps] /\ loc \in [Req -> Local]
  BY DEF TypeOK, Steps
<1>2. CASE Arrive(r) \/ Crash(r)
  BY <1>1, <1>2 DEF Arrive, Crash, Goto
<1>3. CASE TurnStep(r)
  BY <1>1, <1>3 DEF TurnStep, AppendUserTurn, CountUserTurn, Classify, ClassifyFails,
     UpdateSignals, Select, RecordTapEmitted, Respond, RespondFails,
     AppendAssistant, SetSeededQuestion, Gate, StateReadFails, Goto
<1>4. CASE CloseStep(r)
  BY <1>1, <1>4 DEF CloseStep, Snapshot, Detect, DetectForced, DetectFails, Push,
     PushFails, UpdateRollingSummary, ResetSegment, ClearSeededQuestion,
     IncrementSegmentsPushed, Goto
<1>5. CASE WrapStep(r)
  BY <1>1, <1>5 DEF WrapStep, LoadState, GenerateSummary, PushPostSession, ClearWM,
     RereadState, ClearFails, Goto
<1> QED BY <1>2, <1>3, <1>4, <1>5 DEF HandlerStep

\* The history only grows, and so does what was handed over.
LEMMA HistoryGrows ==
    ASSUME TypeOK, NEW r \in Req, HandlerStep(r)
    PROVE  /\ Len(said) \in Nat /\ Len(said') \in Nat /\ Len(said) <= Len(said')
           /\ Pos \subseteq Pos'
           /\ \A i \in Pos : said'[i] = said[i]
<1>1. CASE AppendUserTurn(r) \/ AppendAssistant(r)
  <2>1. PICK role \in {"user", "assistant"}, asks \in BOOLEAN :
          said' = Append(said, [by |-> r, role |-> role, asks |-> asks])
    BY <1>1 DEF AppendUserTurn, AppendAssistant, Append_turn
  <2>2. said \in Seq(Turn) /\ [by |-> r, role |-> role, asks |-> asks] \in Turn
    BY DEF TypeOK, Turn, Author
  <2> QED BY <2>1, <2>2, AppendProperties DEF Pos
<1>2. CASE UNCHANGED said
  BY <1>2 DEF TypeOK, Pos
<1>3. \/ UNCHANGED said \/ AppendUserTurn(r) \/ AppendAssistant(r)
  BY DEF HandlerStep, TurnStep, CloseStep, WrapStep, Arrive, Crash, CountUserTurn,
     Classify, ClassifyFails, UpdateSignals, Select, RecordTapEmitted, Respond,
     RespondFails, SetSeededQuestion, Gate, StateReadFails, Snapshot, Detect,
     DetectForced, DetectFails, Push, PushFails, UpdateRollingSummary,
     ResetSegment, ClearSeededQuestion, IncrementSegmentsPushed, LoadState,
     GenerateSummary, PushPostSession, RereadState, ClearWM, ClearFails
<1> QED BY <1>1, <1>2, <1>3

\* What a push does to the queue.
LEMMA PushQueues ==
    ASSUME TypeOK, NEW r \in Req, Push(r) \/ PushFails(r)
    PROVE  /\ \A p \in DOMAIN queue : p \in DOMAIN queue' /\ queue'[p] = queue[p]
           /\ Handed \subseteq Handed'
           /\ Push(r) => LET n == Len(queue')
                         IN  n \in DOMAIN queue' /\ queue'[n] = SegmentPayload(r)
<1>1. queue \in Seq(Payload) /\ SegmentPayload(r) \in Payload
  BY AppendQueue DEF TypeOK
<1>2. queue' \in {queue, Append(queue, SegmentPayload(r))}
  BY DEF Push, PushFails
<1>3. Push(r) => queue' = Append(queue, SegmentPayload(r))
  BY DEF Push
<1>4. \A p \in DOMAIN queue : p \in DOMAIN queue' /\ queue'[p] = queue[p]
  BY <1>1, <1>2, AppendProperties
<1>5. Handed \subseteq Handed'
  BY <1>4 DEF Handed
<1> QED BY <1>1, <1>3, <1>4, <1>5, AppendProperties

LEMMA HandedGrows ==
    ASSUME TypeOK, NEW r \in Req, HandlerStep(r)
    PROVE  Handed \subseteq Handed'
<1>1. CASE Push(r) \/ PushFails(r)
  BY <1>1, PushQueues
<1>2. CASE UNCHANGED queue
  BY <1>2 DEF Handed
<1>3. \/ UNCHANGED queue \/ Push(r) \/ PushFails(r)
  BY DEF HandlerStep, TurnStep, CloseStep, WrapStep, Arrive, Crash, CountUserTurn,
     Classify, ClassifyFails, UpdateSignals, Select, RecordTapEmitted, Respond,
     RespondFails, SetSeededQuestion, Gate, StateReadFails, Snapshot, Detect,
     DetectForced, DetectFails, UpdateRollingSummary, AppendUserTurn,
     AppendAssistant,
     ResetSegment, ClearSeededQuestion, IncrementSegmentsPushed, LoadState,
     GenerateSummary, PushPostSession, RereadState, ClearWM, ClearFails
<1> QED BY <1>1, <1>2, <1>3

\* The buffer only grows, but for a reset and a clear, and by the new turn.
LEMMA BufferMoves ==
    ASSUME TypeOK, NEW r \in Req, HandlerStep(r)
    PROVE  /\ segment' \subseteq segment \cup {Len(said) + 1}
           /\ \A i \in segment' \ segment :
                 /\ Len(said') = Len(said) + 1 /\ said'[Len(said) + 1].by = r
           /\ ~ResetSegment(r) /\ ~ClearWM(r) =>
                 segment \subseteq segment' /\ Pos' \subseteq Pos \cup segment'
<1>1. CASE AppendUserTurn(r) \/ AppendAssistant(r)
  <2>1. PICK role \in {"user", "assistant"}, asks \in BOOLEAN :
          said' = Append(said, [by |-> r, role |-> role, asks |-> asks])
    BY <1>1 DEF AppendUserTurn, AppendAssistant, Append_turn
  <2>2. said \in Seq(Turn) /\ [by |-> r, role |-> role, asks |-> asks] \in Turn
    BY DEF TypeOK, Turn, Author
  <2>3. segment' = segment \cup {Len(said) + 1}
    BY <1>1 DEF AppendUserTurn, AppendAssistant, Append_turn
  <2>4. Len(said') = Len(said) + 1 /\ said'[Len(said) + 1].by = r /\ Len(said) \in Nat
    BY <2>1, <2>2, AppendProperties
  <2> QED BY <2>3, <2>4 DEF Pos
<1>2. CASE UNCHANGED <<said, segment>>
  BY <1>2 DEF Pos
<1>3. CASE ResetSegment(r) \/ ClearWM(r)
  BY <1>3 DEF ResetSegment, ClearWM
<1>4. \/ UNCHANGED <<said, segment>> \/ AppendUserTurn(r) \/ AppendAssistant(r)
      \/ ResetSegment(r) \/ ClearWM(r)
  BY DEF HandlerStep, TurnStep, CloseStep, WrapStep, Arrive, Crash, CountUserTurn,
     Classify, ClassifyFails, UpdateSignals, Select, RecordTapEmitted, Respond,
     RespondFails, SetSeededQuestion, Gate, StateReadFails, Snapshot, Detect,
     DetectForced, DetectFails, Push, PushFails, UpdateRollingSummary,
     ClearSeededQuestion, IncrementSegmentsPushed, LoadState, wm,
     GenerateSummary, PushPostSession, RereadState, ClearFails
<1> QED BY <1>1, <1>2, <1>3, <1>4

\* What a step of a handler that is past its snapshot leaves of its locals, and
\* where it goes.
HolderStep(r) ==
    /\ loc'[r].snap = loc[r].snap /\ loc'[r].since = loc[r].since
    /\ loc'[r].kind = loc[r].kind
    /\ loc'[r].degraded \in {loc[r].degraded, "llm", "push"}
    /\ loc'[r].until \in {loc[r].until, Len(said)}
    /\ pc'[r] \in Held => pc[r] \in Held /\ loc'[r].until = loc[r].until
    /\ pc'[r] \in Sent => pc[r] \in Sent \/ Push(r)
    /\ pc'[r] \in AfterForce =>
          /\ loc[r].kind = "wrap" \/ pc[r] \in AfterForce
          /\ pc[r] \in {"tally"} \cup AfterForce \/ loc'[r].degraded # "no"
    /\ pc'[r] \in Tracked \cup Settled

LEMMA TrackedMoves ==
    ASSUME TypeOK, NEW r \in Req, HandlerStep(r), pc[r] \in Tracked
    PROVE  HolderStep(r)
<1> USE DEF Goto, Held, Sent, AfterForce, Tracked, Settled, HolderStep
<1>1. pc \in [Req -> Steps] /\ loc \in [Req -> Local] /\ loc[r] \in Local
  BY DEF TypeOK, Steps
<1>2. pc[r] \notin {"idle", "load", "snapshot"} \cup TurnSteps
  BY DEF TurnSteps
<1>3. CASE Crash(r) \/ StateReadFails(r)
  BY <1>1, <1>3 DEF Crash, StateReadFails
<1>4. CASE DetectForced(r) \/ Detect(r) \/ DetectFails(r)
  BY <1>1, <1>4 DEF DetectForced, Detect, DetectFails, AfterClose, Local
<1>5. CASE Push(r) \/ PushFails(r)
  BY <1>1, <1>5 DEF Push, PushFails, AfterClose, Local
<1>6. CASE UpdateRollingSummary(r) \/ ResetSegment(r) \/ ClearSeededQuestion(r)
           \/ IncrementSegmentsPushed(r)
  BY <1>1, <1>6 DEF UpdateRollingSummary, ResetSegment, ClearSeededQuestion,
     IncrementSegmentsPushed, AfterClose, Local
<1>7. CASE \/ GenerateSummary(r) \/ PushPostSession(r) \/ RereadState(r)
           \/ ClearWM(r) \/ ClearFails(r)
  BY <1>1, <1>7 DEF GenerateSummary, PushPostSession, RereadState, ClearWM,
     ClearFails, Local
<1>8. ~Arrive(r) /\ ~LoadState(r) /\ ~Snapshot(r)
  BY <1>2 DEF Arrive, LoadState, Snapshot
<1>9. TurnStep(r) => StateReadFails(r)
  BY <1>2 DEF TurnStep, TurnSteps, AppendUserTurn, CountUserTurn, Classify,
     ClassifyFails, UpdateSignals, Select, RecordTapEmitted, Respond,
     RespondFails, AppendAssistant, SetSeededQuestion, Gate
<1> QED BY <1>3, <1>4, <1>5, <1>6, <1>7, <1>8, <1>9 DEF HandlerStep, CloseStep, WrapStep

\* Before that, only the snapshot leads past the snapshot, and nothing is
\* deleted.
LEMMA EarlierMoves ==
    ASSUME TypeOK, NEW r \in Req, HandlerStep(r), pc[r] \notin Tracked
    PROVE  /\ pc'[r] \in Tracked => Snapshot(r)
           /\ \/ loc'[r].until = loc[r].until
              \/ Arrive(r) /\ loc'[r].until = 0 /\ loc'[r].since = 0
           /\ \/ loc'[r].since \in {loc[r].since, 0}
              \/ Snapshot(r) /\ loc'[r].since = Len(said)
           /\ pc[r] \in {"idle"} \cup TurnSteps \cup {"load", "snapshot"}
           /\ ~ResetSegment(r) /\ ~ClearWM(r)
<1> USE DEF Goto, Held, Sent, AfterForce, Tracked
<1>1. pc \in [Req -> Steps] /\ loc \in [Req -> Local] /\ loc[r] \in Local
  BY DEF TypeOK, Steps
<1>2. CASE Crash(r) \/ StateReadFails(r)
  BY <1>1, <1>2 DEF Crash, StateReadFails, InFlight, TurnSteps, CloseSteps,
     WrapSteps, ResetSegment, ClearWM
<1>3. CASE Arrive(r)
  <2>1. PICK kind \in {"turn", "wrap"} : loc' = [loc EXCEPT ![r] = NewLocal(kind)]
    BY <1>3 DEF Arrive
  <2>2. loc'[r] = NewLocal(kind)
    BY <1>1, <2>1
  <2>3. loc'[r].until = 0 /\ loc'[r].since = 0
    BY <2>2 DEF NewLocal
  <2>4. pc[r] = "idle" /\ pc'[r] \in {"rejected", "append", "load"}
    BY <1>1, <1>3 DEF Arrive
  <2> QED BY <1>3, <2>3, <2>4 DEF ResetSegment, ClearWM
<1>4. CASE TurnStep(r) /\ ~StateReadFails(r)
  <2>1. pc[r] \in TurnSteps
    BY <1>4 DEF TurnStep, TurnSteps, AppendUserTurn, CountUserTurn, Classify,
     ClassifyFails, UpdateSignals, Select, RecordTapEmitted, Respond,
     RespondFails, AppendAssistant, SetSeededQuestion, Gate
  <2>2. ~ResetSegment(r) /\ ~ClearWM(r)
    BY <2>1 DEF ResetSegment, ClearWM, TurnSteps
  <2>3. loc'[r].since = loc[r].since /\ loc'[r].until = loc[r].until
    <3>1. CASE UNCHANGED loc
      BY <3>1
    <3>2. CASE Classify(r) \/ Select(r) \/ Gate(r) \/ RespondFails(r)
      BY <1>1, <3>2 DEF Classify, Select, Gate, RespondFails, Local
    <3> QED BY <1>4, <3>1, <3>2 DEF TurnStep, AppendUserTurn, CountUserTurn,
         ClassifyFails, UpdateSignals, RecordTapEmitted, Respond, AppendAssistant,
         SetSeededQuestion
  <2>4. pc'[r] \notin Tracked
    <3>1. CASE \/ AppendUserTurn(r) \/ CountUserTurn(r) \/ Classify(r)
               \/ ClassifyFails(r) \/ UpdateSignals(r) \/ Select(r)
               \/ RecordTapEmitted(r) \/ Respond(r)
      BY <1>1, <3>1 DEF AppendUserTurn, CountUserTurn, Classify,
         ClassifyFails, UpdateSignals, Select, RecordTapEmitted, Respond
    <3>2. CASE RespondFails(r) \/ AppendAssistant(r) \/ SetSeededQuestion(r) \/ Gate(r)
      BY <1>1, <3>2 DEF RespondFails, AppendAssistant, SetSeededQuestion, Gate,
         AfterReply
    <3> QED BY <1>4, <3>1, <3>2 DEF TurnStep
  <2> QED BY <2>1, <2>2, <2>3, <2>4
<1>5. CASE Snapshot(r) \/ LoadState(r)
  BY <1>1, <1>5 DEF Snapshot, LoadState, Local, ResetSegment, ClearWM
<1>6. /\ CloseStep(r) => Snapshot(r)
      /\ WrapStep(r) => LoadState(r)
  BY DEF CloseStep, WrapStep, Detect, DetectForced, DetectFails, Push, PushFails,
     UpdateRollingSummary, ResetSegment, ClearSeededQuestion,
     IncrementSegmentsPushed, GenerateSummary, PushPostSession, RereadState,
     ClearWM, ClearFails
<1> QED BY <1>2, <1>3, <1>4, <1>5, <1>6 DEF HandlerStep

\* A deleted turn stays accounted for.
LEMMA SweptStays ==
    ASSUME RivalInv, NEW r \in Req, HandlerStep(r),
           NEW q \in Req, NEW i \in Pos, Swept(q, i)
    PROVE  Swept(q, i)'
<1>1. /\ TypeOK /\ loc[q] \in Local /\ WindowFits(q) /\ i \in Nat /\ i # 0
      /\ i <= Len(said) /\ Len(said) \in Nat
  BY DEF RivalInv, IInv, TypeOK, Pos
<1>2. said'[i] = said[i]
  BY <1>1, HistoryGrows
<1>3. CASE q # r
  <2>1. loc'[q] = loc[q]
    BY <1>1, <1>3, OthersWait
  <2> QED BY <1>2, <2>1 DEF Swept
<1>4. CASE q = r /\ pc[r] \in Tracked
  <2>1. HolderStep(r)
    BY <1>1, <1>4, TrackedMoves
  <2>2. /\ loc'[r].snap = loc[r].snap /\ loc'[r].since = loc[r].since
        /\ loc'[r].kind = loc[r].kind
        /\ loc'[r].degraded \in {loc[r].degraded, "llm", "push"}
        /\ loc'[r].until \in {loc[r].until, Len(said)}
    BY <2>1 DEF HolderStep
  <2>3. i <= loc'[r].until
    BY <1>1, <1>4, <2>2 DEF Swept
  <2> QED BY <1>2, <1>4, <2>2, <2>3 DEF Swept
<1>5. CASE q = r /\ pc[r] \notin Tracked
  <2>1. pc[r] \in {"idle"} \cup TurnSteps \cup {"load", "snapshot"}
    BY <1>1, <1>5, EarlierMoves
  <2>2. loc[q].until = 0
    BY <1>1, <1>5, <2>1 DEF WindowFits
  <2> QED BY <1>1, <2>2 DEF Swept
<1> QED BY <1>3, <1>4, <1>5

LEMMA WindowStays ==
    ASSUME RivalInv, NEW r \in Req, HandlerStep(r), NEW q \in Req
    PROVE  WindowFits(q)'
<1>1. /\ TypeOK /\ loc[q] \in Local /\ WindowFits(q)
      /\ loc[q].since \in Nat
  BY DEF RivalInv, IInv, TypeOK, Local
<1>2. Len(said) \in Nat /\ Len(said') \in Nat /\ Len(said) <= Len(said')
  BY <1>1, HistoryGrows
<1>3. CASE q # r
  <2>1. pc'[q] = pc[q] /\ loc'[q] = loc[q]
    BY <1>1, <1>3, OthersWait
  <2> QED BY <1>1, <1>2, <2>1 DEF WindowFits
<1>4. CASE q = r /\ pc[r] \in Tracked
  <2>1. HolderStep(r)
    BY <1>1, <1>4, TrackedMoves
  <2>2. /\ loc'[r].since = loc[r].since
        /\ pc'[r] \in Held => pc[r] \in Held /\ loc'[r].until = loc[r].until
        /\ pc'[r] \in Tracked \cup Settled
    BY <2>1 DEF HolderStep
  <2>3. pc'[r] \notin {"idle"} \cup TurnSteps \cup {"load", "snapshot"}
    BY <2>2 DEF Tracked, Held, Sent, AfterForce, Settled, TurnSteps
  <2> QED BY <1>1, <1>2, <1>4, <2>2, <2>3 DEF WindowFits
<1>5. CASE q = r /\ pc[r] \notin Tracked
  <2>1. /\ \/ loc'[r].until = loc[r].until \/ loc'[r].until = 0
        /\ loc'[r].since \in {loc[r].since, 0, Len(said)}
        /\ pc[r] \in {"idle"} \cup TurnSteps \cup {"load", "snapshot"}
    BY <1>1, <1>5, EarlierMoves
  <2> QED BY <1>1, <1>2, <1>5, <2>1 DEF WindowFits
<1> QED BY <1>3, <1>4, <1>5

LEMMA HolderStays ==
    ASSUME RivalInv, NEW r \in Req, HandlerStep(r), NEW q \in Req
    PROVE  HolderFits(q)'
<1>1. /\ TypeOK /\ loc \in [Req -> Local] /\ pc \in [Req -> Steps]
      /\ WindowFits(q) /\ HolderFits(q)
      /\ segment \subseteq Pos /\ loc[q].since \in Nat
  BY DEF RivalInv, IInv, TypeOK, Steps, Local
<1>2. /\ Len(said) \in Nat /\ Len(said') \in Nat /\ Len(said) <= Len(said')
      /\ Pos \subseteq Pos' /\ \A i \in Pos : said'[i] = said[i]
  BY <1>1, HistoryGrows
<1>3. Handed \subseteq Handed'
  BY <1>1, HandedGrows
<1>4. /\ segment' \subseteq segment \cup {Len(said) + 1}
      /\ \A i \in segment' \ segment :
            /\ Len(said') = Len(said) + 1 /\ said'[Len(said) + 1].by = r
  BY <1>1, BufferMoves
<1>5. /\ \A i \in Pos' \ Pos : i \in segment' \/ ResetSegment(r) \/ ClearWM(r)
      /\ ResetSegment(r) \/ ClearWM(r) => Pos' = Pos
  BY <1>1, BufferMoves DEF ResetSegment, ClearWM, Pos
<1>6. CASE q # r
  <2>1. pc'[q] = pc[q] /\ loc'[q] = loc[q]
    BY <1>1, <1>6, OthersWait
  <2> SUFFICES ASSUME pc[q] \in Tracked PROVE HolderFits(q)'
    BY <2>1 DEF HolderFits
  <2>2. \A i \in segment' : i \in loc'[q].snap \/ loc'[q].since < i
    <3> SUFFICES ASSUME NEW i \in segment' PROVE i \in loc[q].snap \/ loc[q].since < i
      BY <2>1
    <3>1. CASE i \in segment
      BY <1>1, <3>1 DEF HolderFits
    <3>2. CASE i = Len(said) + 1
      BY <1>1, <1>2, <3>2 DEF WindowFits
    <3> QED BY <1>4, <3>1, <3>2
  <2>3. \A i \in Pos' : said'[i].by = q => i <= loc'[q].since
    <3> SUFFICES ASSUME NEW i \in Pos', said'[i].by = q PROVE i <= loc[q].since
      BY <2>1
    <3>1. CASE i \in Pos
      BY <1>1, <1>2, <3>1 DEF HolderFits
    <3>2. CASE i \notin Pos
      <4>1. i \in segment' \ segment
        BY <1>1, <1>5, <3>2
      <4>2. i = Len(said) + 1 /\ said'[i].by = r
        BY <1>4, <4>1
      <4> QED BY <1>6, <4>2
    <3> QED BY <3>1, <3>2
  <2> QED BY <1>1, <1>3, <2>1, <2>2, <2>3 DEF HolderFits
<1>7. CASE q = r /\ pc[r] \in Tracked
  <2>1. HolderStep(r)
    BY <1>1, <1>7, TrackedMoves
  <2>2. ~AppendUserTurn(r) /\ ~AppendAssistant(r)
    BY <1>7 DEF AppendUserTurn, AppendAssistant, Tracked, Held, Sent, AfterForce
  <2>3. segment' \subseteq segment /\ UNCHANGED said
    BY <1>7, <2>2 DEF HandlerStep, TurnStep, CloseStep, WrapStep, Arrive, Crash, CountUserTurn,
     Classify, ClassifyFails, UpdateSignals, Select, RecordTapEmitted, Respond,
     RespondFails, SetSeededQuestion, Gate, StateReadFails, Snapshot, Detect,
     DetectForced, DetectFails, Push, PushFails, UpdateRollingSummary,
     ClearSeededQuestion, IncrementSegmentsPushed, LoadState, wm, ResetSegment,
     GenerateSummary, PushPostSession, RereadState, ClearFails, ClearWM
  <2>4. Pos' = Pos
    BY <2>3 DEF Pos
  <2>5. pc'[r] \in Sent => loc'[r].snap \subseteq Handed'
    <3>1. CASE pc[r] \in Sent
      BY <1>1, <1>3, <1>7, <2>1, <3>1 DEF HolderFits, HolderStep
    <3>2. CASE Push(r)
      <4>1. SegmentPayload(r).turns = loc[r].snap
        BY DEF SegmentPayload
      <4>2. LET n == Len(queue') IN n \in DOMAIN queue' /\ queue'[n] = SegmentPayload(r)
        BY <1>1, <3>2, PushQueues
      <4>3. loc[r].snap \subseteq Handed'
        BY <4>1, <4>2 DEF Handed
      <4> QED BY <2>1, <4>3 DEF HolderStep
    <3> QED BY <2>1, <3>1, <3>2 DEF HolderStep
  <2>6. pc'[r] \in AfterForce => /\ loc'[r].kind = "wrap"
                                /\ \/ loc'[r].snap \subseteq Handed'
                                   \/ loc'[r].degraded # "no"
    <3> SUFFICES ASSUME pc'[r] \in AfterForce
                 PROVE  /\ loc'[r].kind = "wrap"
                        /\ loc'[r].snap \subseteq Handed' \/ loc'[r].degraded # "no"
      OBVIOUS
    <3>1. /\ loc[r].kind = "wrap" \/ pc[r] \in AfterForce
          /\ pc[r] \in {"tally"} \cup AfterForce \/ loc'[r].degraded # "no"
          /\ loc'[r].snap = loc[r].snap /\ loc'[r].kind = loc[r].kind
          /\ loc'[r].degraded \in {loc[r].degraded, "llm", "push"}
      BY <2>1 DEF HolderStep
    <3>2. loc'[r].kind = "wrap"
      BY <1>1, <1>7, <3>1 DEF HolderFits
    <3>3. pc[r] = "tally" => loc[r].snap \subseteq Handed
      BY <1>1, <1>7 DEF HolderFits, Sent
    <3>4. pc[r] \in AfterForce => loc[r].snap \subseteq Handed \/ loc[r].degraded # "no"
      BY <1>1, <1>7 DEF HolderFits
    <3> QED BY <1>3, <3>1, <3>2, <3>3, <3>4
  <2>7. /\ \A i \in segment' : i \in loc'[r].snap \/ loc'[r].since < i
        /\ \A i \in Pos' : said'[i].by = r => i <= loc'[r].since
    BY <1>1, <1>7, <2>1, <2>3, <2>4 DEF HolderFits, HolderStep
  <2> QED BY <1>7, <2>5, <2>6, <2>7 DEF HolderFits
<1>8. CASE q = r /\ pc[r] \notin Tracked
  <2> SUFFICES ASSUME pc'[r] \in Tracked PROVE HolderFits(q)'
    BY <1>8 DEF HolderFits
  <2>1. Snapshot(r)
    BY <1>1, <1>8, EarlierMoves
  <2>2. /\ loc'[r].snap = segment /\ loc'[r].since = Len(said)
        /\ loc'[r].kind = loc[r].kind /\ UNCHANGED <<said, segment>>
    BY <1>1, <2>1 DEF Snapshot, Local, wm
  <2>3. /\ pc'[r] \notin Sent
        /\ pc'[r] \in AfterForce => loc[r].kind = "wrap" /\ segment = {}
    BY <1>1, <2>1 DEF Snapshot, Goto, Sent, AfterForce, Local
  <2>4. \A i \in Pos' : i <= Len(said)
    BY <2>2 DEF Pos
  <2> QED BY <1>8, <2>2, <2>3, <2>4 DEF HolderFits
<1> QED BY <1>6, <1>7, <1>8

\* The step that loses turns: what it deletes and nobody has handed over was
\* said after the snapshot, or is the snapshot of a degraded wrap.
LEMMA DeletionSweeps ==
    ASSUME RivalInv, NEW r \in Req, ResetSegment(r) \/ ClearWM(r),
           NEW i \in segment \ Handed
    PROVE  Swept(r, i)'
<1>1. /\ loc \in [Req -> Local] /\ loc[r] \in Local /\ segment \subseteq Pos
      /\ Len(said) \in Nat /\ HolderFits(r) /\ loc[r].since \in Nat
  BY DEF RivalInv, IInv, TypeOK, Local
<1>2. /\ loc' = [loc EXCEPT ![r].until = Len(said)] /\ UNCHANGED said
      /\ pc[r] \in {"reset", "clear"}
  BY DEF ResetSegment, ClearWM
<1>3. /\ loc'[r].until = Len(said) /\ loc'[r].since = loc[r].since
      /\ loc'[r].kind = loc[r].kind /\ loc'[r].degraded = loc[r].degraded
      /\ loc'[r].snap = loc[r].snap
  BY <1>1, <1>2 DEF Local
<1>4. i \in Pos /\ i \in Nat /\ i <= Len(said)
  BY <1>1 DEF Pos
<1>5. pc[r] \in Tracked /\ (pc[r] = "reset" => pc[r] \in Sent)
      /\ (pc[r] = "clear" => pc[r] \in AfterForce)
  BY <1>2 DEF Tracked, Held, Sent, AfterForce
<1>6. CASE i \in loc[r].snap
  <2>1. pc[r] = "clear" /\ loc[r].kind = "wrap" /\ loc[r].degraded # "no"
    BY <1>1, <1>2, <1>5, <1>6 DEF HolderFits
  <2> QED BY <1>2, <1>3, <1>4, <1>6, <2>1 DEF Swept
<1>7. CASE i \notin loc[r].snap
  <2>1. loc[r].since < i
    BY <1>1, <1>5, <1>7 DEF HolderFits
  <2>2. said[i].by # r
    BY <1>1, <1>4, <1>5, <2>1 DEF HolderFits
  <2> QED BY <1>2, <1>3, <1>4, <2>1, <2>2 DEF Swept
<1> QED BY <1>6, <1>7

LEMMA LossStays ==
    ASSUME RivalInv, NEW r \in Req, HandlerStep(r)
    PROVE  LossNeedsARival'
<1> SUFFICES ASSUME NEW i \in Pos' \ (segment' \cup Handed')
             PROVE  \E q \in Req : Swept(q, i)'
  BY DEF LossNeedsARival
<1>1. TypeOK
  BY DEF RivalInv, IInv
<1>2. Handed \subseteq Handed'
  BY <1>1, HandedGrows
<1>3. i \in Pos \ Handed
  <2>1. CASE ResetSegment(r) \/ ClearWM(r)
    BY <1>2, <2>1 DEF ResetSegment, ClearWM, Pos
  <2>2. CASE ~ResetSegment(r) /\ ~ClearWM(r)
    BY <1>1, <1>2, <2>2, BufferMoves
  <2> QED BY <2>1, <2>2
<1>4. CASE i \notin segment
  <2>1. PICK q \in Req : Swept(q, i)
    BY <1>3, <1>4 DEF RivalInv, LossNeedsARival
  <2> QED BY <1>3, <2>1, SweptStays
<1>5. CASE i \in segment
  <2>1. ResetSegment(r) \/ ClearWM(r)
    BY <1>1, <1>5, BufferMoves
  <2> QED BY <1>3, <1>5, <2>1, DeletionSweeps
<1> QED BY <1>4, <1>5

LEMMA NextRival == RivalInv /\ [Next]_vars => RivalInv'
<1> SUFFICES ASSUME RivalInv, [Next]_vars PROVE RivalInv'
  OBVIOUS
<1>1. IInv'
  BY NextIInv DEF RivalInv
<1>2. ASSUME NEW r \in Req, HandlerStep(r) PROVE RivalInv'
  BY <1>1, <1>2, LossStays, HolderStays, WindowStays DEF RivalInv
<1>3. CASE UNCHANGED vars
  <2>1. Pos' = Pos /\ Handed' = Handed /\ UNCHANGED <<said, segment, loc, pc>>
    BY <1>3 DEF vars, Pos, Handed
  <2>2. LossNeedsARival'
    BY <2>1 DEF RivalInv, LossNeedsARival, Swept
  <2>3. ASSUME NEW q \in Req PROVE HolderFits(q)' /\ WindowFits(q)'
    BY <2>1 DEF RivalInv, HolderFits, WindowFits
  <2> QED BY <1>1, <2>2, <2>3 DEF RivalInv
<1> QED BY <1>2, <1>3 DEF Next, HandlerStep

\* reset_segment and clear delete the whole buffer, so turns can be lost when
\* handlers overlap.  Whatever the overlap, the faults and the state of the hash,
\* a turn that is neither open nor on the extraction queue was said between
\* another handler's snapshot and that handler's deletion, or was in the
\* snapshot of a wrap that cleared the session although its force-close had
\* degraded.
THEOREM OnlyRivalsLose == Spec => []LossNeedsARival
<1>1. Init => RivalInv
  <2> SUFFICES ASSUME Init PROVE RivalInv
    OBVIOUS
  <2>1. /\ Pos = {1} /\ segment = {1} /\ Len(said) = 1
        /\ \A r \in Req : pc[r] = "idle" /\ loc[r].until = 0 /\ loc[r].since = 0
    BY DEF Init, Pos, NewLocal
  <2>2. LossNeedsARival
    BY <2>1 DEF LossNeedsARival
  <2>3. ASSUME NEW r \in Req PROVE HolderFits(r) /\ WindowFits(r)
    BY <2>1 DEF HolderFits, WindowFits, Tracked, Held, Sent, AfterForce
  <2> QED BY <2>2, <2>3, InitIInv DEF RivalInv
<1>2. RivalInv => LossNeedsARival
  BY DEF RivalInv
<1> QED BY <1>1, <1>2, NextRival, PTL DEF Spec

-----------------------------------------------------------------------------
(* A client that waits for its replies.                                    *)

OneAtATime == \A q, r \in Req : pc[q] \in InFlight /\ pc[r] \in InFlight => q = r

AskedIn(q, S)  == \E i \in S : said[i].role = "assistant" /\ said[i].by = q
BeforeReply == {"idle", "append", "count", "classify", "signal", "select", "card",
                "respond", "reply"}

\* What a handler at each step may rely on when it has the session to itself.
HandlerFits(r) ==
    /\ pc[r] \in InFlight => hash = "full"
    /\ pc[r] \in TurnSteps => loc[r].kind = "turn"
    /\ pc[r] \in WrapSteps => loc[r].kind = "wrap"
    /\ pc[r] \in Held => loc[r].snap = segment /\ segment # {}
    /\ pc[r] \in (TurnSteps \ {"append"}) \cup {"snapshot"} /\ loc[r].kind = "turn"
          => segment # {}
    /\ pc[r] \in {"unseed", "tally"} => segment = {}
    /\ pc[r] \in {"summarize", "fanout", "reread", "clear"} /\ loc[r].degraded = "no"
          => segment = {}
    /\ pc[r] \in {"snapshot", "detect", "push", "promote"}
          => loc[r].prior = summary /\ loc[r].seed = seeded
    /\ pc[r] = "reset" => segment \subseteq summary
    /\ pc[r] \in {"promote", "reset"}
          => queue # <<>> /\ queue[Len(queue)].turns = segment
    /\ pc[r] = "seed" => AskedIn(r, segment)

\* Nothing is forgotten by the summary either: what is not open is covered.
Covered == hash = "full" => Pos \subseteq segment \cup summary

ReadWhole == \A i \in DOMAIN queue : /\ queue[i].turns # {}
                                     /\ Past(queue[i].turns) \subseteq queue[i].prior

\* A request replies at most once, so a question has one place in the history.
OneReply ==
    /\ \A i, j \in Pos :
          said[i].role = "assistant" /\ said[j].role = "assistant"
             /\ said[i].by = said[j].by => i = j
    /\ \A r \in Req : pc[r] \in BeforeReply => ~AskedIn(r, Pos)

\* The seeded question was asked in the segment that is still open, except
\* while its handler is between the reset and the clearing of the question.
SeedIsOpen == NoCrash /\ seeded # None =>
                  AskedIn(seeded, segment) \/ \E r \in Req : pc[r] = "unseed"
SummaryIsPast == NoCrash =>
                  Disjoint(summary, segment) \/ \E r \in Req : pc[r] = "reset"
ReadApart == NoCrash => \A i \in DOMAIN queue :
                  /\ Disjoint(queue[i].prior, queue[i].turns)
                  /\ \A q \in queue[i].answered : AskedIn(q, queue[i].turns)

\* The inductive invariant of a session whose client waits for its replies.
SerialInv ==
    /\ IInv /\ OneAtATime /\ hash # "partial"
    /\ \A r \in Req : HandlerFits(r)
    /\ Covered /\ ReadWhole /\ OneReply
    /\ SeedIsOpen /\ SummaryIsPast /\ ReadApart
    /\ NothingForgotten

\* Only one handler is between its arrival and its end.
LEMMA Alone ==
    ASSUME MaxInFlight = 1, TypeOK, OneAtATime, NEW r \in Req, HandlerStep(r)
    PROVE  \A q \in Req \ {r} : /\ pc[q] \notin InFlight
                                /\ pc'[q] = pc[q] /\ loc'[q] = loc[q]
<1> DEFINE Busy == {s \in Req : pc[s] \in InFlight}
<1>1. CASE Arrive(r)
  <2>1. Cardinality(Busy) < 1
    BY <1>1 DEF Arrive
  <2>2. Busy \subseteq {CHOOSE s \in Req : pc[s] \in InFlight}
    BY DEF OneAtATime
  <2>3. IsFiniteSet(Busy)
    BY <2>2, FS_Singleton, FS_Subset
  <2>4. Cardinality(Busy) \in Nat
    BY <2>3, FS_CardinalityType
  <2>5. Cardinality(Busy) = 0
    BY <2>1, <2>4
  <2>6. Busy = {}
    BY <2>3, <2>5, FS_EmptySet
  <2> QED BY <2>6, OthersWait
<1>2. CASE ~Arrive(r)
  <2>1. pc[r] \in InFlight
    <3> USE DEF InFlight, TurnSteps, CloseSteps, WrapSteps
    <3>1. CASE TurnStep(r)
      BY <3>1 DEF TurnStep, AppendUserTurn, CountUserTurn, Classify, ClassifyFails,
         UpdateSignals, Select, RecordTapEmitted, Respond, RespondFails,
         AppendAssistant, SetSeededQuestion, Gate, StateReadFails
    <3>2. CASE CloseStep(r)
      BY <3>2 DEF CloseStep, Snapshot, Detect, DetectForced, DetectFails, Push,
         PushFails, UpdateRollingSummary, ResetSegment, ClearSeededQuestion,
         IncrementSegmentsPushed
    <3>3. CASE WrapStep(r)
      BY <3>3 DEF WrapStep, LoadState, GenerateSummary, PushPostSession, ClearWM,
         RereadState, ClearFails
    <3>4. CASE Crash(r)
      BY <3>4 DEF Crash
    <3> QED BY <1>2, <3>1, <3>2, <3>3, <3>4 DEF HandlerStep
  <2> QED BY <2>1, OthersWait DEF OneAtATime
<1> QED BY <1>1, <1>2

LEMMA AloneFits ==
    ASSUME MaxInFlight = 1, TypeOK, OneAtATime, NEW r \in Req, HandlerStep(r),
           HandlerFits(r)'
    PROVE  OneAtATime' /\ \A q \in Req : HandlerFits(q)'
<1>1. \A q \in Req \ {r} : pc'[q] \notin InFlight
  BY Alone
<1>2. OneAtATime'
  BY <1>1 DEF OneAtATime
<1>3. ASSUME NEW q \in Req, q # r PROVE HandlerFits(q)'
  BY <1>1, <1>3 DEF HandlerFits, Held, InFlight, TurnSteps, CloseSteps, WrapSteps
<1> QED BY <1>2, <1>3

\* The steps that change neither the turns, nor the summary, nor the question,
\* nor the queue.
Quiet(r) ==
    \/ Arrive(r) \/ Crash(r) \/ CountUserTurn(r) \/ Classify(r) \/ ClassifyFails(r)
    \/ UpdateSignals(r) \/ Select(r) \/ RecordTapEmitted(r) \/ Respond(r)
    \/ RespondFails(r) \/ Gate(r) \/ StateReadFails(r) \/ Snapshot(r)
    \/ Detect(r) \/ DetectForced(r) \/ DetectFails(r) \/ IncrementSegmentsPushed(r)
    \/ LoadState(r) \/ GenerateSummary(r) \/ PushPostSession(r) \/ RereadState(r)
    \/ ClearFails(r)

QuietMoves(r) ==
    /\ UNCHANGED <<hash, said, segment, summary, seeded, queue>>
    /\ pc'[r] = "crashed" \/ pc[r] \notin {"unseed", "reset"}
    /\ pc'[r] \in BeforeReply => pc[r] \in BeforeReply
    /\ pc[r] \notin {"done", "crashed"}

LEMMA QuietFits ==
    ASSUME SerialInv, NEW r \in Req, Quiet(r)
    PROVE  QuietMoves(r) /\ HandlerFits(r)'
<1>1. /\ pc \in [Req -> Steps] /\ loc \in [Req -> Local] /\ loc[r] \in Local
      /\ HandlerFits(r) /\ hash # "partial" /\ hash \in {"full", "absent", "partial"}
  BY DEF SerialInv, IInv, TypeOK, Steps
<1>2. loc[r].kind \in {"turn", "wrap"}
  BY <1>1 DEF Local
<1> USE <1>1, <1>2 DEF Goto, HandlerFits, AskedIn, QuietMoves, BeforeReply, Held,
    InFlight, TurnSteps, CloseSteps, WrapSteps, wm, Touched
<1>3. CASE Arrive(r)
  BY <1>3 DEF Arrive, NewLocal
<1>4. CASE Crash(r)
  BY <1>4 DEF Crash
<1>5. CASE CountUserTurn(r) \/ Classify(r)
  BY <1>5 DEF CountUserTurn, Classify, Local
<1>6. CASE ClassifyFails(r) \/ UpdateSignals(r)
  BY <1>6 DEF ClassifyFails, UpdateSignals
<1>7. CASE Select(r)
  BY <1>7 DEF Select, Local
<1>8. CASE RecordTapEmitted(r) \/ Respond(r)
  BY <1>8 DEF RecordTapEmitted, Respond
<1>9. CASE RespondFails(r) \/ StateReadFails(r)
  BY <1>9 DEF RespondFails, StateReadFails, Local
<1>10. CASE Gate(r)
  BY <1>10 DEF Gate, Local
<1>11. CASE Snapshot(r)
  BY <1>11 DEF Snapshot, Local
<1>12. CASE Detect(r) \/ DetectForced(r)
  BY <1>12 DEF Detect, DetectForced
<1>13. CASE DetectFails(r)
  BY <1>13 DEF DetectFails, AfterClose, Local
<1>14. CASE IncrementSegmentsPushed(r)
  BY <1>14 DEF IncrementSegmentsPushed, AfterClose
<1>15. CASE LoadState(r)
  BY <1>15 DEF LoadState, Local
<1>16. CASE GenerateSummary(r)
  BY <1>16 DEF GenerateSummary, Local
<1>17. CASE PushPostSession(r) \/ RereadState(r) \/ ClearFails(r)
  BY <1>17 DEF PushPostSession, RereadState, ClearFails
<1> QED BY <1>3, <1>4, <1>5, <1>6, <1>7, <1>8, <1>9, <1>10, <1>11, <1>12, <1>13,
           <1>14, <1>15, <1>16, <1>17 DEF Quiet

\* What a step of r that meets QuietMoves keeps of the rest of the invariant.
LEMMA QuietSerial ==
    ASSUME MaxInFlight = 1, SerialInv, IInv', NEW r \in Req, Quiet(r),
           HandlerStep(r)
    PROVE  SerialInv'
<1> USE DEF SerialInv
<1>1. TypeOK /\ QuietMoves(r) /\ HandlerFits(r)'
  BY QuietFits DEF IInv
<1>2. OneAtATime' /\ \A q \in Req : HandlerFits(q)'
  BY <1>1, AloneFits
<1>3. \A q \in Req \ {r} : /\ pc[q] \notin InFlight
                           /\ pc'[q] = pc[q] /\ loc'[q] = loc[q]
  BY <1>1, Alone
<1>4. /\ UNCHANGED <<hash, said, segment, summary, seeded, queue>>
      /\ pc'[r] = "crashed" \/ pc[r] \notin {"unseed", "reset"}
      /\ pc'[r] \in BeforeReply => pc[r] \in BeforeReply
      /\ pc[r] \notin {"done", "crashed"}
      /\ Pos' = Pos /\ Handed' = Handed
  BY <1>1 DEF QuietMoves, Pos, Handed
<1>5. Covered' /\ ReadWhole'
  BY <1>4 DEF Covered, ReadWhole, Past
<1>6. OneReply'
  <2>1. \A q : AskedIn(q, Pos)' = AskedIn(q, Pos)
    BY <1>4 DEF AskedIn
  <2>2. \A q \in Req : pc'[q] \in BeforeReply => pc[q] \in BeforeReply
    BY <1>3, <1>4
  <2> QED BY <1>4, <2>1, <2>2 DEF OneReply
<1>7. NoCrash' => /\ NoCrash
                  /\ \A q \in Req : pc[q] \notin {"unseed", "reset"}
  BY <1>3, <1>4 DEF NoCrash, InFlight, CloseSteps
<1>8. SeedIsOpen'
  BY <1>4, <1>7 DEF SeedIsOpen, AskedIn
<1>9. SummaryIsPast'
  BY <1>4, <1>7 DEF SummaryIsPast
<1>10. ReadApart'
  BY <1>4, <1>7 DEF ReadApart, AskedIn
<1>11. NothingForgotten'
  BY <1>3, <1>4 DEF NothingForgotten
<1> QED BY <1>2, <1>4, <1>5, <1>6, <1>8, <1>9, <1>10, <1>11

\* The facts every other step starts from.
LEMMA SerialFacts ==
    ASSUME MaxInFlight = 1, SerialInv, NEW r \in Req, HandlerStep(r)
    PROVE  /\ TypeOK /\ OneAtATime /\ HandlerFits(r)
           /\ pc \in [Req -> Steps] /\ loc \in [Req -> Local] /\ loc[r] \in Local
           /\ segment \subseteq Pos /\ summary \subseteq Pos /\ Pos \subseteq Nat
           /\ \A i \in DOMAIN queue : queue[i].turns \subseteq Pos
           /\ \A q \in Req \ {r} : /\ pc[q] \notin InFlight
                                   /\ pc'[q] = pc[q] /\ loc'[q] = loc[q]
           /\ \A q \in Req : pc[q] \in {"unseed", "reset"} => q = r
<1>1. /\ TypeOK /\ OneAtATime /\ HandlerFits(r)
      /\ pc \in [Req -> Steps] /\ loc \in [Req -> Local] /\ loc[r] \in Local
      /\ segment \subseteq Pos /\ summary \subseteq Pos /\ Pos \subseteq Nat
  BY DEF SerialInv, IInv, TypeOK, Steps, Pos
<1>2. \A i \in DOMAIN queue : queue[i].turns \subseteq Pos
  BY DEF SerialInv, IInv, CapturesPast, Captures
<1>3. \A q \in Req \ {r} : /\ pc[q] \notin InFlight
                           /\ pc'[q] = pc[q] /\ loc'[q] = loc[q]
  BY <1>1, Alone
<1>4. \A q \in Req : pc[q] \in {"unseed", "reset"} => q = r
  BY <1>3 DEF InFlight, CloseSteps
<1> QED BY <1>1, <1>2, <1>3, <1>4

LEMMA AppendSerial ==
    ASSUME MaxInFlight = 1, SerialInv, IInv', NEW r \in Req,
           AppendUserTurn(r) \/ AppendAssistant(r)
    PROVE  SerialInv'
<1> USE DEF SerialInv
<1> DEFINE n == Len(said) + 1
<1>1. HandlerStep(r)
  BY DEF HandlerStep, TurnStep
<1>2. /\ TypeOK /\ OneAtATime /\ HandlerFits(r)
      /\ pc \in [Req -> Steps] /\ loc \in [Req -> Local] /\ loc[r] \in Local
      /\ segment \subseteq Pos /\ summary \subseteq Pos /\ Pos \subseteq Nat
      /\ \A i \in DOMAIN queue : queue[i].turns \subseteq Pos
      /\ \A q \in Req \ {r} : /\ pc[q] \notin InFlight
                              /\ pc'[q] = pc[q] /\ loc'[q] = loc[q]
      /\ \A q \in Req : pc[q] \in {"unseed", "reset"} => q = r
  BY <1>1, SerialFacts
<1>3. PICK role \in {"user", "assistant"}, asks \in BOOLEAN :
        /\ said' = Append(said, [by |-> r, role |-> role, asks |-> asks])
        /\ role = "user" <=> AppendUserTurn(r)
  BY DEF AppendUserTurn, AppendAssistant, Append_turn
<1>4. /\ UNCHANGED <<hash, summary, seeded, queue, loc>>
      /\ segment' = segment \cup {n}
      /\ pc[r] \in {"append", "reply"}
      /\ role = "user" => pc'[r] = "count"
      /\ role = "assistant" => pc'[r] \in {"seed", "aborted", "gate"}
                               /\ pc[r] = "reply"
  BY <1>2, <1>3 DEF AppendUserTurn, AppendAssistant, Append_turn, Goto, AfterReply
<1>5. said \in Seq(Turn) /\ [by |-> r, role |-> role, asks |-> asks] \in Turn
  BY <1>2 DEF TypeOK, Turn, Author
<1>6. /\ Len(said) \in Nat /\ Len(said') = n
      /\ \A i \in Pos : said'[i] = said[i]
      /\ said'[n].by = r /\ said'[n].role = role
  BY <1>3, <1>5, AppendProperties DEF Pos
<1>7. Pos' = Pos \cup {n} /\ n \notin Pos /\ n \in Nat /\ \A i \in Pos : i < n
  BY <1>6 DEF Pos
<1>8. \A q, S : S \subseteq Pos =>
         /\ AskedIn(q, S) => \E i \in S : said'[i].role = "assistant" /\ said'[i].by = q
         /\ (\E i \in S : said'[i].role = "assistant" /\ said'[i].by = q) => AskedIn(q, S)
  BY <1>6 DEF AskedIn
<1> HIDE DEF n
<1>9. HandlerFits(r)'
  <2>1. pc'[r] = "seed" => AskedIn(r, segment)'
    BY <1>4, <1>6 DEF AskedIn
  <2> QED BY <1>2, <1>4, <2>1 DEF HandlerFits, Held, InFlight, TurnSteps, CloseSteps,
            WrapSteps
<1>10. OneAtATime' /\ \A q \in Req : HandlerFits(q)'
  BY <1>1, <1>2, <1>9, AloneFits
<1>11. Covered'
  BY <1>4, <1>7 DEF Covered
<1>12. ReadWhole'
  <2> SUFFICES ASSUME NEW i \in DOMAIN queue
               PROVE  /\ queue[i].turns # {}
                      /\ Past(queue[i].turns)' \subseteq queue[i].prior
    BY <1>4 DEF ReadWhole
  <2>1. queue[i].turns # {} /\ Past(queue[i].turns) \subseteq queue[i].prior
    BY DEF ReadWhole
  <2>2. PICK k \in queue[i].turns : k < n /\ k \in Nat
    BY <1>2, <1>7, <2>1
  <2>3. n \notin Past(queue[i].turns)'
    BY <1>4, <1>7, <2>2 DEF Past
  <2>4. Past(queue[i].turns)' \subseteq Past(queue[i].turns)
    BY <1>4, <1>7, <2>3 DEF Past
  <2> QED BY <2>1, <2>4
<1>13. OneReply'
  <2>1. role = "assistant" => ~AskedIn(r, Pos) /\ pc'[r] \notin BeforeReply
    BY <1>4 DEF OneReply, BeforeReply
  <2>2. ASSUME NEW i \in Pos', NEW j \in Pos',
               said'[i].role = "assistant", said'[j].role = "assistant",
               said'[i].by = said'[j].by
        PROVE  i = j
    <3>1. CASE i = n \/ j = n
      BY <1>6, <1>7, <2>1, <2>2, <3>1 DEF AskedIn
    <3>2. CASE i \in Pos /\ j \in Pos
      BY <1>6, <2>2, <3>2 DEF OneReply
    <3> QED BY <1>7, <3>1, <3>2
  <2>3. ASSUME NEW q \in Req, pc'[q] \in BeforeReply, AskedIn(q, Pos)' PROVE FALSE
    <3>1. PICK i \in Pos' : said'[i].role = "assistant" /\ said'[i].by = q
      BY <2>3 DEF AskedIn
    <3>2. CASE i = n
      BY <1>6, <2>1, <2>3, <3>1, <3>2
    <3>3. CASE i \in Pos
      <4>1. AskedIn(q, Pos)
        BY <1>8, <3>1, <3>3
      <4>2. pc[q] \notin BeforeReply
        BY <4>1 DEF OneReply
      <4> QED BY <1>2, <1>4, <2>3, <4>2 DEF BeforeReply
    <3> QED BY <1>7, <3>1, <3>2, <3>3
  <2>4. \A q \in Req : pc'[q] \in BeforeReply => ~AskedIn(q, Pos)'
    BY <2>3
  <2> QED BY <2>2, <2>4 DEF OneReply
<1>14. NoCrash' => NoCrash
  BY <1>2, <1>4 DEF NoCrash
<1>15. \A q \in Req : pc[q] \notin {"unseed", "reset"}
  BY <1>2, <1>4
<1>16. SeedIsOpen'
  <2> SUFFICES ASSUME NoCrash', seeded # None PROVE AskedIn(seeded, segment)'
    BY <1>4 DEF SeedIsOpen
  <2>1. AskedIn(seeded, segment)
    BY <1>14, <1>15 DEF SeedIsOpen
  <2>2. \E i \in segment : said'[i].role = "assistant" /\ said'[i].by = seeded
    BY <1>2, <1>8, <2>1
  <2> QED BY <1>4, <2>2 DEF AskedIn
<1>17. SummaryIsPast'
  BY <1>2, <1>4, <1>7, <1>14, <1>15 DEF SummaryIsPast, Disjoint
<1>18. ReadApart'
  <2> SUFFICES ASSUME NoCrash', NEW i \in DOMAIN queue,
                      NEW q \in queue[i].answered
               PROVE  AskedIn(q, queue[i].turns)'
    BY <1>4, <1>14 DEF ReadApart
  <2>1. AskedIn(q, queue[i].turns)
    BY <1>14 DEF ReadApart
  <2>2. queue[i].turns \subseteq Pos
    BY <1>2
  <2>3. \E j \in queue[i].turns : said'[j].role = "assistant" /\ said'[j].by = q
    BY <1>8, <2>1, <2>2
  <2> QED BY <1>4, <2>3 DEF AskedIn
<1>19. NothingForgotten'
  BY <1>2, <1>4, <1>7 DEF NothingForgotten, Handed
<1> QED BY <1>4, <1>10, <1>11, <1>12, <1>13, <1>16, <1>17, <1>18, <1>19

\* The question was asked by the handler's own reply a moment ago.
LEMMA SeedSerial ==
    ASSUME MaxInFlight = 1, SerialInv, IInv', NEW r \in Req, SetSeededQuestion(r)
    PROVE  SerialInv'
<1> USE DEF SerialInv
<1>1. HandlerStep(r)
  BY DEF HandlerStep, TurnStep
<1>2. /\ TypeOK /\ OneAtATime /\ HandlerFits(r)
      /\ pc \in [Req -> Steps]
      /\ \A q \in Req \ {r} : /\ pc[q] \notin InFlight
                              /\ pc'[q] = pc[q] /\ loc'[q] = loc[q]
      /\ \A q \in Req : pc[q] \in {"unseed", "reset"} => q = r
  BY <1>1, SerialFacts
<1>3. /\ UNCHANGED <<said, segment, summary, queue, loc>>
      /\ seeded' = r /\ pc[r] = "seed" /\ pc'[r] \in {"aborted", "gate"}
      /\ Pos' = Pos /\ Handed' = Handed
  BY <1>2 DEF SetSeededQuestion, Goto, AfterReply, Pos, Handed
<1>4. hash = "full" /\ hash' = hash /\ AskedIn(r, segment)
  BY <1>2, <1>3 DEF HandlerFits, SetSeededQuestion, Touched, InFlight, TurnSteps
<1>5. HandlerFits(r)'
  BY <1>2, <1>3, <1>4 DEF HandlerFits, Held, InFlight, TurnSteps, CloseSteps,
     WrapSteps
<1>6. OneAtATime' /\ \A q \in Req : HandlerFits(q)'
  BY <1>1, <1>2, <1>5, AloneFits
<1>7. Covered' /\ ReadWhole'
  BY <1>3, <1>4 DEF Covered, ReadWhole, Past
<1>8. \A q, S : AskedIn(q, S) => \E i \in S : said'[i].role = "assistant" /\ said'[i].by = q
  BY <1>3 DEF AskedIn
<1>9. OneReply'
  <2>1. \A q : AskedIn(q, Pos)' = AskedIn(q, Pos)
    BY <1>3 DEF AskedIn
  <2>2. \A q \in Req : pc'[q] \in BeforeReply => pc[q] \in BeforeReply
    BY <1>2, <1>3 DEF BeforeReply
  <2> QED BY <1>3, <2>1, <2>2 DEF OneReply
<1>10. /\ NoCrash' => NoCrash
       /\ \A q \in Req : pc[q] \notin {"unseed", "reset"}
  BY <1>2, <1>3 DEF NoCrash
<1>11. SeedIsOpen'
  BY <1>3, <1>4 DEF SeedIsOpen, AskedIn
<1>12. SummaryIsPast'
  BY <1>3, <1>10 DEF SummaryIsPast
<1>13. ReadApart'
  BY <1>3, <1>10 DEF ReadApart, AskedIn
<1>14. NothingForgotten'
  BY <1>2, <1>3 DEF NothingForgotten
<1> QED BY <1>4, <1>6, <1>7, <1>9, <1>11, <1>12, <1>13, <1>14

\* What a handler reports as answered was asked in the segment it pushes.
LEMMA AnsweredWasAsked ==
    ASSUME SerialInv, NEW r \in Req, pc[r] = "push", NoCrash,
           \A q \in Req : pc[q] # "unseed"
    PROVE  \A q \in SegmentPayload(r).answered : AskedIn(q, segment)
<1>1. /\ loc[r].snap = segment /\ loc[r].seed = seeded
  BY DEF SerialInv, HandlerFits, Held
<1>2. \A q \in AnsweredQuestionCandidates(segment) : AskedIn(q, segment)
  BY DEF AnsweredQuestionCandidates, AskedIn
<1>3. seeded # None => AskedIn(seeded, segment)
  BY DEF SerialInv, SeedIsOpen
<1>4. SegmentPayload(r).answered = AnsweredBy(r)
  BY DEF SegmentPayload
<1> QED BY <1>1, <1>2, <1>3, <1>4 DEF AnsweredBy

LEMMA PushSerial ==
    ASSUME MaxInFlight = 1, SerialInv, IInv', NEW r \in Req,
           Push(r) \/ PushFails(r)
    PROVE  SerialInv'
<1> USE DEF SerialInv
<1> DEFINE payload == SegmentPayload(r)
<1>1. HandlerStep(r)
  BY DEF HandlerStep, CloseStep
<1>2. /\ TypeOK /\ OneAtATime /\ HandlerFits(r)
      /\ pc \in [Req -> Steps] /\ loc \in [Req -> Local] /\ loc[r] \in Local
      /\ segment \subseteq Pos /\ summary \subseteq Pos /\ Pos \subseteq Nat
      /\ \A i \in DOMAIN queue : queue[i].turns \subseteq Pos
      /\ \A q \in Req \ {r} : /\ pc[q] \notin InFlight
                              /\ pc'[q] = pc[q] /\ loc'[q] = loc[q]
      /\ \A q \in Req : pc[q] \in {"unseed", "reset"} => q = r
  BY <1>1, SerialFacts
<1>3. /\ UNCHANGED <<hash, said, segment, summary, seeded>>
      /\ pc[r] = "push"
      /\ loc'[r].kind = loc[r].kind
      /\ Push(r) => pc'[r] = "promote" /\ loc' = loc
      /\ PushFails(r) => /\ pc'[r] = AfterClose(r) /\ loc'[r].degraded = "push"
      /\ Pos' = Pos
  BY <1>2 DEF Push, PushFails, Goto, wm, Pos, Local
<1>4. /\ hash = "full" /\ loc[r].snap = segment /\ segment # {}
      /\ loc[r].prior = summary
  BY <1>2, <1>3 DEF HandlerFits, Held, InFlight, CloseSteps
<1>5. payload.turns = segment /\ payload.prior = summary
  BY <1>4 DEF SegmentPayload
<1>6. queue \in Seq(Payload) /\ payload \in Payload
  BY <1>2, AppendQueue DEF TypeOK
<1>7. queue' \in {queue, Append(queue, payload)}
      /\ (Push(r) => queue' = Append(queue, payload))
  BY DEF Push, PushFails
<1> HIDE DEF payload
<1>8. \A i \in DOMAIN queue' :
        \/ queue'[i] = payload
        \/ i \in DOMAIN queue /\ queue'[i] = queue[i]
  BY <1>6, <1>7, AppendProperties
<1>9. Push(r) => queue' # <<>> /\ queue'[Len(queue')].turns = segment
  BY <1>5, <1>6, <1>7, AppendProperties
<1>10. HandlerFits(r)'
  <2>1. CASE Push(r)
    BY <1>2, <1>3, <1>4, <1>9, <2>1 DEF HandlerFits, Held, InFlight, TurnSteps,
       CloseSteps, WrapSteps
  <2>2. CASE PushFails(r)
    <3>1. pc'[r] = "done" \/ (pc'[r] = "summarize" /\ loc'[r].kind = "wrap")
      BY <1>3, <2>2 DEF AfterClose
    <3> QED BY <1>3, <1>4, <2>2, <3>1 DEF HandlerFits, Held, InFlight,
               TurnSteps, CloseSteps, WrapSteps
  <2> QED BY <2>1, <2>2
<1>11. OneAtATime' /\ \A q \in Req : HandlerFits(q)'
  BY <1>1, <1>2, <1>10, AloneFits
<1>12. Covered'
  BY <1>3 DEF Covered
<1>13. ReadWhole'
  <2>1. ASSUME NEW k \in Pos, \A i \in segment : k < i
        PROVE  k \in summary
    <3>1. k \in Nat /\ k \notin segment
      BY <1>2, <2>1
    <3> QED BY <1>4, <3>1 DEF Covered
  <2> QED BY <1>3, <1>4, <1>5, <1>8, <2>1 DEF ReadWhole, Past
<1>14. OneReply'
  <2>1. \A q : AskedIn(q, Pos)' = AskedIn(q, Pos)
    BY <1>3 DEF AskedIn
  <2>2. \A q \in Req : pc'[q] \in BeforeReply => pc[q] \in BeforeReply
    BY <1>2, <1>3 DEF BeforeReply, AfterClose
  <2> QED BY <1>3, <2>1, <2>2 DEF OneReply
<1>15. /\ NoCrash' => NoCrash
       /\ \A q \in Req : pc[q] \notin {"unseed", "reset"}
  BY <1>2, <1>3 DEF NoCrash
<1>16. SeedIsOpen' /\ SummaryIsPast'
  BY <1>3, <1>15 DEF SeedIsOpen, SummaryIsPast, AskedIn
<1>17. ReadApart'
  <2> SUFFICES ASSUME NoCrash', NEW i \in DOMAIN queue'
               PROVE  /\ Disjoint(queue'[i].prior, queue'[i].turns)
                      /\ \A q \in queue'[i].answered : AskedIn(q, queue'[i].turns)
    BY <1>3 DEF ReadApart, AskedIn
  <2>1. Disjoint(summary, segment)
    BY <1>15 DEF SummaryIsPast
  <2>2. \A q \in payload.answered : AskedIn(q, segment)
    BY <1>3, <1>15, AnsweredWasAsked DEF payload
  <2> QED BY <1>5, <1>8, <1>15, <2>1, <2>2 DEF ReadApart
<1>18. NothingForgotten'
  <2>1. Handed \subseteq Handed'
    BY <1>2, PushQueues
  <2>2. (\A q \in Req : loc'[q].kind = "wrap" /\ pc'[q] = "done"
                           => loc'[q].degraded = "no")
          => (\A q \in Req : loc[q].kind = "wrap" /\ pc[q] = "done"
                           => loc[q].degraded = "no")
    BY <1>2, <1>3
  <2> QED BY <1>3, <2>1, <2>2 DEF NothingForgotten
<1> QED BY <1>3, <1>4, <1>11, <1>12, <1>13, <1>14, <1>16, <1>17, <1>18

\* The steps between the push and the end of the close.
LEMMA PromoteSerial ==
    ASSUME MaxInFlight = 1, SerialInv, IInv', NEW r \in Req,
           UpdateRollingSummary(r) \/ ClearSeededQuestion(r)
    PROVE  SerialInv'
<1> USE DEF SerialInv
<1>1. HandlerStep(r)
  BY DEF HandlerStep, CloseStep
<1>2. /\ TypeOK /\ OneAtATime /\ HandlerFits(r)
      /\ pc \in [Req -> Steps]
      /\ \A q \in Req \ {r} : /\ pc[q] \notin InFlight
                              /\ pc'[q] = pc[q] /\ loc'[q] = loc[q]
      /\ \A q \in Req : pc[q] \in {"unseed", "reset"} => q = r
  BY <1>1, SerialFacts
<1>3. /\ UNCHANGED <<said, segment, queue, loc>>
      /\ pc[r] \in {"promote", "unseed"}
      /\ pc[r] = "promote" => /\ pc'[r] = "reset" /\ seeded' = seeded
                              /\ summary' = loc[r].prior \cup loc[r].snap
      /\ pc[r] = "unseed" => /\ pc'[r] = "tally" /\ summary' = summary
                             /\ seeded' = None
      /\ Pos' = Pos /\ Handed' = Handed
  BY <1>2 DEF UpdateRollingSummary, ClearSeededQuestion, Goto, Pos, Handed
<1>4. /\ hash = "full" /\ hash' = hash
      /\ pc[r] = "promote" => summary' = summary \cup segment
      /\ summary \subseteq summary'
  BY <1>2, <1>3 DEF HandlerFits, Held, UpdateRollingSummary, ClearSeededQuestion,
     Touched, InFlight, CloseSteps
<1>5. HandlerFits(r)'
  BY <1>2, <1>3, <1>4 DEF HandlerFits, Held, InFlight, TurnSteps, CloseSteps,
     WrapSteps
<1>6. OneAtATime' /\ \A q \in Req : HandlerFits(q)'
  BY <1>1, <1>2, <1>5, AloneFits
<1>7. Covered' /\ ReadWhole'
  BY <1>3, <1>4 DEF Covered, ReadWhole, Past
<1>8. OneReply'
  <2>1. \A q : AskedIn(q, Pos)' = AskedIn(q, Pos)
    BY <1>3 DEF AskedIn
  <2>2. \A q \in Req : pc'[q] \in BeforeReply => pc[q] \in BeforeReply
    BY <1>2, <1>3 DEF BeforeReply
  <2> QED BY <1>3, <2>1, <2>2 DEF OneReply
<1>9. NoCrash' => NoCrash
  BY <1>2, <1>3 DEF NoCrash
<1>10. SeedIsOpen'
  <2>1. CASE pc[r] = "promote"
    <3>1. \A q \in Req : pc[q] # "unseed"
      BY <1>2, <2>1
    <3> QED BY <1>3, <1>9, <2>1, <3>1 DEF SeedIsOpen, AskedIn
  <2>2. CASE pc[r] = "unseed"
    BY <1>3, <2>2 DEF SeedIsOpen
  <2> QED BY <1>3, <2>1, <2>2
<1>11. SummaryIsPast'
  <2>1. CASE pc[r] = "promote"
    BY <1>3, <2>1 DEF SummaryIsPast
  <2>2. CASE pc[r] = "unseed"
    <3>1. segment = {}
      BY <1>2, <2>2 DEF HandlerFits
    <3> QED BY <1>3, <3>1 DEF SummaryIsPast, Disjoint
  <2> QED BY <1>3, <2>1, <2>2
<1>12. ReadApart'
  BY <1>3, <1>9 DEF ReadApart, AskedIn
<1>13. NothingForgotten'
  BY <1>2, <1>3 DEF NothingForgotten
<1> QED BY <1>4, <1>6, <1>7, <1>8, <1>10, <1>11, <1>12, <1>13

\* The buffer goes: after a push, or at the end of a wrap.
LEMMA ResetSerial ==
    ASSUME MaxInFlight = 1, SerialInv, IInv', NEW r \in Req,
           ResetSegment(r) \/ ClearWM(r)
    PROVE  SerialInv'
<1> USE DEF SerialInv
<1>1. HandlerStep(r)
  BY DEF HandlerStep, CloseStep, WrapStep
<1>2. /\ TypeOK /\ OneAtATime /\ HandlerFits(r)
      /\ pc \in [Req -> Steps] /\ loc \in [Req -> Local] /\ loc[r] \in Local
      /\ \A q \in Req \ {r} : /\ pc[q] \notin InFlight
                              /\ pc'[q] = pc[q] /\ loc'[q] = loc[q]
  BY <1>1, SerialFacts
<1>3. /\ UNCHANGED <<said, queue>> /\ segment' = {}
      /\ loc'[r].kind = loc[r].kind /\ loc'[r].degraded = loc[r].degraded
      /\ pc[r] \in {"reset", "clear"}
      /\ pc[r] = "reset" => pc'[r] = "unseed" /\ UNCHANGED <<hash, summary, seeded>>
      /\ pc[r] = "clear" => /\ pc'[r] = "done" /\ hash' = "absent"
                            /\ seeded' = None
      /\ Pos' = Pos /\ Handed' = Handed
  BY <1>2 DEF ResetSegment, ClearWM, Goto, Pos, Handed, Local
<1>4. hash = "full" /\ hash' # "partial"
  BY <1>2, <1>3 DEF HandlerFits, InFlight, CloseSteps, WrapSteps
<1>5. HandlerFits(r)'
  BY <1>2, <1>3, <1>4 DEF HandlerFits, Held, InFlight, TurnSteps, CloseSteps,
     WrapSteps
<1>6. OneAtATime' /\ \A q \in Req : HandlerFits(q)'
  BY <1>1, <1>2, <1>5, AloneFits
<1>7. Covered'
  BY <1>2, <1>3, <1>4 DEF Covered, HandlerFits
<1>8. ReadWhole'
  BY <1>3 DEF ReadWhole, Past
<1>9. OneReply'
  <2>1. \A q : AskedIn(q, Pos)' = AskedIn(q, Pos)
    BY <1>3 DEF AskedIn
  <2>2. \A q \in Req : pc'[q] \in BeforeReply => pc[q] \in BeforeReply
    BY <1>2, <1>3 DEF BeforeReply
  <2> QED BY <1>3, <2>1, <2>2 DEF OneReply
<1>10. NoCrash' => NoCrash
  BY <1>2, <1>3 DEF NoCrash
<1>11. SeedIsOpen' /\ SummaryIsPast'
  BY <1>3 DEF SeedIsOpen, SummaryIsPast, Disjoint
<1>12. ReadApart'
  BY <1>3, <1>10 DEF ReadApart, AskedIn
<1>13. NothingForgotten'
  <2> SUFFICES ASSUME \A q \in Req : loc'[q].kind = "wrap" /\ pc'[q] = "done"
                                        => loc'[q].degraded = "no"
               PROVE  Pos \subseteq Handed
    BY <1>3 DEF NothingForgotten
  <2>1. \A q \in Req : loc[q].kind = "wrap" /\ pc[q] = "done"
                          => loc[q].degraded = "no"
    BY <1>2, <1>3
  <2>2. Pos \subseteq segment \cup Handed
    BY <2>1 DEF NothingForgotten
  <2>3. CASE pc[r] = "reset"
    <3>1. queue # <<>> /\ queue[Len(queue)].turns = segment
      BY <1>2, <2>3 DEF HandlerFits
    <3>2. queue \in Seq(Payload)
      BY <1>2 DEF TypeOK
    <3>3. Len(queue) \in DOMAIN queue
      BY <3>1, <3>2
    <3> QED BY <2>2, <3>1, <3>3 DEF Handed
  <2>4. CASE pc[r] = "clear"
    <3>1. loc[r].kind = "wrap"
      BY <1>2, <2>4 DEF HandlerFits, WrapSteps
    <3>2. loc[r].degraded = "no"
      BY <1>3, <2>4, <3>1
    <3>3. segment = {}
      BY <1>2, <2>4, <3>2 DEF HandlerFits
    <3> QED BY <2>2, <3>3
  <2> QED BY <1>3, <2>3, <2>4
<1> QED BY <1>4, <1>6, <1>7, <1>8, <1>9, <1>11, <1>12, <1>13

LEMMA InitSerial == Init => SerialInv
<1> SUFFICES ASSUME Init PROVE SerialInv
  OBVIOUS
<1>1. /\ IInv /\ Len(said) = 1 /\ Pos = {1} /\ said[1].by = Opener
      /\ \A r \in Req : pc[r] = "idle"
  BY InitIInv DEF Init, Pos
<1>2. OneAtATime /\ hash # "partial" /\ \A r \in Req : HandlerFits(r)
  BY <1>1 DEF Init, OneAtATime, HandlerFits, Held, InFlight, TurnSteps, CloseSteps,
     WrapSteps
<1>3. Covered /\ ReadWhole /\ ReadApart
  BY <1>1 DEF Init, Covered, ReadWhole, ReadApart
<1>4. OneReply
  <2>1. \A r \in Req : ~AskedIn(r, Pos)
    BY <1>1, ConstantsAssumption DEF AskedIn
  <2> QED BY <1>1, <2>1 DEF OneReply
<1>5. SeedIsOpen /\ SummaryIsPast /\ NothingForgotten
  BY <1>1 DEF Init, SeedIsOpen, SummaryIsPast, NothingForgotten, AskedIn, Disjoint
<1> QED BY <1>1, <1>2, <1>3, <1>4, <1>5 DEF SerialInv

LEMMA NextSerial ==
    ASSUME MaxInFlight = 1, SerialInv, [Next]_vars
    PROVE  SerialInv'
<1>1. IInv'
  BY NextIInv DEF SerialInv
<1>2. ASSUME NEW r \in Req, HandlerStep(r) PROVE SerialInv'
  <2>1. \/ Quiet(r) \/ AppendUserTurn(r) \/ AppendAssistant(r)
        \/ SetSeededQuestion(r) \/ Push(r) \/ PushFails(r)
        \/ UpdateRollingSummary(r) \/ ClearSeededQuestion(r)
        \/ ResetSegment(r) \/ ClearWM(r)
    BY <1>2 DEF HandlerStep, TurnStep, CloseStep, WrapStep, Quiet
  <2> QED BY <1>1, <1>2, <2>1, QuietSerial, AppendSerial, SeedSerial, PushSerial,
             PromoteSerial, ResetSerial
<1>3. CASE UNCHANGED vars
  <2>1. /\ UNCHANGED <<hash, said, segment, summary, seeded, queue, pc, loc>>
        /\ Pos' = Pos /\ Handed' = Handed
    BY <1>3 DEF vars, Pos, Handed
  <2>2. OneAtATime' /\ \A r \in Req : HandlerFits(r)'
    BY <2>1 DEF SerialInv, OneAtATime, HandlerFits, AskedIn
  <2>3. Covered' /\ ReadWhole' /\ NothingForgotten'
    BY <2>1 DEF SerialInv, Covered, ReadWhole, NothingForgotten, Past
  <2>4. OneReply' /\ SeedIsOpen' /\ SummaryIsPast' /\ ReadApart'
    BY <2>1 DEF SerialInv, OneReply, SeedIsOpen, SummaryIsPast, ReadApart, AskedIn,
       NoCrash
  <2> QED BY <1>1, <2>1, <2>2, <2>3, <2>4 DEF SerialInv
<1> QED BY <1>2, <1>3 DEF Next, HandlerStep

LEMMA SerialInductive == ASSUME MaxInFlight = 1 PROVE Spec => []SerialInv
<1>1. SerialInv /\ [Next]_vars => SerialInv'
  BY NextSerial
<1> QED BY InitSerial, <1>1, PTL DEF Spec

\* A client that waits for its replies loses nothing it said: whatever fails or
\* crashes, each turn is in the open segment or on the extraction queue, unless
\* a wrap ran clear() after its force_close_segment had degraded.
THEOREM SerialForgetsNothing ==
    ASSUME MaxInFlight = 1 PROVE Spec => []NothingForgotten
<1>1. SerialInv => NothingForgotten
  BY DEF SerialInv
<1> QED BY SerialInductive, <1>1, PTL

\* For such a client the extraction worker reads every segment against a prior
\* summary of all that came before it; and while no handler has died, of nothing
\* else, with no question answered by two separate segments.
THEOREM SerialReadsThePast ==
    ASSUME MaxInFlight = 1 PROVE Spec => []SegmentsReadAgainstThePast
<1>1. SerialInv => SegmentsReadAgainstThePast
  <2> SUFFICES ASSUME SerialInv PROVE SegmentsReadAgainstThePast
    OBVIOUS
  <2>1. \A i \in DOMAIN queue : Past(queue[i].turns) \subseteq queue[i].prior
    BY DEF SerialInv, ReadWhole
  <2>2. ASSUME NoCrash, NEW i \in DOMAIN queue, NEW j \in DOMAIN queue,
               Disjoint(queue[i].turns, queue[j].turns),
               NEW q \in queue[i].answered, q \in queue[j].answered
        PROVE  FALSE
    <3>1. AskedIn(q, queue[i].turns) /\ AskedIn(q, queue[j].turns)
      BY <2>2 DEF SerialInv, ReadApart
    <3>2. queue[i].turns \subseteq Pos /\ queue[j].turns \subseteq Pos
      BY DEF SerialInv, IInv, CapturesPast, Captures
    <3> QED BY <2>2, <3>1, <3>2 DEF SerialInv, OneReply, AskedIn, Disjoint
  <2>3. NoCrash => \A i \in DOMAIN queue : Disjoint(queue[i].prior, queue[i].turns)
    BY DEF SerialInv, ReadApart
  <2> QED BY <2>1, <2>2, <2>3 DEF SegmentsReadAgainstThePast, Disjoint
<1> QED BY SerialInductive, <1>1, PTL

-----------------------------------------------------------------------------
(* The session implements its ledger.                                      *)

OpenTurns  == segment \ UNION {loc[r].snap : r \in Closing}
HandedList == [i \in DOMAIN queue |-> queue[i].turns]

\* What the ledger sees open: nothing while a handler is between its push and
\* its reset, else the buffer.
OpenFact == /\ \A r \in Req : pc[r] \in {"promote", "reset"} => OpenTurns = {}
            /\ (\A r \in Req : pc[r] \notin {"promote", "reset"}) => OpenTurns = segment

LEMMA OpenIs == SerialInv => OpenFact
<1> SUFFICES ASSUME SerialInv PROVE OpenFact
  OBVIOUS
<1>1. ASSUME NEW r \in Req, pc[r] \in {"promote", "reset"} PROVE OpenTurns = {}
  <2>1. loc[r].snap = segment
    BY <1>1 DEF SerialInv, HandlerFits, Held
  <2>2. r \in Closing
    BY <1>1 DEF Closing
  <2> QED BY <2>1, <2>2 DEF OpenTurns
<1>2. ASSUME \A r \in Req : pc[r] \notin {"promote", "reset"}
      PROVE  OpenTurns = segment
  <2>1. Closing = {}
    BY <1>2 DEF Closing
  <2> QED BY <2>1 DEF OpenTurns
<1> QED BY <1>1, <1>2 DEF OpenFact

LEMMA ListOfPayloads ==
    ASSUME NEW Q \in Seq(Payload), NEW p \in Payload
    PROVE  [i \in DOMAIN Append(Q, p) |-> Append(Q, p)[i].turns]
              = Append([i \in DOMAIN Q |-> Q[i].turns], p.turns)
<1> DEFINE F == [i \in DOMAIN Q |-> Q[i].turns]
           G == [i \in DOMAIN Append(Q, p) |-> Append(Q, p)[i].turns]
<1>1. /\ Len(Q) \in Nat /\ DOMAIN Q = 1..Len(Q)
      /\ DOMAIN Append(Q, p) = 1..(Len(Q) + 1)
      /\ \A i \in 1..Len(Q) : Append(Q, p)[i] = Q[i]
      /\ Append(Q, p)[Len(Q) + 1] = p
  BY AppendProperties, LenProperties
<1>2. \A i \in 1..Len(Q) : Q[i].turns \in SUBSET Nat
  <2>1. \A i \in 1..Len(Q) : Q[i] \in Payload
    OBVIOUS
  <2> QED BY <2>1 DEF Payload
<1>3. p.turns \in SUBSET Nat
  BY DEF Payload
<1>4. F \in Seq(SUBSET Nat) /\ Len(F) = Len(Q)
  <2>1. F \in [1..Len(Q) -> SUBSET Nat]
    BY <1>1, <1>2
  <2> QED BY <1>1, <2>1
<1>5. G \in Seq(SUBSET Nat) /\ Len(G) = Len(Q) + 1
  <2>1. G \in [1..(Len(Q) + 1) -> SUBSET Nat]
    <3>1. \A i \in 1..(Len(Q) + 1) : Append(Q, p)[i].turns \in SUBSET Nat
      BY <1>1, <1>2, <1>3
    <3> QED BY <1>1, <3>1
  <2> QED BY <1>1, <2>1
<1>6. \A i \in 1..Len(Q) : G[i] = F[i]
  BY <1>1
<1>7. G[Len(Q) + 1] = p.turns
  BY <1>1
<1> HIDE DEF F, G
<1>8. /\ Append(F, p.turns) \in Seq(SUBSET Nat)
      /\ Len(Append(F, p.turns)) = Len(Q) + 1
      /\ \A i \in 1..Len(Q) : Append(F, p.turns)[i] = F[i]
      /\ Append(F, p.turns)[Len(Q) + 1] = p.turns
  BY <1>3, <1>4, AppendProperties
<1>9. \A i \in 1..(Len(Q) + 1) : G[i] = Append(F, p.turns)[i]
  BY <1>1, <1>6, <1>7, <1>8
<1>10. G = Append(F, p.turns)
  BY <1>5, <1>8, <1>9, SeqEqual
<1> QED BY <1>10 DEF F, G

LEMMA LedgerStutters ==
    ASSUME Len(said') = Len(said), OpenTurns' = OpenTurns,
           HandedList' = HandedList, (hash' = "absent") <=> (hash = "absent")
    PROVE  UNCHANGED Ledger!ledger
BY DEF Ledger!ledger, OpenTurns, HandedList

LEMMA LedgerHandsOver ==
    ASSUME Len(said') = Len(said), OpenTurns # {}, OpenTurns' \in {{}, OpenTurns},
           HandedList' = Append(HandedList, OpenTurns),
           (hash' = "absent") <=> (hash = "absent")
    PROVE  Ledger!Next
BY DEF Ledger!Next, Ledger!HandOver, OpenTurns, HandedList

\* A quiet step leaves a half-closed segment only by a crash.
LEMMA QuietControl ==
    ASSUME TypeOK, NEW r \in Req, Quiet(r)
    PROVE  /\ pc'[r] \notin {"promote", "reset"}
           /\ pc[r] \in {"promote", "reset"} => Crash(r)
<1> USE DEF Goto
<1>1. pc \in [Req -> Steps]
  BY DEF TypeOK, Steps
<1>2. CASE Arrive(r) \/ Crash(r) \/ CountUserTurn(r) \/ Classify(r)
  BY <1>1, <1>2 DEF Arrive, Crash, CountUserTurn, Classify
<1>3. CASE \/ ClassifyFails(r) \/ UpdateSignals(r) \/ Select(r)
           \/ RecordTapEmitted(r) \/ Respond(r) \/ RespondFails(r)
  BY <1>1, <1>3 DEF ClassifyFails, UpdateSignals, Select, RecordTapEmitted, Respond,
     RespondFails
<1>4. CASE Gate(r) \/ StateReadFails(r) \/ Snapshot(r)
  BY <1>1, <1>4 DEF Gate, StateReadFails, Snapshot
<1>5. CASE \/ Detect(r) \/ DetectForced(r) \/ DetectFails(r)
           \/ IncrementSegmentsPushed(r)
  BY <1>1, <1>5 DEF Detect, DetectForced, DetectFails, IncrementSegmentsPushed,
     AfterClose
<1>6. CASE \/ LoadState(r) \/ GenerateSummary(r) \/ PushPostSession(r)
           \/ RereadState(r) \/ ClearFails(r)
  BY <1>1, <1>6 DEF LoadState, GenerateSummary, PushPostSession, RereadState,
     ClearFails
<1> QED BY <1>2, <1>3, <1>4, <1>5, <1>6 DEF Quiet

LEMMA LedgerStep ==
    ASSUME MaxInFlight = 1, SerialInv, SerialInv', NEW r \in Req, HandlerStep(r)
    PROVE  Ledger!Next \/ UNCHANGED Ledger!ledger
<1>1. OpenFact /\ OpenFact'
  <2>1. SerialInv' => OpenFact'
    BY OpenIs, PTL
  <2> QED BY <2>1, OpenIs
<1>2. /\ TypeOK /\ HandlerFits(r) /\ pc \in [Req -> Steps]
      /\ \A q \in Req \ {r} : pc[q] \notin InFlight /\ pc'[q] = pc[q]
  BY SerialFacts
<1>3. \A q \in Req \ {r} : /\ pc[q] \notin {"promote", "reset"}
                           /\ pc'[q] \notin {"promote", "reset"}
  BY <1>2 DEF InFlight, CloseSteps
<1>4. /\ pc[r] \in {"promote", "reset"} => OpenTurns = {}
      /\ pc[r] \notin {"promote", "reset"} => OpenTurns = segment
      /\ pc'[r] \in {"promote", "reset"} => OpenTurns' = {}
      /\ pc'[r] \notin {"promote", "reset"} => OpenTurns' = segment'
  BY <1>1, <1>3 DEF OpenFact
<1>5. queue' = queue => HandedList' = HandedList
  BY DEF HandedList
<1>6. CASE Quiet(r)
  <2>1. /\ UNCHANGED <<hash, said, segment, queue>>
        /\ pc'[r] \notin {"promote", "reset"}
        /\ pc[r] \in {"promote", "reset"} => Crash(r)
    BY <1>2, <1>6, QuietFits, QuietControl DEF QuietMoves
  <2>2. CASE pc[r] \notin {"promote", "reset"}
    BY <1>4, <1>5, <2>1, <2>2, LedgerStutters
  <2>3. CASE pc[r] \in {"promote", "reset"}
    <3>1. /\ OpenTurns = {} /\ OpenTurns' = segment /\ hash = "full"
          /\ queue # <<>> /\ queue[Len(queue)].turns = segment
      BY <1>2, <1>4, <2>1, <2>3 DEF HandlerFits, InFlight, CloseSteps
    <3>2. queue \in Seq(Payload)
      BY <1>2 DEF TypeOK
    <3>3. /\ Len(queue) \in Nat /\ Len(queue) # 0
          /\ DOMAIN queue = 1..Len(queue)
      BY <3>1, <3>2, EmptySeq
    <3>4. /\ HandedList # <<>> /\ Len(HandedList) = Len(queue)
          /\ HandedList[Len(queue)] = segment
      BY <3>1, <3>3 DEF HandedList
    <3>5. Ledger!Reopen
      BY <1>5, <2>1, <3>1, <3>4 DEF Ledger!Reopen, OpenTurns, HandedList
    <3> QED BY <3>5 DEF Ledger!Next
  <2> QED BY <2>2, <2>3
<1>7. CASE AppendUserTurn(r) \/ AppendAssistant(r)
  <2>1. PICK turn \in Turn : said' = Append(said, turn)
    BY <1>7 DEF AppendUserTurn, AppendAssistant, Append_turn, Turn, Author
  <2>2. said \in Seq(Turn)
    BY <1>2 DEF TypeOK
  <2>3. Len(said') = Len(said) + 1
    BY <2>1, <2>2
  <2>4. /\ segment' = segment \cup {Len(said) + 1} /\ UNCHANGED <<hash, queue>>
        /\ pc[r] \in {"append", "reply"}
        /\ pc'[r] \in {"count", "seed", "aborted", "gate"}
    BY <1>2, <1>7 DEF AppendUserTurn, AppendAssistant, Append_turn, Goto, AfterReply
  <2>5. hash = "full"
    BY <1>2, <2>4 DEF HandlerFits, InFlight, TurnSteps
  <2>6. OpenTurns' = OpenTurns \cup {Len(said) + 1}
    BY <1>4, <2>4
  <2>7. Ledger!Say
    BY <1>5, <2>3, <2>4, <2>5, <2>6 DEF Ledger!Say, OpenTurns, HandedList
  <2> QED BY <2>7 DEF Ledger!Next
<1>8. CASE \/ SetSeededQuestion(r) \/ ClearSeededQuestion(r)
           \/ UpdateRollingSummary(r) \/ ResetSegment(r)
  <2>1. /\ UNCHANGED <<said, queue>>
        /\ pc[r] \in {"seed", "unseed", "promote", "reset"}
        /\ hash' \in {hash, Touched}
    BY <1>8 DEF SetSeededQuestion, ClearSeededQuestion, UpdateRollingSummary,
       ResetSegment
  <2>2. hash = "full" /\ hash' = "full"
    BY <1>2, <2>1 DEF HandlerFits, InFlight, TurnSteps, CloseSteps, Touched
  <2>3. OpenTurns' = OpenTurns
    BY <1>2, <1>4, <1>8 DEF SetSeededQuestion, ClearSeededQuestion, Goto, AfterReply,
       UpdateRollingSummary, ResetSegment
  <2> QED BY <1>5, <2>1, <2>2, <2>3, LedgerStutters
<1>9. CASE Push(r) \/ PushFails(r)
  <2>1. /\ UNCHANGED <<hash, said, segment>> /\ pc[r] = "push"
        /\ pc'[r] \in {"promote", "done", "summarize"}
        /\ Push(r) => queue' = Append(queue, SegmentPayload(r))
        /\ queue' \in {queue, Append(queue, SegmentPayload(r))}
        /\ PushFails(r) => pc'[r] # "promote"
    BY <1>2, <1>9 DEF Push, PushFails, Goto, AfterClose, wm
  <2>2. loc[r].snap = segment /\ segment # {} /\ OpenTurns = segment
    BY <1>2, <1>4, <2>1 DEF HandlerFits, Held
  <2>3. OpenTurns' \in {{}, OpenTurns} /\ (PushFails(r) => OpenTurns' = OpenTurns)
    BY <1>4, <2>1, <2>2
  <2>4. /\ SegmentPayload(r) \in Payload /\ queue \in Seq(Payload)
        /\ SegmentPayload(r).turns = OpenTurns
    BY <1>2, <2>2, AppendQueue DEF TypeOK
  <2>5. CASE queue' = Append(queue, SegmentPayload(r))
    <3>1. HandedList' = Append(HandedList, OpenTurns)
      BY <2>4, <2>5, ListOfPayloads DEF HandedList
    <3> QED BY <2>1, <2>2, <2>3, <3>1, LedgerHandsOver
  <2>6. CASE queue' = queue /\ PushFails(r)
    BY <1>5, <2>1, <2>3, <2>6, LedgerStutters
  <2> QED BY <1>9, <2>1, <2>5, <2>6
<1>10. CASE ClearWM(r)
  <2>1. /\ UNCHANGED <<said, queue>> /\ hash' = "absent"
        /\ segment' = {} /\ pc[r] = "clear" /\ pc'[r] = "done"
    BY <1>2, <1>10 DEF ClearWM, Goto
  <2>4. hash = "full"
    BY <1>2, <2>1 DEF HandlerFits, InFlight, WrapSteps
  <2>2. OpenTurns' = {}
    BY <1>4, <2>1
  <2>3. Ledger!End
    BY <1>5, <2>1, <2>2, <2>4 DEF Ledger!End, OpenTurns, HandedList
  <2> QED BY <2>3 DEF Ledger!Next
<1>11. \/ Quiet(r) \/ AppendUserTurn(r) \/ AppendAssistant(r)
       \/ SetSeededQuestion(r) \/ Push(r) \/ PushFails(r)
       \/ UpdateRollingSummary(r) \/ ClearSeededQuestion(r)
       \/ ResetSegment(r) \/ ClearWM(r)
  BY DEF HandlerStep, TurnStep, CloseStep, WrapStep, Quiet
<1> QED BY <1>6, <1>7, <1>8, <1>9, <1>10, <1>11

\* With such a client the handlers do what SegmentLedger promises: a segment is
\* handed over whole or not at all, a close that is cut short puts the whole of
\* it back, and nothing is said once clear() ended the session.
THEOREM SerialImplementsLedger ==
    ASSUME MaxInFlight = 1 PROVE Spec => ImplementsLedger
<1>1. Init => Ledger!Init
  <2> SUFFICES ASSUME Init PROVE Ledger!Init
    OBVIOUS
  <2>1. Closing = {}
    BY DEF Init, Closing
  <2>2. segment \ UNION {loc[r].snap : r \in Closing} = {1}
    BY <2>1 DEF Init
  <2>3. [i \in DOMAIN queue |-> queue[i].turns] = <<>>
    BY DEF Init
  <2> QED BY <2>2, <2>3 DEF Init, Ledger!Init
<1>2. SerialInv /\ SerialInv' /\ [Next]_vars => [Ledger!Next]_(Ledger!ledger)
  <2> SUFFICES ASSUME SerialInv, SerialInv', [Next]_vars
               PROVE  Ledger!Next \/ UNCHANGED Ledger!ledger
    OBVIOUS
  <2>1. CASE UNCHANGED vars
    <3>1. OpenTurns' = OpenTurns /\ HandedList' = HandedList
      BY <2>1 DEF vars, OpenTurns, HandedList, Closing
    <3> QED BY <2>1, <3>1, LedgerStutters DEF vars
  <2>2. ASSUME NEW r \in Req, HandlerStep(r)
        PROVE  Ledger!Next \/ UNCHANGED Ledger!ledger
    BY <2>2, LedgerStep
  <2> QED BY <2>1, <2>2 DEF Next, HandlerStep
<1> QED BY SerialInductive, <1>1, <1>2, PTL DEF Spec, ImplementsLedger, Ledger!Spec
=============================================================================
