------------------------- MODULE SegmentLifecycle -------------------------
(***************************************************************************)
(* One conversation session: its Working Memory (Valkey), the HTTP         *)
(* handlers that run turns and the wrap against it, and the extraction     *)
(* queue they hand closed segments to.                                     *)
(*                                                                         *)
(* Every Working Memory operation is one atomic MULTI/EXEC or Lua call, so *)
(* each is one action; between two of them the handler is suspended at an  *)
(* await and any other handler may run, or the process may die.            *)
(*                                                                         *)
(* A turn of the conversation is named by its position in "said", the      *)
(* history of everything ever appended.  A Valkey list of turns is only    *)
(* appended to, read whole and deleted whole, so it is the set of the      *)
(* positions it holds.                                                     *)
(***************************************************************************)
EXTENDS Naturals, Sequences, FiniteSets

CONSTANTS Req,        \* the HTTP requests of the session, each handled once
          None,       \* "no seeded question"
          Opener,     \* author of the opening turn and of its question
          PostQueues, \* the three post-session queues
          AskKinds,   \* bound: what a reply may ask, see Local.asks
          Cadence,    \* segment_detector_user_turn_cadence
          MinTurns,   \* segment_detector_min_turns
          MaxFaults,  \* bound: crashes, failed sends and failed LLM calls
          MaxInFlight \* requests the client lets overlap: 1 waits for replies

ASSUME ConstantsAssumption ==
    /\ None \notin Req /\ Opener \notin Req /\ None # Opener
    /\ AskKinds \subseteq {"none", "tap", "seeded"}
    /\ Cadence \in Nat \ {0}
    /\ MinTurns \in Nat
    /\ MaxFaults \in Nat
    /\ MaxInFlight \in Nat \ {0}

VARIABLES
    hash,       \* state hash of the session: "full", "absent" or "partial"
    said,       \* history: every turn ever appended, in order
    segment,    \* the open segment buffer: positions in said
    sinceCheck, \* signal_user_turns_since_segment_check
    summary,    \* rolling_summary: the turns it covers
    seeded,     \* last_seeded_question_id: the request that asked it
    pushed,     \* segments_pushed_this_session
    queue,      \* every payload the extraction queue accepted, in order
    post,       \* <<request, queue>>: post-session jobs accepted
    pc,         \* where each handler is suspended
    loc,        \* each handler's locals
    faults      \* faults so far

wm   == <<hash, segment, sinceCheck, summary, seeded, pushed>>
vars == <<hash, said, segment, sinceCheck, summary, seeded, pushed, queue,
          post, pc, loc, faults>>

-----------------------------------------------------------------------------
Author  == Req \cup {Opener}
Turn    == [by: Author, role: {"user", "assistant"}, asks: BOOLEAN]
Pos     == 1..Len(said)

Payload == [by: Req, turns: SUBSET Nat, prior: SUBSET Nat,
            answered: SUBSET Author, final: BOOLEAN]

\* The steps of a turn, of closing a segment (turn and wrap) and of a wrap.
TurnSteps  == {"append", "count", "classify", "signal", "select", "card",
               "respond", "reply", "seed", "gate"}
CloseSteps == {"snapshot", "detect", "push", "promote", "reset", "unseed",
               "tally"}
WrapSteps  == {"load", "summarize", "fanout", "reread", "clear"}
InFlight   == TurnSteps \cup CloseSteps \cup WrapSteps
Settled    == {"done", "rejected", "aborted", "crashed"}

\* partial: a stream that broke after some text; degraded: what failed in the
\* segment-closing step; recap: turns the session summary was written from;
\* since, until (history): how much had been said when the handler took its
\* snapshot and when it last deleted the buffer.
Local == [kind: {"turn", "wrap"}, switch: BOOLEAN, partial: BOOLEAN,
          asks: {"none", "tap", "seeded"},
          snap: SUBSET Nat, prior: SUBSET Nat, seed: Author \cup {None},
          degraded: {"no", "llm", "push"}, recap: SUBSET Nat,
          since: Nat, until: Nat]

NewLocal(kind) == [kind |-> kind, switch |-> FALSE, partial |-> FALSE,
                   asks |-> "none", snap |-> {}, prior |-> {},
                   seed |-> None, degraded |-> "no", recap |-> {},
                   since |-> 0, until |-> 0]

-----------------------------------------------------------------------------
(* Building blocks.                                                        *)

\* HSET and HINCRBY create the hash when it is gone, without the fields that
\* only initialize writes.
Touched == IF hash = "absent" THEN "partial" ELSE hash

\* append_turn: one pipeline pushes to the segment (and to the transcript,
\* which no step of this module reads).
Append_turn(r, role, asks) ==
    /\ said' = Append(said, [by |-> r, role |-> role, asks |-> asks])
    /\ segment' = segment \cup {Len(said) + 1}

\* Question ids carried by the assistant turns of a segment, its last
\* assistant turn excepted.
AnsweredQuestionCandidates(turns) ==
    LET asst == {i \in turns \cap Pos : said[i].role = "assistant"}
    IN  {said[i].by : i \in {j \in asst : /\ said[j].asks
                                          /\ \E k \in asst : j < k}}

\* A natural boundary falls back on the seeded question only when the segment
\* itself names none; the wrap only knows the seeded question.
AnsweredBy(r) ==
    LET cand == AnsweredQuestionCandidates(loc[r].snap)
        seed == {loc[r].seed} \ {None}
    IN  IF loc[r].kind = "turn" /\ cand # {} THEN cand ELSE seed

SegmentPayload(r) ==
    [by |-> r, turns |-> loc[r].snap, prior |-> loc[r].prior,
     answered |-> AnsweredBy(r), final |-> loc[r].kind = "wrap"]

Goto(r, step)   == pc' = [pc EXCEPT ![r] = step]
Fault           == faults < MaxFaults /\ faults' = faults + 1
AfterReply(r)   == IF loc[r].partial THEN "aborted" ELSE "gate"
AfterClose(r)   == IF loc[r].kind = "wrap" THEN "summarize" ELSE "done"

-----------------------------------------------------------------------------
(* Session start has completed: the hash is initialised and the opener, an *)
(* assistant turn without metadata, is in the buffer, with or without a    *)
(* seeded question.                                                        *)
Init ==
    /\ hash = "full"
    /\ said = <<[by |-> Opener, role |-> "assistant", asks |-> FALSE]>>
    /\ segment = {1}
    /\ sinceCheck = 0
    /\ summary = {}
    /\ seeded \in {None, Opener}
    /\ pushed = 0
    /\ queue = <<>>
    /\ post = {}
    /\ pc = [r \in Req |-> "idle"]
    /\ loc = [r \in Req |-> NewLocal("turn")]
    /\ faults = 0

\* A request arrives at /turn, /turn/stream or /session/wrap: 409 without a
\* state hash.
Arrive(r) ==
    /\ pc[r] = "idle"
    /\ Cardinality({s \in Req : pc[s] \in InFlight}) < MaxInFlight
    /\ \E kind \in {"turn", "wrap"} :
         /\ loc' = [loc EXCEPT ![r] = NewLocal(kind)]
         /\ Goto(r, IF hash = "absent" THEN "rejected"
                    ELSE IF kind = "turn" THEN "append" ELSE "load")
    /\ UNCHANGED <<wm, said, queue, post, faults>>

-----------------------------------------------------------------------------
(* The turn pipeline.                                                      *)

AppendUserTurn(r) ==
    /\ pc[r] = "append"
    /\ Append_turn(r, "user", FALSE)
    /\ Goto(r, "count")
    /\ UNCHANGED <<hash, sinceCheck, summary, seeded, pushed, queue, post,
                   loc, faults>>

CountUserTurn(r) ==
    /\ pc[r] = "count"
    /\ sinceCheck' = sinceCheck + 1
    /\ hash' = Touched
    /\ Goto(r, "classify")
    /\ UNCHANGED <<said, segment, summary, seeded, pushed, queue, post, loc,
                   faults>>

\* classify reads the state hash, once for the turn, and asks the intent
\* classifier.
Classify(r) ==
    /\ pc[r] = "classify"
    /\ hash = "full"
    /\ \E switch \in BOOLEAN : loc' = [loc EXCEPT ![r].switch = switch]
    /\ Goto(r, "signal")
    /\ UNCHANGED <<wm, said, queue, post, faults>>

\* The step degrades: the intent stays "story" and nothing is written.
ClassifyFails(r) ==
    /\ pc[r] = "classify"
    /\ hash = "full"
    /\ Fault
    /\ Goto(r, "select")
    /\ UNCHANGED <<wm, said, queue, post, loc>>

UpdateSignals(r) ==
    /\ pc[r] = "signal"
    /\ hash' = Touched
    /\ Goto(r, "select")
    /\ UNCHANGED <<said, segment, sinceCheck, summary, seeded, pushed, queue,
                   post, loc, faults>>

\* A tap card may ride any turn, and its bookkeeping reads the state hash
\* again; only a switch turn without a card asks a question of the bank.
Select(r) ==
    /\ pc[r] = "select"
    /\ \E asks \in AskKinds :
         /\ asks = "tap" => hash = "full"
         /\ asks = "seeded" => loc[r].switch
         /\ loc' = [loc EXCEPT ![r].asks = asks]
         /\ Goto(r, IF asks = "tap" THEN "card" ELSE "respond")
    /\ UNCHANGED <<wm, said, queue, post, faults>>

RecordTapEmitted(r) ==
    /\ pc[r] = "card"
    /\ hash' = Touched
    /\ Goto(r, "respond")
    /\ UNCHANGED <<said, segment, sinceCheck, summary, seeded, pushed, queue,
                   post, loc, faults>>

Respond(r) ==
    /\ pc[r] = "respond"
    /\ Goto(r, "reply")
    /\ UNCHANGED <<wm, said, queue, post, loc, faults>>

\* The reply fails: the JSON turn propagates, the stream keeps the text it has.
RespondFails(r) ==
    /\ pc[r] = "respond"
    /\ Fault
    /\ \/ Goto(r, "aborted") /\ UNCHANGED loc
       \/ Goto(r, "reply") /\ loc' = [loc EXCEPT ![r].partial = TRUE]
    /\ UNCHANGED <<wm, said, queue, post>>

AppendAssistant(r) ==
    /\ pc[r] = "reply"
    /\ Append_turn(r, "assistant", loc[r].asks # "none")
    /\ Goto(r, IF loc[r].asks = "seeded" THEN "seed" ELSE AfterReply(r))
    /\ UNCHANGED <<hash, sinceCheck, summary, seeded, pushed, queue, post,
                   loc, faults>>

SetSeededQuestion(r) ==
    /\ pc[r] = "seed"
    /\ seeded' = r
    /\ hash' = Touched
    /\ Goto(r, AfterReply(r))
    /\ UNCHANGED <<said, segment, sinceCheck, summary, pushed, queue, post,
                   loc, faults>>

\* detect_segment reads the state hash and applies the cadence gate.
Gate(r) ==
    /\ pc[r] = "gate"
    /\ hash = "full"
    /\ loc' = [loc EXCEPT ![r].prior = summary, ![r].seed = seeded]
    /\ Goto(r, IF sinceCheck >= Cadence \/ loc[r].switch
               THEN "snapshot" ELSE "done")
    /\ UNCHANGED <<wm, said, queue, post, faults>>

\* get_state on a missing hash raises, on a half-built one fails to parse;
\* neither is a degradable error.
StateReadFails(r) ==
    /\ pc[r] \in {"classify", "select", "gate", "load", "summarize", "reread"}
    /\ hash # "full"
    /\ Goto(r, "aborted")
    /\ UNCHANGED <<wm, said, queue, post, loc, faults>>

-----------------------------------------------------------------------------
(* Closing a segment: detect_segment after a turn, force_close_segment in a *)
(* wrap.                                                                    *)

\* Mutant: the read empties the buffer.
SnapshotDrains(r) ==
    /\ pc[r] = "snapshot"
    /\ loc' = [loc EXCEPT ![r].snap = segment, ![r].since = Len(said)]
    /\ segment' = {}
    /\ Goto(r, "detect")
    /\ UNCHANGED <<hash, sinceCheck, summary, seeded, pushed, said, queue, post,
                   faults>>

Snapshot(r) ==
    /\ pc[r] = "snapshot"
    /\ loc' = [loc EXCEPT ![r].snap = segment, ![r].since = Len(said)]
    /\ Goto(r, IF loc[r].kind = "turn"
               THEN IF Cardinality(segment) < MinTurns THEN "done" ELSE "detect"
               ELSE IF segment = {} THEN "summarize" ELSE "detect")
    /\ UNCHANGED <<wm, said, queue, post, faults>>

\* The detector answers after a natural turn: the counter restarts whatever
\* it says.
Detect(r) ==
    /\ pc[r] = "detect"
    /\ loc[r].kind = "turn"
    /\ sinceCheck' = 0
    /\ hash' = Touched
    /\ \E boundary \in BOOLEAN : Goto(r, IF boundary THEN "push" ELSE "done")
    /\ UNCHANGED <<said, segment, summary, seeded, pushed, queue, post, loc,
                   faults>>

DetectForced(r) ==
    /\ pc[r] = "detect"
    /\ loc[r].kind = "wrap"
    /\ Goto(r, "push")
    /\ UNCHANGED <<wm, said, queue, post, loc, faults>>

DetectFails(r) ==
    /\ pc[r] = "detect"
    /\ Fault
    /\ loc' = [loc EXCEPT ![r].degraded = "llm"]
    /\ Goto(r, AfterClose(r))
    /\ UNCHANGED <<wm, said, queue, post>>

Push(r) ==
    /\ pc[r] = "push"
    /\ queue' = Append(queue, SegmentPayload(r))
    /\ Goto(r, "promote")
    /\ UNCHANGED <<wm, said, post, loc, faults>>

\* Mutant: the buffer is reset although the push failed.
PushFailsAndResets(r) ==
    /\ pc[r] = "push"
    /\ Fault
    /\ loc' = [loc EXCEPT ![r].degraded = "push"]
    /\ segment' = {}
    /\ Goto(r, AfterClose(r))
    /\ UNCHANGED <<hash, sinceCheck, summary, seeded, pushed, said, queue, post>>

\* QueueSendError: SQS refused the message, or took it and the answer was lost.
PushFails(r) ==
    /\ pc[r] = "push"
    /\ Fault
    /\ loc' = [loc EXCEPT ![r].degraded = "push"]
    /\ queue' \in {queue, Append(queue, SegmentPayload(r))}
    /\ Goto(r, AfterClose(r))
    /\ UNCHANGED <<wm, said, post>>

\* The new summary was written from the handler's own prior summary and turns.
UpdateRollingSummary(r) ==
    /\ pc[r] = "promote"
    /\ summary' = loc[r].prior \cup loc[r].snap
    /\ hash' = Touched
    /\ Goto(r, "reset")
    /\ UNCHANGED <<said, segment, sinceCheck, seeded, pushed, queue, post,
                   loc, faults>>

\* Mutant: a trim that is one turn short.
ResetSegmentButLast(r) ==
    /\ pc[r] = "reset"
    /\ segment' = {i \in segment : \A j \in segment : j <= i}
    /\ loc' = [loc EXCEPT ![r].until = Len(said)]
    /\ Goto(r, "unseed")
    /\ UNCHANGED <<hash, said, sinceCheck, summary, seeded, pushed, queue, post,
                   faults>>

\* The whole buffer goes, whatever was appended since the snapshot.
ResetSegment(r) ==
    /\ pc[r] = "reset"
    /\ segment' = {}
    /\ loc' = [loc EXCEPT ![r].until = Len(said)]
    /\ Goto(r, "unseed")
    /\ UNCHANGED <<hash, said, sinceCheck, summary, seeded, pushed, queue,
                   post, faults>>

\* Mutant: the question stays.
KeepSeededQuestion(r) ==
    /\ pc[r] = "unseed"
    /\ hash' = Touched
    /\ Goto(r, "tally")
    /\ UNCHANGED <<said, segment, sinceCheck, summary, seeded, pushed, queue,
                   post, loc, faults>>

ClearSeededQuestion(r) ==
    /\ pc[r] = "unseed"
    /\ seeded' = None
    /\ hash' = Touched
    /\ Goto(r, "tally")
    /\ UNCHANGED <<said, segment, sinceCheck, summary, pushed, queue, post,
                   loc, faults>>

IncrementSegmentsPushed(r) ==
    /\ pc[r] = "tally"
    /\ pushed' = pushed + 1
    /\ hash' = Touched
    /\ Goto(r, AfterClose(r))
    /\ UNCHANGED <<said, segment, sinceCheck, summary, seeded, queue, post,
                   loc, faults>>

-----------------------------------------------------------------------------
(* The rest of the wrap.                                                   *)

LoadState(r) ==
    /\ pc[r] = "load"
    /\ hash = "full"
    /\ loc' = [loc EXCEPT ![r].prior = summary, ![r].seed = seeded]
    /\ Goto(r, "snapshot")
    /\ UNCHANGED <<wm, said, queue, post, faults>>

\* The state is read again and the session summary written from it; a failed
\* summary degrades to an empty one.
GenerateSummary(r) ==
    /\ pc[r] = "summarize"
    /\ hash = "full"
    /\ \/ /\ loc' = [loc EXCEPT ![r].recap = summary]
          /\ UNCHANGED faults
       \/ Fault /\ UNCHANGED loc
    /\ Goto(r, "fanout")
    /\ UNCHANGED <<wm, said, queue, post>>

\* Three concurrent pushes, each of which may degrade by itself.
PushPostSession(r) ==
    /\ pc[r] = "fanout"
    /\ \E accepted \in SUBSET PostQueues :
         /\ post' = post \cup ({r} \X accepted)
         /\ IF accepted = PostQueues THEN UNCHANGED faults ELSE Fault
    /\ Goto(r, "reread")
    /\ UNCHANGED <<wm, said, queue, loc>>

\* The state is read once more, for the count of segments to report.
RereadState(r) ==
    /\ pc[r] = "reread"
    /\ hash = "full"
    /\ Goto(r, "clear")
    /\ UNCHANGED <<wm, said, queue, post, loc, faults>>

\* All keys of the session are deleted, the open segment with them.
ClearWM(r) ==
    /\ pc[r] = "clear"
    /\ hash' = "absent"
    /\ segment' = {}
    /\ sinceCheck' = 0
    /\ summary' = {}
    /\ seeded' = None
    /\ pushed' = 0
    /\ loc' = [loc EXCEPT ![r].until = Len(said)]
    /\ Goto(r, "done")
    /\ UNCHANGED <<said, queue, post, faults>>

ClearFails(r) ==
    /\ pc[r] = "clear"
    /\ Fault
    /\ Goto(r, "done")
    /\ UNCHANGED <<wm, said, queue, post, loc>>

-----------------------------------------------------------------------------
\* The process dies, the client disconnects or Valkey is unreachable: the
\* handler stops where it is and Working Memory stays as it is.
Crash(r) ==
    /\ pc[r] \in InFlight
    /\ Fault
    /\ Goto(r, "crashed")
    /\ UNCHANGED <<wm, said, queue, post, loc>>

TurnStep(r) ==
    \/ AppendUserTurn(r) \/ CountUserTurn(r) \/ Classify(r) \/ ClassifyFails(r)
    \/ UpdateSignals(r) \/ Select(r) \/ RecordTapEmitted(r) \/ Respond(r)
    \/ RespondFails(r) \/ AppendAssistant(r) \/ SetSeededQuestion(r) \/ Gate(r)
    \/ StateReadFails(r)

CloseStep(r) ==
    \/ Snapshot(r) \/ Detect(r) \/ DetectForced(r) \/ DetectFails(r)
    \/ Push(r) \/ PushFails(r) \/ UpdateRollingSummary(r) \/ ResetSegment(r)
    \/ ClearSeededQuestion(r) \/ IncrementSegmentsPushed(r)

WrapStep(r) ==
    \/ LoadState(r) \/ GenerateSummary(r) \/ PushPostSession(r) \/ RereadState(r)
    \/ ClearWM(r) \/ ClearFails(r)

Next == \E r \in Req : \/ Arrive(r) \/ TurnStep(r) \/ CloseStep(r)
                       \/ WrapStep(r) \/ Crash(r)

Spec == Init /\ [][Next]_vars

-----------------------------------------------------------------------------
(* Properties.                                                             *)

\* Every variable stays in the shape the code gives it.
TypeOK ==
    /\ hash \in {"full", "absent", "partial"}
    /\ said \in Seq(Turn)
    /\ segment \subseteq Pos
    /\ sinceCheck \in Nat
    /\ summary \subseteq Pos
    /\ seeded \in Author \cup {None}
    /\ pushed \in Nat
    /\ queue \in Seq(Payload)
    /\ post \subseteq Req \X PostQueues
    /\ pc \in [Req -> {"idle"} \cup InFlight \cup Settled]
    /\ loc \in [Req -> Local]
    /\ faults \in 0..MaxFaults

Handed   == UNION {queue[i].turns : i \in DOMAIN queue}
NoCrash  == \A r \in Req : pc[r] # "crashed"
Past(S)  == {k \in Pos : \A i \in S : k < i}

\* A is a run of turns that starts B.
StartOf(A, B) == /\ A \subseteq B
                 /\ \A i \in A, j \in B : j < i => j \in A
Disjoint(A, B) == A \cap B = {}
Nested(A, B) == Disjoint(A, B) \/ StartOf(A, B) \/ StartOf(B, A)

\* Two payloads on the extraction queue never overlap in part: either they
\* share no turn, or one repeats the other from its first turn and only goes
\* further.  This is what lets a re-sent segment be recognised at all, and it
\* must survive handlers that snapshot, push and reset around each other,
\* lost answers and crashes between the push and the reset.
SegmentsNest ==
    \A i, j \in DOMAIN queue : Nested(queue[i].turns, queue[j].turns)

\* With a client that waits for its replies, a turn the contributor said is in
\* the open buffer or on the extraction queue, whatever fails or crashes; the
\* one exception is a wrap that cleared Working Memory after its force-close
\* had degraded.
NothingForgotten ==
    (\A r \in Req : loc[r].kind = "wrap" /\ pc[r] = "done"
                        => loc[r].degraded = "no")
        => Pos \subseteq segment \cup Handed

\* Extraction reads a segment against the rolling summary of what came before
\* it: the prior summary covers every earlier turn.  Unless a handler died while
\* closing a segment, it covers no turn of the segment itself, and no question
\* is reported as answered by two different segments.
SegmentsReadAgainstThePast ==
    /\ \A i \in DOMAIN queue : Past(queue[i].turns) \subseteq queue[i].prior
    /\ NoCrash => \A i, j \in DOMAIN queue :
          /\ Disjoint(queue[i].prior, queue[i].turns)
          /\ Disjoint(queue[i].turns, queue[j].turns)
                => Disjoint(queue[i].answered, queue[j].answered)

\* Handler r deleted turn i with the buffer: another request had said it after
\* r took its snapshot, or r is a wrap and its force-close had degraded.
Swept(r, i) ==
    /\ i <= loc[r].until
    /\ \/ said[i].by # r /\ loc[r].since < i
       \/ /\ loc[r].kind = "wrap" /\ loc[r].degraded # "no"
          /\ i \in loc[r].snap

\* Whoever else is talking, whatever fails and whatever is left of the hash: a
\* turn that is neither open nor handed over was said by one request between
\* another's snapshot and that one's deletion of the buffer, or was in the
\* snapshot of a wrap that cleared the session after its force-close had
\* degraded.
LossNeedsARival ==
    \A i \in Pos \ (segment \cup Handed) : \E r \in Req : Swept(r, i)

-----------------------------------------------------------------------------
(* Implementation of SegmentLedger for a client that waits for its replies. *)
(* Pushing is the moment of the hand-over: between the push and the reset   *)
(* the buffer still holds the segment, the ledger no longer does.           *)

Closing == {r \in Req : pc[r] \in {"promote", "reset"}}

Ledger == INSTANCE SegmentLedger
            WITH length <- Len(said),
                 open   <- segment \ UNION {loc[r].snap : r \in Closing},
                 handed <- [i \in DOMAIN queue |-> queue[i].turns],
                 ended  <- hash = "absent"

\* Every step of the handlers is a step of the ledger or none: no half closed
\* segment, no turn that leaves the open segment other than with all of it,
\* nothing said after the end.
ImplementsLedger == Ledger!Spec

=============================================================================
