--------------------------- MODULE SessionOpening ---------------------------
(***************************************************************************)
(* How a session begins, what it asks, and how it ends.  A session begins    *)
(* with /session/start, which carries no idempotency key, or with the answers *)
(* to the onboarding questions, which the person row lets through once.       *)
(* Turns that change the topic ask a question of the bank, and a register of   *)
(* its own remembers the last few the session has asked.  A wrap runs under    *)
(* HttpIdempotency and deletes what Working Memory holds.                     *)
(*                                                                         *)
(* The requests of HttpIdempotency are the wraps; the operation it leaves     *)
(* open has its steps here.  What a turn does with cards is in TapCards, what  *)
(* segments become in SegmentLifecycle, the theme of a start in ThemeEntry.   *)
(***************************************************************************)
EXTENDS HttpIdempotency

CONSTANTS Start, Turn,
          Question, SourceOf,  \* the bank: questions and their producers
          Window,              \* RECENTLY_ASKED_WINDOW
          Loads,               \* bound: the sets of requests that are sent
          MaxInFlight,         \* bound: starts and turns at once
          MaxLapses            \* bound: leases that run out

\* What the session hash says, as far as it matters here.
State == [whole : BOOLEAN, opener : Start \cup {None}, seeded : Question \cup {None}]

ASSUME OpeningAssumption ==
    /\ None \notin Start \cup Turn \cup Question \cup State
    /\ Start \cap Turn = {}
    /\ Window \in Nat \ {0} /\ MaxInFlight \in Nat /\ MaxLapses \in Nat

VARIABLES
    hash,      \* the session hash: None, or whether it has all its fields,
               \* the start whose opener it has, and the seeded question
    asked,     \* the register
    skipped,   \* the questions decided to skip
    person,    \* onboarding_complete; how often answers were persisted
    at, loc,   \* where each start and turn is, and its locals
    stage,     \* where the operation of each wrap is
    load, first, \* the requests that are sent; do starts carry answers?
    opened,    \* an opener, and with it the session, has reached the client
    ended,     \* history: the session was wrapped or expired
    lapses,    \* leases that ran out
    told,      \* history: how many pushes on the register ago the questions
               \* of this session were asked; Window: long ago, or forgotten
    repeats,   \* history: <<turn, question>> asked again too early
    crossed,   \* history: <<turn, question>> asked by another in between
    raced      \* history: starts of which no one had the hash of the others

wm      == <<hash, asked, told, ended>>
client  == <<load, first, opened>>
history == <<repeats, crossed, raced>>
opening == <<wm, skipped, person, at, loc, stage, client, lapses, history>>

Handler == Start \cup Turn
Ended   == {"idle", "done", "refused", "failed"}
Running == {h \in Handler : at[h] \notin Ended}

NewLocal == [sel |-> None, last |-> None, skip |-> None, picked |-> FALSE]

OpeningInit ==
    /\ Init
    /\ hash = None /\ asked = <<>> /\ skipped = {}
    /\ person = [complete |-> FALSE, persisted |-> 0]
    /\ at = [h \in Handler |-> "idle"]
    /\ loc = [h \in Handler |-> NewLocal]
    /\ stage = [r \in Req |-> "load"]
    /\ load \in Loads /\ first \in BOOLEAN
    /\ opened = FALSE /\ ended = FALSE
    /\ lapses = 0
    /\ told = [q \in Question |-> Window]
    /\ repeats = {} /\ crossed = {} /\ raced = {}

-----------------------------------------------------------------------------
(* Working Memory.                                                          *)

Step(h, s) == at' = [at EXCEPT ![h] = s]
Leave(h, s) == Step(h, s) /\ loc' = [loc EXCEPT ![h] = NewLocal]
Whole      == hash # None /\ hash.whole

\* HSET writes its fields whether or not the hash is there.
Hash == IF hash = None THEN [whole |-> FALSE, opener |-> None, seeded |-> None] ELSE hash

\* RPUSH and LTRIM; the register has a lease of its own.
Push(q) ==
    LET long == Append(asked, q)
    IN  asked' = SubSeq(long, IF Len(long) > Window THEN 2 ELSE 1, Len(long))

Aged == [q \in Question |-> IF told[q] = Window THEN Window ELSE told[q] + 1]

-----------------------------------------------------------------------------
(* The question to ask.                                                     *)

Sources == {SourceOf[q] : q \in Question}

Bank(sources, skips) ==
    {q \in Question : /\ SourceOf[q] \in sources
                      /\ \A i \in DOMAIN asked : asked[i] # q
                      /\ q \in skipped => skips}

\* Mutant: the last resort drops the register with the skips.
CandidatesOrAny(last) ==
    LET other == IF Sources = {last} THEN Sources ELSE Sources \ {last}
    IN  IF Bank(other, FALSE) # {} THEN Bank(other, FALSE)
        ELSE IF Bank(Sources, FALSE) # {} THEN Bank(Sources, FALSE) ELSE Question

\* SteadySelector.select: without the source asked last and what was skipped,
\* then with that source, then with what was skipped.  The ranking picks one.
Candidates(last) ==
    LET other == IF Sources = {last} THEN Sources ELSE Sources \ {last}
    IN  IF Bank(other, FALSE) # {} THEN Bank(other, FALSE)
        ELSE IF Bank(Sources, FALSE) # {} THEN Bank(Sources, FALSE) ELSE Bank(Sources, TRUE)

\* One of them; None when there is none or the selection failed.
Select(h, next) ==
    /\ \E q \in {None} \cup Candidates(loc[h].last) : loc' = [loc EXCEPT ![h].sel = q]
    /\ Step(h, next)

-----------------------------------------------------------------------------
(* A start.                                                                 *)

Enter(h) ==
    /\ h \in load /\ at[h] = "idle"
    /\ Cardinality(Running) < MaxInFlight
    /\ UNCHANGED <<vars, wm, skipped, person, stage, client, lapses, history>>

\* The client has no opener yet.  It may have picked a question from its feed.
BeginStart(h) ==
    /\ h \in Start /\ ~opened
    /\ Enter(h)
    /\ \/ Step(h, IF first THEN "person" ELSE "select") /\ UNCHANGED loc
       \/ /\ ~first
          /\ \E q \in Question : loc' = [loc EXCEPT ![h].sel = q, ![h].picked = TRUE]
          /\ Step(h, "opener")

\* The row is looked at before the answers are resolved ...
LookAtPerson(h) ==
    /\ at[h] = "person"
    /\ Step(h, IF person.complete THEN "refused" ELSE "resolve")
    /\ UNCHANGED <<vars, wm, skipped, person, loc, stage, client, lapses, history>>

\* ... one for each question, a free text by an LLM; else they are refused ...
ResolveAnswers(h) ==
    /\ at[h] = "resolve"
    /\ Step(h, "persist") \/ Step(h, "refused")
    /\ UNCHANGED <<vars, wm, skipped, person, loc, stage, client, lapses, history>>

\* Mutant: ... but not again under its lock.
PersistUnlocked(h) ==
    /\ at[h] = "persist"
    /\ person' = [complete |-> TRUE, persisted |-> person.persisted + 1]
    /\ Step(h, "opener")
    /\ UNCHANGED <<vars, wm, skipped, loc, stage, client, lapses, history>>

\* ... and again under its lock, in the transaction that persists them.  The
\* jobs of their entities are pushed after it.
PersistAnswers(h) ==
    /\ at[h] = "persist"
    /\ IF person.complete THEN Step(h, "refused") /\ UNCHANGED person
       ELSE /\ person' = [complete |-> TRUE, persisted |-> person.persisted + 1]
            /\ Step(h, "opener")
    /\ UNCHANGED <<vars, wm, skipped, loc, stage, client, lapses, history>>

\* In the starter phase; in the other one the opener stands alone.
SelectStarter(h) ==
    /\ h \in Start /\ at[h] = "select"
    /\ Select(h, "opener")
    /\ UNCHANGED <<vars, wm, skipped, person, stage, client, lapses, history>>

\* The LLM's opener, then the session's hash.
GenerateOpener(h) ==
    /\ at[h] = "opener"
    /\ Step(h, "initialize")
    /\ UNCHANGED <<vars, wm, skipped, person, loc, stage, client, lapses, history>>

\* Mutant: initialize does not look and begins the session anew.
LookForNothing(h) ==
    /\ at[h] = "initialize"
    /\ Step(h, "write")
    /\ UNCHANGED <<vars, wm, skipped, person, loc, stage, client, lapses, history>>

\* initialize looks for a hash and leaves alone what is there ...
LookForHash(h) ==
    /\ at[h] = "initialize"
    /\ LET rivals == {g \in Start : at[g] = "write"}
       IN  IF hash # None THEN Step(h, "append") /\ UNCHANGED raced
           ELSE /\ Step(h, "write")
                /\ raced' = IF rivals = {} THEN raced ELSE raced \cup rivals \cup {h}
    /\ UNCHANGED <<vars, wm, skipped, person, loc, stage, client, lapses, repeats, crossed>>

\* ... and then writes all fields, over what another start wrote meanwhile.
InitWorkingMemory(h) ==
    /\ at[h] = "write"
    /\ hash' = [whole |-> TRUE, opener |-> None, seeded |-> None]
    /\ Step(h, "append")
    /\ UNCHANGED <<vars, asked, told, ended, skipped, person, loc, stage, client, lapses, history>>

\* append_opener: the opener, then the seeded question, then the register.
AppendOpener(h) ==
    /\ at[h] = "append"
    /\ hash' = [Hash EXCEPT !.opener = h]
    /\ Step(h, IF loc[h].sel = None THEN "reply" ELSE "seed")
    /\ UNCHANGED <<vars, asked, told, ended, skipped, person, loc, stage, client, lapses, history>>

-----------------------------------------------------------------------------
(* A turn.                                                                  *)

\* A turn may bring the decision to skip a question the session has asked.
BeginTurn(h) ==
    /\ h \in Turn /\ opened
    /\ Enter(h)
    /\ IF hash = None THEN Step(h, "refused") /\ UNCHANGED loc
       ELSE \/ Step(h, "state") /\ UNCHANGED loc
            \/ \E i \in DOMAIN asked :
                  /\ loc' = [loc EXCEPT ![h].skip = asked[i]]
                  /\ Step(h, "decide")

Decide(h) ==
    /\ at[h] = "decide"
    /\ skipped' = skipped \cup {loc[h].skip}
    /\ Step(h, "stamp")
    /\ UNCHANGED <<vars, wm, person, loc, stage, client, lapses, history>>

\* The question is pushed on the register, where it is a second time.
StampDecision(h) ==
    /\ at[h] = "stamp"
    /\ Push(loc[h].skip) /\ told' = Aged
    /\ Step(h, "state")
    /\ UNCHANGED <<vars, hash, ended, skipped, person, loc, stage, client, lapses, history>>

\* The state cannot be read from a hash that is gone, or misses fields.
ReadState(h) ==
    /\ at[h] = "state"
    /\ IF Whole
       THEN /\ loc' = [loc EXCEPT ![h].last = IF hash.seeded = None THEN None
                                              ELSE SourceOf[hash.seeded]]
            /\ Step(h, "signals")
       ELSE Step(h, "failed") /\ UNCHANGED loc
    /\ UNCHANGED <<vars, wm, skipped, person, stage, client, lapses, history>>

\* The classified intent is written; only a change of topic asks a question.
WriteSignals(h) ==
    /\ at[h] = "signals"
    /\ hash' = Hash
    /\ \E s \in {"select", "boundary"} : Step(h, s)
    /\ UNCHANGED <<vars, asked, told, ended, skipped, person, loc, stage, client, lapses, history>>

SelectQuestion(h) ==
    /\ h \in Turn /\ at[h] = "select"
    /\ Select(h, "respond")
    /\ UNCHANGED <<vars, wm, skipped, person, stage, client, lapses, history>>

Respond(h) ==
    /\ at[h] = "respond"
    /\ Step(h, IF loc[h].sel = None THEN "boundary" ELSE "ask")
    /\ UNCHANGED <<vars, wm, skipped, person, loc, stage, client, lapses, history>>

\* The handler has chosen q, and has not asked it yet.
Holds(h, q) ==
    /\ loc[h].sel = q
    /\ at[h] \in IF h \in Start
                 THEN {"opener", "initialize", "write", "append", "seed", "ask"}
                 ELSE {"respond", "ask"}

\* The register; before the seeded question in a turn, after it in a start.
Ask(h) ==
    /\ at[h] = "ask"
    /\ LET q == loc[h].sel
       IN  /\ Push(q) /\ told' = [Aged EXCEPT ![q] = 0]
           /\ repeats' = IF told[q] < Window /\ ~loc[h].picked THEN repeats \cup {<<h, q>>} ELSE repeats
           /\ crossed' = crossed \cup {<<g, q>> : g \in {f \in Handler \ {h} : Holds(f, q)}}
    /\ Step(h, IF h \in Start THEN "reply" ELSE "seed")
    /\ UNCHANGED <<vars, hash, ended, skipped, person, loc, stage, client, lapses, raced>>

Seed(h) ==
    /\ at[h] = "seed"
    /\ hash' = [Hash EXCEPT !.seeded = loc[h].sel]
    /\ Step(h, IF h \in Start THEN "ask" ELSE "boundary")
    /\ UNCHANGED <<vars, asked, told, ended, skipped, person, loc, stage, client, lapses, history>>

\* The segment may close here, which clears the seeded question.
Boundary(h) ==
    /\ at[h] = "boundary"
    /\ IF ~Whole THEN Step(h, "failed") /\ UNCHANGED hash
       ELSE /\ Step(h, "reply")
            /\ hash' \in {hash, [hash EXCEPT !.seeded = None]}
    /\ UNCHANGED <<vars, asked, told, ended, skipped, person, loc, stage, client, lapses, history>>

Reply(h) ==
    /\ at[h] = "reply"
    /\ opened' = TRUE
    /\ Leave(h, "done")
    /\ UNCHANGED <<vars, wm, skipped, person, stage, load, first, lapses, history>>

\* A call of an LLM, of Valkey or of the database fails, the process dies, the
\* client hangs up on a stream, or the reply is lost.
Fails(h) ==
    /\ h \in Running
    /\ Fault
    /\ Leave(h, "failed")
    /\ UNCHANGED <<cache, lock, holder, effects, pc, answer, late, overruns,
                   wm, skipped, person, stage, client, lapses, history>>

-----------------------------------------------------------------------------
(* A wrap.                                                                  *)

Stage(r, s) == stage' = [stage EXCEPT ![r] = s]

\* The state is loaded, the segment closed if there is one, and the state
\* loaded again; of a session that is gone or half there it cannot be, and
\* the wrap ends as OperateFails, even after the segment was closed.
WrapStep(r) ==
    /\ pc[r] = "operate"
    /\ \/ stage[r] = "load" /\ Whole /\ Stage(r, "close") /\ UNCHANGED hash
       \/ stage[r] = "close" /\ Stage(r, "reload") /\ hash' \in {hash, [Hash EXCEPT !.seeded = None]}
       \/ stage[r] = "reload" /\ Whole /\ Stage(r, "clear") /\ UNCHANGED hash
    /\ UNCHANGED <<vars, asked, told, ended, skipped, person, at, loc, client, lapses, history>>

Cleared ==
    /\ hash' = None /\ asked' = <<>> /\ ended' = TRUE
    /\ told' = [q \in Question |-> Window]

\* Working Memory is cleared; that it fails is passed over.
Wrap(r) ==
    /\ stage[r] = "clear"
    /\ Operate(r)
    /\ Cleared \/ UNCHANGED wm
    /\ UNCHANGED <<skipped, person, at, loc, stage, client, lapses, history>>

Wraps(r) ==
    \/ /\ r \in load /\ opened
       /\ Arrive(r)
       /\ UNCHANGED opening
    \/ /\ ReadCache(r) \/ Acquire(r) \/ OperateFails(r) \/ Store(r) \/ StoreFails(r)
          \/ Release(r) \/ Crash(r)
       /\ UNCHANGED opening
    \/ WrapStep(r) \/ Wrap(r)

-----------------------------------------------------------------------------
\* The register's lease is renewed by what is pushed on it alone, so it runs
\* out before the session's does; that of the session when nobody calls.
LeaseRunsOut ==
    /\ Running = {} /\ Working = {}
    /\ lapses < MaxLapses /\ lapses' = lapses + 1
    /\ hash # None
    /\ \/ /\ asked # <<>> /\ asked' = <<>>
          /\ told' = [q \in Question |-> Window]
          /\ UNCHANGED <<hash, ended>>
       \/ Cleared
    /\ UNCHANGED <<vars, skipped, person, at, loc, stage, client, history>>

Onboard(h) == LookAtPerson(h) \/ ResolveAnswers(h) \/ PersistAnswers(h)
Open(h)    == GenerateOpener(h) \/ LookForHash(h) \/ InitWorkingMemory(h) \/ AppendOpener(h)
TurnStep(h) ==
    \/ BeginTurn(h) \/ Decide(h) \/ StampDecision(h) \/ ReadState(h) \/ WriteSignals(h)
    \/ SelectQuestion(h) \/ Respond(h) \/ Boundary(h)

OpeningNext ==
    \/ \E h \in Handler :
          \/ BeginStart(h) \/ Onboard(h) \/ SelectStarter(h) \/ Open(h) \/ TurnStep(h)
          \/ Ask(h) \/ Seed(h) \/ Reply(h) \/ Fails(h)
    \/ \E r \in Req : Wraps(r)
    \/ (LockExpires \/ LockOverruns) /\ UNCHANGED opening
    \/ LeaseRunsOut

OpeningSpec == OpeningInit /\ [][OpeningNext]_<<vars, opening>>

-----------------------------------------------------------------------------
(* Properties.                                                             *)

\* While a question is among the last Window pushes on the register, where a
\* decision to skip one takes a place as well, and the register has not run
\* out, it is asked again only if the client picked it, or if this handler and
\* another had both chosen it and the other asked it before this one did: even
\* the fallback of an exhausted bank, which takes back what was skipped, keeps
\* to the register.
RepeatsNeedARace == repeats \subseteq crossed

\* Once a client has an opener its session has a whole state with an opener
\* until it is wrapped or expires: a second start, a retry that comes late or
\* dies half-way, leaves the state neither in part nor without its opener.
\* The opener is missing only after two starts looked for the hash before
\* either wrote it, while the later one has not appended its own, or for good
\* when a start of the two failed.
StartedIsUsable ==
    opened /\ ~ended =>
        /\ Whole
        /\ hash.opener # None \/ \E h \in raced : at[h] \in {"append", "failed"}

\* However often the answers are sent, and however these calls overlap, they
\* are persisted once; a person who is through without an opener, for whom
\* every retry is refused, met a failure after the commit.
OnboardedOnce ==
    /\ person.persisted <= 1
    /\ person.complete /\ ~opened /\ Running = {} => faults > 0
=============================================================================
