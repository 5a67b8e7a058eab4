---------------------------- MODULE PostSession ----------------------------
(***************************************************************************)
(* What follows a session of one person: the workers that read the jobs a   *)
(* wrap or the weekly scheduler sent (profile summary, trait synthesizer,   *)
(* question producers P2, P3 and P5), and the profile facts, which the      *)
(* summary worker and the edit endpoint write.  Extractions meanwhile write  *)
(* traits and questions of their own.                                       *)
(*                                                                         *)
(* A worker checks the idempotency row, reads its context, calls the LLM    *)
(* and commits, each on a connection of its own.  SQS may deliver a job     *)
(* that is being worked on: two workers may hold one job.  Transactions     *)
(* are READ COMMITTED.                                                      *)
(***************************************************************************)
EXTENDS Naturals, FiniteSets

CONSTANTS Worker, Editor,   \* queue workers, calls of the edit endpoint
          Job, KindOf(_),   \* "summary", "traits", "P2", "P3" or "P5"
          Entity, Gap, Dimension,   \* what questions are asked about
          Extraction,       \* segments an extraction worker works on
          Phrase,           \* what somebody dropped and nobody took up
          Trait, Key, Answer,
          Rungs,            \* length of the strength ladder
          Cap,              \* active facts a person may have
          None,
          Sent,             \* bound: the jobs and edits a behaviour starts with
          MaxFaults         \* bound: crashes, LLM failures, failed pushes

Target == Entity \cup Gap \cup Dimension
Actor  == Worker \cup Editor
Miner  == Worker \cup Extraction

ASSUME ConstantsAssumption ==
    /\ \A j \in Job : KindOf(j) \in {"summary", "traits", "P2", "P3", "P5"}
    /\ None \notin Job \cup Answer \cup Key \cup [key : Key, answer : Answer]
    /\ Worker \cap Editor = {} /\ Actor \cap Extraction = {}
    /\ Target \cap Trait = {} /\ Phrase \cap (Target \cup Trait) = {}
    /\ IsFiniteSet(Worker) /\ IsFiniteSet(Editor) /\ IsFiniteSet(Key)
    /\ Rungs \in Nat \ {0, 1} /\ Cap \in Nat \ {0}
    /\ Sent \subseteq SUBSET (Job \cup Editor \cup Extraction) /\ MaxFaults \in Nat

VARIABLES
    queue,      \* jobs sent and not acknowledged
    processed,  \* jobs with an idempotency row
    at, job,    \* where each worker and extraction is, and with which job
    plan,       \* what its LLM is asked, then has answered, it should write
    twice,      \* the new traits an extraction names more than once
    first,      \* whether it mines the answers of the onboarding
    seen,       \* the ladder as it has last read it
    inserting,  \* the fact an actor is about to insert, past its checks
    told,       \* targets the graph says enough about
    retired,    \* entities no longer active
    open,       \* unanswered batches of questions about each target
    quiet,      \* targets of a suppressed question
    asked,      \* active questions about each dropped phrase
    rung, rows, \* strength and number of the active rows of each trait name
    facts,      \* the active answer of each fact key
    faults,
    commits,    \* history: transactions that did the work of each job
    overlapped, \* history: jobs two workers held, both past the check
    raced,      \* history: subjects decided on by two at once
    mined, dropped,  \* history: onboarding answers mined, or lost by a mishap
    crowd       \* history: most actors ever about to insert at once

sqs     == <<queue, processed>>
locals  == <<at, job, plan, twice, first, seen, inserting>>
graph   == <<told, retired, open, asked, quiet>>
ladder  == <<rung, rows>>
history == <<commits, overlapped, raced, mined, dropped, crowd>>
vars    == <<sqs, locals, graph, ladder, facts, faults, history>>

Init ==
    /\ \E s \in Sent :
          /\ queue = s \cap Job
          /\ at = [a \in Actor \cup Extraction |->
                     IF a \in s \cup Worker THEN "idle" ELSE "done"]
    /\ processed = {}
    /\ job = [w \in Worker |-> None]
    /\ plan = [m \in Miner |-> {}]
    /\ twice = [x \in Extraction |-> {}]
    /\ first = [w \in Worker |-> FALSE]
    /\ seen = [w \in Worker |-> [n \in Trait |-> 0]]
    /\ inserting = [a \in Actor |-> None]
    /\ told = {} /\ retired = {} /\ quiet = {}
    /\ open = [t \in Target |-> 0]
    /\ asked = [p \in Phrase |-> 0]
    /\ rung = [n \in Trait |-> 0] /\ rows = [n \in Trait |-> 0]
    /\ facts = [k \in Key |-> None]
    /\ faults = 0
    /\ commits = [j \in Job |-> 0]
    /\ overlapped = {} /\ raced = {}
    /\ mined = FALSE /\ dropped = FALSE /\ crowd = 0

-----------------------------------------------------------------------------
Goto(a, step) == at' = [at EXCEPT ![a] = step]
Is(w, kinds)  == job[w] # None /\ KindOf(job[w]) \in kinds
Producers     == {"P2", "P3", "P5"}
Fault         == faults < MaxFaults /\ faults' = faults + 1
\* Past the check, before the commit.
Working(w)    == at[w] \in {"read", "llm", "write", "trait"}
Rivals(w)     == {v \in Worker \ {w} : Working(v) /\ job[v] = job[w]}

(* Receiving and checking.                                                 *)

Take(w, j) ==
    /\ at[w] = "idle"
    /\ j \in queue
    /\ Goto(w, "check")
    /\ job' = [job EXCEPT ![w] = j]
    /\ UNCHANGED <<sqs, plan, twice, first, seen, inserting, graph, ladder, facts,
                   faults, history>>

\* Mutant: the idempotency row is not looked up.
CheckNothing(w) ==
    /\ at[w] = "check"
    /\ Goto(w, "read")
    /\ overlapped' = IF Rivals(w) # {} THEN overlapped \cup {job[w]}
                                       ELSE overlapped
    /\ UNCHANGED <<sqs, job, plan, twice, first, seen, inserting, graph, ladder,
                   facts, faults, commits, raced, mined, dropped, crowd>>

Check(w) ==
    /\ at[w] = "check"
    /\ Goto(w, IF job[w] \in processed THEN "ack" ELSE "read")
    /\ overlapped' = IF Rivals(w) # {} /\ job[w] \notin processed
                     THEN overlapped \cup {job[w]} ELSE overlapped
    /\ UNCHANGED <<sqs, job, plan, twice, first, seen, inserting, graph, ladder,
                   facts, faults, commits, raced, mined, dropped, crowd>>

-----------------------------------------------------------------------------
(* Reading the context.                                                    *)

\* Mutant: answered by one question, whoever suppressed another.
CoveredIfOpen(t) == open[t] > 0

\* A question about it is unanswered, or one was suppressed.
Covered(t) == open[t] > 0 \/ t \in quiet

Underdeveloped == {t \in Entity \ (retired \cup told) : ~Covered(t)}
Gaps           == {t \in Gap \ told : ~Covered(t)}
UnderCovered   == {t \in Dimension \ told : ~Covered(t)}

Askable(kind) == CASE kind = "P2" -> Underdeveloped
                   [] kind = "P3" -> Gaps
                   [] kind = "P5" -> UnderCovered

\* Nothing to ask about: the row is written at once, and no LLM is called.
ReadTargets(w) ==
    /\ at[w] = "read" /\ Is(w, Producers)
    /\ LET ask == Askable(KindOf(job[w]))
       IN /\ plan' = [plan EXCEPT ![w] = ask]
          /\ raced' = raced \cup {t \in ask : \E v \in Worker \ {w} :
                                                Working(v) /\ t \in plan[v]}
          /\ IF ask = {}
             THEN processed' = processed \cup {job[w]} /\ Goto(w, "ack")
             ELSE UNCHANGED processed /\ Goto(w, "llm")
    /\ UNCHANGED <<queue, job, twice, first, seen, inserting, graph, ladder,
                   facts, faults, commits, overlapped, mined, dropped, crowd>>

ReadTraits(w) ==
    /\ at[w] = "read" /\ Is(w, {"traits"})
    /\ seen' = [seen EXCEPT ![w] = rung]
    /\ Goto(w, "llm")
    /\ UNCHANGED <<sqs, job, plan, twice, first, inserting, graph, ladder, facts,
                   faults, history>>

\* No summary of the person has been recorded yet.
IsFirstSummary == \A j \in processed : KindOf(j) # "summary"
EmptyLegacy    == told = {}

\* With nothing to summarise a first run goes straight to the facts, and
\* writes no idempotency row; any other is recorded as empty.
ReadSummary(w) ==
    /\ at[w] = "read" /\ Is(w, {"summary"})
    /\ first' = [first EXCEPT ![w] = IsFirstSummary]
    /\ IF EmptyLegacy /\ ~IsFirstSummary
       THEN processed' = processed \cup {job[w]} /\ Goto(w, "ack")
       ELSE UNCHANGED processed
            /\ Goto(w, IF EmptyLegacy THEN "extract" ELSE "llm")
    /\ UNCHANGED <<queue, job, plan, twice, seen, inserting, graph, ladder, facts,
                   faults, history>>

-----------------------------------------------------------------------------
(* The LLM.                                                                *)

\* At most one question per entity and two in all; else what was asked for.
Asked(kind, ask) ==
    {q \in SUBSET ask : kind = "P2" => Cardinality(q) <= 2}

\* The producer's answer; without a question the row is written at once.
Generate(w) ==
    /\ at[w] = "llm" /\ Is(w, Producers)
    /\ \E q \in Asked(KindOf(job[w]), plan[w]) :
          /\ plan' = [plan EXCEPT ![w] = q]
          /\ IF q = {}
             THEN processed' = processed \cup {job[w]} /\ Goto(w, "ack")
             ELSE UNCHANGED processed /\ Goto(w, "write")
    /\ UNCHANGED <<queue, job, twice, first, seen, inserting, graph, ladder,
                   facts, faults, history>>

\* The traits to step up or down, or to create.
Synthesize(w) ==
    /\ at[w] = "llm" /\ Is(w, {"traits"})
    /\ \E q \in SUBSET Trait : plan' = [plan EXCEPT ![w] = q]
    /\ Goto(w, "write")
    /\ UNCHANGED <<sqs, job, twice, first, seen, inserting, graph, ladder, facts,
                   faults, history>>

GenerateSummary(w) ==
    /\ at[w] = "llm" /\ Is(w, {"summary"})
    /\ Goto(w, "write")
    /\ UNCHANGED <<sqs, job, plan, twice, first, seen, inserting, graph, ladder,
                   facts, faults, history>>

Drop(w) ==
    /\ at' = [at EXCEPT ![w] = "idle"]
    /\ job' = [job EXCEPT ![w] = None]
    /\ plan' = [plan EXCEPT ![w] = {}]
    /\ first' = [first EXCEPT ![w] = FALSE]
    /\ seen' = [seen EXCEPT ![w] = [n \in Trait |-> 0]]
    /\ inserting' = [inserting EXCEPT ![w] = None]

\* LLMTimeout: not acknowledged, the job comes again.
TimesOut(w) ==
    /\ at[w] = "llm"
    /\ Fault
    /\ Drop(w)
    /\ UNCHANGED <<sqs, twice, graph, ladder, facts, history>>

\* LLMError: acknowledged; only a producer records it as done.
Errs(w) ==
    /\ at[w] = "llm"
    /\ Fault
    /\ Goto(w, "ack")
    /\ processed' = IF Is(w, Producers) THEN processed \cup {job[w]} ELSE processed
    /\ UNCHANGED <<queue, job, plan, twice, first, seen, inserting, graph, ladder,
                   facts, history>>

-----------------------------------------------------------------------------
(* The transactions.                                                       *)

Commit(w) ==
    /\ processed' = processed \cup {job[w]}
    /\ commits' = [commits EXCEPT ![job[w]] = @ + 1]

\* The questions, their target edges and the idempotency row.
PersistQuestions(w) ==
    /\ at[w] = "write" /\ Is(w, Producers)
    /\ plan[w] \cap retired = {}
    /\ open' = [t \in Target |-> IF t \in plan[w] THEN open[t] + 1 ELSE open[t]]
    /\ Commit(w)
    /\ plan' = [plan EXCEPT ![w] = {}]
    /\ Goto(w, "push")
    /\ UNCHANGED <<queue, job, twice, first, seen, inserting, told, retired,
                   asked, quiet, ladder, facts, faults, overlapped, raced, mined,
                   dropped, crowd>>

\* A target entity is no longer active: rolled back, not acknowledged.
TargetGone(w) ==
    /\ at[w] = "write" /\ Is(w, Producers)
    /\ plan[w] \cap retired # {}
    /\ Drop(w)
    /\ UNCHANGED <<sqs, twice, graph, ladder, facts, faults, history>>

\* The transaction reads strengths and names: a proposal whose name exists by
\* now is skipped ...
BeginTraits(w) ==
    /\ at[w] = "write" /\ Is(w, {"traits"})
    /\ plan' = [plan EXCEPT ![w] = {n \in @ : seen[w][n] = 0 => rung[n] = 0}]
    /\ seen' = [seen EXCEPT ![w] = rung]
    /\ raced' = raced \cup {n \in plan[w] : \E v \in Worker \ {w} :
                                at[v] = "trait" /\ n \in plan[v]}
                       \cup {n \in plan[w] : \E x \in Extraction : n \in plan[x]}
    /\ Goto(w, "trait")
    /\ UNCHANGED <<sqs, job, twice, first, inserting, graph, ladder, facts,
                   faults, commits, overlapped, mined, dropped, crowd>>

\* One rung up or down; the end of the ladder is not passed.
LadderStep(r) == {s \in 1..Rungs : s = r + 1 \/ r = s + 1}

\* ... then each trait it saw goes one rung from what was read, and each one
\* it did not see is created with a strength of the LLM's.
PersistSynthesis(w) ==
    /\ at[w] = "trait"
    /\ \E to \in [plan[w] -> 0..Rungs + 1] :
          /\ \A n \in plan[w] : to[n] \in IF seen[w][n] = 0 THEN 1..Rungs
                                                       ELSE LadderStep(seen[w][n])
          /\ rung' = [n \in Trait |-> IF n \in plan[w] THEN to[n] ELSE rung[n]]
    /\ rows' = [n \in Trait |-> IF n \in plan[w] /\ seen[w][n] = 0
                                THEN rows[n] + 1 ELSE rows[n]]
    /\ Commit(w)
    /\ plan' = [plan EXCEPT ![w] = {}]
    /\ Goto(w, "push")
    /\ UNCHANGED <<queue, job, twice, first, seen, inserting, graph, facts,
                   faults, overlapped, raced, mined, dropped, crowd>>

\* Mutant: done once the summary is committed.
PersistSummaryOnly(w) ==
    /\ at[w] = "write" /\ Is(w, {"summary"})
    /\ Commit(w)
    /\ Goto(w, "ack")
    /\ UNCHANGED <<queue, job, plan, twice, first, seen, inserting, graph, ladder,
                   facts, faults, overlapped, raced, mined, dropped, crowd>>

\* The text on the person and the idempotency row; facts follow outside.
PersistSummary(w) ==
    /\ at[w] = "write" /\ Is(w, {"summary"})
    /\ Commit(w)
    /\ Goto(w, "extract")
    /\ UNCHANGED <<queue, job, plan, twice, first, seen, inserting, graph, ladder,
                   facts, faults, overlapped, raced, mined, dropped, crowd>>

\* The embedding jobs are sent; a failure leaves the job unacknowledged.
PushEmbeddings(w) ==
    /\ at[w] = "push"
    /\ Goto(w, "ack")
    /\ UNCHANGED <<sqs, job, plan, twice, first, seen, inserting, graph, ladder,
                   facts, faults, history>>

-----------------------------------------------------------------------------
(* Profile facts.                                                          *)

\* The high-confidence facts to write; the onboarding answers are mined with
\* the first summary.
ExtractFacts(w) ==
    /\ at[w] = "extract"
    /\ \E ks \in SUBSET Key : plan' = [plan EXCEPT ![w] = ks]
    /\ mined' = (mined \/ first[w])
    /\ Goto(w, "facts")
    /\ UNCHANGED <<sqs, job, twice, first, seen, inserting, graph, ladder, facts,
                   faults, commits, overlapped, raced, dropped, crowd>>

\* LLMError: logged, no facts.
ExtractErrs(w) ==
    /\ at[w] = "extract"
    /\ Fault
    /\ dropped' = (dropped \/ first[w])
    /\ Goto(w, "facts")
    /\ UNCHANGED <<sqs, job, plan, twice, first, seen, inserting, graph, ladder,
                   facts, commits, overlapped, raced, mined, crowd>>

Active == {k \in Key : facts[k] # None}

\* Mutant: the cap is not checked.
UpsertUncapped(a, k, v) ==
    inserting' = IF facts[k] = None
                 THEN [inserting EXCEPT ![a] = [key |-> k, answer |-> v]]
                 ELSE inserting

\* The transaction looks for an active row of the key and counts.  The same
\* answer is skipped and a new key above the cap is rejected.  A new answer
\* supersedes the row by the id of one not yet inserted: the foreign key
\* refuses it and the transaction is rolled back.
Upsert(a, k, v) ==
    inserting' = IF facts[k] = None /\ Cardinality(Active) < Cap
                 THEN [inserting EXCEPT ![a] = [key |-> k, answer |-> v]]
                 ELSE inserting

Crowd == crowd' = IF Cardinality({a \in Actor : inserting'[a] # None}) > crowd
                  THEN Cardinality({a \in Actor : inserting'[a] # None})
                  ELSE crowd

\* Each fact has a transaction of its own; what fails is logged and left out.
UpsertFact(w, k) ==
    /\ at[w] = "facts" /\ inserting[w] = None
    /\ k \in plan[w]
    /\ \E v \in Answer : Upsert(w, k, v)
    /\ plan' = [plan EXCEPT ![w] = @ \ {k}]
    /\ Crowd
    /\ UNCHANGED <<sqs, at, job, twice, first, seen, graph, ladder, facts, faults,
                   commits, overlapped, raced, mined, dropped>>

FactsDone(w) ==
    /\ at[w] = "facts" /\ inserting[w] = None
    /\ plan[w] = {}
    /\ Goto(w, "ack")
    /\ UNCHANGED <<sqs, job, plan, twice, first, seen, inserting, graph, ladder,
                   facts, faults, history>>

\* POST /profile_facts/upsert, called once by each editor.
EditFact(e, k) ==
    /\ at[e] = "idle"
    /\ \E v \in Answer : Upsert(e, k, v)
    /\ Goto(e, "done")
    /\ Crowd
    /\ UNCHANGED <<sqs, job, plan, twice, first, seen, graph, ladder, facts,
                   faults, commits, overlapped, raced, mined, dropped>>

\* The INSERT with its push; the unique index of active keys lets one in.
InsertFact(a) ==
    /\ inserting[a] # None
    /\ facts' = IF facts[inserting[a].key] = None
                THEN [facts EXCEPT ![inserting[a].key] = inserting[a].answer]
                ELSE facts
    /\ inserting' = [inserting EXCEPT ![a] = None]
    /\ UNCHANGED <<sqs, at, job, plan, twice, first, seen, graph, ladder, faults,
                   history>>

\* The push fails and takes the INSERT with it.
InsertFails(a) ==
    /\ inserting[a] # None
    /\ Fault
    /\ inserting' = [inserting EXCEPT ![a] = None]
    /\ UNCHANGED <<sqs, at, job, plan, twice, first, seen, graph, ladder, facts,
                   history>>

-----------------------------------------------------------------------------
Ack(w) ==
    /\ at[w] = "ack"
    /\ queue' = queue \ {job[w]}
    /\ Drop(w)
    /\ UNCHANGED <<processed, twice, graph, ladder, facts, faults, history>>

\* The process dies, or a push after the commit fails; SQS delivers again.
Die(w) ==
    /\ at[w] # "idle"
    /\ Fault
    /\ dropped' = (dropped \/ (first[w] /\ at[w] = "extract"))
    /\ Drop(w)
    /\ UNCHANGED <<sqs, twice, graph, ladder, facts, commits, overlapped, raced,
                   mined, crowd>>

(* Meanwhile extraction, edits and the user change the graph.              *)

Tell(t) ==
    /\ t \notin told
    /\ told' = told \cup {t}
    /\ UNCHANGED <<sqs, locals, retired, open, asked, quiet, ladder, facts, faults,
                   history>>

Retire(t) ==
    /\ t \in Entity \ retired
    /\ retired' = retired \cup {t}
    /\ UNCHANGED <<sqs, locals, told, open, asked, quiet, ladder, facts, faults,
                   history>>

AnswerQuestions(t) ==
    /\ open[t] > 0
    /\ open' = [open EXCEPT ![t] = 0]
    /\ UNCHANGED <<sqs, locals, told, retired, asked, quiet, ladder, facts, faults,
                   history>>

\* A question about it is suppressed, perhaps while a worker plans another.
Suppress(t) ==
    /\ open[t] > 0 /\ t \notin quiet
    /\ quiet' = quiet \cup {t}
    /\ raced' = IF \E w \in Worker : Working(w) /\ t \in plan[w]
                THEN raced \cup {t} ELSE raced
    /\ UNCHANGED <<sqs, locals, told, retired, open, asked, ladder, facts, faults,
                   commits, overlapped, mined, dropped, crowd>>

-----------------------------------------------------------------------------
(* Extractions.                                                            *)

\* Before its transaction it looks which of its traits exist; to those it adds
\* evidence, the others it will insert.  It may have one name more than once.
ResolveTraitMerges(x) ==
    /\ at[x] = "idle"
    /\ \E names \in SUBSET Trait, dropped_references \in SUBSET Phrase :
          LET new == {n \in names : rung[n] = 0}
          IN  /\ plan' = [plan EXCEPT ![x] = new \cup dropped_references]
              /\ \E more \in SUBSET new : twice' = [twice EXCEPT ![x] = more]
              /\ raced' = raced \cup {n \in new :
                    \E m \in Miner \ {x} : n \in plan[m]
                          /\ (m \in Worker => at[m] = "trait")}
    /\ Goto(x, "resolved")
    /\ UNCHANGED <<sqs, job, first, seen, inserting, graph, ladder, facts,
                   faults, commits, overlapped, mined, dropped, crowd>>

\* In it, a phrase that has a question, answered or suppressed, gets no other,
\* nor does one that comes a second time.
DroppedReferences(x) ==
    /\ at[x] = "resolved"
    /\ LET ask == {p \in plan[x] \cap Phrase : asked[p] = 0}
       IN  /\ plan' = [plan EXCEPT ![x] = (@ \cap Trait) \cup ask]
           /\ raced' = raced \cup {p \in ask : \E y \in Extraction \ {x} :
                                                at[y] = "mining" /\ p \in plan[y]}
    /\ Goto(x, "mining")
    /\ UNCHANGED <<sqs, job, twice, first, seen, inserting, graph, ladder, facts,
                   faults, commits, overlapped, mined, dropped, crowd>>

\* How many rows of a trait an extraction is to insert.
Mentions(x, n) == IF n \notin plan[x] THEN 0 ELSE IF n \in twice[x] THEN 2 ELSE 1

\* The rows as planned, one for each mention of a new trait.
InsertTraits(x) ==
    /\ at[x] = "mining"
    /\ rows' = [n \in Trait |-> rows[n] + Mentions(x, n)]
    /\ rung' = [n \in Trait |-> IF n \in plan[x] /\ rung[n] = 0 THEN 1 ELSE rung[n]]
    /\ asked' = [p \in Phrase |-> IF p \in plan[x] THEN asked[p] + 1 ELSE asked[p]]
    /\ plan' = [plan EXCEPT ![x] = {}]
    /\ twice' = [twice EXCEPT ![x] = {}]
    /\ Goto(x, "done")
    /\ UNCHANGED <<sqs, job, first, seen, inserting, told, retired, open, quiet,
                   facts, faults, history>>

\* Rolled back, and delivered again.
ExtractionFails(x) ==
    /\ at[x] \in {"resolved", "mining"}
    /\ Fault
    /\ plan' = [plan EXCEPT ![x] = {}]
    /\ twice' = [twice EXCEPT ![x] = {}]
    /\ Goto(x, "idle")
    /\ UNCHANGED <<sqs, job, first, seen, inserting, graph, ladder, facts, history>>

-----------------------------------------------------------------------------
ProducerRun(w) ==
    ReadTargets(w) \/ Generate(w) \/ PersistQuestions(w) \/ TargetGone(w)
SynthesizerRun(w) ==
    ReadTraits(w) \/ Synthesize(w) \/ BeginTraits(w) \/ PersistSynthesis(w)
SummaryRun(w) ==
    \/ ReadSummary(w) \/ GenerateSummary(w) \/ PersistSummary(w)
    \/ ExtractFacts(w) \/ ExtractErrs(w)
    \/ (\E k \in Key : UpsertFact(w, k)) \/ InsertFact(w) \/ FactsDone(w)
Run(w) ==
    \/ \E j \in Job : Take(w, j)
    \/ Check(w) \/ PushEmbeddings(w) \/ Ack(w)
    \/ TimesOut(w) \/ Errs(w) \/ Die(w)

Work == \E w \in Worker :
            Run(w) \/ ProducerRun(w) \/ SynthesizerRun(w) \/ SummaryRun(w)
Edit == \E e \in Editor : (\E k \in Key : EditFact(e, k)) \/ InsertFact(e)
Extract == \E x \in Extraction : ResolveTraitMerges(x) \/ DroppedReferences(x)
                                    \/ InsertTraits(x) \/ ExtractionFails(x)
World == \/ \E t \in Target : Tell(t) \/ Retire(t) \/ AnswerQuestions(t) \/ Suppress(t)
         \/ \E a \in Actor : InsertFails(a)

Next == Work \/ Edit \/ Extract \/ World

Spec == Init /\ [][Next]_vars

-----------------------------------------------------------------------------
(* Properties.                                                             *)

\* Every variable stays in the shape the code gives it.
TypeOK ==
    /\ queue \subseteq Job /\ processed \subseteq Job
    /\ at \in [Actor \cup Extraction ->
                  {"idle", "check", "read", "llm", "write", "trait", "push", "extract",
                   "facts", "ack", "done", "resolved", "mining"}]
    /\ job \in [Worker -> Job \cup {None}]
    /\ plan \in [Miner -> SUBSET (Target \cup Phrase \cup Trait \cup Key)]
    /\ twice \in [Extraction -> SUBSET Trait]
    /\ first \in [Worker -> BOOLEAN]
    /\ seen \in [Worker -> [Trait -> 0..Rungs]]
    /\ inserting \in [Actor -> [key : Key, answer : Answer] \cup {None}]
    /\ told \subseteq Target /\ retired \subseteq Entity /\ quiet \subseteq Target
    /\ open \in [Target -> Nat]
    /\ asked \in [Phrase -> Nat]
    /\ rung \in [Trait -> 0..Rungs] /\ rows \in [Trait -> Nat]
    /\ facts \in [Key -> Answer \cup {None}]
    /\ faults \in Nat /\ commits \in [Job -> Nat] /\ crowd \in Nat
    /\ overlapped \subseteq Job /\ raced \subseteq Target \cup Phrase \cup Trait
    /\ mined \in BOOLEAN /\ dropped \in BOOLEAN

\* However often a job is delivered, its work is committed a second time only
\* if two workers held it at once, both past the check: no crash between the
\* commit and the acknowledgement repeats it.
CommittedTwiceNeedsOverlap ==
    \A j \in Job : commits[j] > 1 => j \in overlapped

\* No question is minted for a target with an unanswered or a suppressed one,
\* none for a dropped phrase that ever had one, and no row for a trait name that
\* has one, unless two workers, two extractions, one of each, or a worker and the
\* user decided on it at once: under-mint rather than pile up.  Nothing writes
\* two rows of a new trait in one go but an extraction that named it twice.
DuplicatesNeedARace ==
    [][/\ \A t \in Target : open'[t] > open[t]
             => (open[t] = 0 /\ t \notin quiet) \/ t \in raced
       /\ \A p \in Phrase : asked'[p] > asked[p] => asked[p] = 0 \/ p \in raced
       /\ \A n \in Trait :
             /\ rows'[n] > rows[n] => rows[n] = 0 \/ n \in raced
             /\ rows'[n] > rows[n] + 1 => \E x \in Extraction : n \in twice[x]]_vars

\* The cap on active facts is passed by no more than the number of upserts
\* that stood between their count and their INSERT at one time, less one.
FactsWithinCap ==
    Cardinality(Active) <= IF crowd = 0 THEN 0 ELSE Cap + crowd - 1

\* Once a summary is recorded the onboarding answers have been mined, are about
\* to be, or were lost with a worker or an LLM error: the next run skips them.
UnminedNeedsAMishap ==
    (\E j \in processed : KindOf(j) = "summary")
        => \/ mined \/ dropped
           \/ \E w \in Worker : first[w] /\ at[w] = "extract"
=============================================================================
