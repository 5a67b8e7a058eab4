------------------------- MODULE PostSessionProofs -------------------------
(***************************************************************************)
(* Proofs about PostSession for any workers, jobs, extractions, facts and   *)
(* any number of faults.                                                    *)
(***************************************************************************)
EXTENDS PostSession, FiniteSetTheorems, TLAPS

Places == {"idle", "check", "read", "llm", "write", "trait", "push", "extract",
           "facts", "ack", "done", "resolved", "mining"}
Subject == Target \cup Phrase \cup Trait \cup Key

\* What an actor keeps of one job.
LEMMA DropTyped ==
    ASSUME TypeOK, NEW w \in Worker, Drop(w)
    PROVE  /\ at' \in [Actor \cup Extraction -> Places]
           /\ job' \in [Worker -> Job \cup {None}]
           /\ plan' \in [Miner -> SUBSET Subject]
           /\ first' \in [Worker -> BOOLEAN]
           /\ seen' \in [Worker -> [Trait -> 0..Rungs]]
           /\ inserting' \in [Actor -> [key : Key, answer : Answer] \cup {None}]
BY ConstantsAssumption DEF TypeOK, Drop, Places, Subject, Miner, Actor

LEMMA GotoTyped ==
    ASSUME TypeOK, NEW a \in Actor \cup Extraction, NEW s \in Places, Goto(a, s)
    PROVE  at' \in [Actor \cup Extraction -> Places]
BY DEF TypeOK, Goto, Places

LEMMA PlanTyped ==
    ASSUME TypeOK, NEW m \in Miner, NEW P \in SUBSET Subject, plan' = [plan EXCEPT ![m] = P]
    PROVE  plan' \in [Miner -> SUBSET Subject]
BY DEF TypeOK, Subject

\* A worker that is not idle has a job, of the kind its place asks for, and
\* plans what that kind writes.
BusyAt(w) ==
    /\ at[w] # "idle" => job[w] \in Job
    /\ at[w] \in {"idle", "check", "read", "llm", "write", "trait", "push", "extract",
                  "facts", "ack"}
    /\ at[w] = "trait" => KindOf(job[w]) = "traits"
    /\ at[w] = "extract" => KindOf(job[w]) = "summary"
    /\ at[w] \in {"write", "trait"} /\ KindOf(job[w]) = "traits" => plan[w] \subseteq Trait
    /\ at[w] \in {"llm", "write"} /\ KindOf(job[w]) \in Producers => plan[w] \subseteq Target

Busy == \A w \in Worker : BusyAt(w)

TypeInv == TypeOK /\ Busy

LEMMA RunTyped ==
    ASSUME TypeInv, NEW w \in Worker, Run(w)
    PROVE  TypeOK'
<1> USE DEF Places, Subject
<1>0. TypeOK /\ (at[w] # "idle" => job[w] \in Job) /\ w \in Actor \cup Extraction
  BY DEF TypeInv, Busy, BusyAt, Actor
<1>1. ASSUME NEW j \in Job, Take(w, j) PROVE TypeOK'
  <2>1. at' \in [Actor \cup Extraction -> Places]
    BY <1>0, <1>1, GotoTyped DEF Take
  <2>2. job' \in [Worker -> Job \cup {None}]
    BY <1>0, <1>1 DEF Take, TypeOK
  <2> QED BY <1>0, <1>1, <2>1, <2>2 DEF TypeOK, Take, sqs, graph, ladder, history
<1>2. CASE Check(w)
  <2>1. at' \in [Actor \cup Extraction -> Places]
    BY <1>0, <1>2, GotoTyped DEF Check
  <2>2. overlapped' \subseteq Job
    BY <1>0, <1>2 DEF Check, TypeOK
  <2> QED BY <1>0, <1>2, <2>1, <2>2 DEF TypeOK, Check, sqs, graph, ladder, history
<1>3. CASE PushEmbeddings(w)
  <2>1. at' \in [Actor \cup Extraction -> Places]
    BY <1>0, <1>3, GotoTyped DEF PushEmbeddings
  <2> QED BY <1>0, <1>3, <2>1 DEF TypeOK, PushEmbeddings, sqs, graph, ladder, history
<1>4. CASE Ack(w)
  BY <1>0, <1>4, DropTyped DEF TypeOK, Ack, graph, ladder, history
<1>5. CASE TimesOut(w)
  BY <1>0, <1>5, DropTyped DEF TypeOK, TimesOut, Fault, sqs, graph, ladder, history
<1>6. CASE Errs(w)
  <2>1. at' \in [Actor \cup Extraction -> Places]
    BY <1>0, <1>6, GotoTyped DEF Errs
  <2>2. processed' \subseteq Job /\ faults' \in Nat
    BY <1>0, <1>6 DEF Errs, TypeOK, Fault
  <2> QED BY <1>0, <1>6, <2>1, <2>2 DEF TypeOK, Errs, graph, ladder, history
<1>7. CASE Die(w)
  <2>1. dropped' \in BOOLEAN /\ faults' \in Nat
    BY <1>0, <1>7 DEF Die, TypeOK, Fault
  <2> QED BY <1>0, <1>7, <2>1, DropTyped DEF TypeOK, Die, sqs, graph, ladder
<1> QED BY <1>1, <1>2, <1>3, <1>4, <1>5, <1>6, <1>7 DEF Run

LEMMA ProducerTyped ==
    ASSUME TypeInv, NEW w \in Worker, ProducerRun(w)
    PROVE  TypeOK'
<1> USE DEF Places, Subject
<1>0. /\ TypeOK /\ (at[w] # "idle" => job[w] \in Job) /\ w \in Actor \cup Extraction
      /\ w \in Miner /\ plan[w] \in SUBSET Subject
  BY DEF TypeInv, Busy, BusyAt, Actor, Miner, TypeOK
<1>1. CASE ReadTargets(w)
  <2>1. at' \in [Actor \cup Extraction -> Places]
    BY <1>0, <1>1, GotoTyped DEF ReadTargets
  <2>2. Askable(KindOf(job[w])) \in SUBSET Target
    BY <1>1 DEF ReadTargets, Is, Producers, Askable, Underdeveloped, Gaps, UnderCovered, Target
  <2>3. plan' \in [Miner -> SUBSET Subject]
    BY <1>0, <1>1, <2>2, PlanTyped DEF ReadTargets
  <2>4. processed' \subseteq Job
    BY <1>0, <1>1 DEF ReadTargets, TypeOK
  <2>5. raced' \subseteq Target \cup Phrase \cup Trait
    BY <1>0, <1>1, <2>2 DEF ReadTargets, TypeOK
  <2> QED BY <1>0, <1>1, <2>1, <2>3, <2>4, <2>5 DEF TypeOK, ReadTargets, graph, ladder
<1>2. CASE Generate(w)
  <2>1. at' \in [Actor \cup Extraction -> Places]
    BY <1>0, <1>2, GotoTyped DEF Generate
  <2>2. plan' \in [Miner -> SUBSET Subject]
    BY <1>0, <1>2, PlanTyped DEF Generate, Asked
  <2>3. processed' \subseteq Job
    BY <1>0, <1>2 DEF Generate, TypeOK
  <2> QED BY <1>0, <1>2, <2>1, <2>2, <2>3 DEF TypeOK, Generate, graph, ladder, history
<1>3. CASE PersistQuestions(w)
  <2>1. at' \in [Actor \cup Extraction -> Places]
    BY <1>0, <1>3, GotoTyped DEF PersistQuestions
  <2>2. plan' \in [Miner -> SUBSET Subject]
    BY <1>0, <1>3, PlanTyped DEF PersistQuestions
  <2>3. open' \in [Target -> Nat]
    BY <1>0, <1>3 DEF PersistQuestions, TypeOK
  <2>4. processed' \subseteq Job /\ commits' \in [Job -> Nat]
    BY <1>0, <1>3 DEF PersistQuestions, Commit, TypeOK
  <2> QED BY <1>0, <1>3, <2>1, <2>2, <2>3, <2>4 DEF TypeOK, PersistQuestions, ladder
<1>4. CASE TargetGone(w)
  BY <1>0, <1>4, DropTyped DEF TypeOK, TargetGone, sqs, graph, ladder, history
<1> QED BY <1>1, <1>2, <1>3, <1>4 DEF ProducerRun

LEMMA SynthesizerTyped ==
    ASSUME TypeInv, NEW w \in Worker, SynthesizerRun(w)
    PROVE  TypeOK'
<1> USE DEF Places, Subject
<1>0. /\ TypeOK /\ (at[w] # "idle" => job[w] \in Job) /\ w \in Actor \cup Extraction
      /\ w \in Miner /\ plan[w] \in SUBSET Subject
      /\ Rungs \in Nat \ {0}
  BY ConstantsAssumption DEF TypeInv, Busy, BusyAt, Actor, Miner, TypeOK
<1>1. CASE ReadTraits(w)
  <2>1. at' \in [Actor \cup Extraction -> Places]
    BY <1>0, <1>1, GotoTyped DEF ReadTraits
  <2>2. seen' \in [Worker -> [Trait -> 0..Rungs]]
    BY <1>0, <1>1 DEF ReadTraits, TypeOK
  <2> QED BY <1>0, <1>1, <2>1, <2>2 DEF TypeOK, ReadTraits, sqs, graph, ladder, history
<1>2. CASE Synthesize(w)
  <2>1. at' \in [Actor \cup Extraction -> Places]
    BY <1>0, <1>2, GotoTyped DEF Synthesize
  <2>2. plan' \in [Miner -> SUBSET Subject]
    BY <1>0, <1>2, PlanTyped DEF Synthesize
  <2> QED BY <1>0, <1>2, <2>1, <2>2 DEF TypeOK, Synthesize, sqs, graph, ladder, history
<1>3. CASE BeginTraits(w)
  <2>1. at' \in [Actor \cup Extraction -> Places]
    BY <1>0, <1>3, GotoTyped DEF BeginTraits
  <2>2. plan' \in [Miner -> SUBSET Subject]
    BY <1>0, <1>3, PlanTyped DEF BeginTraits
  <2>3. seen' \in [Worker -> [Trait -> 0..Rungs]]
    BY <1>0, <1>3 DEF BeginTraits, TypeOK
  <2>4. plan[w] \subseteq Trait
    BY <1>3 DEF BeginTraits, Is, TypeInv, Busy, BusyAt
  <2>5. raced' \subseteq Target \cup Phrase \cup Trait
    BY <1>0, <1>3, <2>4 DEF BeginTraits, TypeOK
  <2> QED BY <1>0, <1>3, <2>1, <2>2, <2>3, <2>5 DEF TypeOK, BeginTraits, sqs, graph, ladder
<1>4. CASE PersistSynthesis(w)
  <2>1. at' \in [Actor \cup Extraction -> Places]
    BY <1>0, <1>4, GotoTyped DEF PersistSynthesis
  <2>2. plan' \in [Miner -> SUBSET Subject]
    BY <1>0, <1>4, PlanTyped DEF PersistSynthesis
  <2>3. rows' \in [Trait -> Nat]
    BY <1>0, <1>4 DEF PersistSynthesis, TypeOK
  <2>4. processed' \subseteq Job /\ commits' \in [Job -> Nat]
    BY <1>0, <1>4 DEF PersistSynthesis, Commit, TypeOK
  <2>5. rung' \in [Trait -> 0..Rungs]
    <3>1. PICK to \in [plan[w] -> 0..Rungs + 1] :
             /\ \A n \in plan[w] : to[n] \in IF seen[w][n] = 0 THEN 1..Rungs
                                                          ELSE LadderStep(seen[w][n])
             /\ rung' = [n \in Trait |-> IF n \in plan[w] THEN to[n] ELSE rung[n]]
      BY <1>4 DEF PersistSynthesis
    <3>2. \A n \in plan[w] : to[n] \in 1..Rungs
      BY <3>1 DEF LadderStep
    <3>3. \A n \in Trait : rung[n] \in 0..Rungs
      BY <1>0 DEF TypeOK
    <3> QED BY <1>0, <3>1, <3>2, <3>3
  <2> QED BY <1>0, <1>4, <2>1, <2>2, <2>3, <2>4, <2>5 DEF TypeOK, PersistSynthesis, graph
<1> QED BY <1>1, <1>2, <1>3, <1>4 DEF SynthesizerRun

LEMMA InsertingTyped ==
    ASSUME TypeOK, NEW a \in Actor, NEW k \in Key, NEW v \in Answer, Upsert(a, k, v)
    PROVE  inserting' \in [Actor -> [key : Key, answer : Answer] \cup {None}]
BY DEF TypeOK, Upsert

LEMMA CrowdTyped ==
    ASSUME TypeOK, inserting' \in [Actor -> [key : Key, answer : Answer] \cup {None}], Crowd
    PROVE  crowd' \in Nat
<1>1. IsFiniteSet({a \in Actor : inserting'[a] # None})
  <2>1. IsFiniteSet(Actor)
    BY ConstantsAssumption, FS_Union DEF Actor
  <2> QED BY <2>1, FS_Subset
<1>2. Cardinality({a \in Actor : inserting'[a] # None}) \in Nat
  BY <1>1, FS_CardinalityType
<1> QED BY <1>2 DEF TypeOK, Crowd

LEMMA InsertTyped ==
    ASSUME TypeOK, NEW a \in Actor, InsertFact(a)
    PROVE  TypeOK'
<1>1. /\ inserting' \in [Actor -> [key : Key, answer : Answer] \cup {None}]
      /\ facts' \in [Key -> Answer \cup {None}]
  BY DEF TypeOK, InsertFact
<1> QED BY <1>1 DEF TypeOK, InsertFact, sqs, graph, ladder, history

LEMMA SummaryTyped ==
    ASSUME TypeInv, NEW w \in Worker, SummaryRun(w)
    PROVE  TypeOK'
<1> USE DEF Places, Subject
<1>0. /\ TypeOK /\ (at[w] # "idle" => job[w] \in Job) /\ w \in Actor \cup Extraction
      /\ w \in Miner /\ plan[w] \in SUBSET Subject /\ first[w] \in BOOLEAN
      /\ w \in Actor
  BY DEF TypeInv, Busy, BusyAt, Actor, Miner, TypeOK
<1>1. CASE ReadSummary(w)
  <2>1. at' \in [Actor \cup Extraction -> Places]
    BY <1>0, <1>1, GotoTyped DEF ReadSummary
  <2>2. first' \in [Worker -> BOOLEAN]
    <3>1. IsFirstSummary \in BOOLEAN
      BY DEF IsFirstSummary
    <3> QED BY <1>0, <1>1, <3>1 DEF ReadSummary, TypeOK
  <2>3. processed' \subseteq Job
    BY <1>0, <1>1 DEF ReadSummary, TypeOK
  <2> QED BY <1>0, <1>1, <2>1, <2>2, <2>3 DEF TypeOK, ReadSummary, graph, ladder, history
<1>2. CASE GenerateSummary(w)
  <2>1. at' \in [Actor \cup Extraction -> Places]
    BY <1>0, <1>2, GotoTyped DEF GenerateSummary
  <2> QED BY <1>0, <1>2, <2>1 DEF TypeOK, GenerateSummary, sqs, graph, ladder, history
<1>3. CASE PersistSummary(w)
  <2>1. at' \in [Actor \cup Extraction -> Places]
    BY <1>0, <1>3, GotoTyped DEF PersistSummary
  <2>2. processed' \subseteq Job /\ commits' \in [Job -> Nat]
    BY <1>0, <1>3 DEF PersistSummary, Commit, TypeOK
  <2> QED BY <1>0, <1>3, <2>1, <2>2 DEF TypeOK, PersistSummary, graph, ladder
<1>4. CASE ExtractFacts(w)
  <2>1. at' \in [Actor \cup Extraction -> Places]
    BY <1>0, <1>4, GotoTyped DEF ExtractFacts
  <2>2. plan' \in [Miner -> SUBSET Subject]
    BY <1>0, <1>4, PlanTyped DEF ExtractFacts
  <2>3. mined' \in BOOLEAN
    BY <1>0, <1>4 DEF ExtractFacts, TypeOK
  <2> QED BY <1>0, <1>4, <2>1, <2>2, <2>3 DEF TypeOK, ExtractFacts, sqs, graph, ladder
<1>5. CASE ExtractErrs(w)
  <2>1. at' \in [Actor \cup Extraction -> Places]
    BY <1>0, <1>5, GotoTyped DEF ExtractErrs
  <2>2. dropped' \in BOOLEAN /\ faults' \in Nat
    BY <1>0, <1>5 DEF ExtractErrs, TypeOK, Fault
  <2> QED BY <1>0, <1>5, <2>1, <2>2 DEF TypeOK, ExtractErrs, sqs, graph, ladder
<1>6. ASSUME NEW k \in Key, UpsertFact(w, k) PROVE TypeOK'
  <2>1. inserting' \in [Actor -> [key : Key, answer : Answer] \cup {None}]
    BY <1>0, <1>6, InsertingTyped DEF UpsertFact
  <2>2. plan' \in [Miner -> SUBSET Subject]
    BY <1>0, <1>6, PlanTyped DEF UpsertFact
  <2>3. crowd' \in Nat
    BY <1>0, <1>6, <2>1, CrowdTyped DEF UpsertFact
  <2> QED BY <1>0, <1>6, <2>1, <2>2, <2>3 DEF TypeOK, UpsertFact, sqs, graph, ladder
<1>7. CASE InsertFact(w)
  BY <1>0, <1>7, InsertTyped
<1>8. CASE FactsDone(w)
  <2>1. at' \in [Actor \cup Extraction -> Places]
    BY <1>0, <1>8, GotoTyped DEF FactsDone
  <2> QED BY <1>0, <1>8, <2>1 DEF TypeOK, FactsDone, sqs, graph, ladder, history
<1> QED BY <1>1, <1>2, <1>3, <1>4, <1>5, <1>6, <1>7, <1>8 DEF SummaryRun

LEMMA EditTyped ==
    ASSUME TypeInv, NEW e \in Editor, (\E k \in Key : EditFact(e, k)) \/ InsertFact(e)
    PROVE  TypeOK'
<1> USE DEF Places
<1>0. TypeOK /\ e \in Actor
  BY DEF TypeInv, Actor
<1>1. ASSUME NEW k \in Key, EditFact(e, k) PROVE TypeOK'
  <2>1. at' \in [Actor \cup Extraction -> Places]
    BY <1>0, <1>1, GotoTyped DEF EditFact
  <2>2. inserting' \in [Actor -> [key : Key, answer : Answer] \cup {None}]
    BY <1>0, <1>1, InsertingTyped DEF EditFact
  <2>3. crowd' \in Nat
    BY <1>0, <1>1, <2>2, CrowdTyped DEF EditFact
  <2> QED BY <1>0, <1>1, <2>1, <2>2, <2>3 DEF TypeOK, EditFact, sqs, graph, ladder
<1>2. CASE InsertFact(e)
  BY <1>0, <1>2, InsertTyped
<1> QED BY <1>1, <1>2

LEMMA ExtractTyped ==
    ASSUME TypeInv, NEW x \in Extraction,
           \/ ResolveTraitMerges(x) \/ DroppedReferences(x)
           \/ InsertTraits(x) \/ ExtractionFails(x)
    PROVE  TypeOK'
<1> USE DEF Places, Subject
<1>0. /\ TypeOK /\ x \in Actor \cup Extraction /\ x \in Miner
      /\ plan[x] \in SUBSET Subject /\ Rungs \in Nat \ {0}
  BY ConstantsAssumption DEF TypeInv, Miner, TypeOK
<1>1. CASE ResolveTraitMerges(x)
  <2>1. at' \in [Actor \cup Extraction -> Places]
    BY <1>0, <1>1, GotoTyped DEF ResolveTraitMerges
  <2>2. PICK names \in SUBSET Trait, refs \in SUBSET Phrase :
           LET new == {n \in names : rung[n] = 0}
           IN  /\ plan' = [plan EXCEPT ![x] = new \cup refs]
               /\ \E more \in SUBSET new : twice' = [twice EXCEPT ![x] = more]
               /\ raced' = raced \cup {n \in new :
                     \E m \in Miner \ {x} : n \in plan[m]
                           /\ (m \in Worker => at[m] = "trait")}
    BY <1>1 DEF ResolveTraitMerges
  <2>3. plan' \in [Miner -> SUBSET Subject]
    <3>1. {n \in names : rung[n] = 0} \cup refs \in SUBSET Subject
      OBVIOUS
    <3> QED BY <1>0, <2>2, <3>1, PlanTyped
  <2>4. raced' \subseteq Target \cup Phrase \cup Trait
    BY <1>0, <2>2 DEF TypeOK
  <2>5. twice' \in [Extraction -> SUBSET Trait]
    BY <1>0, <2>2 DEF TypeOK
  <2> QED BY <1>0, <1>1, <2>1, <2>3, <2>4, <2>5 DEF TypeOK, ResolveTraitMerges, sqs, graph, ladder
<1>2. CASE DroppedReferences(x)
  <2>1. at' \in [Actor \cup Extraction -> Places]
    BY <1>0, <1>2, GotoTyped DEF DroppedReferences
  <2>2. plan' \in [Miner -> SUBSET Subject]
    <3>1. (plan[x] \cap Trait) \cup {p \in plan[x] \cap Phrase : asked[p] = 0} \in SUBSET Subject
      OBVIOUS
    <3> QED BY <1>0, <1>2, <3>1, PlanTyped DEF DroppedReferences
  <2>3. raced' \subseteq Target \cup Phrase \cup Trait
    BY <1>0, <1>2 DEF DroppedReferences, TypeOK
  <2> QED BY <1>0, <1>2, <2>1, <2>2, <2>3 DEF TypeOK, DroppedReferences, sqs, graph, ladder
<1>3. CASE InsertTraits(x)
  <2>1. at' \in [Actor \cup Extraction -> Places]
    BY <1>0, <1>3, GotoTyped DEF InsertTraits
  <2>2. plan' \in [Miner -> SUBSET Subject]
    BY <1>0, <1>3, PlanTyped DEF InsertTraits
  <2>3. /\ rows' \in [Trait -> Nat] /\ asked' \in [Phrase -> Nat]
        /\ rung' \in [Trait -> 0..Rungs]
    BY <1>0, <1>3 DEF InsertTraits, Mentions, TypeOK
  <2>4. twice' \in [Extraction -> SUBSET Trait]
    BY <1>0, <1>3 DEF InsertTraits, TypeOK
  <2> QED BY <1>0, <1>3, <2>1, <2>2, <2>3, <2>4 DEF TypeOK, InsertTraits, sqs, history
<1>4. CASE ExtractionFails(x)
  <2>1. at' \in [Actor \cup Extraction -> Places]
    BY <1>0, <1>4, GotoTyped DEF ExtractionFails
  <2>2. plan' \in [Miner -> SUBSET Subject]
    BY <1>0, <1>4, PlanTyped DEF ExtractionFails
  <2>3. twice' \in [Extraction -> SUBSET Trait]
    BY <1>0, <1>4 DEF ExtractionFails, TypeOK
  <2> QED BY <1>0, <1>4, <2>1, <2>2, <2>3 DEF TypeOK, ExtractionFails, Fault, sqs, graph, ladder, history
<1> QED BY <1>1, <1>2, <1>3, <1>4

LEMMA WorldTyped ==
    ASSUME TypeInv, World
    PROVE  TypeOK'
<1>0. TypeOK
  BY DEF TypeInv
<1>1. ASSUME NEW t \in Target, Tell(t) \/ Retire(t) PROVE TypeOK'
  BY <1>0, <1>1 DEF TypeOK, Tell, Retire, sqs, locals, ladder, history
<1>2. ASSUME NEW t \in Target, AnswerQuestions(t) PROVE TypeOK'
  <2>1. open' \in [Target -> Nat]
    BY <1>0, <1>2 DEF AnswerQuestions, TypeOK
  <2> QED BY <1>0, <1>2, <2>1 DEF TypeOK, AnswerQuestions, sqs, locals, ladder, history
<1>3. ASSUME NEW t \in Target, Suppress(t) PROVE TypeOK'
  BY <1>0, <1>3 DEF TypeOK, Suppress, sqs, locals, ladder
<1>4. ASSUME NEW a \in Actor, InsertFails(a) PROVE TypeOK'
  BY <1>0, <1>4 DEF TypeOK, InsertFails, Fault, sqs, graph, ladder, history
<1> QED BY <1>1, <1>2, <1>3, <1>4 DEF World

-----------------------------------------------------------------------------
(* What a step touches.                                                    *)

WorkerStep(w) == Run(w) \/ ProducerRun(w) \/ SynthesizerRun(w) \/ SummaryRun(w)
ExtractStep(x) == \/ ResolveTraitMerges(x) \/ DroppedReferences(x)
                  \/ InsertTraits(x) \/ ExtractionFails(x)
EditStep(e) == (\E k \in Key : EditFact(e, k)) \/ InsertFact(e)

LEMMA MinersApart ==
    /\ Worker \cap Extraction = {} /\ Editor \cap Extraction = {} /\ Editor \cap Worker = {}
    /\ Worker \subseteq Actor /\ Editor \subseteq Actor
    /\ Worker \subseteq Miner /\ Extraction \subseteq Miner
    /\ \A m \in Miner : m \in Worker \/ m \in Extraction
BY ConstantsAssumption DEF Actor, Miner

\* A worker's step is about its own locals.
LEMMA WorkersApart ==
    ASSUME TypeOK, NEW w \in Worker, WorkerStep(w)
    PROVE  /\ \A v \in Worker \ {w} : /\ at'[v] = at[v] /\ job'[v] = job[v]
                                      /\ first'[v] = first[v] /\ seen'[v] = seen[v]
           /\ \A m \in Miner \ {w} : at'[m] = at[m] /\ plan'[m] = plan[m]
<1> USE DEF Goto, Drop
<1>1. /\ at \in [Actor \cup Extraction -> Places] /\ job \in [Worker -> Job \cup {None}]
      /\ first \in [Worker -> BOOLEAN] /\ seen \in [Worker -> [Trait -> 0..Rungs]]
      /\ plan \in [Miner -> SUBSET Subject]
  BY DEF TypeOK, Places, Subject
<1>2. Worker \subseteq Actor /\ Miner \subseteq Actor \cup Extraction
  BY DEF Actor, Miner
<1>3. CASE Run(w)
  <2>1. CASE Check(w) \/ PushEmbeddings(w) \/ Errs(w) \/ \E j \in Job : Take(w, j)
    BY <1>1, <1>2, <2>1 DEF Take, Check, PushEmbeddings, Errs
  <2>2. CASE Ack(w) \/ TimesOut(w) \/ Die(w)
    BY <1>1, <1>2, <2>2 DEF Ack, TimesOut, Die
  <2> QED BY <1>3, <2>1, <2>2 DEF Run
<1>4. CASE ProducerRun(w)
  <2>1. CASE ReadTargets(w) \/ Generate(w)
    <3>1. PICK P : plan' = [plan EXCEPT ![w] = P]
      BY <2>1 DEF ReadTargets, Generate
    <3>2. PICK s : at' = [at EXCEPT ![w] = s]
      BY <2>1 DEF ReadTargets, Generate
    <3>3. UNCHANGED <<job, first, seen>>
      BY <2>1 DEF ReadTargets, Generate
    <3> QED BY <1>1, <1>2, <3>1, <3>2, <3>3
  <2>2. CASE PersistQuestions(w) \/ TargetGone(w)
    BY <1>1, <1>2, <2>2 DEF PersistQuestions, TargetGone
  <2> QED BY <1>4, <2>1, <2>2 DEF ProducerRun
<1>5. CASE SynthesizerRun(w)
  <2>1. CASE ReadTraits(w) \/ Synthesize(w)
    BY <1>1, <1>2, <2>1 DEF ReadTraits, Synthesize
  <2>2. CASE BeginTraits(w) \/ PersistSynthesis(w)
    BY <1>1, <1>2, <2>2 DEF BeginTraits, PersistSynthesis
  <2> QED BY <1>5, <2>1, <2>2 DEF SynthesizerRun
<1>6. CASE SummaryRun(w)
  <2>1. CASE ReadSummary(w) \/ GenerateSummary(w) \/ PersistSummary(w)
    BY <1>1, <1>2, <2>1 DEF ReadSummary, GenerateSummary, PersistSummary
  <2>2. CASE ExtractFacts(w) \/ ExtractErrs(w) \/ FactsDone(w) \/ InsertFact(w)
    BY <1>1, <1>2, <2>2 DEF ExtractFacts, ExtractErrs, FactsDone, InsertFact
  <2>3. CASE \E k \in Key : UpsertFact(w, k)
    BY <1>1, <1>2, <2>3 DEF UpsertFact
  <2> QED BY <1>6, <2>1, <2>2, <2>3 DEF SummaryRun
<1> QED BY <1>3, <1>4, <1>5, <1>6 DEF WorkerStep

LEMMA ExtractionsApart ==
    ASSUME TypeOK, NEW x \in Extraction, ExtractStep(x)
    PROVE  /\ UNCHANGED <<sqs, job, first, seen, inserting, facts, commits, overlapped,
                          mined, dropped, crowd, told, retired, open, quiet>>
           /\ \A m \in Miner \ {x} : at'[m] = at[m] /\ plan'[m] = plan[m]
<1> USE DEF Goto, sqs, graph, history
<1>1. at \in [Actor \cup Extraction -> Places] /\ plan \in [Miner -> SUBSET Subject]
  BY DEF TypeOK, Places, Subject
<1>2. x \in Miner /\ Miner \subseteq Actor \cup Extraction
  BY DEF Actor, Miner
<1>3. CASE ResolveTraitMerges(x)
  <2>1. PICK P : plan' = [plan EXCEPT ![x] = P]
    BY <1>3 DEF ResolveTraitMerges
  <2> QED BY <1>1, <1>2, <1>3, <2>1 DEF ResolveTraitMerges
<1>4. CASE DroppedReferences(x)
  BY <1>1, <1>2, <1>4 DEF DroppedReferences
<1>5. CASE InsertTraits(x)
  BY <1>1, <1>2, <1>5 DEF InsertTraits
<1>6. CASE ExtractionFails(x)
  BY <1>1, <1>2, <1>6 DEF ExtractionFails
<1> QED BY <1>3, <1>4, <1>5, <1>6 DEF ExtractStep

\* Edits and the user's changes leave every miner as it is.
LEMMA EditsApart ==
    ASSUME TypeOK, (\E e \in Editor : EditStep(e)) \/ World
    PROVE  /\ UNCHANGED <<sqs, job, plan, first, seen, ladder, asked, commits, overlapped,
                          mined, dropped>>
           /\ \A m \in Miner : at'[m] = at[m]
<1>1. ASSUME NEW e \in Editor, NEW k \in Key, EditFact(e, k)
      PROVE  /\ UNCHANGED <<sqs, job, plan, first, seen, ladder, asked, commits, overlapped,
                            mined, dropped>>
             /\ \A m \in Miner : at'[m] = at[m]
  <2>1. \A m \in Miner : m # e
    BY MinersApart
  <2> QED BY <1>1, <2>1 DEF EditFact, Goto, graph, TypeOK
<1>2. ASSUME NEW a, InsertFact(a) \/ InsertFails(a)
      PROVE  UNCHANGED <<sqs, at, job, plan, first, seen, ladder, asked, commits, overlapped,
                         mined, dropped>>
  BY <1>2 DEF InsertFact, InsertFails, graph, history
<1>3. ASSUME NEW t \in Target, Tell(t) \/ Retire(t) \/ AnswerQuestions(t) \/ Suppress(t)
      PROVE  UNCHANGED <<sqs, at, job, plan, first, seen, ladder, asked, commits, overlapped,
                         mined, dropped>>
  BY <1>3 DEF Tell, Retire, AnswerQuestions, Suppress, locals, history
<1> QED BY <1>1, <1>2, <1>3 DEF EditStep, World

-----------------------------------------------------------------------------
LEMMA OwnBusy ==
    ASSUME TypeInv, NEW w \in Worker, WorkerStep(w)
    PROVE  BusyAt(w)'
<1> USE DEF BusyAt
<1>2. /\ at \in [Actor \cup Extraction -> Places] /\ job \in [Worker -> Job \cup {None}]
      /\ plan \in [Miner -> SUBSET Subject]
      /\ w \in Actor \cup Extraction /\ w \in Miner
      /\ BusyAt(w)
  BY MinersApart DEF TypeInv, TypeOK, Places, Subject, Busy
<1>3. CASE Run(w)
  BY <1>2, <1>3 DEF Run, Take, Check, PushEmbeddings, Errs, Ack, TimesOut, Die, Goto, Drop
<1>4. CASE ProducerRun(w)
  <2>1. CASE ReadTargets(w)
    <3>1. Askable(KindOf(job[w])) \subseteq Target
      BY <2>1 DEF ReadTargets, Is, Producers, Askable, Underdeveloped, Gaps, UnderCovered, Target
    <3>2. plan'[w] = Askable(KindOf(job[w])) /\ job' = job /\ at'[w] \in {"llm", "ack"}
      BY <1>2, <2>1 DEF ReadTargets, Goto
    <3> QED BY <1>2, <2>1, <3>1, <3>2 DEF ReadTargets
  <2>2. CASE Generate(w)
    <3>1. plan'[w] \subseteq plan[w] /\ job' = job /\ at'[w] \in {"write", "ack"}
      BY <1>2, <2>2 DEF Generate, Goto, Asked
    <3>2. at[w] = "llm" /\ KindOf(job[w]) \in Producers
      BY <2>2 DEF Generate, Is
    <3> QED BY <1>2, <3>1, <3>2 DEF Producers
  <2>3. CASE PersistQuestions(w) \/ TargetGone(w)
    BY <1>2, <2>3 DEF PersistQuestions, TargetGone, Goto, Drop
  <2> QED BY <1>4, <2>1, <2>2, <2>3 DEF ProducerRun
<1>5. CASE SynthesizerRun(w)
  <2>1. job' = job /\ at[w] # "idle" /\ KindOf(job[w]) = "traits"
    BY <1>2, <1>5 DEF SynthesizerRun, ReadTraits, Synthesize, BeginTraits, PersistSynthesis, Is
  <2>2. CASE ReadTraits(w)
    BY <1>2, <2>1, <2>2 DEF ReadTraits, Goto, Producers
  <2>3. CASE Synthesize(w)
    <3>1. plan'[w] \subseteq Trait /\ at'[w] = "write"
      BY <1>2, <2>3 DEF Synthesize, Goto
    <3> QED BY <1>2, <2>1, <3>1 DEF Producers
  <2>4. CASE BeginTraits(w)
    <3>1. plan'[w] \subseteq plan[w] /\ at'[w] = "trait" /\ at[w] = "write"
      BY <1>2, <2>4 DEF BeginTraits, Goto
    <3> QED BY <1>2, <2>1, <3>1
  <2>5. CASE PersistSynthesis(w)
    BY <1>2, <2>1, <2>5 DEF PersistSynthesis, Goto
  <2> QED BY <1>5, <2>2, <2>3, <2>4, <2>5 DEF SynthesizerRun
<1>6. CASE SummaryRun(w)
  BY <1>2, <1>6 DEF SummaryRun, ReadSummary, GenerateSummary, PersistSummary, ExtractFacts,
        ExtractErrs, UpsertFact, InsertFact, FactsDone, Goto, Is, Producers
<1> QED BY <1>3, <1>4, <1>5, <1>6 DEF WorkerStep

LEMMA BusyKept ==
    ASSUME TypeInv, [Next]_vars
    PROVE  Busy'
<1> SUFFICES ASSUME NEW v \in Worker PROVE BusyAt(v)'
  BY DEF Busy
<1>1. TypeOK /\ BusyAt(v)
  BY DEF TypeInv, Busy
<1>2. ASSUME NEW w \in Worker, WorkerStep(w) PROVE BusyAt(v)'
  <2>1. CASE v # w
    BY <1>1, <1>2, <2>1, WorkersApart, MinersApart DEF BusyAt
  <2>2. CASE v = w
    BY <1>2, <2>2, OwnBusy
  <2> QED BY <2>1, <2>2
<1>3. ASSUME NEW x \in Extraction, ExtractStep(x) PROVE BusyAt(v)'
  BY <1>1, <1>3, ExtractionsApart, MinersApart DEF BusyAt
<1>4. CASE (\E e \in Editor : EditStep(e)) \/ World
  BY <1>1, <1>4, EditsApart, MinersApart DEF BusyAt
<1>5. CASE UNCHANGED vars
  BY <1>1, <1>5 DEF vars, locals, BusyAt
<1> QED BY <1>2, <1>3, <1>4, <1>5 DEF Next, Work, Edit, Extract, WorkerStep, EditStep, ExtractStep

LEMMA TypeInvKept ==
    ASSUME TypeInv, [Next]_vars
    PROVE  TypeInv'
<1>1. Busy'
  BY BusyKept
<1>2. ASSUME UNCHANGED vars PROVE TypeOK'
  BY <1>2 DEF TypeInv, TypeOK, vars, sqs, locals, graph, ladder, history
<1>3. ASSUME Next PROVE TypeOK'
  BY <1>3, RunTyped, ProducerTyped, SynthesizerTyped, SummaryTyped, EditTyped, ExtractTyped,
     WorldTyped DEF Next, Work, Edit, Extract
<1> QED BY <1>1, <1>2, <1>3 DEF TypeInv

LEMMA InitTyped == Init => TypeInv
<1> SUFFICES ASSUME Init PROVE TypeInv
  OBVIOUS
<1>1. PICK s \in Sent :
          /\ queue = s \cap Job
          /\ at = [a \in Actor \cup Extraction |->
                     IF a \in s \cup Worker THEN "idle" ELSE "done"]
  BY DEF Init
<1>2. \A w \in Worker : at[w] = "idle"
  BY <1>1 DEF Actor
<1>3. /\ Rungs \in Nat /\ Worker \subseteq Actor
  BY ConstantsAssumption DEF Actor
<1>4. /\ inserting \in [Actor -> [key : Key, answer : Answer] \cup {None}]
      /\ facts \in [Key -> Answer \cup {None}]
      /\ seen \in [Worker -> [Trait -> 0..Rungs]]
      /\ rung \in [Trait -> 0..Rungs]
  BY <1>3 DEF Init
<1>5. TypeOK
  BY <1>1, <1>4 DEF TypeOK, Init
<1>6. Busy
  BY <1>2 DEF Busy, BusyAt
<1> QED BY <1>5, <1>6 DEF TypeInv

\* Every variable keeps the shape the code gives it.
THEOREM TypesHold == Spec => []TypeOK
<1>1. TypeInv /\ [Next]_vars => TypeInv'
  BY TypeInvKept
<1>2. TypeInv => TypeOK
  BY DEF TypeInv
<1> QED BY <1>1, <1>2, InitTyped, PTL DEF Spec

-----------------------------------------------------------------------------
(* What is committed.  Whoever works on a job that is already recorded shares *)
(* it with the one who recorded it, and both have been noted.                *)

Held     == \A v, w \in Worker : v # w /\ Working(v) /\ Working(w) /\ job[v] = job[w]
                                     => job[w] \in overlapped
Recorded == \A j \in Job : commits[j] > 0 => j \in processed
Repeated == \A w \in Worker : Working(w) /\ job[w] \in processed => job[w] \in overlapped

CommitInv == TypeInv /\ Held /\ Recorded /\ Repeated /\ CommittedTwiceNeedsOverlap

\* How a worker comes to work, and how it ends: with a record, or without.
Enters(w) ==
    /\ ~Working(w) /\ job'[w] = job[w] /\ job[w] \notin processed
    /\ UNCHANGED <<processed, commits>>
    /\ overlapped' = IF Rivals(w) # {} THEN overlapped \cup {job[w]} ELSE overlapped

Leaves(w) ==
    /\ Working(w) /\ ~Working(w)' /\ overlapped' = overlapped
    /\ processed' = processed \cup {job[w]}
    /\ commits' = commits \/ commits' = [commits EXCEPT ![job[w]] = @ + 1]

Stays(w) ==
    /\ Working(w)' => Working(w) /\ job'[w] = job[w]
    /\ UNCHANGED <<processed, commits, overlapped>>

LEMMA WorkerMoves ==
    ASSUME TypeInv, NEW w \in Worker, WorkerStep(w)
    PROVE  Enters(w) \/ Leaves(w) \/ Stays(w)
<1> USE DEF Working, sqs, history
<1>1. /\ at \in [Actor \cup Extraction -> Places] /\ job \in [Worker -> Job \cup {None}]
      /\ w \in Actor \cup Extraction
  BY MinersApart DEF TypeInv, TypeOK, Places
<1>2. CASE Check(w)
  <2>1. at[w] = "check" /\ at'[w] = IF job[w] \in processed THEN "ack" ELSE "read"
    BY <1>1, <1>2 DEF Check, Goto
  <2>2. /\ UNCHANGED <<processed, commits, job>>
        /\ overlapped' = IF Rivals(w) # {} /\ job[w] \notin processed
                         THEN overlapped \cup {job[w]} ELSE overlapped
    BY <1>2 DEF Check
  <2>3. CASE job[w] \in processed
    BY <2>1, <2>2, <2>3 DEF Stays
  <2>4. CASE job[w] \notin processed
    BY <2>1, <2>2, <2>4 DEF Enters
  <2> QED BY <2>3, <2>4
<1>3. CASE Run(w) /\ ~Check(w)
  <2>1. CASE Errs(w)
    <3>1. /\ at[w] = "llm" /\ at'[w] = "ack" /\ UNCHANGED <<job, commits, overlapped>>
          /\ processed' = IF Is(w, Producers) THEN processed \cup {job[w]} ELSE processed
      BY <1>1, <2>1 DEF Errs, Goto
    <3> QED BY <3>1 DEF Leaves, Stays
  <2>2. CASE ~Errs(w)
    BY <1>1, <1>3, <2>2 DEF Run, Take, PushEmbeddings, Ack, TimesOut, Die, Goto, Drop, Stays
  <2> QED BY <2>1, <2>2
<1>4. CASE ProducerRun(w)
  <2>1. CASE ReadTargets(w) \/ Generate(w)
    <3>1. /\ at[w] \in {"read", "llm"} /\ UNCHANGED <<job, commits, overlapped>>
          /\ \/ processed' = processed \cup {job[w]} /\ at'[w] = "ack"
             \/ processed' = processed
      BY <1>1, <2>1 DEF ReadTargets, Generate, Goto
    <3> QED BY <3>1 DEF Leaves, Stays
  <2>2. CASE PersistQuestions(w) \/ TargetGone(w)
    BY <1>1, <2>2 DEF PersistQuestions, TargetGone, Commit, Goto, Drop, Leaves, Stays
  <2> QED BY <1>4, <2>1, <2>2 DEF ProducerRun
<1>5. CASE SynthesizerRun(w)
  BY <1>1, <1>5 DEF SynthesizerRun, ReadTraits, Synthesize, BeginTraits, PersistSynthesis,
        Commit, Goto, Leaves, Stays
<1>6. CASE SummaryRun(w)
  <2>1. CASE ReadSummary(w)
    <3>1. /\ at[w] = "read" /\ UNCHANGED <<job, commits, overlapped>>
          /\ \/ processed' = processed \cup {job[w]} /\ at'[w] = "ack"
             \/ processed' = processed
      BY <1>1, <2>1 DEF ReadSummary, Goto
    <3> QED BY <3>1 DEF Leaves, Stays
  <2>2. CASE GenerateSummary(w) \/ PersistSummary(w)
    BY <1>1, <2>2 DEF GenerateSummary, PersistSummary, Commit, Goto, Leaves, Stays
  <2>3. CASE SummaryRun(w) /\ ~(ReadSummary(w) \/ GenerateSummary(w) \/ PersistSummary(w))
    BY <1>1, <2>3 DEF SummaryRun, ExtractFacts, ExtractErrs, UpsertFact, InsertFact, FactsDone,
          Goto, Stays
  <2> QED BY <1>6, <2>1, <2>2, <2>3
<1> QED BY <1>2, <1>3, <1>4, <1>5, <1>6 DEF WorkerStep

LEMMA CommitKept ==
    ASSUME CommitInv, [Next]_vars
    PROVE  CommitInv'
<1>1. /\ TypeInv' /\ TypeInv /\ TypeOK
      /\ commits \in [Job -> Nat] /\ processed \subseteq Job
      /\ \A w \in Worker : Working(w) => job[w] \in Job
  BY TypeInvKept DEF CommitInv, TypeInv, TypeOK, Busy, BusyAt, Working
<1>2. ASSUME NEW w \in Worker, WorkerStep(w) PROVE CommitInv'
  <2>1. \A v \in Worker \ {w} : (Working(v)' <=> Working(v)) /\ job'[v] = job[v]
    BY <1>1, <1>2, WorkersApart, MinersApart DEF Working
  <2>2. CASE Enters(w)
    <3>1. \A v \in Worker \ {w} : Working(v) /\ job[v] = job[w] => job[w] \in overlapped'
      BY <2>2 DEF Enters, Rivals
    <3>2. overlapped \subseteq overlapped'
      BY <2>2 DEF Enters
    <3> QED BY <1>1, <2>1, <2>2, <3>1, <3>2
            DEF CommitInv, Held, Recorded, Repeated, CommittedTwiceNeedsOverlap, Enters
  <2>3. CASE Leaves(w)
    <3>1. job[w] \in Job /\ (\A v \in Worker \ {w} : Working(v) /\ job[v] = job[w]
                                                         => job[w] \in overlapped)
      BY <1>1, <2>3 DEF CommitInv, Held, Leaves
    <3>2. Held'
      BY <2>1, <2>3 DEF CommitInv, Held, Leaves
    <3>3. Repeated'
      BY <2>1, <2>3, <3>1 DEF CommitInv, Repeated, Leaves
    <3>4. \A j \in Job : commits'[j] = commits[j] \/ (j = job[w] /\ commits'[j] = commits[j] + 1)
      BY <1>1, <2>3 DEF Leaves
    <3>5. Recorded'
      BY <1>1, <2>3, <3>4 DEF CommitInv, Recorded, Leaves
    <3>6. CommittedTwiceNeedsOverlap'
      <4> SUFFICES ASSUME NEW j \in Job, commits'[j] > 1 PROVE j \in overlapped'
        BY DEF CommittedTwiceNeedsOverlap
      <4>1. CASE commits'[j] = commits[j]
        BY <2>3, <4>1 DEF CommitInv, CommittedTwiceNeedsOverlap, Leaves
      <4>2. CASE j = job[w] /\ commits'[j] = commits[j] + 1
        <5>1. commits[j] > 0
          BY <1>1, <4>2
        <5> QED BY <2>3, <4>2, <5>1 DEF CommitInv, Recorded, Repeated, Leaves
      <4> QED BY <3>4, <4>1, <4>2
    <3> QED BY <1>1, <3>2, <3>3, <3>5, <3>6 DEF CommitInv
  <2>4. CASE Stays(w)
    BY <1>1, <2>1, <2>4
       DEF CommitInv, Held, Recorded, Repeated, CommittedTwiceNeedsOverlap, Stays
  <2> QED BY <1>1, <1>2, <2>2, <2>3, <2>4, WorkerMoves
<1>3. ASSUME UNCHANGED <<processed, commits, overlapped, job>>,
             \A w \in Worker : at'[w] = at[w]
      PROVE  CommitInv'
  BY <1>1, <1>3 DEF CommitInv, Held, Recorded, Repeated, CommittedTwiceNeedsOverlap, Working
<1>4. ASSUME NEW x \in Extraction, ExtractStep(x) PROVE CommitInv'
  BY <1>1, <1>3, <1>4, ExtractionsApart, MinersApart DEF sqs
<1>5. CASE (\E e \in Editor : EditStep(e)) \/ World
  BY <1>1, <1>3, <1>5, EditsApart, MinersApart DEF sqs
<1>6. CASE UNCHANGED vars
  BY <1>3, <1>6 DEF vars, sqs, locals, history
<1> QED BY <1>2, <1>4, <1>5, <1>6 DEF Next, Work, Edit, Extract, WorkerStep, EditStep, ExtractStep

\* Work is committed twice only of a job two workers held at once: neither a
\* crash between commit and acknowledgement nor a second delivery repeats it.
THEOREM CommitsAreDone == Spec => []CommittedTwiceNeedsOverlap
<1>1. Init => CommitInv
  <2> SUFFICES ASSUME Init PROVE CommitInv
    OBVIOUS
  <2>1. TypeInv
    BY InitTyped
  <2>2. \A w \in Worker : ~Working(w)
    BY MinersApart DEF Init, Working
  <2> QED BY <2>1, <2>2 DEF CommitInv, Init, Held, Recorded, Repeated, CommittedTwiceNeedsOverlap
<1>2. CommitInv /\ [Next]_vars => CommitInv'
  BY CommitKept
<1>3. CommitInv => CommittedTwiceNeedsOverlap
  BY DEF CommitInv
<1> QED BY <1>1, <1>2, <1>3, PTL DEF Spec

-----------------------------------------------------------------------------
(* The cap on facts.  Every upsert between its count and its INSERT found     *)
(* room for one, so active and pending facts exceed the cap by no more than   *)
(* those that stood there together, less one.                                *)

Pending == {a \in Actor : inserting[a] # None}

RoomInv ==
    /\ Cardinality(Pending) <= crowd
    /\ Cardinality(Active) + Cardinality(Pending) <= IF crowd = 0 THEN 0 ELSE Cap + crowd - 1

CapInv == TypeInv /\ RoomInv

LEMMA Counted ==
    /\ IsFiniteSet(Pending) /\ Cardinality(Pending) \in Nat
    /\ IsFiniteSet(Active) /\ Cardinality(Active) \in Nat
    /\ IsFiniteSet(Pending') /\ Cardinality(Pending') \in Nat
    /\ IsFiniteSet(Active') /\ Cardinality(Active') \in Nat
<1>1. IsFiniteSet(Actor) /\ IsFiniteSet(Key)
  BY ConstantsAssumption, FS_Union DEF Actor
<1>2. /\ Pending \subseteq Actor /\ Active \subseteq Key
      /\ Pending' \subseteq Actor /\ Active' \subseteq Key
  BY DEF Pending, Active
<1> QED BY <1>1, <1>2, FS_Subset, FS_CardinalityType

\* Whoever looks for room is counted, if he finds it.
LEMMA RoomIsFound ==
    ASSUME CapInv, NEW a \in Actor, NEW k \in Key, NEW v \in Answer,
           Upsert(a, k, v), Crowd, facts' = facts
    PROVE  RoomInv'
<1>1. /\ crowd \in Nat /\ Cap \in Nat \ {0}
      /\ Cardinality(Pending) \in Nat /\ Cardinality(Active) \in Nat
  BY ConstantsAssumption, Counted DEF CapInv, TypeInv, TypeOK
<1>6. IsFiniteSet(Pending') /\ Cardinality(Pending') \in Nat
  BY Counted
<1>2. crowd' = IF Cardinality(Pending)' > crowd THEN Cardinality(Pending)' ELSE crowd
  BY DEF Crowd, Pending
<1>3. Active' = Active
  BY DEF Active
<1>4. CASE inserting' = inserting
  <2>1. Pending' = Pending
    BY <1>4 DEF Pending
  <2>2. Cardinality(Pending)' = Cardinality(Pending)
    BY <2>1
  <2>3. crowd' = crowd
    BY <1>1, <1>2, <2>2 DEF CapInv, RoomInv
  <2> QED BY <1>3, <2>1, <2>3 DEF CapInv, RoomInv
<1>5. CASE Cardinality(Active) < Cap /\ inserting' # inserting
  <2>1. /\ a \in Pending'
    BY <1>5, ConstantsAssumption DEF Upsert, Pending, CapInv, TypeInv, TypeOK
  <2>2. Cardinality(Pending)' # 0
    BY <1>6, <2>1, FS_EmptySet
  <2>3. crowd' \in Nat /\ crowd' # 0 /\ Cardinality(Pending)' <= crowd'
    BY <1>1, <1>6, <1>2, <2>2
  <2>4. Cardinality(Active)' = Cardinality(Active)
    BY <1>3
  <2> QED BY <1>1, <1>6, <1>5, <2>3, <2>4 DEF RoomInv
<1> QED BY <1>4, <1>5 DEF Upsert

\* What leaves the crowd makes at most one fact active.
LEMMA RoomIsKept ==
    ASSUME CapInv, UNCHANGED crowd, Pending' \subseteq Pending,
           \/ UNCHANGED facts
           \/ \E a \in Pending : InsertFact(a)
    PROVE  RoomInv'
<1>1. /\ crowd \in Nat /\ Cap \in Nat \ {0}
      /\ IsFiniteSet(Pending) /\ IsFiniteSet(Active)
      /\ Cardinality(Pending) \in Nat /\ Cardinality(Active) \in Nat
  BY ConstantsAssumption, Counted DEF CapInv, TypeInv, TypeOK
<1>4. Cardinality(Pending') \in Nat /\ Cardinality(Active') \in Nat
  BY Counted
<1>2. CASE UNCHANGED facts
  <2>1. Active' = Active
    BY <1>2 DEF Active
  <2>2. Cardinality(Active)' = Cardinality(Active)
    BY <2>1
  <2>3. Cardinality(Pending)' <= Cardinality(Pending)
    BY <1>1, FS_Subset
  <2> QED BY <1>1, <1>4, <2>2, <2>3 DEF CapInv, RoomInv
<1>3. CASE \E a \in Pending : InsertFact(a)
  <2>1. PICK a \in Pending : InsertFact(a)
    BY <1>3
  <2>2. inserting[a] \in [key : Key, answer : Answer] /\ inserting[a].key \in Key
    BY <2>1 DEF Pending, CapInv, TypeInv, TypeOK
  <2>3. Pending' = Pending \ {a}
    BY <2>1 DEF Pending, InsertFact, CapInv, TypeInv, TypeOK
  <2>4. Cardinality(Pending)' = Cardinality(Pending) - 1
    BY <1>1, <2>1, <2>3, FS_RemoveElement
  <2>5. Active' \subseteq Active \cup {inserting[a].key}
    BY <2>1, <2>2 DEF Active, InsertFact, CapInv, TypeInv, TypeOK
  <2>6. Cardinality(Active)' <= Cardinality(Active) + 1
    <3>1. /\ IsFiniteSet(Active \cup {inserting[a].key})
          /\ Cardinality(Active \cup {inserting[a].key}) =
                IF inserting[a].key \in Active THEN Cardinality(Active) ELSE Cardinality(Active) + 1
      BY <1>1, FS_AddElement
    <3>2. /\ Cardinality(Active)' <= Cardinality(Active \cup {inserting[a].key})
          /\ Cardinality(Active \cup {inserting[a].key}) \in Nat
      BY <2>5, <3>1, FS_Subset, FS_CardinalityType
    <3> QED BY <1>1, <1>4, <3>1, <3>2
  <2> QED BY <1>1, <1>4, <2>4, <2>6 DEF CapInv, RoomInv
<1> QED BY <1>2, <1>3

\* A worker that drops its job takes its pending fact along.
LEMMA WorkersInsert ==
    ASSUME TypeOK, NEW w \in Worker, WorkerStep(w),
           ~InsertFact(w), \A k \in Key : ~UpsertFact(w, k)
    PROVE  UNCHANGED <<crowd, facts>> /\ Pending' \subseteq Pending
<1> USE DEF Drop, history, Pending
<1>1. inserting \in [Actor -> [key : Key, answer : Answer] \cup {None}]
  BY DEF TypeOK
<1>2. CASE Run(w)
  <2>1. CASE Check(w) \/ PushEmbeddings(w) \/ Errs(w) \/ \E j \in Job : Take(w, j)
    BY <2>1 DEF Take, Check, PushEmbeddings, Errs
  <2>2. CASE Ack(w) \/ TimesOut(w) \/ Die(w)
    BY <1>1, <2>2 DEF Ack, TimesOut, Die
  <2> QED BY <1>2, <2>1, <2>2 DEF Run
<1>3. CASE ProducerRun(w)
  BY <1>1, <1>3 DEF ProducerRun, ReadTargets, Generate, PersistQuestions, TargetGone
<1>4. CASE SynthesizerRun(w)
  BY <1>4 DEF SynthesizerRun, ReadTraits, Synthesize, BeginTraits, PersistSynthesis
<1>5. CASE SummaryRun(w)
  BY <1>5 DEF SummaryRun, ReadSummary, GenerateSummary, PersistSummary, ExtractFacts,
        ExtractErrs, FactsDone
<1> QED BY <1>2, <1>3, <1>4, <1>5 DEF WorkerStep

LEMMA CapKept ==
    ASSUME CapInv, [Next]_vars
    PROVE  CapInv'
<1>1. TypeInv' /\ TypeOK
  BY TypeInvKept DEF CapInv, TypeInv
<1>2. ASSUME UNCHANGED <<crowd, facts, inserting>> PROVE RoomInv'
  BY <1>2 DEF CapInv, RoomInv, Pending, Active
<1>3. ASSUME NEW a \in Actor, InsertFact(a) PROVE RoomInv'
  <2>1. a \in Pending /\ Pending' \subseteq Pending /\ UNCHANGED crowd
    BY <1>1, <1>3 DEF InsertFact, Pending, history, TypeOK
  <2> QED BY <1>3, <2>1, RoomIsKept
<1>4. ASSUME NEW w \in Worker, WorkerStep(w) PROVE RoomInv'
  <2>1. CASE InsertFact(w)
    BY <1>3, <2>1, MinersApart
  <2>2. ASSUME NEW k \in Key, UpsertFact(w, k) PROVE RoomInv'
    BY <2>2, MinersApart, RoomIsFound DEF UpsertFact
  <2>3. CASE ~InsertFact(w) /\ \A k \in Key : ~UpsertFact(w, k)
    BY <1>1, <1>4, <2>3, WorkersInsert, RoomIsKept
  <2> QED BY <2>1, <2>2, <2>3
<1>5. ASSUME NEW e \in Editor, EditStep(e) PROVE RoomInv'
  <2>1. CASE InsertFact(e)
    BY <1>3, <2>1, MinersApart
  <2>2. ASSUME NEW k \in Key, EditFact(e, k) PROVE RoomInv'
    BY <2>2, MinersApart, RoomIsFound DEF EditFact
  <2> QED BY <1>5, <2>1, <2>2 DEF EditStep
<1>6. ASSUME NEW x \in Extraction, ExtractStep(x) PROVE RoomInv'
  BY <1>1, <1>2, <1>6, ExtractionsApart
<1>7. ASSUME World PROVE RoomInv'
  <2>1. ASSUME NEW t \in Target, Tell(t) \/ Retire(t) \/ AnswerQuestions(t) \/ Suppress(t)
        PROVE  RoomInv'
    BY <1>2, <2>1 DEF Tell, Retire, AnswerQuestions, Suppress, locals, history
  <2>2. ASSUME NEW a \in Actor, InsertFails(a) PROVE RoomInv'
    <3>1. UNCHANGED <<crowd, facts>> /\ Pending' \subseteq Pending
      BY <1>1, <2>2 DEF InsertFails, Pending, history, TypeOK
    <3> QED BY <3>1, RoomIsKept
  <2> QED BY <1>7, <2>1, <2>2 DEF World
<1>8. ASSUME UNCHANGED vars PROVE RoomInv'
  BY <1>2, <1>8 DEF vars, locals, history
<1>9. RoomInv'
  BY <1>4, <1>5, <1>6, <1>7, <1>8 DEF Next, Work, Edit, Extract, WorkerStep, EditStep, ExtractStep
<1> QED BY <1>1, <1>9 DEF CapInv

\* Active facts exceed the cap by at most the upserts that stood between their
\* count and their INSERT at one time, less one; alone, they never exceed it.
THEOREM CapIsKept == Spec => []FactsWithinCap
<1>1. Init => CapInv
  <2> SUFFICES ASSUME Init PROVE CapInv
    OBVIOUS
  <2>1. Pending = {} /\ Active = {}
    BY DEF Init, Pending, Active
  <2>2. Cardinality(Pending) = 0 /\ Cardinality(Active) = 0
    BY <2>1, FS_EmptySet
  <2> QED BY <2>2, InitTyped DEF Init, CapInv, RoomInv
<1>2. CapInv /\ [Next]_vars => CapInv'
  BY CapKept
<1>3. CapInv => FactsWithinCap
  <2> SUFFICES ASSUME CapInv PROVE FactsWithinCap
    OBVIOUS
  <2>1. crowd \in Nat /\ Cap \in Nat /\ Cardinality(Pending) \in Nat /\ Cardinality(Active) \in Nat
    BY ConstantsAssumption, Counted DEF CapInv, TypeInv, TypeOK
  <2> QED BY <2>1 DEF CapInv, RoomInv, FactsWithinCap
<1> QED BY <1>1, <1>2, <1>3, PTL DEF Spec

-----------------------------------------------------------------------------
(* The answers of the onboarding.  A run that is about to record a summary    *)
(* either is the first, and mines them, or another one is recorded already.   *)

Recording == {"llm", "write"}
FirstKnown ==
    \A w \in Worker : at[w] \in Recording /\ KindOf(job[w]) = "summary"
                          => first[w] \/ ~IsFirstSummary

MinedInv == TypeInv /\ FirstKnown /\ UnminedNeedsAMishap

\* Records no summary but over another, and loses no answers a first run holds
\* without a word.
Careful(w) ==
    /\ \/ processed' = processed
       \/ /\ processed' = processed \cup {job[w]}
          /\ \/ ~IsFirstSummary
             \/ job[w] \in Job /\ KindOf(job[w]) # "summary"
    /\ mined => mined'
    /\ dropped => dropped'
    /\ (first[w] /\ at[w] = "extract")
          => \/ mined' \/ dropped'
             \/ first'[w] /\ at'[w] = "extract"
    /\ (at'[w] \in Recording /\ KindOf(job'[w]) = "summary")
          => \/ first'[w] = IsFirstSummary
             \/ at[w] \in Recording /\ job'[w] = job[w] /\ first'[w] = first[w]

\* Only PersistSummary records a summary that may be the first.
LEMMA SummaryMoves ==
    ASSUME TypeInv, NEW w \in Worker, WorkerStep(w)
    PROVE  Careful(w) \/ PersistSummary(w)
<1> USE DEF Recording, sqs, history
<1>1. /\ at \in [Actor \cup Extraction -> Places] /\ job \in [Worker -> Job \cup {None}]
      /\ first \in [Worker -> BOOLEAN] /\ w \in Actor \cup Extraction
      /\ BusyAt(w)
  BY MinersApart DEF TypeInv, TypeOK, Places, Busy
<1>2. ASSUME Run(w) PROVE Careful(w)
  <2>1. ASSUME NEW j \in Job, Take(w, j) PROVE Careful(w)
    BY <1>1, <2>1 DEF Careful, Take, Goto
  <2>2. CASE Check(w)
    BY <1>1, <2>2 DEF Careful, Check, Goto
  <2>3. CASE PushEmbeddings(w)
    BY <1>1, <2>3 DEF Careful, PushEmbeddings, Goto
  <2>4. CASE Ack(w)
    BY <1>1, <2>4 DEF Careful, Ack, Drop
  <2>5. CASE TimesOut(w)
    BY <1>1, <2>5 DEF Careful, TimesOut, Drop
  <2>6. CASE Errs(w)
    <3>1. at'[w] = "ack" /\ at[w] = "llm" /\ UNCHANGED <<mined, dropped>>
      BY <1>1, <2>6 DEF Errs, Goto
    <3>2. \/ processed' = processed
          \/ /\ processed' = processed \cup {job[w]}
             /\ job[w] \in Job /\ KindOf(job[w]) # "summary"
      BY <1>1, <2>6 DEF Errs, Is, Producers, BusyAt
    <3> QED BY <3>1, <3>2 DEF Careful
  <2>7. CASE Die(w)
    <3>1. at'[w] = "idle" /\ processed' = processed /\ mined' = mined
      BY <1>1, <2>7 DEF Die, Drop
    <3>2. dropped' = (dropped \/ (first[w] /\ at[w] = "extract"))
      BY <2>7 DEF Die
    <3> QED BY <3>1, <3>2 DEF Careful
  <2> QED BY <1>2, <2>1, <2>2, <2>3, <2>4, <2>5, <2>6, <2>7 DEF Run
<1>3. ASSUME ProducerRun(w) PROVE Careful(w)
  <2>1. /\ KindOf(job[w]) \in Producers /\ job[w] \in Job /\ at[w] # "extract"
        /\ mined' = mined /\ dropped' = dropped
    BY <1>1, <1>3 DEF ProducerRun, ReadTargets, Generate, PersistQuestions, TargetGone,
          Is, BusyAt
  <2>2. processed' = processed \/ processed' = processed \cup {job[w]}
    BY <1>3 DEF ProducerRun, ReadTargets, Generate, PersistQuestions, TargetGone, Commit
  <2>3. job' = job \/ at'[w] = "idle"
    BY <1>1, <1>3 DEF ProducerRun, ReadTargets, Generate, PersistQuestions, TargetGone, Drop
  <2> QED BY <2>1, <2>2, <2>3 DEF Producers, Careful
<1>4. ASSUME SynthesizerRun(w) PROVE Careful(w)
  <2>1. /\ KindOf(job[w]) = "traits" /\ job[w] \in Job /\ at[w] # "extract"
        /\ mined' = mined /\ dropped' = dropped /\ job' = job
    BY <1>1, <1>4 DEF SynthesizerRun, ReadTraits, Synthesize, BeginTraits, PersistSynthesis,
          Is, BusyAt
  <2>2. processed' = processed \/ processed' = processed \cup {job[w]}
    BY <1>4 DEF SynthesizerRun, ReadTraits, Synthesize, BeginTraits, PersistSynthesis, Commit
  <2> QED BY <2>1, <2>2 DEF Careful
<1>5. ASSUME ReadSummary(w) PROVE Careful(w)
  <2>1. /\ at[w] = "read" /\ job' = job /\ mined' = mined /\ dropped' = dropped
        /\ first'[w] = IsFirstSummary
    BY <1>1, <1>5 DEF ReadSummary
  <2>2. \/ processed' = processed
        \/ ~IsFirstSummary /\ processed' = processed \cup {job[w]}
    BY <1>5 DEF ReadSummary
  <2> QED BY <2>1, <2>2 DEF Careful
<1>6. ASSUME GenerateSummary(w) PROVE Careful(w)
  BY <1>6 DEF GenerateSummary, Careful
<1>7. ASSUME ExtractFacts(w) PROVE Careful(w)
  <2>1. at'[w] = "facts" /\ processed' = processed /\ dropped' = dropped
    BY <1>1, <1>7 DEF ExtractFacts, Goto
  <2>2. mined' = (mined \/ first[w])
    BY <1>7 DEF ExtractFacts
  <2> QED BY <2>1, <2>2 DEF Careful
<1>8. ASSUME ExtractErrs(w) PROVE Careful(w)
  <2>1. at'[w] = "facts" /\ processed' = processed /\ mined' = mined
    BY <1>1, <1>8 DEF ExtractErrs, Goto
  <2>2. dropped' = (dropped \/ first[w])
    BY <1>8 DEF ExtractErrs
  <2> QED BY <2>1, <2>2 DEF Careful
<1>9. ASSUME (\E k \in Key : UpsertFact(w, k)) \/ InsertFact(w) \/ FactsDone(w)
      PROVE  Careful(w)
  <2>1. /\ UNCHANGED <<processed, mined, dropped, job, first>>
        /\ at'[w] = at[w] \/ (at[w] = "facts" /\ at'[w] = "ack")
    BY <1>1, <1>9 DEF UpsertFact, InsertFact, FactsDone, Goto
  <2> QED BY <2>1 DEF Careful
<1> QED BY <1>2, <1>3, <1>4, <1>5, <1>6, <1>7, <1>8, <1>9 DEF WorkerStep, SummaryRun

LEMMA MinedKept ==
    ASSUME MinedInv, [Next]_vars
    PROVE  MinedInv'
<1>1. TypeInv' /\ TypeInv /\ TypeOK /\ FirstKnown /\ UnminedNeedsAMishap
  BY TypeInvKept DEF MinedInv, TypeInv
<1>2. ASSUME NEW w \in Worker, WorkerStep(w) PROVE FirstKnown' /\ UnminedNeedsAMishap'
  <2>1. /\ at \in [Actor \cup Extraction -> Places] /\ first \in [Worker -> BOOLEAN]
        /\ w \in Actor \cup Extraction /\ BusyAt(w)
    BY <1>1, MinersApart DEF TypeInv, TypeOK, Places, Busy
  <2>2. \A v \in Worker \ {w} : at'[v] = at[v] /\ job'[v] = job[v] /\ first'[v] = first[v]
    BY <1>1, <1>2, WorkersApart
  <2>3. CASE PersistSummary(w)
    <3>1. /\ at[w] = "write" /\ KindOf(job[w]) = "summary" /\ at'[w] = "extract"
          /\ UNCHANGED <<first, mined, dropped>> /\ processed' = processed \cup {job[w]}
      BY <2>1, <2>3 DEF PersistSummary, Commit, Is, Goto
    <3>2. job[w] \in processed' /\ (~IsFirstSummary)'
      BY <3>1 DEF IsFirstSummary
    <3>3. FirstKnown'
      BY <3>2 DEF FirstKnown
    <3>4. first[w] \/ \E j \in processed : KindOf(j) = "summary"
      BY <1>1, <3>1 DEF FirstKnown, Recording, IsFirstSummary
    <3>5. UnminedNeedsAMishap'
      BY <1>1, <2>1, <2>2, <3>1, <3>4 DEF UnminedNeedsAMishap
    <3> QED BY <3>3, <3>5
  <2>4. CASE ~PersistSummary(w)
    <3>1. Careful(w)
      BY <1>1, <1>2, <2>4, SummaryMoves
    <3>2. /\ ~IsFirstSummary => (~IsFirstSummary)'
          /\ (\E j \in processed' : KindOf(j) = "summary")
                => \E j \in processed : KindOf(j) = "summary"
      BY <3>1 DEF IsFirstSummary, Careful
    <3>3. FirstKnown'
      <4> SUFFICES ASSUME NEW v \in Worker, at'[v] \in Recording, KindOf(job'[v]) = "summary"
                   PROVE  first'[v] \/ (~IsFirstSummary)'
        BY DEF FirstKnown
      <4>1. CASE v = w
        BY <1>1, <2>1, <3>1, <3>2, <4>1 DEF FirstKnown, Careful
      <4>2. CASE v # w
        BY <1>1, <2>2, <3>2, <4>2 DEF FirstKnown
      <4> QED BY <4>1, <4>2
    <3>4. UnminedNeedsAMishap'
      BY <1>1, <2>2, <3>1, <3>2 DEF UnminedNeedsAMishap, Careful
    <3> QED BY <3>3, <3>4
  <2> QED BY <2>3, <2>4
<1>3. ASSUME UNCHANGED <<processed, mined, dropped, job, first>>,
             \A w \in Worker : at'[w] = at[w]
      PROVE  FirstKnown' /\ UnminedNeedsAMishap'
  BY <1>1, <1>3 DEF FirstKnown, UnminedNeedsAMishap, IsFirstSummary
<1>4. ASSUME NEW x \in Extraction, ExtractStep(x) PROVE FirstKnown' /\ UnminedNeedsAMishap'
  BY <1>1, <1>3, <1>4, ExtractionsApart, MinersApart DEF sqs
<1>5. ASSUME (\E e \in Editor : EditStep(e)) \/ World PROVE FirstKnown' /\ UnminedNeedsAMishap'
  BY <1>1, <1>3, <1>5, EditsApart, MinersApart DEF sqs
<1>6. ASSUME UNCHANGED vars PROVE FirstKnown' /\ UnminedNeedsAMishap'
  BY <1>3, <1>6 DEF vars, sqs, locals, history
<1>7. FirstKnown' /\ UnminedNeedsAMishap'
  BY <1>2, <1>4, <1>5, <1>6 DEF Next, Work, Edit, Extract, WorkerStep, EditStep, ExtractStep
<1> QED BY <1>1, <1>7 DEF MinedInv

\* Once a summary is recorded, the answers of the onboarding are mined, about to
\* be, or lost with a worker or an LLM error.
THEOREM AnswersAreMined == Spec => []UnminedNeedsAMishap
<1>1. Init => MinedInv
  <2> SUFFICES ASSUME Init PROVE MinedInv
    OBVIOUS
  <2>1. \A w \in Worker : at[w] = "idle"
    BY MinersApart DEF Init
  <2> QED BY <2>1, InitTyped DEF MinedInv, Init, FirstKnown, Recording, UnminedNeedsAMishap
<1>2. MinedInv /\ [Next]_vars => MinedInv'
  BY MinedKept
<1>3. MinedInv => UnminedNeedsAMishap
  BY DEF MinedInv
<1> QED BY <1>1, <1>2, <1>3, PTL DEF Spec

-----------------------------------------------------------------------------
(* Nothing is written twice without a race.  What a worker or an extraction  *)
(* is about to write is new when it decides, and nobody else is about to      *)
(* write it, but for the subjects raced counts.                               *)

\* S is what each m of M is about to write, old what is there already.
Apart(M, S, old, r) ==
    /\ \A m \in M : S[m] \cap old \subseteq r
    /\ \A m \in M, n \in M : m # n => S[m] \cap S[n] \subseteq r

\* A step of one of them keeps them apart if what it adds to its own is new and
\* nobody else's, and what becomes old was its own or is nobody's.
LEMMA ApartKept ==
    ASSUME NEW M, NEW S, NEW S2, NEW old, NEW old2, NEW r, NEW r2, NEW w,
           Apart(M, S, old, r), r \subseteq r2,
           \A m \in M : m # w => S2[m] \subseteq S[m],
           w \in M => \A t \in S2[w] : \/ t \in S[w] \/ t \in r2
                                       \/ t \notin old2 /\ \A m \in M : m # w => t \notin S[m],
           \A t \in old2 : \/ t \in old \/ t \in r2
                           \/ w \in M /\ t \in S[w] /\ t \notin S2[w]
                           \/ \A m \in M : t \notin S2[m]
    PROVE  Apart(M, S2, old2, r2)
<1>1. ASSUME NEW m \in M, NEW t \in S2[m] \cap old2 PROVE t \in r2
  <2>1. CASE m = w
    <3>1. CASE t \in S[w]
      BY <1>1, <2>1, <3>1 DEF Apart
    <3>2. CASE t \notin S[w]
      BY <1>1, <2>1, <3>2
    <3> QED BY <3>1, <3>2
  <2>2. CASE m # w
    <3>1. t \in S[m]
      BY <1>1, <2>2
    <3>2. CASE w \in M /\ t \in S[w]
      BY <2>2, <3>1, <3>2 DEF Apart
    <3>3. CASE t \in old
      BY <3>1, <3>3 DEF Apart
    <3> QED BY <1>1, <3>1, <3>2, <3>3
  <2> QED BY <2>1, <2>2
<1>2. ASSUME NEW m \in M, m # w, NEW n \in M, m # n, NEW t \in S2[m] \cap S2[n]
      PROVE t \in r2
  <2>1. t \in S[m]
    BY <1>2
  <2>2. CASE n = w
    BY <1>2, <2>1, <2>2 DEF Apart
  <2>3. CASE n # w
    BY <1>2, <2>1, <2>3 DEF Apart
  <2> QED BY <2>2, <2>3
<1>3. ASSUME NEW m \in M, NEW n \in M, m # n PROVE S2[m] \cap S2[n] \subseteq r2
  <2>1. CASE m # w
    BY <1>2, <1>3, <2>1
  <2>2. CASE n # w
    BY <1>2, <1>3, <2>2
  <2> QED BY <1>3, <2>1, <2>2
<1> QED BY <1>1, <1>3 DEF Apart

LEMMA RacedGrows ==
    ASSUME TypeOK, [Next]_vars
    PROVE  raced \subseteq raced'
<1> USE DEF history
<1>1. ASSUME NEW w \in Worker, WorkerStep(w) PROVE raced \subseteq raced'
  <2>1. CASE Run(w)
    BY <2>1 DEF Run, Take, Check, PushEmbeddings, Ack, TimesOut, Errs, Die
  <2>2. CASE ProducerRun(w)
    BY <2>2 DEF ProducerRun, ReadTargets, Generate, PersistQuestions, TargetGone
  <2>3. CASE SynthesizerRun(w)
    BY <2>3 DEF SynthesizerRun, ReadTraits, Synthesize, BeginTraits, PersistSynthesis
  <2>4. CASE SummaryRun(w)
    BY <2>4 DEF SummaryRun, ReadSummary, GenerateSummary, PersistSummary, ExtractFacts,
          ExtractErrs, UpsertFact, InsertFact, FactsDone
  <2> QED BY <1>1, <2>1, <2>2, <2>3, <2>4 DEF WorkerStep
<1>2. ASSUME NEW x \in Extraction, ExtractStep(x) PROVE raced \subseteq raced'
  BY <1>2 DEF ExtractStep, ResolveTraitMerges, DroppedReferences, InsertTraits, ExtractionFails
<1>3. ASSUME NEW e \in Editor, EditStep(e) PROVE raced \subseteq raced'
  BY <1>3 DEF EditStep, EditFact, InsertFact
<1>4. CASE World
  BY <1>4 DEF World, Tell, Retire, AnswerQuestions, Suppress, InsertFails
<1>5. CASE UNCHANGED vars
  BY <1>5 DEF vars
<1> QED BY <1>1, <1>2, <1>3, <1>4, <1>5 DEF Next, Work, Edit, Extract, WorkerStep, EditStep, ExtractStep

(* Questions about a target.                                               *)

Asking(w)  == at[w] \in {"llm", "write"} /\ KindOf(job[w]) \in Producers
Planned    == [w \in Worker |-> IF Asking(w) THEN plan[w] ELSE {}]
AlreadyAsked == {t \in Target : Covered(t)}
Batches    == Apart(Worker, Planned, AlreadyAsked, raced)

\* Only two steps of a worker bear on what is asked about the targets.
LEMMA BatchMoves ==
    ASSUME TypeInv, NEW w \in Worker, WorkerStep(w)
    PROVE  \/ ReadTargets(w)
           \/ PersistQuestions(w)
           \/ /\ UNCHANGED <<open, quiet>>
              /\ Asking(w)' => Asking(w) /\ plan'[w] \subseteq plan[w]
<1> USE DEF Asking, sqs, graph
<1>1. /\ at \in [Actor \cup Extraction -> Places] /\ job \in [Worker -> Job \cup {None}]
      /\ plan \in [Miner -> SUBSET Subject]
      /\ w \in Actor \cup Extraction /\ w \in Miner /\ BusyAt(w)
  BY MinersApart DEF TypeInv, TypeOK, Places, Subject, Busy
<1>2. CASE Run(w)
  <2>1. UNCHANGED <<open, quiet>>
    BY <1>2 DEF Run, Take, Check, PushEmbeddings, Ack, TimesOut, Errs, Die
  <2>2. at'[w] \in {"idle", "check", "read", "ack"}
    BY <1>1, <1>2 DEF Run, Take, Check, PushEmbeddings, Ack, TimesOut, Errs, Die, Goto, Drop
  <2> QED BY <2>1, <2>2
<1>3. CASE Generate(w)
  <2>1. UNCHANGED <<open, quiet>> /\ Asking(w)
    BY <1>3 DEF Generate, Is
  <2>2. plan'[w] \subseteq plan[w]
    BY <1>1, <1>3 DEF Generate, Asked
  <2> QED BY <2>1, <2>2
<1>4. CASE TargetGone(w)
  <2>1. UNCHANGED <<open, quiet>> /\ at'[w] = "idle"
    BY <1>1, <1>4 DEF TargetGone, Drop
  <2> QED BY <2>1
<1>5. CASE SynthesizerRun(w)
  <2>1. KindOf(job[w]) = "traits" /\ job' = job /\ UNCHANGED <<open, quiet>>
    BY <1>1, <1>5 DEF SynthesizerRun, ReadTraits, Synthesize, BeginTraits, PersistSynthesis,
          Is, BusyAt
  <2> QED BY <2>1 DEF Producers
<1>6. CASE ReadSummary(w) \/ GenerateSummary(w) \/ PersistSummary(w)
  <2>1. KindOf(job[w]) = "summary" /\ job' = job /\ UNCHANGED <<open, quiet>>
    BY <1>1, <1>6 DEF ReadSummary, GenerateSummary, PersistSummary, Is
  <2> QED BY <2>1 DEF Producers
<1>7. CASE \/ ExtractFacts(w) \/ ExtractErrs(w)
           \/ \E k \in Key : UpsertFact(w, k)
           \/ FactsDone(w)
  <2>1. at'[w] \in {"facts", "ack"} /\ UNCHANGED <<open, quiet>>
    BY <1>1, <1>7 DEF ExtractFacts, ExtractErrs, UpsertFact, FactsDone, Goto
  <2> QED BY <2>1
<1>8. CASE InsertFact(w)
  BY <1>8 DEF InsertFact
<1> QED BY <1>2, <1>3, <1>4, <1>5, <1>6, <1>7, <1>8 DEF WorkerStep, ProducerRun, SummaryRun

LEMMA BatchesKept ==
    ASSUME TypeInv, Batches, [Next]_vars
    PROVE  Batches'
<1>1. TypeOK /\ raced \subseteq raced'
  BY RacedGrows DEF TypeInv
<1>2. ASSUME NEW w \in Worker, WorkerStep(w) PROVE Batches'
  <2>1. \A v \in Worker : v # w => Planned'[v] = Planned[v]
    BY <1>1, <1>2, WorkersApart, MinersApart DEF Planned, Asking
  <2>2. CASE ReadTargets(w)
    <3>1. /\ plan'[w] = Askable(KindOf(job[w])) /\ UNCHANGED <<open, quiet>>
          /\ raced' = raced \cup {t \in plan'[w] : \E v \in Worker \ {w} :
                                                Working(v) /\ t \in plan[v]}
      BY <1>1, <2>2, MinersApart DEF ReadTargets, TypeOK, graph
    <3>2. \A t \in plan'[w] : t \in Target /\ ~Covered(t)
      BY <2>2, <3>1 DEF ReadTargets, Is, Producers, Askable, Underdeveloped, Gaps,
            UnderCovered, Target
    <3>3. AlreadyAsked' = AlreadyAsked
      BY <3>1 DEF AlreadyAsked, Covered
    <3>4. \A v \in Worker : v # w => Planned[v] \cap plan'[w] \subseteq raced'
      BY <3>1 DEF Planned, Asking, Working
    <3>5. \A t \in Planned'[w] : t \in raced' \/ /\ t \notin AlreadyAsked'
                                                 /\ \A v \in Worker : v # w => t \notin Planned[v]
      BY <3>2, <3>3, <3>4 DEF Planned, AlreadyAsked
    <3>6. Apart(Worker, Planned', AlreadyAsked', raced')
      BY <1>1, <2>1, <3>3, <3>5, ApartKept DEF Batches
    <3> QED BY <3>6 DEF Batches
  <2>3. CASE PersistQuestions(w)
    <3>1. /\ Planned[w] = plan[w] /\ Planned'[w] = {} /\ quiet' = quiet
          /\ open' = [t \in Target |-> IF t \in plan[w] THEN open[t] + 1 ELSE open[t]]
      BY <1>1, <2>3, MinersApart DEF PersistQuestions, Is, Planned, Asking, TypeOK
    <3>2. \A t \in AlreadyAsked' : t \in AlreadyAsked \/ t \in Planned[w]
      BY <3>1 DEF AlreadyAsked, Covered
    <3>3. Apart(Worker, Planned', AlreadyAsked', raced')
      BY <1>1, <2>1, <3>1, <3>2, ApartKept DEF Batches
    <3> QED BY <3>3 DEF Batches
  <2>4. CASE /\ UNCHANGED <<open, quiet>>
             /\ Asking(w)' => Asking(w) /\ plan'[w] \subseteq plan[w]
    <3>1. AlreadyAsked' = AlreadyAsked
      BY <2>4 DEF AlreadyAsked, Covered
    <3>2. \A t \in Planned'[w] : t \in Planned[w]
      BY <2>4 DEF Planned
    <3>3. Apart(Worker, Planned', AlreadyAsked', raced')
      BY <1>1, <2>1, <3>1, <3>2, ApartKept DEF Batches
    <3> QED BY <3>3 DEF Batches
  <2> QED BY <1>2, <2>2, <2>3, <2>4, BatchMoves
<1>3. ASSUME UNCHANGED <<job, plan>>, \A v \in Worker : at'[v] = at[v],
             \A t \in AlreadyAsked' : \/ t \in AlreadyAsked \/ t \in raced'
                                      \/ \A v \in Worker : t \notin Planned[v]
      PROVE  Batches'
  <2>1. Planned' = Planned
    BY <1>3 DEF Planned, Asking
  <2>2. Apart(Worker, Planned', AlreadyAsked', raced')
    BY <1>1, <1>3, <2>1, ApartKept DEF Batches
  <2> QED BY <2>2 DEF Batches
<1>4. ASSUME NEW x \in Extraction, ExtractStep(x) PROVE Batches'
  <2>1. /\ UNCHANGED <<job, open, quiet>>
        /\ \A v \in Worker : at'[v] = at[v] /\ plan'[v] = plan[v]
    BY <1>1, <1>4, ExtractionsApart, MinersApart
  <2>2. Planned' = Planned /\ AlreadyAsked' = AlreadyAsked
    BY <2>1 DEF Planned, Asking, AlreadyAsked, Covered
  <2>3. Apart(Worker, Planned', AlreadyAsked', raced')
    BY <1>1, <2>2, ApartKept DEF Batches
  <2> QED BY <2>3 DEF Batches
<1>5. ASSUME NEW e \in Editor, EditStep(e) PROVE Batches'
  <2>1. UNCHANGED <<open, quiet>>
    BY <1>5 DEF EditStep, EditFact, InsertFact, graph
  <2>2. UNCHANGED <<job, plan>> /\ \A v \in Worker : at'[v] = at[v]
    BY <1>1, <1>5, EditsApart, MinersApart
  <2>3. AlreadyAsked' = AlreadyAsked
    BY <2>1 DEF AlreadyAsked, Covered
  <2> QED BY <1>3, <2>2, <2>3
<1>6. CASE World
  <2>1. UNCHANGED <<job, plan>> /\ \A v \in Worker : at'[v] = at[v]
    BY <1>1, <1>6, EditsApart, MinersApart
  <2>2. ASSUME NEW u \in AlreadyAsked'
        PROVE  \/ u \in AlreadyAsked \/ u \in raced'
               \/ \A v \in Worker : u \notin Planned[v]
    <3>1. ASSUME NEW t \in Target, AnswerQuestions(t) PROVE u \in AlreadyAsked
      BY <1>1, <2>2, <3>1 DEF AnswerQuestions, AlreadyAsked, Covered, TypeOK
    <3>2. ASSUME NEW t \in Target, Suppress(t), u \notin AlreadyAsked PROVE u = t
      BY <2>2, <3>2 DEF Suppress, AlreadyAsked, Covered
    <3>3. ASSUME NEW t \in Target, Suppress(t), t \notin raced'
          PROVE  \A v \in Worker : t \notin Planned[v]
      BY <3>3 DEF Suppress, Planned, Asking, Working
    <3>4. ASSUME NEW t \in Target, Tell(t) \/ Retire(t) PROVE u \in AlreadyAsked
      BY <2>2, <3>4 DEF Tell, Retire, AlreadyAsked, Covered
    <3>5. ASSUME NEW a \in Actor, InsertFails(a) PROVE u \in AlreadyAsked
      BY <2>2, <3>5 DEF InsertFails, AlreadyAsked, Covered, graph
    <3> QED BY <1>6, <3>1, <3>2, <3>3, <3>4, <3>5 DEF World
  <2> QED BY <1>3, <2>1, <2>2
<1>7. CASE UNCHANGED vars
  <2>1. UNCHANGED <<job, plan, at>> /\ AlreadyAsked' = AlreadyAsked
    BY <1>7 DEF vars, locals, graph, AlreadyAsked, Covered
  <2> QED BY <1>3, <2>1
<1> QED BY <1>2, <1>4, <1>5, <1>6, <1>7 DEF Next, Work, Edit, Extract, WorkerStep, EditStep, ExtractStep

(* Questions about what somebody dropped.                                  *)

Mining  == [x \in Extraction |-> IF at[x] = "mining" THEN plan[x] \cap Phrase ELSE {}]
AskedPhrases == {p \in Phrase : asked[p] > 0}
Phrases == Apart(Extraction, Mining, AskedPhrases, raced)

LEMMA PhrasesKept ==
    ASSUME TypeInv, Phrases, [Next]_vars
    PROVE  Phrases'
<1>1. TypeOK /\ raced \subseteq raced'
  BY RacedGrows DEF TypeInv
<1>2. ASSUME NEW x \in Extraction, ExtractStep(x) PROVE Phrases'
  <2>1. \A y \in Extraction : y # x => Mining'[y] = Mining[y]
    BY <1>1, <1>2, ExtractionsApart, MinersApart DEF Mining
  <2>2. /\ at \in [Actor \cup Extraction -> Places] /\ plan \in [Miner -> SUBSET Subject]
        /\ x \in Actor \cup Extraction /\ x \in Miner
    BY <1>1, MinersApart DEF TypeOK, Places, Subject
  <2>3. CASE ResolveTraitMerges(x) \/ ExtractionFails(x)
    <3>1. at'[x] # "mining" /\ asked' = asked
      BY <2>2, <2>3 DEF ResolveTraitMerges, ExtractionFails, Goto, graph
    <3>2. Mining'[x] = {} /\ AskedPhrases' = AskedPhrases
      BY <3>1 DEF Mining, AskedPhrases
    <3>3. Apart(Extraction, Mining', AskedPhrases', raced')
      BY <1>1, <2>1, <3>1, <3>2, ApartKept DEF Phrases
    <3> QED BY <3>3 DEF Phrases
  <2>4. CASE DroppedReferences(x)
    <3> DEFINE ask == {p \in plan[x] \cap Phrase : asked[p] = 0}
    <3>1. /\ asked' = asked /\ plan'[x] = (plan[x] \cap Trait) \cup ask
          /\ raced' = raced \cup {p \in ask : \E y \in Extraction \ {x} :
                                                at[y] = "mining" /\ p \in plan[y]}
      BY <2>2, <2>4 DEF DroppedReferences, graph
    <3>2. Mining'[x] \subseteq ask
      BY <3>1, ConstantsAssumption DEF Mining
    <3>3. \A p \in ask : p \in raced' \/ /\ p \notin AskedPhrases'
                                         /\ \A y \in Extraction : y # x => p \notin Mining[y]
      BY <3>1 DEF Mining, AskedPhrases
    <3>4. AskedPhrases' = AskedPhrases
      BY <3>1 DEF AskedPhrases
    <3> HIDE DEF ask
    <3>5. Apart(Extraction, Mining', AskedPhrases', raced')
      BY <1>1, <2>1, <3>2, <3>3, <3>4, ApartKept DEF Phrases
    <3> QED BY <3>5 DEF Phrases
  <2>5. CASE InsertTraits(x)
    <3>1. /\ Mining[x] = plan[x] \cap Phrase /\ Mining'[x] = {}
          /\ asked' = [p \in Phrase |-> IF p \in plan[x] THEN asked[p] + 1 ELSE asked[p]]
      BY <2>2, <2>5 DEF InsertTraits, Mining, Goto
    <3>2. \A p \in AskedPhrases' : p \in AskedPhrases \/ p \in Mining[x]
      BY <3>1 DEF AskedPhrases
    <3>3. Apart(Extraction, Mining', AskedPhrases', raced')
      BY <1>1, <2>1, <3>1, <3>2, ApartKept DEF Phrases
    <3> QED BY <3>3 DEF Phrases
  <2> QED BY <1>2, <2>3, <2>4, <2>5 DEF ExtractStep
<1>3. ASSUME asked' = asked, \A x \in Extraction : at'[x] = at[x] /\ plan'[x] = plan[x]
      PROVE  Phrases'
  <2>1. Mining' = Mining /\ AskedPhrases' = AskedPhrases
    BY <1>3 DEF Mining, AskedPhrases
  <2>2. Apart(Extraction, Mining', AskedPhrases', raced')
    BY <1>1, <2>1, ApartKept DEF Phrases
  <2> QED BY <2>2 DEF Phrases
<1>4. ASSUME NEW w \in Worker, WorkerStep(w) PROVE Phrases'
  <2>1. asked' = asked
    <3>1. CASE Run(w)
      BY <3>1 DEF Run, Take, Check, PushEmbeddings, Ack, TimesOut, Errs, Die, graph
    <3>2. CASE ProducerRun(w)
      BY <3>2 DEF ProducerRun, ReadTargets, Generate, PersistQuestions, TargetGone, graph
    <3>3. CASE SynthesizerRun(w)
      BY <3>3 DEF SynthesizerRun, ReadTraits, Synthesize, BeginTraits, PersistSynthesis, graph
    <3>4. CASE SummaryRun(w)
      BY <3>4 DEF SummaryRun, ReadSummary, GenerateSummary, PersistSummary, ExtractFacts,
            ExtractErrs, UpsertFact, InsertFact, FactsDone, graph
    <3> QED BY <1>4, <3>1, <3>2, <3>3, <3>4 DEF WorkerStep
  <2>2. \A x \in Extraction : at'[x] = at[x] /\ plan'[x] = plan[x]
    BY <1>1, <1>4, WorkersApart, MinersApart
  <2> QED BY <1>3, <2>1, <2>2
<1>5. ASSUME (\E e \in Editor : EditStep(e)) \/ World PROVE Phrases'
  BY <1>1, <1>3, <1>5, EditsApart, MinersApart
<1>6. CASE UNCHANGED vars
  BY <1>3, <1>6 DEF vars, locals, graph
<1> QED BY <1>2, <1>4, <1>5, <1>6 DEF Next, Work, Edit, Extract, WorkerStep, EditStep, ExtractStep

(* Rows for a trait name.                                                  *)

ToCreate(m) ==
    IF m \notin Worker THEN plan[m] \cap Trait
    ELSE IF at[m] = "trait" THEN {n \in plan[m] : seen[m][n] = 0} ELSE {}
Creating == [m \in Miner |-> ToCreate(m)]
Known    == {n \in Trait : rung[n] > 0}
Names    == Apart(Miner, Creating, Known, raced)

\* A name has a strength once it has a row; what a worker saw of the ladder is
\* not forgotten.
LadderStands ==
    /\ \A n \in Trait : rows[n] = 0 <=> rung[n] = 0
    /\ \A w \in Worker, n \in Trait : seen[w][n] > 0 => rung[n] > 0

\* Only two steps of a worker bear on what names exist or are to be created.
LEMMA NameMoves ==
    ASSUME TypeInv, NEW w \in Worker, WorkerStep(w)
    PROVE  \/ BeginTraits(w)
           \/ PersistSynthesis(w)
           \/ /\ UNCHANGED ladder
              /\ \A n \in Trait : seen'[w][n] \in {seen[w][n], rung[n], 0}
              /\ at'[w] = "trait" =>
                    at[w] = "trait" /\ plan'[w] = plan[w] /\ seen'[w] = seen[w]
<1> USE DEF sqs
<1>1. /\ at \in [Actor \cup Extraction -> Places] /\ seen \in [Worker -> [Trait -> 0..Rungs]]
      /\ plan \in [Miner -> SUBSET Subject]
      /\ w \in Actor \cup Extraction /\ w \in Miner /\ BusyAt(w)
  BY MinersApart DEF TypeInv, TypeOK, Places, Subject, Busy
<1>2. CASE (\E j \in Job : Take(w, j)) \/ Check(w) \/ PushEmbeddings(w) \/ Errs(w)
  <2>1. UNCHANGED <<ladder, seen>> /\ at'[w] # "trait"
    BY <1>1, <1>2 DEF Take, Check, PushEmbeddings, Errs, Goto
  <2> QED BY <2>1
<1>3. CASE Ack(w) \/ TimesOut(w) \/ Die(w) \/ TargetGone(w)
  <2>1. UNCHANGED ladder /\ at'[w] = "idle" /\ seen'[w] = [n \in Trait |-> 0]
    BY <1>1, <1>3 DEF Ack, TimesOut, Die, TargetGone, Drop
  <2> QED BY <2>1
<1>4. CASE ReadTargets(w) \/ Generate(w) \/ PersistQuestions(w)
  <2>1. UNCHANGED <<ladder, seen>> /\ at'[w] # "trait"
    BY <1>1, <1>4 DEF ReadTargets, Generate, PersistQuestions, Goto
  <2> QED BY <2>1
<1>5. CASE ReadTraits(w)
  <2>1. UNCHANGED ladder /\ at'[w] # "trait" /\ seen'[w] = rung
    BY <1>1, <1>5 DEF ReadTraits, Goto
  <2> QED BY <2>1
<1>6. CASE Synthesize(w)
  <2>1. UNCHANGED <<ladder, seen>> /\ at'[w] # "trait"
    BY <1>1, <1>6 DEF Synthesize, Goto
  <2> QED BY <2>1
<1>7. CASE \/ ReadSummary(w) \/ GenerateSummary(w) \/ PersistSummary(w)
           \/ ExtractFacts(w) \/ ExtractErrs(w) \/ FactsDone(w)
  <2>1. UNCHANGED <<ladder, seen>> /\ at'[w] # "trait"
    BY <1>1, <1>7 DEF ReadSummary, GenerateSummary, PersistSummary, ExtractFacts, ExtractErrs,
          FactsDone, Goto
  <2> QED BY <2>1
<1>8. CASE \E k \in Key : UpsertFact(w, k)
  <2>1. UNCHANGED <<ladder, seen, at>> /\ at[w] = "facts"
    BY <1>8 DEF UpsertFact
  <2> QED BY <2>1
<1>9. CASE InsertFact(w)
  BY <1>9 DEF InsertFact
<1> QED BY <1>2, <1>3, <1>4, <1>5, <1>6, <1>7, <1>8, <1>9
        DEF WorkerStep, Run, ProducerRun, SynthesizerRun, SummaryRun

LEMMA NamesKept ==
    ASSUME TypeInv, Names, LadderStands, [Next]_vars
    PROVE  Names' /\ LadderStands'
<1>1. /\ TypeOK /\ raced \subseteq raced'
      /\ at \in [Actor \cup Extraction -> Places] /\ plan \in [Miner -> SUBSET Subject]
      /\ seen \in [Worker -> [Trait -> 0..Rungs]]
      /\ rung \in [Trait -> 0..Rungs] /\ rows \in [Trait -> Nat] /\ Rungs \in Nat
  BY RacedGrows, ConstantsAssumption DEF TypeInv, TypeOK, Places, Subject
<1>2. ASSUME NEW w \in Worker, WorkerStep(w) PROVE Names' /\ LadderStands'
  <2>1. /\ \A m \in Miner : m # w => Creating'[m] = Creating[m]
        /\ \A v \in Worker : v # w => seen'[v] = seen[v]
    BY <1>1, <1>2, WorkersApart DEF Creating, ToCreate
  <2>2. /\ w \in Actor \cup Extraction /\ w \in Miner
        /\ Creating[w] = ToCreate(w) /\ Creating'[w] = ToCreate(w)'
    BY MinersApart DEF Creating
  <2>3. CASE BeginTraits(w)
    <3>1. /\ plan[w] \subseteq Trait /\ seen'[w] = rung /\ UNCHANGED ladder
          /\ plan'[w] = {n \in plan[w] : seen[w][n] = 0 => rung[n] = 0}
          /\ raced' = raced \cup {n \in plan[w] : \E v \in Worker \ {w} :
                                at[v] = "trait" /\ n \in plan[v]}
                       \cup {n \in plan[w] : \E x \in Extraction : n \in plan[x]}
      BY <1>1, <2>2, <2>3 DEF BeginTraits, Is, TypeInv, Busy, BusyAt
    <3>2. Known' = Known
      BY <3>1 DEF Known, ladder
    <3>3. \A n \in Creating'[w] : n \in plan[w] /\ n \notin Known'
      BY <1>1, <2>2, <3>1 DEF ToCreate, Known, ladder
    <3>4. \A m \in Miner : m # w => Creating[m] \cap plan[w] \subseteq raced'
      BY <3>1, MinersApart DEF Creating, ToCreate
    <3>5. Apart(Miner, Creating', Known', raced')
      BY <1>1, <2>1, <3>2, <3>3, <3>4, ApartKept DEF Names
    <3>6. LadderStands'
      BY <1>1, <2>1, <3>1 DEF LadderStands, ladder
    <3> QED BY <3>5, <3>6 DEF Names
  <2>4. CASE PersistSynthesis(w)
    <3>1. /\ at[w] = "trait" /\ plan[w] \subseteq Trait
          /\ at'[w] = "push" /\ seen' = seen
          /\ rows' = [n \in Trait |-> IF n \in plan[w] /\ seen[w][n] = 0
                                      THEN rows[n] + 1 ELSE rows[n]]
      BY <1>1, <2>2, <2>4 DEF PersistSynthesis, Goto, TypeInv, Busy, BusyAt
    <3>2. \A n \in Trait : \/ n \notin plan[w] /\ rung'[n] = rung[n]
                           \/ n \in plan[w] /\ rung'[n] > 0
      <4>1. PICK to \in [plan[w] -> 0..Rungs + 1] :
               /\ \A n \in plan[w] : to[n] \in IF seen[w][n] = 0 THEN 1..Rungs
                                                            ELSE LadderStep(seen[w][n])
               /\ rung' = [n \in Trait |-> IF n \in plan[w] THEN to[n] ELSE rung[n]]
        BY <2>4 DEF PersistSynthesis
      <4>2. \A n \in plan[w] : to[n] \in 1..Rungs
        BY <4>1 DEF LadderStep
      <4> QED BY <1>1, <4>1, <4>2
    <3>3. Creating'[w] = {} /\ Creating[w] = {n \in plan[w] : seen[w][n] = 0}
      BY <2>2, <3>1 DEF ToCreate
    <3>4. \A n \in Known' : n \in Known \/ n \in Creating[w]
      <4> SUFFICES ASSUME NEW n \in Known', n \in plan[w], seen[w][n] # 0 PROVE n \in Known
        BY <3>2, <3>3 DEF Known
      <4>1. n \in Trait /\ seen[w][n] > 0
        BY <1>1, <3>1
      <4> QED BY <4>1 DEF LadderStands, Known
    <3>5. Apart(Miner, Creating', Known', raced')
      BY <1>1, <2>1, <2>2, <3>3, <3>4, ApartKept DEF Names
    <3>6. LadderStands'
      <4>1. ASSUME NEW n \in Trait PROVE rows'[n] = 0 <=> rung'[n] = 0
        BY <1>1, <3>1, <3>2 DEF LadderStands
      <4>2. ASSUME NEW v \in Worker, NEW n \in Trait, seen'[v][n] > 0 PROVE rung'[n] > 0
        BY <1>1, <3>1, <3>2, <4>2 DEF LadderStands
      <4> QED BY <4>1, <4>2 DEF LadderStands
    <3> QED BY <3>5, <3>6 DEF Names
  <2>5. CASE /\ UNCHANGED ladder
             /\ \A n \in Trait : seen'[w][n] \in {seen[w][n], rung[n], 0}
             /\ at'[w] = "trait" =>
                   at[w] = "trait" /\ plan'[w] = plan[w] /\ seen'[w] = seen[w]
    <3>1. Known' = Known
      BY <2>5 DEF Known, ladder
    <3>2. \A n \in Creating'[w] : n \in Creating[w]
      BY <2>2, <2>5 DEF ToCreate
    <3>3. Apart(Miner, Creating', Known', raced')
      BY <1>1, <2>1, <3>1, <3>2, ApartKept DEF Names
    <3>4. LadderStands'
      BY <1>1, <2>1, <2>5 DEF LadderStands, ladder
    <3> QED BY <3>3, <3>4 DEF Names
  <2> QED BY <1>2, <2>3, <2>4, <2>5, NameMoves
<1>3. ASSUME NEW x \in Extraction, ExtractStep(x) PROVE Names' /\ LadderStands'
  <2>1. /\ \A m \in Miner : m # x => Creating'[m] = Creating[m]
        /\ seen' = seen
    BY <1>1, <1>3, ExtractionsApart DEF Creating, ToCreate
  <2>2. /\ x \in Actor \cup Extraction /\ x \in Miner
        /\ Creating[x] = plan[x] \cap Trait /\ Creating'[x] = plan'[x] \cap Trait
    BY MinersApart DEF Creating, ToCreate
  <2>3. CASE ResolveTraitMerges(x)
    <3>1. UNCHANGED ladder
      BY <2>3 DEF ResolveTraitMerges
    <3>2. PICK names \in SUBSET Trait, refs \in SUBSET Phrase :
             LET new == {n \in names : rung[n] = 0}
             IN  /\ plan' = [plan EXCEPT ![x] = new \cup refs]
                 /\ raced' = raced \cup {n \in new :
                       \E m \in Miner \ {x} : n \in plan[m]
                             /\ (m \in Worker => at[m] = "trait")}
      BY <2>3 DEF ResolveTraitMerges
    <3> DEFINE new == {n \in names : rung[n] = 0}
    <3>3. /\ Creating'[x] \subseteq new
          /\ \A n \in new : n \notin Known
          /\ raced' = raced \cup {n \in new : \E m \in Miner \ {x} :
                            n \in plan[m] /\ (m \in Worker => at[m] = "trait")}
      BY <1>1, <2>2, <3>2, ConstantsAssumption DEF Known
    <3> HIDE DEF new
    <3>4. \A m \in Miner : m # x => Creating[m] \cap new \subseteq raced'
      BY <3>3 DEF Creating, ToCreate
    <3>5. Known' = Known
      BY <3>1 DEF Known, ladder
    <3>6. Apart(Miner, Creating', Known', raced')
      BY <1>1, <2>1, <3>3, <3>4, <3>5, ApartKept DEF Names
    <3>7. LadderStands'
      BY <2>1, <3>1 DEF LadderStands, ladder
    <3> QED BY <3>6, <3>7 DEF Names
  <2>4. CASE DroppedReferences(x) \/ ExtractionFails(x)
    <3>1. UNCHANGED ladder /\ Creating'[x] \subseteq Creating[x]
      BY <1>1, <2>2, <2>4, ConstantsAssumption DEF DroppedReferences, ExtractionFails
    <3>2. Known' = Known
      BY <3>1 DEF Known, ladder
    <3>3. Apart(Miner, Creating', Known', raced')
      BY <1>1, <2>1, <3>1, <3>2, ApartKept DEF Names
    <3>4. LadderStands'
      BY <2>1, <3>1 DEF LadderStands, ladder
    <3> QED BY <3>3, <3>4 DEF Names
  <2>5. CASE InsertTraits(x)
    <3>1. /\ Creating'[x] = {}
          /\ \A n \in Trait : IF n \in plan[x] THEN rows'[n] > 0 ELSE rows'[n] = rows[n]
          /\ rung' = [n \in Trait |-> IF n \in plan[x] /\ rung[n] = 0 THEN 1 ELSE rung[n]]
      BY <1>1, <2>2, <2>5 DEF InsertTraits, Mentions
    <3>2. \A n \in Known' : n \in Known \/ n \in Creating[x]
      BY <1>1, <2>2, <3>1 DEF Known
    <3>3. Apart(Miner, Creating', Known', raced')
      BY <1>1, <2>1, <2>2, <3>1, <3>2, ApartKept DEF Names
    <3>4. LadderStands'
      <4>1. ASSUME NEW n \in Trait PROVE rows'[n] = 0 <=> rung'[n] = 0
        BY <1>1, <3>1 DEF LadderStands
      <4>2. ASSUME NEW v \in Worker, NEW n \in Trait, seen'[v][n] > 0 PROVE rung'[n] > 0
        BY <1>1, <2>1, <3>1, <4>2 DEF LadderStands
      <4> QED BY <4>1, <4>2 DEF LadderStands
    <3> QED BY <3>3, <3>4 DEF Names
  <2> QED BY <1>3, <2>3, <2>4, <2>5 DEF ExtractStep
<1>4. ASSUME UNCHANGED <<ladder, seen, plan>>, \A m \in Miner : at'[m] = at[m]
      PROVE  Names' /\ LadderStands'
  <2>1. Creating' = Creating /\ Known' = Known
    BY <1>4, MinersApart DEF Creating, ToCreate, Known, ladder
  <2>2. Apart(Miner, Creating', Known', raced')
    BY <1>1, <2>1, ApartKept DEF Names
  <2>3. LadderStands'
    BY <1>4 DEF LadderStands, ladder
  <2> QED BY <2>2, <2>3 DEF Names
<1>5. ASSUME (\E e \in Editor : EditStep(e)) \/ World PROVE Names' /\ LadderStands'
  BY <1>1, <1>4, <1>5, EditsApart
<1>6. CASE UNCHANGED vars
  BY <1>4, <1>6 DEF vars, locals
<1> QED BY <1>2, <1>3, <1>5, <1>6 DEF Next, Work, Edit, Extract, WorkerStep, EditStep, ExtractStep

RaceInv == TypeInv /\ Batches /\ Phrases /\ Names /\ LadderStands

\* Where something is written twice, what races counts has it.
LEMMA WrittenOnce ==
    ASSUME RaceInv, [Next]_vars
    PROVE  [/\ \A t \in Target : open'[t] > open[t]
                    => (open[t] = 0 /\ t \notin quiet) \/ t \in raced
            /\ \A p \in Phrase : asked'[p] > asked[p] => asked[p] = 0 \/ p \in raced
            /\ \A n \in Trait :
                  /\ rows'[n] > rows[n] => rows[n] = 0 \/ n \in raced
                  /\ rows'[n] > rows[n] + 1 => \E x \in Extraction : n \in twice[x]]_vars
<1>1. /\ TypeOK /\ Batches /\ Phrases /\ Names /\ LadderStands
      /\ open \in [Target -> Nat] /\ asked \in [Phrase -> Nat] /\ rows \in [Trait -> Nat]
      /\ rung \in [Trait -> 0..Rungs]
  BY DEF RaceInv, TypeInv, TypeOK
<1>2. ASSUME NEW w \in Worker, NEW t \in Target, PersistQuestions(w), open'[t] > open[t]
      PROVE  (open[t] = 0 /\ t \notin quiet) \/ t \in raced
  <2>1. t \in Planned[w]
    BY <1>1, <1>2 DEF PersistQuestions, Is, Planned, Asking
  <2>2. t \notin AlreadyAsked \/ t \in raced
    BY <1>1, <2>1 DEF Batches, Apart
  <2> QED BY <1>1, <2>2 DEF AlreadyAsked, Covered
<1>3. ASSUME NEW w \in Worker, NEW n \in Trait, PersistSynthesis(w), rows'[n] > rows[n]
      PROVE  rows[n] = 0 \/ n \in raced
  <2>1. n \in Creating[w]
    BY <1>1, <1>3, MinersApart DEF PersistSynthesis, Creating, ToCreate
  <2>2. n \notin Known \/ n \in raced
    BY <1>1, <2>1, MinersApart DEF Names, Apart
  <2> QED BY <1>1, <2>2 DEF Known, LadderStands
<1>4. ASSUME NEW x \in Extraction, NEW n \in Trait, InsertTraits(x), rows'[n] > rows[n]
      PROVE  rows[n] = 0 \/ n \in raced
  <2>1. n \in Creating[x]
    BY <1>1, <1>4, MinersApart DEF InsertTraits, Mentions, Creating, ToCreate
  <2>2. n \notin Known \/ n \in raced
    BY <1>1, <2>1, MinersApart DEF Names, Apart
  <2> QED BY <1>1, <2>2 DEF Known, LadderStands
<1>5. ASSUME NEW x \in Extraction, NEW p \in Phrase, InsertTraits(x), asked'[p] > asked[p]
      PROVE  asked[p] = 0 \/ p \in raced
  <2>1. p \in Mining[x]
    BY <1>1, <1>5 DEF InsertTraits, Mining
  <2>2. p \notin AskedPhrases \/ p \in raced
    BY <1>1, <2>1 DEF Phrases, Apart
  <2> QED BY <1>1, <2>2 DEF AskedPhrases
<1>12. ASSUME NEW w \in Worker, NEW n \in Trait, PersistSynthesis(w)
       PROVE  ~(rows'[n] > rows[n] + 1)
  BY <1>1, <1>12 DEF PersistSynthesis
<1>13. ASSUME NEW x \in Extraction, NEW n \in Trait, InsertTraits(x), rows'[n] > rows[n] + 1
       PROVE  n \in twice[x]
  BY <1>1, <1>13 DEF InsertTraits, Mentions
<1>6. ASSUME NEW w \in Worker, WorkerStep(w)
      PROVE  /\ UNCHANGED asked
             /\ UNCHANGED open \/ PersistQuestions(w)
             /\ UNCHANGED rows \/ PersistSynthesis(w)
  <2> USE DEF graph, ladder
  <2>1. CASE Run(w)
    BY <2>1 DEF Run, Take, Check, PushEmbeddings, Ack, TimesOut, Errs, Die
  <2>2. CASE ProducerRun(w)
    BY <2>2 DEF ProducerRun, ReadTargets, Generate, PersistQuestions, TargetGone
  <2>3. CASE SynthesizerRun(w)
    BY <2>3 DEF SynthesizerRun, ReadTraits, Synthesize, BeginTraits, PersistSynthesis
  <2>4. CASE SummaryRun(w)
    BY <2>4 DEF SummaryRun, ReadSummary, GenerateSummary, PersistSummary, ExtractFacts,
          ExtractErrs, UpsertFact, InsertFact, FactsDone
  <2> QED BY <1>6, <2>1, <2>2, <2>3, <2>4 DEF WorkerStep
<1>7. ASSUME NEW x \in Extraction, ExtractStep(x)
      PROVE  UNCHANGED open /\ (UNCHANGED <<asked, rows>> \/ InsertTraits(x))
  BY <1>7 DEF ExtractStep, ResolveTraitMerges, DroppedReferences, ExtractionFails,
        InsertTraits, graph, ladder
<1>8. ASSUME (\E e \in Editor : EditStep(e)) \/ World
      PROVE  UNCHANGED <<asked, rows>> /\ \A t \in Target : ~(open'[t] > open[t])
  <2>1. UNCHANGED <<asked, rows>>
    BY <1>1, <1>8, EditsApart DEF ladder
  <2>2. open' = open \/ \E t \in Target : open' = [open EXCEPT ![t] = 0]
    BY <1>8 DEF EditStep, EditFact, InsertFact, World, Tell, Retire, AnswerQuestions,
          Suppress, InsertFails, graph
  <2> QED BY <1>1, <2>1, <2>2
<1> DEFINE A == /\ \A t \in Target : open'[t] > open[t]
                       => (open[t] = 0 /\ t \notin quiet) \/ t \in raced
                /\ \A p \in Phrase : asked'[p] > asked[p] => asked[p] = 0 \/ p \in raced
                /\ \A n \in Trait :
                      /\ rows'[n] > rows[n] => rows[n] = 0 \/ n \in raced
                      /\ rows'[n] > rows[n] + 1 => \E x \in Extraction : n \in twice[x]
<1>9. ASSUME NEW w \in Worker, WorkerStep(w) PROVE A
  BY <1>1, <1>2, <1>3, <1>6, <1>9, <1>12
<1>10. ASSUME NEW x \in Extraction, ExtractStep(x) PROVE A
  BY <1>1, <1>4, <1>5, <1>7, <1>10, <1>13
<1>11. ASSUME (\E e \in Editor : EditStep(e)) \/ World PROVE A
  BY <1>1, <1>8, <1>11
<1> QED BY <1>9, <1>10, <1>11 DEF Next, Work, Edit, Extract, WorkerStep, EditStep, ExtractStep

\* No second question for a target or a phrase, and no row for a trait name that
\* has one, but where two decided on it at once; two rows of a new trait at once
\* only from an extraction that named it twice.
THEOREM WritesAreNew == Spec => DuplicatesNeedARace
<1>1. Init => RaceInv
  <2> SUFFICES ASSUME Init PROVE RaceInv
    OBVIOUS
  <2>1. /\ \A w \in Worker : at[w] = "idle" /\ Planned[w] = {}
        /\ \A m \in Miner : plan[m] = {}
    BY MinersApart DEF Init, Planned, Asking
  <2>2. /\ \A x \in Extraction : Mining[x] = {}
        /\ \A m \in Miner : Creating[m] = {}
    BY <2>1, MinersApart DEF Mining, Creating, ToCreate
  <2>3. Batches /\ Phrases /\ Names
    BY <2>1, <2>2 DEF Batches, Phrases, Names, Apart
  <2>4. LadderStands
    BY DEF Init, LadderStands
  <2> QED BY <2>3, <2>4, InitTyped DEF RaceInv
<1>2. RaceInv /\ [Next]_vars => RaceInv'
  BY TypeInvKept, BatchesKept, PhrasesKept, NamesKept DEF RaceInv
<1>3. RaceInv /\ [Next]_vars =>
         [/\ \A t \in Target : open'[t] > open[t]
                  => (open[t] = 0 /\ t \notin quiet) \/ t \in raced
          /\ \A p \in Phrase : asked'[p] > asked[p] => asked[p] = 0 \/ p \in raced
          /\ \A n \in Trait :
                /\ rows'[n] > rows[n] => rows[n] = 0 \/ n \in raced
                /\ rows'[n] > rows[n] + 1 => \E x \in Extraction : n \in twice[x]]_vars
  BY WrittenOnce
<1> QED BY <1>1, <1>2, <1>3, PTL DEF Spec, DuplicatesNeedARace
=============================================================================
