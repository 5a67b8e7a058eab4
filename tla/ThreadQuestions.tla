-------------------------- MODULE ThreadQuestions --------------------------
(***************************************************************************)
(* The thread detector of one person and the questions it leads to.  An      *)
(* extraction that adds the moment which makes a run due enqueues a trigger   *)
(* in its transaction; a worker that finds the trigger still due clusters     *)
(* the embedded moments, matches each cluster with a thread or makes one,     *)
(* proposes questions that deepen it, and stamps the count it has reached.    *)
(* The user answers those questions or dismisses them.                        *)
(***************************************************************************)
EXTENDS Naturals, FiniteSets

CONSTANTS Extraction,       \* each adds one moment
          Pattern, PatternOf,   \* what the moments are about
          Worker,           \* thread detectors
          None,
          Cadence,          \* thread_detector_cadence
          MinCluster,       \* min_cluster_size
          MaxThread,        \* bound: rows of threads
          MaxProposals,     \* bound: proposals in all
          MaxProposed,      \* bound: questions of one proposal
          MaxFaults         \* bound: crashes, failed calls and sends given up

Thread   == 1 .. MaxThread
Question == Thread \X (1 .. MaxProposals) \X (1 .. MaxProposed)   \* of a thread, by proposal

ASSUME ConstantsAssumption ==
    /\ PatternOf \in [Extraction -> Pattern] /\ None \notin Pattern \cup Question \cup Thread
    /\ Cadence \in Nat \ {0} /\ MinCluster \in Nat \ {0}
    /\ MaxThread \in Nat /\ MaxProposals \in Nat /\ MaxProposed \in Nat /\ MaxFaults \in Nat /\ IsFiniteSet(Extraction)

VARIABLES
    ext, saw,       \* each extraction: where it is, whether it saw a run due
    moments,        \* committed and active
    stamp,          \* persons.moments_at_last_thread_run
    outbox, queue,  \* triggers to be sent, and sent, by their extraction
    at, msg,        \* each worker: where it is, the trigger it received
    todo, current,  \* the clusters left, the one in work
    match, asks,    \* its thread (None: a new one), is it to be deepened
    worked,         \* has a cluster been processed
    thread,         \* the pattern of each row of threads
    vector,         \* the embedding of each: "none", "queued" or "known"
    questions,      \* thread_deepen questions
    answered,       \* those with an answered_by edge
    suppressed,     \* those whose active decision is to suppress
    faults,
    mishaps,        \* history: what has gone wrong so far
    reopened,       \* history: patterns with new questions while suppressed
    crossed         \* history: patterns suppressed beside a proposal for them

extracting == <<ext, saw, moments, outbox>>
dismissals == <<reopened, crossed>>
worker     == <<at, msg, todo, current, match, asks, worked>>
bank       == <<questions, answered, suppressed>>
vars       == <<extracting, stamp, queue, worker, thread, vector, bank,
                faults, mishaps, dismissals>>

Init ==
    /\ ext = [e \in Extraction |-> "idle"] /\ saw = [e \in Extraction |-> FALSE]
    /\ moments = {}
    /\ stamp = 0
    /\ outbox = {} /\ queue = {}
    /\ at = [w \in Worker |-> "idle"] /\ msg = [w \in Worker |-> None]
    /\ todo = [w \in Worker |-> {}] /\ current = [w \in Worker |-> None]
    /\ match = [w \in Worker |-> None] /\ asks = [w \in Worker |-> FALSE]
    /\ worked = [w \in Worker |-> FALSE]
    /\ thread = [t \in Thread |-> None]
    /\ vector = [t \in Thread |-> "none"]
    /\ questions = {} /\ answered = {} /\ suppressed = {}
    /\ faults = 0
    /\ mishaps = {} /\ reopened = {} /\ crossed = {}

Goto(w, s)  == at' = [at EXCEPT ![w] = s]
Fault == /\ faults < MaxFaults
         /\ faults' = faults + 1

-----------------------------------------------------------------------------
(* The trigger.                                                             *)

\* Mutant: due only once the cadence is passed.
DuePastCadence(n) == n > stamp + Cadence

\* Enough moments, and enough since the last run.
Due(n) == n >= Cadence /\ n >= stamp + Cadence

\* In its transaction, before the commit: the moments committed and its own.
CountMoments(e) ==
    /\ ext[e] = "idle"
    /\ ext' = [ext EXCEPT ![e] = "counted"]
    /\ saw' = [saw EXCEPT ![e] = Due(Cardinality(moments) + 1)]
    /\ mishaps' = IF \E f \in Extraction : ext[f] = "counted"
                  THEN mishaps \cup {"skew"} ELSE mishaps
    /\ UNCHANGED <<moments, outbox, stamp, queue, worker, thread, vector,
                   bank, dismissals, faults>>

\* The moment, what it answers, and the row of the trigger.
CommitMoment(e) ==
    /\ ext[e] = "counted"
    /\ ext' = [ext EXCEPT ![e] = "done"]
    /\ moments' = moments \cup {e}
    /\ outbox' = IF saw[e] THEN outbox \cup {e} ELSE outbox
    /\ saw' = [saw EXCEPT ![e] = FALSE]
    /\ \E Q \in {{}} \cup {{q} : q \in questions} : answered' = answered \cup Q
    /\ UNCHANGED <<stamp, queue, worker, thread, vector, questions,
                   suppressed, dismissals, faults, mishaps>>

\* A drain, of this extraction or a later one, sends the trigger.
SendTrigger(e) ==
    /\ e \in outbox
    /\ queue' = queue \cup {e}
    /\ outbox' = outbox \ {e}
    /\ UNCHANGED <<ext, saw, moments, stamp, worker, thread, vector, bank,
                   dismissals, faults, mishaps>>

\* The row is not marked as sent, and sent once more when its lease is over.
SendUnmarked(e) ==
    /\ e \in outbox
    /\ Fault
    /\ queue' = queue \cup {e}
    /\ UNCHANGED <<extracting, stamp, worker, thread, vector, bank,
                   dismissals, mishaps>>

\* Sends that fail are retried; with the last attempt the row is given up.
GiveUpTrigger(e) ==
    /\ e \in outbox
    /\ Fault
    /\ outbox' = outbox \ {e}
    /\ mishaps' = mishaps \cup {"unsent"}
    /\ UNCHANGED <<ext, saw, moments, stamp, queue, worker, thread, vector,
                   bank, dismissals>>

-----------------------------------------------------------------------------
(* A run.                                                                   *)

Running(w)    == at[w] \notin {"idle", "check"}
Clustering(w) == Running(w) /\ at[w] # "ack"

Receive(w) ==
    /\ at[w] = "idle"
    /\ \E e \in queue :
          /\ queue' = queue \ {e}
          /\ msg' = [msg EXCEPT ![w] = e]
    /\ Goto(w, "check")
    /\ UNCHANGED <<extracting, stamp, todo, current, match, asks,
                   worked, thread, vector, bank, dismissals, faults, mishaps>>

\* The moments that have a vector by now: new ones wait for the embedding worker,
\* and an edit takes the vector away until it has made another.
Clusterable == SUBSET moments
Clusters(E) == {p \in Pattern :
                  Cardinality({e \in E : PatternOf[e] = p}) >= MinCluster}

\* Is the run due still?  Without a cluster the count is stamped at once.
Check(w) ==
    /\ at[w] = "check"
    /\ IF Due(Cardinality(moments))
         THEN /\ \E E \in Clusterable :
                    /\ todo' = [todo EXCEPT ![w] = Clusters(E)]
                    /\ worked' = [worked EXCEPT ![w] = Clusters(E) = {}]
              /\ Goto(w, "next")
              /\ mishaps' = mishaps \cup
                    {m \in {"overlap"} : \E v \in Worker : Clustering(v)} \cup
                    {m \in {"unembedded"} :
                        \E t \in Thread : thread[t] # None /\ vector[t] # "known"}
         ELSE /\ Goto(w, "ack")
              /\ UNCHANGED <<todo, worked, mishaps>>
    /\ UNCHANGED <<extracting, stamp, queue, msg, current, match, asks,
                   thread, vector, bank, dismissals, faults>>

\* The closest thread with a vector, if it is close enough.  Without one the
\* naming call follows, and a proposal in any case.
MatchThread(w) ==
    /\ at[w] = "next"
    /\ \E p \in todo[w] :
          LET near == {t \in Thread : thread[t] = p /\ vector[t] = "known"}
          IN  /\ current' = [current EXCEPT ![w] = p]
              /\ todo' = [todo EXCEPT ![w] = @ \ {p}]
              /\ \E t \in IF near = {} THEN {None} ELSE near :
                    match' = [match EXCEPT ![w] = t]
              /\ asks' = [asks EXCEPT ![w] = near = {}]
              /\ Goto(w, IF near = {} THEN "proposed" ELSE "matched")
    /\ UNCHANGED <<extracting, stamp, queue, msg, worked, thread,
                   vector, bank, dismissals, faults, mishaps>>

\* Mutant: a thread with an unanswered question is deepened again.
SpokenForIfSuppressed(t) ==
    \E q \in questions : q[1] = t /\ q \in suppressed

\* Mutant: what was answered is proposed again, suppressed or not.
SpokenForIfOpen(t) == \E q \in questions : q[1] = t /\ q \notin answered

\* A question of the thread is outstanding, or was suppressed.
SpokenFor(t) ==
    \E q \in questions : q[1] = t /\ (q \notin answered \/ q \in suppressed)

\* The guard that leaves the proposal for a known thread out.
Propose(w) ==
    /\ at[w] = "matched"
    /\ asks' = [asks EXCEPT ![w] = ~SpokenFor(match[w])]
    /\ Goto(w, "proposed")
    /\ UNCHANGED <<extracting, stamp, queue, msg, todo, current, match,
                   worked, thread, vector, bank, dismissals, faults, mishaps>>

Done(w, processed) ==
    /\ Goto(w, "next")
    /\ current' = [current EXCEPT ![w] = None]
    /\ match' = [match EXCEPT ![w] = None]
    /\ asks' = [asks EXCEPT ![w] = FALSE]
    /\ worked' = [worked EXCEPT ![w] = @ \/ processed]

\* The naming call finds the cluster incoherent: nothing to write, but processed.
Incoherent(w) ==
    /\ at[w] = "proposed" /\ match[w] = None
    /\ Done(w, TRUE)
    /\ UNCHANGED <<extracting, stamp, queue, msg, todo, thread, vector,
                   bank, dismissals, faults, mishaps>>

\* Any error of one cluster is logged, and the next one taken.
ClusterFails(w) ==
    /\ at[w] \in {"matched", "proposed"}
    /\ Fault
    /\ mishaps' = mishaps \cup {"cluster"}
    /\ Done(w, FALSE)
    /\ UNCHANGED <<extracting, stamp, queue, msg, todo, thread, vector,
                   bank, dismissals>>

\* A question of the pattern stands suppressed.
Dismissed(p) == \E q \in suppressed : thread[q[1]] = p

\* One transaction: the thread if it is new, and its questions.
CommitCluster(w) ==
    /\ at[w] = "proposed"
    /\ LET free  == {t \in Thread : thread[t] = None}
           t     == IF match[w] # None THEN match[w]
                    ELSE CHOOSE u \in free : TRUE
           batch == 1 + Cardinality({q[2] : q \in {r \in questions : r[1] = t}})
       IN  /\ match[w] = None => free # {}
           /\ asks[w] => Cardinality({<<q[1], q[2]>> : q \in questions}) < MaxProposals
           /\ thread' = [thread EXCEPT ![t] = current[w]]
           /\ \E n \in 1 .. MaxProposed :
                 questions' = IF asks[w] THEN questions \cup ({t} \X {batch} \X (1 .. n))
                              ELSE questions
           /\ Goto(w, IF match[w] = None THEN "push" ELSE "linked")
           /\ match' = [match EXCEPT ![w] = t]
    /\ reopened' = reopened \cup {p \in {current[w]} : asks[w] /\ Dismissed(p)}
    /\ UNCHANGED <<extracting, stamp, queue, msg, todo, current, asks,
                   worked, vector, answered, suppressed, crossed, faults, mishaps>>

\* The embedding jobs; those of the questions are left out.
PushJobs(w) ==
    /\ at[w] \in {"push", "linked"}
    /\ vector' = IF at[w] = "push" THEN [vector EXCEPT ![match[w]] = "queued"]
                 ELSE vector
    /\ Done(w, TRUE)
    /\ UNCHANGED <<extracting, stamp, queue, msg, todo, thread, bank,
                   dismissals, faults, mishaps>>

\* A push that fails fails the cluster, which is committed.
PushFails(w) ==
    /\ at[w] \in {"push", "linked"}
    /\ Fault
    /\ mishaps' = mishaps \cup {"cluster"}
    /\ Done(w, FALSE)
    /\ UNCHANGED <<extracting, stamp, queue, msg, todo, thread, vector,
                   bank, dismissals>>

EmbedThread(t) ==
    /\ vector[t] = "queued"
    /\ vector' = [vector EXCEPT ![t] = "known"]
    /\ UNCHANGED <<extracting, stamp, queue, worker, thread, bank, dismissals,
                   faults, mishaps>>

\* The count at this moment, not the one the run has seen; not after a run in
\* which every cluster failed.
Stamp(w) ==
    /\ at[w] = "next" /\ todo[w] = {}
    /\ stamp' = IF worked[w] THEN Cardinality(moments) ELSE stamp
    /\ Goto(w, "ack")
    /\ UNCHANGED <<extracting, queue, msg, todo, current, match, asks,
                   worked, thread, vector, bank, dismissals, faults, mishaps>>

\* Whatever the worker held is forgotten.
Forget(w) ==
    /\ Goto(w, "idle")
    /\ msg' = [msg EXCEPT ![w] = None]
    /\ todo' = [todo EXCEPT ![w] = {}]
    /\ current' = [current EXCEPT ![w] = None]
    /\ match' = [match EXCEPT ![w] = None]
    /\ asks' = [asks EXCEPT ![w] = FALSE]
    /\ worked' = [worked EXCEPT ![w] = FALSE]

Ack(w) ==
    /\ at[w] = "ack"
    /\ queue' = queue \ {msg[w]}
    /\ Forget(w)
    /\ UNCHANGED <<extracting, stamp, thread, vector, bank, dismissals,
                   faults, mishaps>>

\* A crash, or an error outside a cluster: the trigger is delivered again.
Die(w) ==
    /\ at[w] # "idle"
    /\ Fault
    /\ queue' = queue \cup {msg[w]}
    /\ Forget(w)
    /\ UNCHANGED <<extracting, stamp, thread, vector, bank, dismissals, mishaps>>

\* The run outlives the visibility timeout.
Lapse(w) ==
    /\ Running(w)
    /\ Fault
    /\ queue' = queue \cup {msg[w]}
    /\ UNCHANGED <<extracting, stamp, worker, thread, vector, bank,
                   dismissals, mishaps>>

-----------------------------------------------------------------------------
(* The user.                                                                *)

\* The chips beside a question, recorded before the turn that carries them
\* runs; the last decision on a question is the active one.
Suppress(q) ==
    /\ suppressed' = suppressed \cup {q}
    /\ crossed' = crossed \cup
          {thread[q[1]] : w \in {v \in Worker : at[v] = "proposed" /\ asks[v]
                                                /\ match[v] = q[1]}}

SkipOrLift(q) == /\ suppressed' = suppressed \ {q}
                 /\ UNCHANGED crossed

Decide(q) ==
    /\ q \in questions
    /\ Suppress(q) \/ SkipOrLift(q)
    /\ UNCHANGED <<extracting, stamp, queue, worker, thread, vector,
                   questions, answered, reopened, faults, mishaps>>

ProcessCluster(w) == \/ MatchThread(w) \/ Propose(w) \/ Incoherent(w) \/ ClusterFails(w)
                     \/ CommitCluster(w) \/ PushJobs(w) \/ PushFails(w)
Run(w) == \/ Receive(w) \/ Check(w) \/ ProcessCluster(w) \/ Stamp(w) \/ Ack(w)
          \/ Die(w) \/ Lapse(w)

Next ==
    \/ \E e \in Extraction : \/ CountMoments(e) \/ CommitMoment(e)
                             \/ SendTrigger(e) \/ SendUnmarked(e) \/ GiveUpTrigger(e)
    \/ \E w \in Worker : Run(w)
    \/ \E t \in Thread : EmbedThread(t)
    \/ \E q \in Question : Decide(q)

Spec == Init /\ [][Next]_vars

-----------------------------------------------------------------------------
(* Properties.                                                              *)

\* Every variable holds what its column, message or local variable can.
TypeOK ==
    /\ ext \in [Extraction -> {"idle", "counted", "done"}]
    /\ saw \in [Extraction -> BOOLEAN]
    /\ moments \subseteq Extraction
    /\ stamp \in 0 .. Cardinality(moments)
    /\ queue \subseteq Extraction /\ outbox \subseteq Extraction
    /\ at \in [Worker -> {"idle", "check", "next", "matched", "proposed", "push",
                          "linked", "ack"}]
    /\ msg \in [Worker -> Extraction \cup {None}]
    /\ todo \in [Worker -> SUBSET Pattern]
    /\ current \in [Worker -> Pattern \cup {None}]
    /\ match \in [Worker -> Thread \cup {None}]
    /\ asks \in [Worker -> BOOLEAN] /\ worked \in [Worker -> BOOLEAN]
    /\ thread \in [Thread -> Pattern \cup {None}]
    /\ vector \in [Thread -> {"none", "queued", "known"}]
    /\ answered \subseteq questions /\ questions \subseteq Question
    \* motivated_by leads to a thread
    /\ \A q \in questions : thread[q[1]] # None
    /\ suppressed \subseteq questions
    /\ faults \in 0 .. MaxFaults

\* A run that is due has a trigger in the outbox, on the queue or in the hands
\* of a detector, unless two extractions counted the moments side by side, the
\* outbox gave the trigger up, or every cluster of a run failed (invariant 14).
DueNeedsATriggerOrAMishap ==
    (Cardinality(moments) >= Cadence /\ Cardinality(moments) >= stamp + Cadence)
        => \/ outbox # {} \/ queue # {} \/ \E w \in Worker : at[w] # "idle"
           \/ mishaps \cap {"skew", "unsent", "cluster"} # {}

\* A pattern has two threads, or a thread two proposals unanswered, only if two
\* runs overlapped or, for the threads, a run began while one had no vector yet,
\* be its embedding under way or its job lost.
DoubledNeedsAMishap ==
    /\ \A t, u \in Thread : (t # u /\ thread[t] = thread[u] /\ thread[t] # None)
                             => mishaps \cap {"overlap", "unembedded"} # {}
    /\ \A q, r \in questions \ answered :
          (q[1] = r[1] /\ q[2] # r[2]) => "overlap" \in mishaps

\* "Don't ask again": a pattern of which a question stands suppressed is given
\* new questions only if two threads were made of it, or the user suppressed
\* the question while a proposal for its thread was being written.
ReopenedNeedsARace ==
    \A p \in reopened :
        p \in crossed \/ \E t, u \in Thread : t # u /\ thread[t] = p /\ thread[u] = p
=============================================================================
