-------------------------- MODULE EmbeddingWorker --------------------------
(***************************************************************************)
(* The vectors of graph rows: writers that insert a row or change its text  *)
(* in place and push an embedding job, the worker that alone writes         *)
(* vectors, and the backfill command.                                       *)
(*                                                                         *)
(* A writer is one transaction on one row and stands for the text it        *)
(* writes.  Most writers push their job after the commit (node edits, the   *)
(* extraction outbox, producers, trait synthesizer, thread detector); those *)
(* in Inside push it within the transaction (profile facts, the approval    *)
(* and the undoing of a merge).  Postgres is READ COMMITTED: a row that is  *)
(* inserted but not committed is invisible to the worker's UPDATE, one that *)
(* is updated but not committed makes it wait.                              *)
(***************************************************************************)
EXTENDS Naturals, FiniteSets

CONSTANTS Row, Writer,
          Inside,     \* the writers that push before they commit
          None, Retired,
          MaxModel,   \* bound: how often the operator moves to a new model
          MaxScans,   \* bound: runs of the backfill command
          MaxFaults   \* bound: rollbacks, failed pushes, redeliveries

ASSUME ConstantsAssumption ==
    /\ Inside \subseteq Writer
    /\ None \notin Writer /\ Retired \notin Writer /\ None # Retired
    /\ None \notin [text : Writer, model : 0..MaxModel]   \* no vector
    /\ MaxModel \in Nat /\ MaxScans \in Nat /\ MaxFaults \in Nat

VARIABLES
    text,      \* the committed text of each row: None before, Retired after
    vector,    \* the vector columns of each row: of which text and model
    writing,   \* the writer with an uncommitted write to each row
    pc,        \* where each writer is
    on,        \* the row each writer writes
    queue,     \* embedding jobs sent and not acknowledged
    found,     \* rows a backfill has found and not yet sent jobs for
    model,     \* the newest configured model
    scans, faults,
    disturbed  \* history: texts that met a job of another text for their row

vars == <<text, vector, writing, pc, on, queue, found, model, scans, faults,
          disturbed>>
table   == <<text, vector, writing>>
writers == <<pc, on>>
sqs     == <<queue, found>>
-----------------------------------------------------------------------------
Models == 0..MaxModel
Job    == [row : Row, text : Writer, model : Models]
Vector == [text : Writer, model : Models]

Active(r) == text[r] \in Writer
Goto(w, step) == pc' = [pc EXCEPT ![w] = step]
Fault == faults < MaxFaults /\ faults' = faults + 1

\* History only: a job of another text is under way for a committed row.
Disturb ==
    disturbed' = disturbed \cup
        {text'[r] : r \in {q \in Row : /\ text'[q] \in Writer
                                       /\ \E j \in queue' \cup found' :
                                             j.row = q /\ j.text # text'[q]}}

Init ==
    /\ text = [r \in Row |-> None]
    /\ vector = [r \in Row |-> None]
    /\ writing = [r \in Row |-> None]
    /\ pc = [w \in Writer |-> "idle"]
    /\ on = [w \in Writer |-> None]
    /\ queue = {} /\ found = {}
    /\ model = 0 /\ scans = 0 /\ faults = 0
    /\ disturbed = {}

-----------------------------------------------------------------------------
(* Writers.                                                                *)

\* INSERT of a new row, or UPDATE of an active one under its row lock.
Begin(w, r) ==
    /\ pc[w] = "idle"
    /\ writing[r] = None
    /\ text[r] # Retired
    /\ writing' = [writing EXCEPT ![r] = w]
    /\ on' = [on EXCEPT ![w] = r]
    /\ Goto(w, "writing")
    /\ UNCHANGED <<text, vector, sqs, model, scans, faults>>

\* A process sends the model it was started with, the newest or an older one.
Send(w) ==
    \E m \in 0..model : queue' = queue \cup {[row |-> on[w], text |-> w, model |-> m]}

PushInside(w) ==
    /\ pc[w] = "writing"
    /\ w \in Inside
    /\ Send(w)
    /\ Goto(w, "pushed")
    /\ UNCHANGED <<table, on, found, model, scans, faults>>

\* Mutant: the vector columns are not cleared with the new text.
CommitKeepsVector(w) ==
    /\ pc[w] = IF w \in Inside THEN "pushed" ELSE "writing"
    /\ text' = [text EXCEPT ![on[w]] = w]
    /\ writing' = [writing EXCEPT ![on[w]] = None]
    /\ Goto(w, IF w \in Inside THEN "done" ELSE "committed")
    /\ UNCHANGED <<vector, on, sqs, model, scans, faults>>

Commit(w) ==
    /\ pc[w] = IF w \in Inside THEN "pushed" ELSE "writing"
    /\ text' = [text EXCEPT ![on[w]] = w]
    /\ vector' = [vector EXCEPT ![on[w]] = None]
    /\ writing' = [writing EXCEPT ![on[w]] = None]
    /\ Goto(w, IF w \in Inside THEN "done" ELSE "committed")
    /\ UNCHANGED <<on, sqs, model, scans, faults>>

Rollback(w) ==
    /\ pc[w] \in {"writing", "pushed"}
    /\ Fault
    /\ writing' = [writing EXCEPT ![on[w]] = None]
    /\ Goto(w, "failed")
    /\ UNCHANGED <<text, vector, on, sqs, model, scans>>

PushAfter(w) ==
    /\ pc[w] = "committed"
    /\ Send(w)
    /\ Goto(w, "done")
    /\ UNCHANGED <<table, on, found, model, scans, faults>>

\* The push fails and is logged, the process dies, the outbox gives it up.
PushFails(w) ==
    /\ pc[w] = "committed"
    /\ Fault
    /\ Goto(w, "failed")
    /\ UNCHANGED <<table, on, sqs, model, scans>>

\* The row is superseded, archived or merged into another.
Retire(r) ==
    /\ Active(r)
    /\ writing[r] = None
    /\ text' = [text EXCEPT ![r] = Retired]
    /\ UNCHANGED <<vector, writing, writers, sqs, model, scans, faults>>

-----------------------------------------------------------------------------
(* The worker.                                                             *)

\* The UPDATE waits for the transaction that holds the row.
Locked(j) == writing[j.row] # None /\ Active(j.row)

\* Mutant: the guard knows only the job's own model.
GuardSameModel(j) ==
    Active(j.row) /\ vector[j.row] # None /\ vector[j.row].model = j.model

\* Mutant: without the version guard.
GuardStatusOnly(j) == Active(j.row)

Guard(j) ==
    /\ Active(j.row)
    /\ \/ vector[j.row] = None
       \/ vector[j.row].model = j.model

\* The guarded UPDATE of one row: its vector comes from the job's text.
Update(j) ==
    /\ ~Locked(j)
    /\ vector' = IF Guard(j)
                 THEN [vector EXCEPT ![j.row] = [text |-> j.text, model |-> j.model]]
                 ELSE vector
    /\ UNCHANGED <<text, writing, writers, found, model, scans>>

\* Acknowledged, whether or not the UPDATE found the row.
Apply(j) ==
    /\ j \in queue
    /\ Update(j)
    /\ queue' = queue \ {j}
    /\ UNCHANGED faults

\* The process dies before it acknowledges: SQS delivers the job again.
ApplyUnacked(j) ==
    /\ j \in queue
    /\ Fault
    /\ Update(j)
    /\ UNCHANGED queue

-----------------------------------------------------------------------------
(* The backfill command and its operator.                                  *)

Upgrade ==
    /\ model < MaxModel
    /\ model' = model + 1
    /\ UNCHANGED <<table, writers, sqs, scans, faults>>

\* Active rows without a vector, read in one query.
Scan ==
    /\ found = {}
    /\ scans < MaxScans
    /\ scans' = scans + 1
    /\ found' = {[row |-> r, text |-> text[r], model |-> model] :
                     r \in {q \in Row : Active(q) /\ vector[q] = None}}
    /\ UNCHANGED <<table, writers, queue, model, faults>>

SendFound(j) ==
    /\ j \in found
    /\ queue' = queue \cup {j}
    /\ found' = found \ {j}
    /\ UNCHANGED <<table, writers, model, scans, faults>>

ScanStops ==
    /\ found # {}
    /\ Fault
    /\ found' = {}
    /\ UNCHANGED <<table, writers, queue, model, scans>>

-----------------------------------------------------------------------------
Finish(w) == PushInside(w) \/ Commit(w) \/ PushAfter(w)

Write ==
    \/ \E w \in Writer : \/ \E r \in Row : Begin(w, r)
                         \/ Finish(w) \/ Rollback(w) \/ PushFails(w)
    \/ \E r \in Row : Retire(r)
Work     == \E j \in queue : Apply(j) \/ ApplyUnacked(j)
Backfill == Upgrade \/ Scan \/ (\E j \in found : SendFound(j)) \/ ScanStops

Next == (Write \/ Work \/ Backfill) /\ Disturb

Spec == Init /\ [][Next]_vars

\* Transactions end, and the worker drains its queue.
FairSpec ==
    /\ Spec
    /\ \A w \in Writer : WF_vars(Finish(w) /\ Disturb)
    /\ \A j \in Job : WF_vars(Apply(j) /\ Disturb)

-----------------------------------------------------------------------------
(* Properties.                                                             *)

\* Every variable stays in the shape the code gives it.
TypeOK ==
    /\ text \in [Row -> Writer \cup {None, Retired}]
    /\ vector \in [Row -> Vector \cup {None}]
    /\ writing \in [Row -> Writer \cup {None}]
    /\ pc \in [Writer -> {"idle", "writing", "pushed", "committed", "done",
                          "failed"}]
    /\ on \in [Writer -> Row \cup {None}]
    /\ queue \subseteq Job /\ found \subseteq Job
    /\ model \in Models /\ scans \in Nat /\ faults \in Nat
    /\ disturbed \subseteq Writer

\* A vector of one model is never replaced by one of another while the text
\* stays: only a write that clears it, however many jobs of both models are
\* under way (the race of README-step-3).
ModelsNeverMix ==
    [][\A r \in Row : vector[r] # None /\ vector'[r] # None
                         => vector'[r].model = vector[r].model]_vars

\* An active row holds the vector of an old text only if a job of another text
\* was still under way when, or after, its text was committed: clearing the
\* columns with every new text leaves no other way.
StaleNeedsAnOldJob ==
    \A r \in Row : Active(r) /\ vector[r] # None /\ vector[r].text # text[r]
                      => text[r] \in disturbed

\* A job for the row is on the queue, or its writer is about to push one.
OnItsWay(r) ==
    \/ \E j \in queue : j.row = r
    \/ pc[text[r]] = "committed"

\* Where the push follows the commit, an active row is without a vector only
\* while a job is on its way or because its push failed.
EmptyNeedsAFailedPush ==
    \A r \in Row : Active(r) /\ vector[r] = None /\ text[r] \notin Inside
                      => OnItsWay(r) \/ pc[text[r]] = "failed"

\* A job on the queue for an active row ends with a vector in the row, unless
\* the row is retired.
QueuedIsEmbedded ==
    \A r \in Row : (Active(r) /\ \E j \in queue : j.row = r)
                      ~> (vector[r] # None \/ ~Active(r))
=============================================================================
