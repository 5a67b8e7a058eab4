------------------------- MODULE ExtractionWorker -------------------------
(***************************************************************************)
(* The extraction workers: they receive segments from the extraction queue *)
(* (SQS, at least once), write the memory graph in one Postgres            *)
(* transaction together with the processed_extractions row and the outbox  *)
(* rows, then drain the outbox to the downstream queues and acknowledge.   *)
(*                                                                         *)
(* Several worker processes share the queue, the database and the outbox.  *)
(* A step of a worker is one SQS call or one database transaction.         *)
(***************************************************************************)
EXTENDS Naturals, FiniteSets

CONSTANTS Msg,         \* extraction messages, by their SQS MessageId
          Malformed,   \* those whose body does not parse
          Worker,      \* worker processes
          NoMsg,       \* a worker's msg outside process_message
          Kind,        \* outbox rows a commit may write
          Poison,      \* kinds the sender rejects every time
          MaxAttempts, \* MAX_OUTBOX_ATTEMPTS
          MaxFaults    \* bound: crashes, failures, lost answers, overruns

ASSUME ConstantsAssumption ==
    /\ Malformed \subseteq Msg
    /\ NoMsg \notin Msg
    /\ Poison \subseteq Kind
    /\ MaxAttempts \in Nat \ {0}
    /\ MaxFaults \in Nat

Job == Msg \X Kind

VARIABLES
    sqs,       \* each message on the queue: "visible", "inflight", "deleted"
    processed, \* processed_extractions
    commits,   \* history: how often a message's graph writes were committed
    outbox,    \* extraction_outbox: status and attempts of each row
    delivered, \* copies of each job the downstream queue took
    pc,        \* what each worker does next
    msg,       \* the message in process_message, NoMsg in the main loop
    held,      \* attempts of each row as the worker reserved it, 0: not held
    job,       \* the row a worker has sent, or failed to, and not yet marked
    mishap,    \* history: what went wrong with each row
    faults     \* faults so far

queue == <<sqs, processed, commits>>
local == <<msg, held, job>>
vars  == <<sqs, processed, commits, outbox, delivered, pc, msg, held, job,
           mishap, faults>>

-----------------------------------------------------------------------------
\* pending: available_at is past; backoff: it is not; expired: in_progress and
\* not updated for ten minutes; none: no row.
Status  == {"none", "pending", "backoff", "in_progress", "expired", "sent",
            "failed"}
Row     == [status: Status, attempts: Nat]
Settled == {"sent", "failed"}

\* A row whose send returned ("ok") or raised ("error"), not yet marked.
Outcome == [row: Job, result: {"ok", "error"}]

Fault == faults < MaxFaults /\ faults' = faults + 1

Goto(w, step) == pc' = [pc EXCEPT ![w] = step]

Holders(j)  == {w \in Worker : held[w][j] > 0}
Handling(m) == {w \in Worker : msg[w] = m}

NothingHeld == [j \in Job |-> 0]

\* Mutants: rows another worker holds are picked too; abandoned rows are not.
ReservableAnyway(w) ==
    {j \in Job : /\ outbox[j].status \in {"pending", "in_progress", "expired"}
                 /\ msg[w] # NoMsg => j[1] = msg[w]}

ReservableDue(w) ==
    {j \in Job : /\ outbox[j].status = "pending"
                 /\ msg[w] # NoMsg => j[1] = msg[w]}

\* _reserve_jobs picks rows that are due or were abandoned, of one message
\* inside process_message and of any message in the main loop.
Reservable(w) ==
    {j \in Job : /\ outbox[j].status \in {"pending", "expired"}
                 /\ msg[w] # NoMsg => j[1] = msg[w]}

Init ==
    /\ sqs = [m \in Msg |-> "visible"]
    /\ processed = {}
    /\ commits = [m \in Msg |-> 0]
    /\ outbox = [j \in Job |-> [status |-> "none", attempts |-> 0]]
    /\ delivered = [j \in Job |-> 0]
    /\ pc = [w \in Worker |-> "reserve"]
    /\ msg = [w \in Worker |-> NoMsg]
    /\ held = [w \in Worker |-> NothingHeld]
    /\ job = [w \in Worker |-> {}]
    /\ mishap = [j \in Job |-> {}]
    /\ faults = 0

-----------------------------------------------------------------------------
(* The message: receive, check, extract, commit, acknowledge.              *)

\* Long poll for one message; a body that does not parse is acknowledged.
Receive(w, m) ==
    /\ pc[w] = "receive"
    /\ sqs[m] = "visible"
    /\ IF m \in Malformed
       THEN /\ sqs' = [sqs EXCEPT ![m] = "deleted"]
            /\ Goto(w, "reserve")
            /\ UNCHANGED msg
       ELSE /\ sqs' = [sqs EXCEPT ![m] = "inflight"]
            /\ msg' = [msg EXCEPT ![w] = m]
            /\ Goto(w, "check")
    /\ UNCHANGED <<processed, commits, outbox, delivered, held, job, mishap,
                   faults>>

ReceiveNothing(w) ==
    /\ pc[w] = "receive"
    /\ \A m \in Msg : sqs[m] # "visible"
    /\ Goto(w, "reserve")
    /\ UNCHANGED <<queue, outbox, delivered, local, mishap, faults>>

\* _already_processed, on a connection of its own.
Check(w) ==
    /\ pc[w] = "check"
    /\ Goto(w, IF msg[w] \in processed THEN "reserve" ELSE "extract")
    /\ UNCHANGED <<queue, outbox, delivered, local, mishap, faults>>

\* Reads, the LLM calls and the refinement search, all before the transaction.
Extract(w) ==
    /\ pc[w] = "extract"
    /\ Goto(w, "persist")
    /\ UNCHANGED <<queue, outbox, delivered, local, mishap, faults>>

\* Mutant: a failed extraction is acknowledged.
ExtractFailsAndAcks(w) ==
    /\ pc[w] \in {"extract", "persist"}
    /\ Fault
    /\ sqs' = [sqs EXCEPT ![msg[w]] = "deleted"]
    /\ msg' = [msg EXCEPT ![w] = NoMsg]
    /\ Goto(w, "reserve")
    /\ UNCHANGED <<processed, commits, outbox, delivered, held, job, mishap>>

\* Any failure up to the commit: nothing is written, nothing acknowledged.
ExtractFails(w) ==
    /\ pc[w] \in {"extract", "persist"}
    /\ Fault
    /\ msg' = [msg EXCEPT ![w] = NoMsg]
    /\ Goto(w, "reserve")
    /\ UNCHANGED <<queue, outbox, delivered, held, job, mishap>>

\* Mutant: the conflict of mark_processed is not looked at.
PersistAnyway(w) ==
    /\ pc[w] = "persist"
    /\ processed' = processed \cup {msg[w]}
    /\ commits' = [commits EXCEPT ![msg[w]] = @ + 1]
    /\ UNCHANGED outbox
    /\ Goto(w, "reserve")
    /\ UNCHANGED <<sqs, delivered, local, mishap, faults>>

\* The row that makes a redelivery find the segment done.
MarkProcessed(w) ==
    /\ processed' = processed \cup {msg[w]}
    /\ commits' = [commits EXCEPT ![msg[w]] = @ + 1]

\* The one transaction.  mark_processed conflicts when another delivery has
\* committed meanwhile: everything rolls back.  Which rows are written depends
\* on what was extracted and on the thread cadence.
Persist(w) ==
    /\ pc[w] = "persist"
    /\ IF msg[w] \in processed
       THEN UNCHANGED <<processed, commits, outbox>>
       ELSE /\ MarkProcessed(w)
            /\ \E kinds \in SUBSET Kind :
                 outbox' = [j \in Job |->
                              IF j[1] = msg[w] /\ j[2] \in kinds
                              THEN [status |-> "pending", attempts |-> 0]
                              ELSE outbox[j]]
    /\ Goto(w, "reserve")
    /\ UNCHANGED <<sqs, delivered, local, mishap, faults>>

\* delete_message.  When the message has been received again meanwhile, the
\* old receipt handle may no longer delete it.
Delete(w) ==
    /\ pc[w] = "delete"
    /\ \/ sqs' = [sqs EXCEPT ![msg[w]] = "deleted"]
       \/ Handling(msg[w]) # {w} /\ UNCHANGED sqs
    /\ msg' = [msg EXCEPT ![w] = NoMsg]
    /\ Goto(w, "reserve")
    /\ UNCHANGED <<processed, commits, outbox, delivered, held, job, mishap,
                   faults>>

-----------------------------------------------------------------------------
(* drain_extraction_outbox.                                                *)

\* A reservation is one transaction (FOR UPDATE SKIP LOCKED); the drain ends
\* when it finds nothing.
Reserve(w) ==
    /\ pc[w] = "reserve"
    /\ LET picked == Reservable(w) IN
         IF picked = {}
         THEN /\ Goto(w, IF msg[w] = NoMsg THEN "receive" ELSE "delete")
              /\ UNCHANGED <<outbox, held>>
         ELSE /\ outbox' = [j \in Job |->
                              IF j \in picked
                              THEN [status |-> "in_progress",
                                    attempts |-> outbox[j].attempts + 1]
                              ELSE outbox[j]]
              /\ held' = [held EXCEPT ![w] =
                            [j \in Job |-> IF j \in picked
                                           THEN outbox[j].attempts + 1
                                           ELSE 0]]
              /\ Goto(w, "send")
    /\ UNCHANGED <<queue, delivered, msg, job, mishap, faults>>

SendOk(w, j) ==
    /\ pc[w] = "send"
    /\ held[w][j] > 0
    /\ j[2] \notin Poison
    /\ delivered' = [delivered EXCEPT ![j] = @ + 1]
    /\ job' = [job EXCEPT ![w] = {[row |-> j, result |-> "ok"]}]
    /\ Goto(w, "mark")
    /\ UNCHANGED <<queue, outbox, msg, held, mishap, faults>>

\* Mutant: what the sender raises is swallowed.
SendFailsSilently(w, j) ==
    /\ pc[w] = "send"
    /\ held[w][j] > 0
    /\ j[2] \in Poison \/ faults < MaxFaults
    /\ job' = [job EXCEPT ![w] = {[row |-> j, result |-> "ok"]}]
    /\ Goto(w, "mark")
    /\ UNCHANGED <<queue, outbox, delivered, msg, held, mishap, faults>>

\* The sender raises: the job is poisoned, the queue refused it, or took it
\* and the answer was lost.
SendFails(w, j) ==
    /\ pc[w] = "send"
    /\ held[w][j] > 0
    /\ \/ j[2] \in Poison /\ UNCHANGED <<delivered, mishap, faults>>
       \/ j[2] \notin Poison /\ Fault /\ UNCHANGED <<delivered, mishap>>
       \/ /\ j[2] \notin Poison
          /\ Fault
          /\ delivered' = [delivered EXCEPT ![j] = @ + 1]
          /\ mishap' = [mishap EXCEPT ![j] = @ \cup {"lost answer"}]
    /\ job' = [job EXCEPT ![w] = {[row |-> j, result |-> "error"]}]
    /\ Goto(w, "mark")
    /\ UNCHANGED <<queue, outbox, msg, held>>

\* _mark_sent and _mark_failed update the row by id, whoever holds it now.
Marked(w, j, result) ==
    IF result = "ok" THEN "sent"
    ELSE IF held[w][j] >= MaxAttempts THEN "failed" ELSE "backoff"

Mark(w) ==
    /\ pc[w] = "mark"
    /\ \E o \in job[w] :
         LET rest == [held[w] EXCEPT ![o.row] = 0] IN
         /\ outbox' = [outbox EXCEPT ![o.row].status =
                                       Marked(w, o.row, o.result)]
         /\ held' = [held EXCEPT ![w] = rest]
         /\ Goto(w, IF rest = NothingHeld THEN "reserve" ELSE "send")
    /\ job' = [job EXCEPT ![w] = {}]
    /\ UNCHANGED <<queue, delivered, msg, mishap, faults>>

-----------------------------------------------------------------------------
(* Time, SQS and crashes.                                                  *)

BackoffElapses(j) ==
    /\ outbox[j].status = "backoff"
    /\ outbox' = [outbox EXCEPT ![j].status = "pending"]
    /\ UNCHANGED <<queue, delivered, pc, local, mishap, faults>>

LeaseExpires(j) ==
    /\ outbox[j].status = "in_progress"
    /\ Holders(j) = {}
    /\ outbox' = [outbox EXCEPT ![j].status = "expired"]
    /\ UNCHANGED <<queue, delivered, pc, local, mishap, faults>>

\* A worker is still busy with the batch when the ten minutes are over.
LeaseOverruns(j) ==
    /\ outbox[j].status = "in_progress"
    /\ Holders(j) # {}
    /\ Fault
    /\ outbox' = [outbox EXCEPT ![j].status = "expired"]
    /\ mishap' = [mishap EXCEPT ![j] = @ \cup {"overrun"}]
    /\ UNCHANGED <<queue, delivered, pc, local>>

VisibilityExpires(m) ==
    /\ sqs[m] = "inflight"
    /\ Handling(m) = {}
    /\ sqs' = [sqs EXCEPT ![m] = "visible"]
    /\ UNCHANGED <<processed, commits, outbox, delivered, pc, local, mishap,
                   faults>>

\* SQS delivers again although a worker has the message, because the
\* heartbeat failed, or although it was deleted.
Redeliver(m) ==
    /\ \/ sqs[m] = "inflight" /\ Handling(m) # {}
       \/ sqs[m] = "deleted"
    /\ Fault
    /\ sqs' = [sqs EXCEPT ![m] = "visible"]
    /\ UNCHANGED <<processed, commits, outbox, delivered, pc, local, mishap>>

\* The process dies, or an SQS or database call outside the extraction raises,
\* which nothing catches; it is started again.
Crash(w) ==
    /\ Fault
    /\ pc' = [pc EXCEPT ![w] = "reserve"]
    /\ msg' = [msg EXCEPT ![w] = NoMsg]
    /\ held' = [held EXCEPT ![w] = NothingHeld]
    /\ job' = [job EXCEPT ![w] = {}]
    /\ mishap' = [j \in Job |-> IF held[w][j] > 0
                                THEN mishap[j] \cup {"crash"} ELSE mishap[j]]
    /\ UNCHANGED <<queue, outbox, delivered>>

-----------------------------------------------------------------------------
WorkerStep(w) ==
    \/ \E m \in Msg : Receive(w, m)
    \/ ReceiveNothing(w) \/ Check(w) \/ Extract(w) \/ Persist(w) \/ Delete(w)
    \/ Reserve(w) \/ Mark(w)
    \/ \E j \in Job : SendOk(w, j) \/ SendFails(w, j)
    \/ ExtractFails(w)

Time ==
    \/ \E j \in Job : BackoffElapses(j) \/ LeaseExpires(j) \/ LeaseOverruns(j)
    \/ \E m \in Msg : VisibilityExpires(m) \/ Redeliver(m)

Next == (\E w \in Worker : WorkerStep(w) \/ Crash(w)) \/ Time

Spec == Init /\ [][Next]_vars

\* The workers run, and time passes.  Nothing is assumed of faults.
Fairness ==
    /\ \A w \in Worker : WF_vars(WorkerStep(w))
    /\ \A j \in Job : WF_vars(BackoffElapses(j)) /\ WF_vars(LeaseExpires(j))
    /\ \A m \in Msg : WF_vars(VisibilityExpires(m))

FairSpec == Spec /\ Fairness

-----------------------------------------------------------------------------
(* Properties.                                                             *)

\* Every variable stays in the shape the code gives it.
TypeOK ==
    /\ sqs \in [Msg -> {"visible", "inflight", "deleted"}]
    /\ processed \subseteq Msg
    /\ commits \in [Msg -> Nat]
    /\ outbox \in [Job -> Row]
    /\ delivered \in [Job -> Nat]
    /\ pc \in [Worker -> {"reserve", "send", "mark", "receive", "check",
                          "extract", "persist", "delete"}]
    /\ msg \in [Worker -> Msg \cup {NoMsg}]
    /\ held \in [Worker -> [Job -> Nat]]
    /\ job \in [Worker -> SUBSET Outcome]
    /\ mishap \in [Job -> SUBSET {"lost answer", "overrun", "crash"}]
    /\ faults \in Nat

\* However often SQS delivers a message and however many workers pass the
\* already-processed check with it, its graph writes are committed once, and
\* no outbox row exists for a message that is not committed.
CommitOnce ==
    /\ \A m \in Msg : commits[m] = IF m \in processed THEN 1 ELSE 0
    /\ \A j \in Job : outbox[j].status # "none" => j[1] \in processed

\* A message leaves the queue only after its segment was committed: no crash,
\* failed extraction or lost race acknowledges a segment that is not in the
\* graph.
AckOnlyCommitted ==
    \A m \in Msg \ Malformed : sqs[m] = "deleted" => m \in processed

\* Whichever worker marked the row last, a row that says sent was taken by the
\* downstream queue at least once, and a row that was given up had used all its
\* attempts.
SentMeansDelivered ==
    \A j \in Job : /\ outbox[j].status = "sent" => delivered[j] > 0
                   /\ outbox[j].status = "failed" =>
                          outbox[j].attempts >= MaxAttempts

\* A job is delivered twice only if an answer was lost, a worker died holding
\* its row, or the row's lease ran out under a worker still sending.
DuplicatesNeedAMishap ==
    \A j \in Job : delivered[j] > 1 => mishap[j] # {}

\* Every segment that reaches the queue is acknowledged in the end, and every
\* outbox row is sent or given up and stays so: a poisoned row is not retried
\* forever, and a crash strands neither.
EverythingSettles ==
    /\ \A m \in Msg : []<>(sqs[m] = "deleted")
    /\ \A j \in Job : <>[](outbox[j].status \in Settled \cup {"none"})
=============================================================================
