---------------------- MODULE ExtractionWorkerProofs ----------------------
(***************************************************************************)
(* Proofs about ExtractionWorker for any number of messages, workers, kinds *)
(* of rows, attempts and faults.                                            *)
(***************************************************************************)
EXTENDS ExtractionWorker, TLAPS

Steps == {"reserve", "send", "mark", "receive", "check", "extract", "persist",
          "delete"}

\* What a worker at a step of process_message or of the main loop knows of the
\* message x it handles: that it is committed, once the commit is behind it.
Knows(step, x) ==
    /\ step \in {"check", "extract", "persist", "delete"} => x \in Msg
    /\ step = "delete" => x \in processed
    /\ step = "receive" => x = NoMsg
    /\ step \in {"reserve", "send", "mark"} => x = NoMsg \/ x \in processed

MessageInHand == \A w \in Worker : Knows(pc[w], msg[w])

\* A worker holds existing rows only, under an attempt that was counted.
HeldRowsExist ==
    \A w \in Worker : \A j \in Job :
        /\ held[w][j] <= outbox[j].attempts
        /\ held[w][j] > 0 => outbox[j].status # "none"

\* Only a worker about to mark a row has one in hand; it holds the row, and
\* there is a delivery to show if the send returned.
RowInHand ==
    \A w \in Worker :
        /\ pc[w] # "mark" => job[w] = {}
        /\ \A o \in job[w] : /\ held[w][o.row] > 0
                             /\ o.result = "ok" => delivered[o.row] > 0

\* The inductive invariant.  CommitOnce and AckOnlyCommitted need to know that
\* a worker deletes committed messages only, SentMeansDelivered that an old
\* lease was counted and that a row marked sent was delivered.
IInv == /\ TypeOK
        /\ CommitOnce
        /\ AckOnlyCommitted
        /\ SentMeansDelivered
        /\ MessageInHand
        /\ HeldRowsExist
        /\ RowInHand

LEMMA OutcomeType ==
    ASSUME NEW S \in SUBSET Outcome
    PROVE  \A o \in S : o.row \in Job /\ o.result \in {"ok", "error"}
BY DEF Outcome

LEMMA InitIInv == Init => IInv
<1> SUFFICES ASSUME Init PROVE IInv
  OBVIOUS
<1> USE ConstantsAssumption
<1>1. TypeOK
  BY DEF Init, TypeOK, Row, Status, Outcome, NothingHeld
<1>2. CommitOnce /\ AckOnlyCommitted /\ SentMeansDelivered
  BY DEF Init, CommitOnce, AckOnlyCommitted, SentMeansDelivered
<1>3. MessageInHand /\ HeldRowsExist /\ RowInHand
  BY DEF Init, MessageInHand, Knows, HeldRowsExist, RowInHand, NothingHeld
<1> QED BY <1>1, <1>2, <1>3 DEF IInv

-----------------------------------------------------------------------------
(* Steps that move a worker and change neither the graph nor the outbox.   *)

LEMMA Move ==
    ASSUME IInv, NEW w \in Worker, NEW step \in Steps \ {"mark"},
           NEW x \in Msg \cup {NoMsg},
           pc' = [pc EXCEPT ![w] = step],
           msg' = [msg EXCEPT ![w] = x],
           Knows(step, x),
           job[w] = {},
           sqs' \in [Msg -> {"visible", "inflight", "deleted"}],
           \A m \in Msg \ Malformed : sqs'[m] = "deleted" => m \in processed,
           faults' \in Nat,
           UNCHANGED <<processed, commits, outbox, delivered, held, job,
                       mishap>>
    PROVE  IInv'
<1> USE DEF IInv
<1>1. TypeOK'
  BY DEF TypeOK, Steps
<1>2. CommitOnce' /\ SentMeansDelivered' /\ HeldRowsExist'
  BY DEF CommitOnce, SentMeansDelivered, HeldRowsExist
<1>3. AckOnlyCommitted'
  BY DEF AckOnlyCommitted
<1>4. MessageInHand'
  BY DEF MessageInHand, Knows, TypeOK
<1>5. RowInHand'
  BY DEF RowInHand, TypeOK
<1> QED BY <1>1, <1>2, <1>3, <1>4, <1>5

LEMMA MessageStepIInv ==
    ASSUME IInv, NEW w \in Worker,
           \/ \E m \in Msg : Receive(w, m)
           \/ ReceiveNothing(w) \/ Check(w) \/ Extract(w)
           \/ ExtractFails(w) \/ Delete(w)
    PROVE  IInv'
<1> USE ConstantsAssumption
<1>1. /\ pc[w] # "mark" => job[w] = {}
      /\ Knows(pc[w], msg[w])
      /\ msg[w] \in Msg \cup {NoMsg}
      /\ sqs \in [Msg -> {"visible", "inflight", "deleted"}]
      /\ \A m \in Msg \ Malformed : sqs[m] = "deleted" => m \in processed
      /\ faults \in Nat
      /\ msg = [msg EXCEPT ![w] = msg[w]]
  BY DEF IInv, TypeOK, RowInHand, MessageInHand, AckOnlyCommitted
<1>2. ASSUME NEW m \in Msg, Receive(w, m), m \in Malformed PROVE IInv'
  BY <1>1, <1>2, Move DEF Receive, Goto, Knows, Steps
<1>3. ASSUME NEW m \in Msg, Receive(w, m), m \notin Malformed PROVE IInv'
  BY <1>1, <1>3, Move DEF Receive, Goto, Knows, Steps
<1>4. CASE ReceiveNothing(w)
  BY <1>1, <1>4, Move DEF ReceiveNothing, Goto, Knows, Steps, queue, local
<1>5. CASE Check(w)
  BY <1>1, <1>5, Move DEF Check, Goto, Knows, Steps, queue, local
<1>6. CASE Extract(w)
  BY <1>1, <1>6, Move DEF Extract, Goto, Knows, Steps, queue, local
<1>7. CASE ExtractFails(w)
  <2>1. /\ faults' \in Nat /\ job[w] = {}
        /\ msg' = [msg EXCEPT ![w] = NoMsg]
        /\ pc' = [pc EXCEPT ![w] = "reserve"]
        /\ UNCHANGED <<queue, outbox, delivered, held, job, mishap>>
    BY <1>1, <1>7 DEF ExtractFails, Fault, Goto
  <2> QED
    BY <1>1, <2>1, Move DEF Knows, Steps, queue
<1>8. CASE Delete(w)
  <2>1. /\ msg[w] \in processed
        /\ \/ sqs' = [sqs EXCEPT ![msg[w]] = "deleted"]
           \/ sqs' = sqs
    BY <1>1, <1>8 DEF Delete, Knows
  <2>2. /\ sqs' \in [Msg -> {"visible", "inflight", "deleted"}]
        /\ \A m \in Msg \ Malformed : sqs'[m] = "deleted" => m \in processed
    BY <1>1, <2>1
  <2> QED
    BY <1>1, <1>8, <2>2, Move DEF Delete, Goto, Knows, Steps
<1> QED BY <1>2, <1>3, <1>4, <1>5, <1>6, <1>7, <1>8

-----------------------------------------------------------------------------
(* The commit.                                                             *)

LEMMA PersistIInv ==
    ASSUME IInv, NEW w \in Worker, Persist(w)
    PROVE  IInv'
<1> USE DEF IInv
<1>1. /\ msg[w] \in Msg
      /\ job[w] = {}
      /\ pc' = [pc EXCEPT ![w] = "reserve"]
      /\ UNCHANGED <<sqs, delivered, msg, held, job, mishap, faults>>
  BY DEF Persist, Goto, local, MessageInHand, Knows, RowInHand
<1>2. CASE msg[w] \in processed
  <2>1. UNCHANGED <<processed, commits, outbox>> /\ msg = [msg EXCEPT ![w] = @]
    BY <1>2 DEF Persist, TypeOK
  <2> QED
    BY <1>1, <1>2, <2>1, Move DEF Knows, Steps, TypeOK, AckOnlyCommitted
<1>3. CASE msg[w] \notin processed
  <2>1. PICK kinds \in SUBSET Kind :
          outbox' = [j \in Job |->
                       IF j[1] = msg[w] /\ j[2] \in kinds
                       THEN [status |-> "pending", attempts |-> 0]
                       ELSE outbox[j]]
    BY <1>3 DEF Persist
  <2>2. /\ processed' = processed \cup {msg[w]}
        /\ commits' = [commits EXCEPT ![msg[w]] = @ + 1]
    BY <1>3 DEF Persist, MarkProcessed
  <2>3. \A j \in Job : j[1] = msg[w] => outbox[j].status = "none"
    BY <1>3 DEF CommitOnce
  <2>4. outbox' \in [Job -> Row]
    BY <2>1 DEF TypeOK, Row, Status
  <2> DEFINE Counts(c) == c \in [Msg -> Nat]
  <2>a. Counts(commits) /\ processed \subseteq Msg
    BY DEF TypeOK
  <2>b. Counts(commits') /\ processed' \subseteq Msg
    BY <1>1, <2>2, <2>a
  <2>5. TypeOK'
    <3>1. pc' \in [Worker -> Steps]
      BY <1>1 DEF TypeOK, Steps
    <3> QED
      BY <1>1, <2>4, <2>b, <3>1 DEF TypeOK, Steps
  <2>6. \A m \in Msg : commits'[m] = IF m \in processed' THEN 1 ELSE 0
    BY <1>1, <1>3, <2>2, <2>a DEF CommitOnce
  <2>7. CommitOnce'
    BY <2>1, <2>2, <2>6 DEF CommitOnce
  <2>8. AckOnlyCommitted'
    BY <1>1, <2>2 DEF AckOnlyCommitted
  <2>9. SentMeansDelivered'
    BY <1>1, <2>1 DEF SentMeansDelivered
  <2>10. MessageInHand'
    BY <1>1, <2>2 DEF MessageInHand, Knows, TypeOK
  <2>11. HeldRowsExist'
    <3> SUFFICES ASSUME NEW v \in Worker, NEW j \in Job
                 PROVE  /\ held[v][j] <= outbox'[j].attempts
                        /\ held[v][j] > 0 => outbox'[j].status # "none"
      BY <1>1 DEF HeldRowsExist
    <3>1. held[v][j] \in Nat
      BY DEF TypeOK
    <3>2. CASE j[1] = msg[w]
      BY <2>1, <2>3, <3>1, <3>2 DEF HeldRowsExist
    <3>3. CASE j[1] # msg[w]
      BY <2>1, <3>3 DEF HeldRowsExist
    <3> QED BY <3>2, <3>3
  <2>12. RowInHand'
    BY <1>1 DEF RowInHand, TypeOK
  <2> QED BY <2>5, <2>7, <2>8, <2>9, <2>10, <2>11, <2>12
<1> QED BY <1>2, <1>3

-----------------------------------------------------------------------------
(* The drain.                                                              *)

LEMMA ReserveIInv ==
    ASSUME IInv, NEW w \in Worker, Reserve(w)
    PROVE  IInv'
<1> USE DEF IInv
<1> DEFINE picked == Reservable(w)
<1>1. /\ pc[w] = "reserve"
      /\ job[w] = {}
      /\ UNCHANGED <<sqs, processed, commits, delivered, msg, job, mishap,
                     faults>>
  BY DEF Reserve, queue, RowInHand
<1>2. CASE picked = {}
  <2>1. /\ UNCHANGED <<outbox, held>> /\ msg = [msg EXCEPT ![w] = @]
        /\ pc' = [pc EXCEPT ![w] = IF msg[w] = NoMsg THEN "receive"
                                                     ELSE "delete"]
    BY <1>2 DEF Reserve, Goto, TypeOK
  <2>2. /\ msg[w] \in Msg \cup {NoMsg}
        /\ msg[w] # NoMsg => msg[w] \in processed
    BY <1>1 DEF TypeOK, MessageInHand, Knows
  <2> QED
    BY <1>1, <2>1, <2>2, Move DEF Knows, Steps, TypeOK, AckOnlyCommitted
<1>3. CASE picked # {}
  <2>1. /\ outbox' = [j \in Job |->
                        IF j \in picked
                        THEN [status |-> "in_progress",
                              attempts |-> outbox[j].attempts + 1]
                        ELSE outbox[j]]
        /\ held' = [held EXCEPT ![w] =
                      [j \in Job |-> IF j \in picked
                                     THEN outbox[j].attempts + 1
                                     ELSE 0]]
        /\ pc' = [pc EXCEPT ![w] = "send"]
    BY <1>3 DEF Reserve, Goto
  <2>2. \A j \in picked : j \in Job /\ outbox[j].status # "none"
    BY DEF Reservable
  <2> HIDE DEF picked
  <2>3. /\ outbox \in [Job -> Row] /\ held \in [Worker -> [Job -> Nat]]
        /\ \A j \in Job : outbox[j].attempts \in Nat
    BY DEF TypeOK, Row
  <2>4. /\ outbox' \in [Job -> Row]
        /\ held'[w] \in [Job -> Nat]
        /\ held' \in [Worker -> [Job -> Nat]]
    <3>1. outbox' \in [Job -> Row]
      BY <2>1, <2>3 DEF Row, Status
    <3>2. [j \in Job |-> IF j \in picked THEN outbox[j].attempts + 1 ELSE 0]
             \in [Job -> Nat]
      BY <2>3
    <3> QED BY <2>1, <2>3, <3>1, <3>2
  <2>5. TypeOK'
    <3>1. pc' \in [Worker -> Steps]
      BY <2>1 DEF TypeOK, Steps
    <3> QED
      BY <1>1, <2>4, <3>1 DEF TypeOK, Steps
  <2>6. CommitOnce' /\ SentMeansDelivered' /\ AckOnlyCommitted'
    BY <1>1, <2>1, <2>2 DEF CommitOnce, SentMeansDelivered, AckOnlyCommitted
  <2>7. MessageInHand'
    BY <1>1, <2>1 DEF MessageInHand, Knows, TypeOK
  <2>8. HeldRowsExist'
    <3> SUFFICES ASSUME NEW v \in Worker, NEW j \in Job
                 PROVE  /\ held'[v][j] <= outbox'[j].attempts
                        /\ held'[v][j] > 0 => outbox'[j].status # "none"
      BY DEF HeldRowsExist
    <3>1. /\ held[v][j] \in Nat /\ outbox[j].attempts \in Nat
          /\ held[v][j] <= outbox[j].attempts
          /\ held[v][j] > 0 => outbox[j].status # "none"
      BY <2>3 DEF HeldRowsExist
    <3>2. outbox'[j] = IF j \in picked
                       THEN [status |-> "in_progress",
                             attempts |-> outbox[j].attempts + 1]
                       ELSE outbox[j]
      BY <2>1
    <3>3. held'[v][j] = IF v = w
                        THEN IF j \in picked THEN outbox[j].attempts + 1 ELSE 0
                        ELSE held[v][j]
      BY <2>1, <2>3
    <3> QED BY <3>1, <3>2, <3>3
  <2>9. RowInHand'
    BY <1>1, <2>1 DEF RowInHand, TypeOK
  <2> QED BY <2>5, <2>6, <2>7, <2>8, <2>9
<1> QED BY <1>2, <1>3

LEMMA SendIInv ==
    ASSUME IInv, NEW w \in Worker, NEW j \in Job,
           SendOk(w, j) \/ SendFails(w, j)
    PROVE  IInv'
<1> USE DEF IInv
<1>1. /\ pc[w] = "send" /\ held[w][j] > 0
      /\ pc' = [pc EXCEPT ![w] = "mark"]
      /\ UNCHANGED <<sqs, processed, commits, outbox, msg, held>>
  BY DEF SendOk, SendFails, Goto, queue
<1>2. \/ delivered' = delivered
      \/ delivered' = [delivered EXCEPT ![j] = @ + 1]
  BY DEF SendOk, SendFails
<1>3. PICK r \in {"ok", "error"} :
        /\ job' = [job EXCEPT ![w] = {[row |-> j, result |-> r]}]
        /\ r = "ok" => delivered' = [delivered EXCEPT ![j] = @ + 1]
  BY DEF SendOk, SendFails
<1> DEFINE Kinds == {"lost answer", "overrun", "crash"}
<1>a. faults' \in Nat
  <2>1. faults \in Nat
    BY DEF TypeOK
  <2>2. CASE faults' = faults
    BY <2>1, <2>2
  <2>3. CASE faults' = faults + 1
    BY <2>1, <2>3
  <2> QED BY <2>2, <2>3 DEF SendOk, SendFails, Fault
<1>b. delivered \in [Job -> Nat]
  BY DEF TypeOK
<1>4. /\ mishap \in [Job -> SUBSET Kinds]
      /\ job \in [Worker -> SUBSET Outcome]
      /\ pc \in [Worker -> Steps]
  BY DEF TypeOK, Steps
<1>5. \/ mishap' = mishap
      \/ mishap' = [mishap EXCEPT ![j] = @ \cup {"lost answer"}]
  BY DEF SendOk, SendFails
<1>6. /\ delivered' \in [Job -> Nat]
      /\ \A k \in Job : delivered[k] > 0 => delivered'[k] > 0
  <2>1. CASE delivered' = delivered
    BY <1>b, <2>1
  <2>2. CASE delivered' = [delivered EXCEPT ![j] = @ + 1]
    BY <1>b, <2>2
  <2> QED BY <1>2, <2>1, <2>2
<1>7. job' \in [Worker -> SUBSET Outcome]
  <2>1. [row |-> j, result |-> r] \in Outcome
    BY DEF Outcome
  <2> QED BY <1>3, <1>4, <2>1
<1>8. TypeOK'
  <2>1. faults' \in Nat /\ mishap' \in [Job -> SUBSET Kinds]
    <3>1. mishap[j] \cup {"lost answer"} \in SUBSET Kinds
      BY <1>4
    <3>2. mishap' \in [Job -> SUBSET Kinds]
      BY <1>4, <1>5, <3>1
    <3> QED BY <1>a, <3>2
  <2>2. pc' \in [Worker -> Steps]
    BY <1>1, <1>4 DEF Steps
  <2> QED
    BY <1>1, <1>6, <1>7, <2>1, <2>2 DEF TypeOK, Steps
<1>9. CommitOnce' /\ AckOnlyCommitted' /\ HeldRowsExist'
  BY <1>1 DEF CommitOnce, AckOnlyCommitted, HeldRowsExist
<1>10. SentMeansDelivered'
  BY <1>1, <1>6 DEF SentMeansDelivered
<1>11. MessageInHand'
  BY <1>1 DEF MessageInHand, Knows, TypeOK
<1>12. RowInHand'
  <2> SUFFICES ASSUME NEW v \in Worker
               PROVE  /\ pc'[v] # "mark" => job'[v] = {}
                      /\ \A o \in job'[v] :
                            /\ held[v][o.row] > 0
                            /\ o.result = "ok" => delivered'[o.row] > 0
    BY <1>1 DEF RowInHand
  <2>1. CASE v = w
    <3>1. pc'[v] = "mark" /\ job'[v] = {[row |-> j, result |-> r]}
      BY <1>1, <1>3, <1>4, <2>1
    <3>2. r = "ok" => delivered'[j] > 0
      <4>1. HAVE r = "ok"
      <4>2. delivered' = [delivered EXCEPT ![j] = @ + 1]
        BY <1>3, <4>1
      <4> QED BY <1>b, <4>2
    <3> QED BY <1>1, <2>1, <3>1, <3>2
  <2>2. CASE v # w
    <3>1. pc'[v] = pc[v] /\ job'[v] = job[v]
      BY <1>1, <1>3, <1>4, <2>2
    <3>2. \A o \in job[v] : o.row \in Job
      BY <1>4, OutcomeType
    <3> QED BY <1>6, <3>1, <3>2 DEF RowInHand
  <2> QED BY <2>1, <2>2
<1> QED BY <1>8, <1>9, <1>10, <1>11, <1>12

LEMMA MarkIInv ==
    ASSUME IInv, NEW w \in Worker, Mark(w)
    PROVE  IInv'
<1> USE DEF IInv
<1>1. PICK o \in job[w] :
        LET rest == [held[w] EXCEPT ![o.row] = 0] IN
        /\ outbox' = [outbox EXCEPT ![o.row].status =
                                      Marked(w, o.row, o.result)]
        /\ held' = [held EXCEPT ![w] = rest]
        /\ Goto(w, IF rest = NothingHeld THEN "reserve" ELSE "send")
  BY DEF Mark
<1>2. /\ pc[w] = "mark"
      /\ job' = [job EXCEPT ![w] = {}]
      /\ UNCHANGED <<sqs, processed, commits, delivered, msg, mishap, faults>>
  BY DEF Mark, queue
<1>3. PICK step \in {"reserve", "send"} : pc' = [pc EXCEPT ![w] = step]
  BY <1>1 DEF Goto
<1>4. /\ outbox \in [Job -> Row] /\ held \in [Worker -> [Job -> Nat]]
      /\ job \in [Worker -> SUBSET Outcome]
      /\ pc \in [Worker -> Steps]
  BY DEF TypeOK, Steps
<1> DEFINE j == o.row
           s == Marked(w, j, o.result)
<1>5. /\ j \in Job /\ o.result \in {"ok", "error"}
      /\ held[w][j] > 0
      /\ o.result = "ok" => delivered[j] > 0
  BY <1>4, OutcomeType DEF RowInHand
<1>6. /\ outbox' = [outbox EXCEPT ![j].status = s]
      /\ held' = [held EXCEPT ![w] = [held[w] EXCEPT ![j] = 0]]
  BY <1>1
<1>7. /\ s \in {"sent", "failed", "backoff"}
      /\ s = "sent" => delivered[j] > 0
      /\ s = "failed" => held[w][j] >= MaxAttempts
  BY <1>5 DEF Marked
<1> HIDE DEF j, s
<1>8. /\ outbox[j] \in Row
      /\ outbox[j].status # "none"
      /\ held[w][j] \in Nat /\ outbox[j].attempts \in Nat
      /\ held[w][j] <= outbox[j].attempts
  BY <1>4, <1>5 DEF HeldRowsExist, Row
<1>9. \A k \in Job :
        /\ outbox'[k].status = IF k = j THEN s ELSE outbox[k].status
        /\ outbox'[k].attempts = outbox[k].attempts
  BY <1>4, <1>6, <1>8 DEF Row
<1>10. TypeOK'
  <2>1. outbox' \in [Job -> Row]
    BY <1>4, <1>6, <1>7, <1>8 DEF Row, Status
  <2>2. held' \in [Worker -> [Job -> Nat]]
    BY <1>4, <1>5, <1>6
  <2>3. job' \in [Worker -> SUBSET Outcome] /\ pc' \in [Worker -> Steps]
    BY <1>2, <1>3, <1>4 DEF Steps
  <2> QED BY <1>2, <2>1, <2>2, <2>3 DEF TypeOK, Steps
<1>11. CommitOnce'
  BY <1>2, <1>8, <1>9 DEF CommitOnce
<1>12. AckOnlyCommitted'
  BY <1>2 DEF AckOnlyCommitted
<1>13. SentMeansDelivered'
  <2>1. MaxAttempts \in Nat
    BY ConstantsAssumption
  <2> QED
    BY <1>2, <1>7, <1>8, <1>9, <2>1 DEF SentMeansDelivered
<1>14. MessageInHand'
  BY <1>2, <1>3, <1>4 DEF MessageInHand, Knows
<1>15. HeldRowsExist'
  <2> SUFFICES ASSUME NEW v \in Worker, NEW k \in Job
               PROVE  /\ held'[v][k] <= outbox'[k].attempts
                      /\ held'[v][k] > 0 => outbox'[k].status # "none"
    BY DEF HeldRowsExist
  <2>1. held'[v][k] = IF v = w /\ k = j THEN 0 ELSE held[v][k]
    BY <1>4, <1>5, <1>6
  <2>2. /\ held[v][k] \in Nat /\ outbox[k].attempts \in Nat
        /\ held[v][k] <= outbox[k].attempts
        /\ held[v][k] > 0 => outbox[k].status # "none"
    BY <1>4 DEF HeldRowsExist, Row
  <2> QED BY <1>7, <1>9, <2>1, <2>2
<1>16. RowInHand'
  <2> SUFFICES ASSUME NEW v \in Worker
               PROVE  /\ pc'[v] # "mark" => job'[v] = {}
                      /\ \A q \in job'[v] :
                            /\ held'[v][q.row] > 0
                            /\ q.result = "ok" => delivered[q.row] > 0
    BY <1>2 DEF RowInHand
  <2>1. CASE v = w
    BY <1>2, <1>4, <2>1
  <2>2. CASE v # w
    BY <1>2, <1>3, <1>4, <1>6, <2>2 DEF RowInHand
  <2> QED BY <2>1, <2>2
<1> QED BY <1>10, <1>11, <1>12, <1>13, <1>14, <1>15, <1>16

-----------------------------------------------------------------------------
(* Time, SQS, crashes and stuttering.                                      *)

\* The rows keep what the invariant says of them when an unsettled status
\* gives way to another.
LEMMA TimeIInv ==
    ASSUME IInv, Time
    PROVE  IInv'
<1> USE DEF IInv
<1>1. ASSUME NEW j \in Job,
             BackoffElapses(j) \/ LeaseExpires(j) \/ LeaseOverruns(j)
      PROVE  IInv'
  <2>1. PICK s \in {"pending", "expired"} :
          outbox' = [outbox EXCEPT ![j].status = s]
    BY <1>1 DEF BackoffElapses, LeaseExpires, LeaseOverruns
  <2>2. /\ outbox[j].status # "none"
        /\ faults' = faults \/ faults' = faults + 1
        /\ \/ mishap' = mishap
           \/ mishap' = [mishap EXCEPT ![j] = @ \cup {"overrun"}]
        /\ UNCHANGED <<sqs, processed, commits, delivered, pc, msg, held, job>>
    BY <1>1 DEF BackoffElapses, LeaseExpires, LeaseOverruns, Fault, queue, local
  <2>a. faults' \in Nat
    <3>1. faults \in Nat
      BY DEF TypeOK
    <3>2. CASE faults' = faults
      BY <3>1, <3>2
    <3>3. CASE faults' = faults + 1
      BY <3>1, <3>3
    <3> QED BY <2>2, <3>2, <3>3
  <2> DEFINE Kinds == {"lost answer", "overrun", "crash"}
  <2>3. /\ outbox \in [Job -> Row]
        /\ mishap \in [Job -> SUBSET Kinds]
    BY DEF TypeOK
  <2>4. \A k \in Job :
          /\ outbox'[k].status = IF k = j THEN s ELSE outbox[k].status
          /\ outbox'[k].attempts = outbox[k].attempts
    BY <2>1, <2>3 DEF Row
  <2>5. TypeOK'
    <3>1. outbox' \in [Job -> Row]
      BY <2>1, <2>3 DEF Row, Status
    <3>2. mishap' \in [Job -> SUBSET Kinds]
      <4>1. mishap[j] \cup {"overrun"} \in SUBSET Kinds
        BY <2>3
      <4> QED BY <2>2, <2>3, <4>1
    <3> QED BY <2>2, <2>a, <3>1, <3>2 DEF TypeOK
  <2>6. CommitOnce' /\ AckOnlyCommitted' /\ SentMeansDelivered'
    BY <2>2, <2>4 DEF CommitOnce, AckOnlyCommitted, SentMeansDelivered
  <2>7. MessageInHand' /\ RowInHand'
    BY <2>2 DEF MessageInHand, Knows, RowInHand
  <2>8. HeldRowsExist'
    BY <2>2, <2>4 DEF HeldRowsExist
  <2> QED BY <2>5, <2>6, <2>7, <2>8
<1>2. ASSUME NEW m \in Msg, VisibilityExpires(m) \/ Redeliver(m)
      PROVE  IInv'
  <2>1. /\ sqs' = [sqs EXCEPT ![m] = "visible"]
        /\ faults' = faults \/ faults' = faults + 1
        /\ UNCHANGED <<processed, commits, outbox, delivered, pc, msg, held,
                       job, mishap>>
    BY <1>2 DEF VisibilityExpires, Redeliver, Fault, local
  <2>2. TypeOK'
    <3>1. sqs \in [Msg -> {"visible", "inflight", "deleted"}] /\ faults \in Nat
      BY DEF TypeOK
    <3>2. sqs' \in [Msg -> {"visible", "inflight", "deleted"}] /\ faults' \in Nat
      BY <2>1, <3>1
    <3> QED BY <2>1, <3>2 DEF TypeOK
  <2>3. AckOnlyCommitted'
    BY <2>1 DEF AckOnlyCommitted, TypeOK
  <2>4. CommitOnce' /\ SentMeansDelivered' /\ HeldRowsExist'
    BY <2>1 DEF CommitOnce, SentMeansDelivered, HeldRowsExist
  <2>5. MessageInHand' /\ RowInHand'
    BY <2>1 DEF MessageInHand, Knows, RowInHand
  <2> QED BY <2>2, <2>3, <2>4, <2>5
<1> QED BY <1>1, <1>2 DEF Time

LEMMA CrashIInv ==
    ASSUME IInv, NEW w \in Worker, Crash(w)
    PROVE  IInv'
<1> USE DEF IInv
<1>1. /\ pc' = [pc EXCEPT ![w] = "reserve"]
      /\ msg' = [msg EXCEPT ![w] = NoMsg]
      /\ held' = [held EXCEPT ![w] = NothingHeld]
      /\ job' = [job EXCEPT ![w] = {}]
      /\ faults' = faults + 1
      /\ UNCHANGED <<sqs, processed, commits, outbox, delivered>>
  BY DEF Crash, Fault, queue
<1>2. /\ pc \in [Worker -> Steps] /\ msg \in [Worker -> Msg \cup {NoMsg}]
      /\ held \in [Worker -> [Job -> Nat]] /\ outbox \in [Job -> Row]
      /\ job \in [Worker -> SUBSET Outcome] /\ faults \in Nat
  BY DEF TypeOK, Steps
<1>3. NothingHeld \in [Job -> Nat]
  BY DEF NothingHeld
<1>4. TypeOK'
  <2> DEFINE Kinds == {"lost answer", "overrun", "crash"}
  <2>1. mishap' \in [Job -> SUBSET Kinds]
    <3>1. mishap \in [Job -> SUBSET Kinds]
      BY DEF TypeOK
    <3>2. \A j \in Job : mishap[j] \cup {"crash"} \in SUBSET Kinds
      BY <3>1
    <3>3. mishap' = [j \in Job |-> IF held[w][j] > 0
                                   THEN mishap[j] \cup {"crash"} ELSE mishap[j]]
      BY DEF Crash
    <3> QED BY <3>1, <3>2, <3>3
  <2>2. /\ pc' \in [Worker -> Steps] /\ msg' \in [Worker -> Msg \cup {NoMsg}]
        /\ held' \in [Worker -> [Job -> Nat]] /\ faults' \in Nat
        /\ job' \in [Worker -> SUBSET Outcome]
    BY <1>1, <1>2, <1>3 DEF Steps
  <2> QED BY <1>1, <2>1, <2>2 DEF TypeOK, Steps
<1>5. CommitOnce' /\ AckOnlyCommitted' /\ SentMeansDelivered'
  BY <1>1 DEF CommitOnce, AckOnlyCommitted, SentMeansDelivered
<1>6. MessageInHand'
  BY <1>1, <1>2 DEF MessageInHand, Knows
<1>7. HeldRowsExist'
  <2> SUFFICES ASSUME NEW v \in Worker, NEW j \in Job
               PROVE  /\ held'[v][j] <= outbox[j].attempts
                      /\ held'[v][j] > 0 => outbox[j].status # "none"
    BY <1>1 DEF HeldRowsExist
  <2>1. held'[v][j] = IF v = w THEN 0 ELSE held[v][j]
    BY <1>1, <1>2 DEF NothingHeld
  <2>2. outbox[j].attempts \in Nat
    BY <1>2 DEF Row
  <2> QED BY <2>1, <2>2 DEF HeldRowsExist
<1>8. RowInHand'
  BY <1>1, <1>2 DEF RowInHand
<1> QED BY <1>4, <1>5, <1>6, <1>7, <1>8

LEMMA StutterIInv == IInv /\ UNCHANGED vars => IInv'
<1> SUFFICES ASSUME IInv, UNCHANGED vars PROVE IInv'
  OBVIOUS
<1>1. TypeOK' /\ CommitOnce' /\ AckOnlyCommitted' /\ SentMeansDelivered'
  BY DEF IInv, vars, TypeOK, CommitOnce, AckOnlyCommitted, SentMeansDelivered
<1>2. MessageInHand' /\ HeldRowsExist' /\ RowInHand'
  BY DEF IInv, vars, MessageInHand, Knows, HeldRowsExist, RowInHand
<1> QED BY <1>1, <1>2 DEF IInv

LEMMA NextIInv == IInv /\ [Next]_vars => IInv'
<1> SUFFICES ASSUME IInv, [Next]_vars PROVE IInv'
  OBVIOUS
<1>1. ASSUME NEW w \in Worker, WorkerStep(w) PROVE IInv'
  BY <1>1, MessageStepIInv, PersistIInv, ReserveIInv, SendIInv, MarkIInv
     DEF WorkerStep
<1>2. ASSUME NEW w \in Worker, Crash(w) PROVE IInv'
  BY <1>2, CrashIInv
<1>3. CASE Time
  BY <1>3, TimeIInv
<1>4. CASE UNCHANGED vars
  BY <1>4, StutterIInv
<1> QED BY <1>1, <1>2, <1>3, <1>4 DEF Next

-----------------------------------------------------------------------------
(* The theorems.                                                           *)

LEMMA Inductive == Spec => []IInv
<1>1. Init => IInv
  BY InitIInv
<1>2. IInv /\ [Next]_vars => IInv'
  BY NextIInv
<1> QED BY <1>1, <1>2, PTL DEF Spec

\* The workers keep every variable in its shape.
THEOREM TypeCorrect == Spec => []TypeOK
<1>1. IInv => TypeOK
  BY DEF IInv
<1> QED BY Inductive, <1>1, PTL

\* A segment's graph writes are committed once, with its outbox rows, however
\* often and to however many workers SQS delivers it (process_message).
THEOREM GraphWrittenOnce == Spec => []CommitOnce
<1>1. IInv => CommitOnce
  BY DEF IInv
<1> QED BY Inductive, <1>1, PTL

\* No segment leaves the extraction queue before it is committed.
THEOREM NoSegmentLost == Spec => []AckOnlyCommitted
<1>1. IInv => AckOnlyCommitted
  BY DEF IInv
<1> QED BY Inductive, <1>1, PTL

\* A sent row was delivered and a failed row had its attempts, although the
\* marks check neither the status nor the holder of the row.
THEOREM OutboxIsHonest == Spec => []SentMeansDelivered
<1>1. IInv => SentMeansDelivered
  BY DEF IInv
<1> QED BY Inductive, <1>1, PTL

-----------------------------------------------------------------------------
(* Rows to which nothing unusual happened.                                 *)

Sent(j) == [row |-> j, result |-> "ok"]

\* As long as no answer was lost, no holder died and no lease ran out, a row has
\* one holder at a time, which is what its status says, and a delivered row is
\* marked, or about to be marked by the worker that sent it.
CleanRow(j) ==
    mishap[j] = {} =>
        /\ delivered[j] <= 1
        /\ \A w \in Worker : held[w][j] > 0 => outbox[j].status = "in_progress"
        /\ \A v, w \in Worker : held[v][j] > 0 /\ held[w][j] > 0 => v = w
        /\ delivered[j] > 0 /\ outbox[j].status # "sent"
              => \E w \in Worker : Sent(j) \in job[w]

OneInHand == \A w \in Worker : \A o, p \in job[w] : o = p

\* The inductive invariant behind DuplicatesNeedAMishap.
CleanInv == IInv /\ OneInHand /\ \A j \in Job : CleanRow(j)

\* An unfinished delivery is in the hands of a holder of the row.
LEMMA SentIsHeld ==
    ASSUME CleanInv, NEW j \in Job, mishap[j] = {}, delivered[j] > 0,
           outbox[j].status # "sent"
    PROVE  \E w \in Worker : /\ Sent(j) \in job[w] /\ held[w][j] > 0
                             /\ pc[w] = "mark"
                             /\ outbox[j].status = "in_progress"
<1>1. PICK w \in Worker : Sent(j) \in job[w]
  BY DEF CleanInv, CleanRow
<1>2. held[w][j] > 0 /\ pc[w] = "mark"
  BY <1>1 DEF CleanInv, IInv, RowInHand, Sent
<1> QED BY <1>1, <1>2 DEF CleanInv, CleanRow

\* Steps that touch no row, no holder and no delivery.
LEMMA RowsAlone ==
    ASSUME CleanInv, IInv', UNCHANGED <<outbox, delivered, held, job, mishap>>
    PROVE  CleanInv'
BY DEF CleanInv, OneInHand, CleanRow, Sent

LEMMA PersistClean ==
    ASSUME CleanInv, IInv', NEW w \in Worker, Persist(w)
    PROVE  CleanInv'
<1>1. UNCHANGED <<delivered, held, job, mishap>> /\ OneInHand
  BY DEF Persist, local, CleanInv
<1>2. CASE outbox' = outbox
  BY <1>1, <1>2, RowsAlone
<1>3. CASE msg[w] \notin processed
  <2>1. \A j \in Job : \/ outbox'[j] = outbox[j]
                       \/ outbox'[j].status = "pending" /\ j[1] = msg[w]
    BY <1>3 DEF Persist
  <2>2. \A j \in Job : j[1] = msg[w] => outbox[j].status = "none"
    BY <1>3 DEF CleanInv, IInv, CommitOnce
  <2>3. ASSUME NEW j \in Job PROVE CleanRow(j)'
    <3> SUFFICES ASSUME mishap[j] = {} PROVE CleanRow(j)'
      BY <1>1 DEF CleanRow
    <3>1. CleanRow(j)
      BY DEF CleanInv
    <3>2. CASE outbox'[j] = outbox[j]
      BY <1>1, <3>1, <3>2 DEF CleanRow, Sent
    <3>3. CASE outbox'[j].status = "pending" /\ j[1] = msg[w]
      <4>1. outbox[j].status = "none"
        BY <2>2, <3>3
      <4>2. \A v \in Worker : ~(held[v][j] > 0)
        BY <3>1, <4>1 DEF CleanRow
      <4>3. ~(delivered[j] > 0)
        BY <4>1, SentIsHeld
      <4> QED BY <1>1, <3>1, <4>2, <4>3 DEF CleanRow, Sent
    <3> QED BY <2>1, <3>2, <3>3
  <2> QED BY <1>1, <2>3 DEF CleanInv, OneInHand
<1> QED BY <1>2, <1>3 DEF Persist

LEMMA ReserveClean ==
    ASSUME CleanInv, IInv', NEW w \in Worker, Reserve(w)
    PROVE  CleanInv'
<1> DEFINE picked == Reservable(w)
<1>1. /\ UNCHANGED <<delivered, job, mishap>> /\ pc[w] = "reserve" /\ OneInHand
      /\ held \in [Worker -> [Job -> Nat]]
  BY DEF Reserve, CleanInv, IInv, TypeOK
<1>2. CASE picked = {}
  BY <1>1, <1>2, RowsAlone DEF Reserve
<1>3. CASE picked # {}
  <2>1. /\ outbox' = [j \in Job |->
                        IF j \in picked
                        THEN [status |-> "in_progress",
                              attempts |-> outbox[j].attempts + 1]
                        ELSE outbox[j]]
        /\ held' = [held EXCEPT ![w] =
                      [j \in Job |-> IF j \in picked
                                     THEN outbox[j].attempts + 1
                                     ELSE 0]]
    BY <1>3 DEF Reserve
  <2>2. \A j \in picked : j \in Job /\ outbox[j].status \in {"pending", "expired"}
    BY DEF Reservable
  <2> HIDE DEF picked
  <2>3. ASSUME NEW j \in Job PROVE CleanRow(j)'
    <3> SUFFICES ASSUME mishap[j] = {} PROVE CleanRow(j)'
      BY <1>1 DEF CleanRow
    <3>1. CleanRow(j)
      BY DEF CleanInv
    <3>2. \A v \in Worker : v # w => held'[v][j] = held[v][j]
      BY <1>1, <2>1
    <3>3. CASE j \in picked
      <4>1. outbox'[j].status = "in_progress" /\ outbox[j].status \in {"pending", "expired"}
        BY <2>1, <2>2, <3>3
      <4>2. \A v \in Worker : ~(held[v][j] > 0)
        BY <3>1, <4>1 DEF CleanRow
      <4>3. ~(delivered[j] > 0)
        BY <4>1, SentIsHeld
      <4>4. \A v \in Worker : held'[v][j] > 0 => v = w
        BY <3>2, <4>2
      <4> QED BY <1>1, <3>1, <4>1, <4>3, <4>4 DEF CleanRow, Sent
    <3>4. CASE j \notin picked
      <4>1. outbox'[j] = outbox[j]
        BY <2>1, <3>4
      <4>2. held'[w][j] = 0
        BY <1>1, <2>1, <3>4
      <4>3. \A v \in Worker : held'[v][j] > 0 => held[v][j] > 0
        BY <3>2, <4>2
      <4> QED BY <1>1, <3>1, <4>1, <4>3 DEF CleanRow, Sent
    <3> QED BY <3>3, <3>4
  <2> QED BY <1>1, <2>3 DEF CleanInv, OneInHand
<1> QED BY <1>2, <1>3

LEMMA SendClean ==
    ASSUME CleanInv, IInv', NEW w \in Worker, NEW k \in Job,
           SendOk(w, k) \/ SendFails(w, k)
    PROVE  CleanInv'
<1>1. /\ pc[w] = "send" /\ held[w][k] > 0 /\ UNCHANGED <<outbox, held>>
      /\ job[w] = {} /\ OneInHand
      /\ job \in [Worker -> SUBSET Outcome] /\ delivered \in [Job -> Nat]
      /\ mishap \in [Job -> SUBSET {"lost answer", "overrun", "crash"}]
  BY DEF SendOk, SendFails, CleanInv, IInv, TypeOK, RowInHand
<1>2. PICK result \in {"ok", "error"} :
        /\ job' = [job EXCEPT ![w] = {[row |-> k, result |-> result]}]
        /\ result = "ok" => SendOk(w, k)
        /\ result = "error" => SendFails(w, k)
  BY DEF SendOk, SendFails
<1>3. \A v \in Worker :
        job'[v] = IF v = w THEN {[row |-> k, result |-> result]} ELSE job[v]
  BY <1>1, <1>2
<1>4. OneInHand'
  BY <1>1, <1>3 DEF OneInHand
<1>5. \A j \in Job \ {k} : delivered'[j] = delivered[j] /\ mishap'[j] = mishap[j]
  BY <1>1 DEF SendOk, SendFails
<1>6. ASSUME NEW j \in Job \ {k} PROVE CleanRow(j)'
  <2> SUFFICES ASSUME mishap[j] = {} PROVE CleanRow(j)'
    BY <1>5 DEF CleanRow
  <2>1. CleanRow(j)
    BY DEF CleanInv
  <2>2. \A v \in Worker : Sent(j) \in job[v] => Sent(j) \in job'[v]
    BY <1>1, <1>3
  <2> QED BY <1>1, <1>5, <2>1, <2>2 DEF CleanRow, Sent
<1>7. CleanRow(k)'
  <2> SUFFICES ASSUME mishap'[k] = {} PROVE CleanRow(k)'
    BY DEF CleanRow
  <2>1. mishap[k] = {}
    BY <1>1 DEF SendOk, SendFails
  <2>2. CleanRow(k)
    BY DEF CleanInv
  <2>3. outbox[k].status = "in_progress" /\ \A v \in Worker : held[v][k] > 0 => v = w
    BY <1>1, <2>1, <2>2 DEF CleanRow
  <2>4. ~(delivered[k] > 0)
    <3> SUFFICES ASSUME delivered[k] > 0 PROVE FALSE
      OBVIOUS
    <3>1. PICK v \in Worker : Sent(k) \in job[v] /\ held[v][k] > 0
      BY <2>1, <2>3, SentIsHeld
    <3> QED BY <1>1, <2>3, <3>1
  <2>5. delivered[k] \in Nat /\ DOMAIN delivered = Job
    BY <1>1
  <2>6. CASE SendOk(w, k)
    <3>1. delivered' = [delivered EXCEPT ![k] = @ + 1]
      BY <2>6 DEF SendOk
    <3>2. delivered'[k] = 1
      BY <2>4, <2>5, <3>1
    <3>3. job' = [job EXCEPT ![w] = {Sent(k)}]
      BY <2>6 DEF SendOk, Sent
    <3>4. Sent(k) \in job'[w]
      BY <1>1, <3>3
    <3>5. \E v \in Worker : Sent(k)' \in job'[v]
      BY <3>4 DEF Sent
    <3>6. /\ \A v \in Worker : held'[v][k] > 0 => outbox'[k].status = "in_progress"
          /\ \A u, v \in Worker : held'[u][k] > 0 /\ held'[v][k] > 0 => u = v
      BY <1>1, <2>1, <2>2 DEF CleanRow
    <3>7. delivered'[k] <= 1
      BY <3>2
    <3> QED BY <3>5, <3>6, <3>7 DEF CleanRow
  <2>7. CASE SendFails(w, k)
    <3>1. delivered' = delivered
      <4>1. \/ delivered' = delivered
            \/ mishap' = [mishap EXCEPT ![k] = @ \cup {"lost answer"}]
        BY <2>7 DEF SendFails
      <4>2. mishap' # [mishap EXCEPT ![k] = @ \cup {"lost answer"}]
        BY <1>1
      <4> QED BY <4>1, <4>2
    <3>2. ~(delivered'[k] > 0) /\ delivered'[k] <= 1
      BY <2>4, <2>5, <3>1
    <3> QED BY <1>1, <2>1, <2>2, <3>2 DEF CleanRow
  <2> QED BY <2>6, <2>7
<1> QED BY <1>4, <1>6, <1>7 DEF CleanInv

LEMMA MarkClean ==
    ASSUME CleanInv, IInv', NEW w \in Worker, Mark(w)
    PROVE  CleanInv'
<1>1. PICK o \in job[w] :
        /\ outbox' = [outbox EXCEPT ![o.row].status =
                                      Marked(w, o.row, o.result)]
        /\ held' = [held EXCEPT ![w] = [held[w] EXCEPT ![o.row] = 0]]
  BY DEF Mark
<1>2. /\ job' = [job EXCEPT ![w] = {}] /\ UNCHANGED <<delivered, mishap>>
      /\ OneInHand
      /\ outbox \in [Job -> Row] /\ held \in [Worker -> [Job -> Nat]]
      /\ job \in [Worker -> SUBSET Outcome]
  BY DEF Mark, CleanInv, IInv, TypeOK
<1> DEFINE k == o.row
<1>3. k \in Job /\ o.result \in {"ok", "error"} /\ held[w][k] > 0
  BY <1>2, OutcomeType DEF CleanInv, IInv, RowInHand
<1>4. o.result = "ok" => outbox'[k].status = "sent"
  BY <1>1, <1>2, <1>3 DEF Marked, Row
<1>5. \A j \in Job \ {k} : outbox'[j] = outbox[j]
  BY <1>1, <1>2
<1>6. \A v \in Worker, j \in Job :
         held'[v][j] = IF v = w /\ j = k THEN 0 ELSE held[v][j]
  BY <1>1, <1>2, <1>3
<1>7. \A v \in Worker : job'[v] = IF v = w THEN {} ELSE job[v]
  BY <1>2
<1>8. OneInHand'
  BY <1>2, <1>7 DEF OneInHand
<1>9. \A j \in Job : Sent(j) \in job[w] => j = k /\ o.result = "ok"
  <2> SUFFICES ASSUME NEW j \in Job, Sent(j) \in job[w]
               PROVE  j = k /\ o.result = "ok"
    OBVIOUS
  <2>1. o = Sent(j)
    BY <1>2 DEF OneInHand
  <2> QED BY <2>1 DEF Sent
<1> HIDE DEF k
<1>10. ASSUME NEW j \in Job \ {k} PROVE CleanRow(j)'
  <2> SUFFICES ASSUME mishap[j] = {} PROVE CleanRow(j)'
    BY <1>2 DEF CleanRow
  <2>1. CleanRow(j)
    BY DEF CleanInv
  <2>2. \A v \in Worker : Sent(j) \in job[v] => Sent(j) \in job'[v]
    BY <1>7, <1>9
  <2>3. \A v \in Worker : held'[v][j] = held[v][j]
    BY <1>6
  <2> QED BY <1>2, <1>5, <2>1, <2>2, <2>3 DEF CleanRow, Sent
<1>11. CleanRow(k)'
  <2> SUFFICES ASSUME mishap[k] = {} PROVE CleanRow(k)'
    BY <1>2 DEF CleanRow
  <2>1. CleanRow(k)
    BY <1>3 DEF CleanInv
  <2>2. \A v \in Worker : held[v][k] > 0 => v = w
    BY <1>3, <2>1 DEF CleanRow
  <2>3. \A v \in Worker : ~(held'[v][k] > 0)
    BY <1>3, <1>6, <2>2
  <2>4. delivered[k] > 0 => outbox'[k].status = "sent"
    <3> SUFFICES ASSUME delivered[k] > 0, o.result # "ok" PROVE FALSE
      BY <1>3, <1>4
    <3>1. outbox[k].status = "in_progress"
      BY <1>3, <2>1 DEF CleanRow
    <3>2. PICK v \in Worker : Sent(k) \in job[v] /\ held[v][k] > 0
      BY <1>3, <3>1, SentIsHeld
    <3> QED BY <1>3, <1>9, <2>2, <3>2
  <2> QED BY <1>2, <2>1, <2>3, <2>4 DEF CleanRow, Sent
<1> QED BY <1>8, <1>10, <1>11 DEF CleanInv

LEMMA TimeClean ==
    ASSUME CleanInv, IInv', Time
    PROVE  CleanInv'
<1>1. ASSUME NEW m \in Msg, VisibilityExpires(m) \/ Redeliver(m)
      PROVE  CleanInv'
  <2>1. UNCHANGED <<outbox, delivered, held, job, mishap>>
    BY <1>1 DEF VisibilityExpires, Redeliver, local
  <2> QED BY <2>1, RowsAlone
<1>2. ASSUME NEW k \in Job,
             BackoffElapses(k) \/ LeaseExpires(k) \/ LeaseOverruns(k)
      PROVE  CleanInv'
  <2>1. /\ UNCHANGED <<delivered, held, job>> /\ OneInHand
        /\ outbox \in [Job -> Row]
        /\ mishap \in [Job -> SUBSET {"lost answer", "overrun", "crash"}]
    BY <1>2 DEF BackoffElapses, LeaseExpires, LeaseOverruns, local, CleanInv, IInv,
       TypeOK
  <2>2. PICK s \in {"pending", "expired"} :
          outbox' = [outbox EXCEPT ![k].status = s]
    BY <1>2 DEF BackoffElapses, LeaseExpires, LeaseOverruns
  <2>3. \A j \in Job : j # k => outbox'[j] = outbox[j] /\ mishap'[j] = mishap[j]
    BY <1>2, <2>1, <2>2 DEF BackoffElapses, LeaseExpires, LeaseOverruns
  <2>4. ASSUME NEW j \in Job, j # k PROVE CleanRow(j)'
    <3>1. CleanRow(j)
      BY DEF CleanInv
    <3> QED BY <2>1, <2>3, <2>4, <3>1 DEF CleanRow, Sent
  <2>5. CleanRow(k)'
    <3> SUFFICES ASSUME mishap'[k] = {} PROVE CleanRow(k)'
      BY DEF CleanRow
    <3>1. /\ ~LeaseOverruns(k) /\ mishap[k] = {}
      BY <1>2, <2>1 DEF BackoffElapses, LeaseExpires, LeaseOverruns
    <3>2. CleanRow(k)
      BY DEF CleanInv
    <3>3. outbox[k].status \in {"backoff", "in_progress"}
      BY <1>2, <3>1 DEF BackoffElapses, LeaseExpires
    <3>4. \A v \in Worker : ~(held[v][k] > 0)
      <4>1. CASE BackoffElapses(k)
        BY <3>1, <3>2, <4>1 DEF BackoffElapses, CleanRow
      <4>2. CASE LeaseExpires(k)
        BY <4>2 DEF LeaseExpires, Holders
      <4> QED BY <1>2, <3>1, <4>1, <4>2
    <3>5. ~(delivered[k] > 0)
      BY <3>1, <3>3, <3>4, SentIsHeld
    <3> QED BY <2>1, <3>1, <3>2, <3>4, <3>5 DEF CleanRow, Sent
  <2> QED BY <2>1, <2>4, <2>5 DEF CleanInv, OneInHand
<1> QED BY <1>1, <1>2 DEF Time

LEMMA CrashClean ==
    ASSUME CleanInv, IInv', NEW w \in Worker, Crash(w)
    PROVE  CleanInv'
<1>1. /\ UNCHANGED <<outbox, delivered>> /\ OneInHand
      /\ held' = [held EXCEPT ![w] = NothingHeld]
      /\ job' = [job EXCEPT ![w] = {}]
      /\ held \in [Worker -> [Job -> Nat]] /\ job \in [Worker -> SUBSET Outcome]
      /\ mishap' = [j \in Job |-> IF held[w][j] > 0
                                  THEN mishap[j] \cup {"crash"} ELSE mishap[j]]
  BY DEF Crash, CleanInv, IInv, TypeOK
<1>2. \A v \in Worker : job'[v] = IF v = w THEN {} ELSE job[v]
  BY <1>1
<1>3. \A v \in Worker, j \in Job : held'[v][j] > 0 => held[v][j] > 0
  BY <1>1 DEF NothingHeld
<1>4. OneInHand'
  BY <1>1, <1>2 DEF OneInHand
<1>5. ASSUME NEW j \in Job PROVE CleanRow(j)'
  <2> SUFFICES ASSUME mishap'[j] = {} PROVE CleanRow(j)'
    BY DEF CleanRow
  <2>1. mishap[j] = {} /\ ~(held[w][j] > 0)
    BY <1>1
  <2>2. CleanRow(j)
    BY DEF CleanInv
  <2>3. Sent(j) \notin job[w]
    BY <2>1 DEF CleanInv, IInv, RowInHand, Sent
  <2>4. \A v \in Worker : Sent(j) \in job[v] => Sent(j) \in job'[v]
    BY <1>2, <2>3
  <2> QED BY <1>1, <1>3, <2>1, <2>2, <2>4 DEF CleanRow, Sent
<1> QED BY <1>4, <1>5 DEF CleanInv

LEMMA NextClean == CleanInv /\ [Next]_vars => CleanInv'
<1> SUFFICES ASSUME CleanInv, [Next]_vars PROVE CleanInv'
  OBVIOUS
<1>1. IInv'
  BY NextIInv DEF CleanInv
<1>2. ASSUME NEW w \in Worker, WorkerStep(w) PROVE CleanInv'
  <2>1. CASE \/ \E m \in Msg : Receive(w, m)
             \/ ReceiveNothing(w) \/ Check(w) \/ Extract(w)
             \/ ExtractFails(w) \/ Delete(w)
    <3>1. UNCHANGED <<outbox, delivered, held, job, mishap>>
      BY <2>1 DEF Receive, ReceiveNothing, Check, Extract, ExtractFails, Delete, local
    <3> QED BY <1>1, <3>1, RowsAlone
  <2> QED BY <1>1, <1>2, <2>1, PersistClean, ReserveClean, SendClean, MarkClean
          DEF WorkerStep
<1>3. ASSUME NEW w \in Worker, Crash(w) PROVE CleanInv'
  BY <1>1, <1>3, CrashClean
<1>4. CASE Time
  BY <1>1, <1>4, TimeClean
<1>5. CASE UNCHANGED vars
  BY <1>1, <1>5, RowsAlone DEF vars
<1> QED BY <1>2, <1>3, <1>4, <1>5 DEF Next

\* An outbox row is delivered twice only after a mishap of its own: an answer
\* lost in the send, a worker dead between _reserve_jobs and the mark, or a lease
\* run out under a worker still sending.  The drain by itself sends once.
THEOREM DrainSendsOnce == Spec => []DuplicatesNeedAMishap
<1>1. Init => CleanInv
  <2> SUFFICES ASSUME Init PROVE CleanInv
    OBVIOUS
  <2> QED BY InitIInv DEF Init, CleanInv, OneInHand, CleanRow, NothingHeld
<1>2. CleanInv => DuplicatesNeedAMishap
  <2> SUFFICES ASSUME CleanInv, NEW j \in Job, delivered[j] > 1, mishap[j] = {}
               PROVE  FALSE
    BY DEF DuplicatesNeedAMishap
  <2>1. delivered[j] <= 1 /\ delivered[j] \in Nat
    BY DEF CleanInv, CleanRow, IInv, TypeOK
  <2> QED BY <2>1
<1> QED BY <1>1, <1>2, NextClean, PTL DEF Spec
=============================================================================
